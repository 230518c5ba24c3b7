-------------------------------- MODULE Sync --------------------------------
(***************************************************************************)
(* Sync: apply_sync of diffo-git, one step per Git command it runs, between *)
(* a remote that others push to and a repository that other terminals use.  *)
(*                                                                          *)
(* A history is the sequence of its changes from the root, so that two      *)
(* branches share exactly the commits of their common prefix and a rebase   *)
(* gives the replayed changes new commits.  A Git child that talks to the   *)
(* network or rewrites the branch is a begin and an end, and cancelling or  *)
(* killing it may leave it done, half done or not done at all.              *)
(***************************************************************************)
EXTENDS Integers, Sequences, FiniteSets, SequencesExt, Retaining

CONSTANTS
  Names,         \* branch names
  Protected,     \* those whose push must be confirmed: main and master
  Remotes,       \* names a remote may have, "origin" among them
  LocalStarts,   \* histories the current branch may start with
  RemoteStarts,  \* for each remote, histories its branch may start with
  Merges,        \* the changes that are merge commits
  Windows,       \* where Sync may be while other terminals change the repository
  Switches,      \* and where it may be while they switch branches
  MaxOutside,    \* changes others make
  MaxSyncs       \* Syncs the user starts

ASSUME SyncAssumption ==
  /\ Protected \subseteq Names /\ "origin" \in Remotes
  /\ IsFiniteSet(Remotes)
  /\ LocalStarts \subseteq Seq(Nat) \ {<<>>}
  /\ RemoteStarts \in [Remotes -> SUBSET Seq(Nat)]
  /\ Merges \subseteq Nat
  /\ MaxOutside \in Nat /\ MaxSyncs \in Nat

VARIABLES
  \* The repository.
  heads,      \* refs/heads
  current,    \* the branch HEAD is on, or Detached
  upstream,   \* branch.<name>.remote and branch.<name>.merge
  remotes,    \* the configured remotes
  dirty,      \* staged or tracked changes
  busy,       \* the operation in progress: a merge or cherry-pick of others, Sync's
              \* rebase, or a rebase of it whose abort failed
  tracking,   \* refs/remotes
  \* The remotes themselves.
  remote,
  \* apply_sync.
  pc,         \* where it is; "idle" before and after
  target,     \* the SyncTarget
  plan,       \* the SyncPlan, and whether the upstream exists
  asked,      \* what confirm_protected_push read before it asked
  pushing,    \* what the running push resolved HEAD to
  cancelled,  \* the command's cancellation handle
  outcome,
  syncs,      \* Syncs started
  outside     \* changes others made

repoVars == <<heads, current, upstream, remotes, dirty, busy, tracking>>
syncVars == <<target, plan, asked, pushing, syncs>>
vars == <<repoVars, remote, pc, syncVars, cancelled, outcome, outside>>

Detached == "detached"
None == "none"
Absent == <<>>
Base == <<1>>
NoUpstream == [remote |-> None, name |-> None]
NoTarget == [remote |-> None, branch |-> None, establish |-> FALSE, original |-> NoUpstream]
NoPlan == [localOnly |-> 0, upstreamOnly |-> 0, exists |-> FALSE]
NoFacts == [tip |-> Absent, upstreamTip |-> Absent, dirty |-> FALSE]
NoPush == [branch |-> None, tip |-> Absent]

Upstreams == {NoUpstream} \cup [remote : Remotes, name : Names]
PCs == {"idle", "fetching", "plan", "check", "ask", "asking", "verify", "execute",
        "merging", "rebasing", "aborting", "pushing", "landed", "recorded", "finish"}

\* The commits two histories share, and those only the first has.
Shared(s, t) == Cardinality({i \in DOMAIN s : IsPrefix(SubSeq(s, 1, i), t)})
Only(s, t) == SubSeq(s, Shared(s, t) + 1, Len(s))
Changes(s) == ToSet(s)

\* git rebase replays what the upstream lacks, without its merge commits.
Rebased(s, onto) ==
  LET own == Only(s, onto)
  IN onto \o Retained(own, {i \in DOMAIN own : own[i] \notin Merges \cup Changes(onto)})

HeadTip == heads[current]
Fetched == tracking[target.remote][target.branch]

Init ==
  /\ current \in Names \cup {Detached}
  /\ \E local \in LocalStarts : heads = [n \in Names |-> IF n = current THEN local ELSE Base]
  /\ remotes \in SUBSET Remotes
  /\ \E f \in [Remotes -> UNION {RemoteStarts[r] : r \in Remotes}] :
       /\ \A r \in Remotes : f[r] \in RemoteStarts[r]
       /\ remote = [r \in Remotes |-> [n \in Names |-> IF n = current THEN f[r] ELSE Base]]
  /\ tracking = [r \in Remotes |-> [n \in Names |-> IF r \in remotes THEN remote[r][n] ELSE Absent]]
  /\ \E u \in {NoUpstream} \cup [remote : remotes, name : Names] :
       upstream = [n \in Names |-> IF n = current THEN u ELSE NoUpstream]
  /\ dirty \in BOOLEAN /\ busy = None
  /\ pc = "idle" /\ target = NoTarget /\ plan = NoPlan /\ asked = NoFacts
  /\ pushing = NoPush /\ cancelled = FALSE /\ outcome = None
  /\ syncs = 0 /\ outside = 0

-----------------------------------------------------------------------------
(* The end of apply_sync, and of a Git child run by run_cancellable.       *)

End(o) == pc' = "idle" /\ outcome' = o

Continues(next) == pc' = next /\ UNCHANGED outcome

\* Mutant: a killed child is waited for again.
ExitsWaiting(ok, next) ==
  IF ok THEN IF cancelled THEN End("Cancelled") ELSE Continues(next)
  ELSE IF cancelled THEN Continues(pc) ELSE End("Failed")

\* A handle cancelled before the exit is noticed wins over the exit status.
Exits(ok, next) ==
  IF cancelled THEN End("Cancelled")
  ELSE IF ok THEN Continues(next) ELSE End("Failed")

\* run_cancellable does not even spawn for a cancelled handle.
Spawns(next) == IF cancelled THEN End("Cancelled") ELSE Continues(next)

-----------------------------------------------------------------------------
(* Choosing the target and fetching.                                       *)

\* rev-parse @{upstream}: configured, and its remote-tracking ref exists.
Configured ==
  /\ upstream[current] # NoUpstream
  /\ tracking[upstream[current].remote][upstream[current].name] # Absent

\* check_sync_starting_state, sync_branch and the choice of a remote.
Startable(selected) ==
  /\ busy = None
  /\ current # Detached
  /\ IF Configured THEN selected = None
     ELSE \/ selected \in remotes
          \/ selected = None /\ ("origin" \in remotes \/ Cardinality(remotes) = 1)

Chosen(selected) ==
  IF selected # None THEN selected
  ELSE IF "origin" \in remotes THEN "origin" ELSE CHOOSE r \in remotes : TRUE

\* sync_target: always the branch of the local branch's own name.
SyncTarget(selected) ==
  IF Configured
    THEN [remote |-> upstream[current].remote, branch |-> current,
          establish |-> upstream[current].name # current, original |-> upstream[current]]
    ELSE [remote |-> Chosen(selected), branch |-> current,
          establish |-> TRUE, original |-> NoUpstream]

\* apply_sync up to the fetch.
Begin(selected) ==
  /\ pc = "idle" /\ syncs < MaxSyncs
  /\ syncs' = syncs + 1 /\ cancelled' = FALSE
  /\ IF Startable(selected)
       THEN target' = SyncTarget(selected) /\ pc' = "fetching" /\ outcome' = None
       ELSE target' = NoTarget /\ End("Failed")
  /\ plan' = NoPlan /\ asked' = NoFacts /\ pushing' = NoPush
  /\ UNCHANGED <<repoVars, remote, outside>>

\* Only a user with fetch.prune loses the refs of deleted branches.
FetchEnds(prunes) ==
  /\ pc = "fetching"
  /\ tracking' = [tracking EXCEPT ![target.remote] =
       [n \in Names |-> IF remote[target.remote][n] # Absent \/ prunes
                          THEN remote[target.remote][n] ELSE @[n]]]
  /\ Exits(TRUE, "plan")
  /\ UNCHANGED <<heads, current, upstream, remotes, dirty, busy, remote, syncVars,
                 cancelled, outside>>

FetchFails ==
  /\ pc = "fetching"
  /\ Exits(FALSE, "plan")
  /\ UNCHANGED <<repoVars, remote, syncVars, cancelled, outside>>

-----------------------------------------------------------------------------
(* The plan.                                                               *)

\* prepare_sync_plan.
Plannable ==
  IF Fetched = Absent THEN target.establish
  ELSE target.establish => Shared(HeadTip, Fetched) > 0

Plan ==
  /\ pc = "plan"
  /\ IF ~Plannable THEN End("Failed") /\ UNCHANGED plan
     ELSE /\ plan' = [localOnly |-> Len(Only(HeadTip, Fetched)),
                      upstreamOnly |-> Len(Only(Fetched, HeadTip)),
                      exists |-> Fetched # Absent]
          /\ Continues(IF plan'.localOnly > 0 /\ plan'.upstreamOnly > 0
                         THEN "check" ELSE "ask")
  /\ UNCHANGED <<repoVars, remote, target, asked, pushing, syncs, cancelled, outside>>

\* Mutant: merge commits are not looked for.
CheckRebaseDirtyOnly ==
  /\ pc = "check"
  /\ IF dirty THEN End("Failed") ELSE Continues("ask")
  /\ UNCHANGED <<repoVars, remote, syncVars, cancelled, outside>>

\* check_rebase_preconditions.
CheckRebase ==
  /\ pc = "check"
  /\ IF dirty \/ Changes(Only(HeadTip, Fetched)) \cap Merges # {}
       THEN End("Failed") ELSE Continues("ask")
  /\ UNCHANGED <<repoVars, remote, syncVars, cancelled, outside>>

\* A command that only reads the repository fails.
ReadFails ==
  /\ pc \in {"plan", "check", "ask", "verify"}
  /\ End("Failed")
  /\ UNCHANGED <<repoVars, remote, syncVars, cancelled, outside>>

-----------------------------------------------------------------------------
(* confirm_protected_push.                                                 *)

NeedsConfirmation == plan.localOnly > 0 /\ target.branch \in Protected
Facts == [tip |-> HeadTip, upstreamTip |-> Fetched, dirty |-> dirty]

Ask ==
  /\ pc = "ask"
  /\ IF NeedsConfirmation
       THEN asked' = Facts /\ Continues("asking")
       ELSE UNCHANGED asked /\ Continues("execute")
  /\ UNCHANGED <<repoVars, remote, target, plan, pushing, syncs, cancelled, outside>>

\* The user confirms, or dismisses the prompt.
Answer(confirms) ==
  /\ pc = "asking"
  /\ IF confirms /\ ~cancelled THEN Continues("verify") ELSE End("Cancelled")
  /\ UNCHANGED <<repoVars, remote, syncVars, cancelled, outside>>

\* Mutant: the tips are not compared again.
PlanIsOnBranch ==
  /\ busy = None
  /\ current = target.branch

\* sync_plan_is_current.
PlanIsCurrent ==
  /\ busy = None
  /\ current = target.branch
  /\ IF target.original # NoUpstream
       THEN Configured /\ upstream[current] = target.original
       ELSE ~Configured /\ target.remote \in remotes
  /\ asked = Facts

Verify ==
  /\ pc = "verify"
  /\ IF PlanIsCurrent THEN Continues("execute") ELSE End("Failed")
  /\ UNCHANGED <<repoVars, remote, syncVars, cancelled, outside>>

-----------------------------------------------------------------------------
(* Executing the plan.                                                     *)

PushSpawns(tip) ==
  /\ pushing' = [branch |-> current, tip |-> tip]
  /\ Spawns("pushing")

Execute ==
  /\ pc = "execute"
  /\ \/ /\ plan.localOnly = 0 /\ plan.upstreamOnly = 0 /\ plan.exists
        /\ Continues("finish") /\ UNCHANGED <<pushing, busy>>
     \/ /\ plan.localOnly = 0 /\ plan.upstreamOnly > 0
        /\ Spawns("merging") /\ UNCHANGED <<pushing, busy>>
     \/ /\ plan.upstreamOnly = 0 /\ (plan.localOnly > 0 \/ ~plan.exists)
        /\ PushSpawns(HeadTip) /\ UNCHANGED busy
     \/ /\ plan.localOnly > 0 /\ plan.upstreamOnly > 0
        /\ Spawns("rebasing") /\ UNCHANGED pushing
        /\ busy' = IF cancelled \/ busy # None \/ dirty THEN busy ELSE "rebase"
  /\ UNCHANGED <<heads, current, upstream, remotes, dirty, tracking, remote, target,
                 plan, asked, syncs, cancelled, outside>>

\* git merge --ff-only.
MergeEnds ==
  /\ pc = "merging" /\ busy = None
  /\ IsPrefix(HeadTip, Fetched)
  /\ heads' = [heads EXCEPT ![current] = Fetched]
  /\ Exits(TRUE, "finish")
  /\ UNCHANGED <<current, upstream, remotes, dirty, busy, tracking, remote, syncVars,
                 cancelled, outside>>

\* Not a fast-forward, files it would overwrite, or killed.
MergeFails ==
  /\ pc = "merging"
  /\ Exits(FALSE, "finish")
  /\ UNCHANGED <<repoVars, remote, syncVars, cancelled, outside>>

RebaseEnds ==
  /\ pc = "rebasing" /\ busy = "rebase"
  /\ heads' = [heads EXCEPT ![current] = Rebased(HeadTip, Fetched)]
  /\ busy' = None
  /\ PushSpawns(heads'[current])
  /\ UNCHANGED <<current, upstream, remotes, dirty, tracking, remote, target, plan,
                 asked, syncs, cancelled, outside>>

\* Mutant: only a conflict is aborted, not a killed rebase.
RebaseStopsUnaborted ==
  /\ pc = "rebasing"
  /\ IF cancelled THEN End("Cancelled") ELSE pc' = "aborting" /\ outcome' = "Failed"
  /\ UNCHANGED <<repoVars, remote, syncVars, cancelled, outside>>

\* A conflict, a refusal or a kill; abort_rebase follows.
RebaseStops ==
  /\ pc = "rebasing"
  /\ pc' = "aborting"
  /\ outcome' = IF cancelled THEN "Cancelled" ELSE "Failed"
  /\ UNCHANGED <<repoVars, remote, syncVars, cancelled, outside>>

\* git rebase --abort resets the files to the branch.  Its result is not looked
\* at, so a rebase it fails to abort stays, with what it made of the files.
AbortRebase ==
  /\ pc = "aborting"
  /\ \/ busy # "rebase" /\ UNCHANGED <<busy, dirty>>
     \/ busy = "rebase" /\ busy' = None /\ dirty' = FALSE
     \/ busy = "rebase" /\ busy' = "unaborted" /\ dirty' \in BOOLEAN
  /\ End(outcome)
  /\ UNCHANGED <<heads, current, upstream, remotes, tracking, remote, syncVars, cancelled,
                 outside>>

\* A normal push of HEAD to the target: the remote takes a fast-forward only.
PushLands ==
  /\ pc = "pushing"
  /\ IsPrefix(remote[target.remote][target.branch], pushing.tip)
  /\ remote' = [remote EXCEPT ![target.remote][target.branch] = pushing.tip]
  /\ Continues("landed")
  /\ UNCHANGED <<repoVars, syncVars, cancelled, outside>>

\* The remote-tracking ref follows, and --set-upstream configures the branch.
PushRecords ==
  /\ pc = "landed"
  /\ tracking' = [tracking EXCEPT ![target.remote][target.branch] = pushing.tip]
  /\ upstream' = IF target.establish
                   THEN [upstream EXCEPT ![pushing.branch] =
                           [remote |-> target.remote, name |-> target.branch]]
                   ELSE upstream
  /\ Continues("recorded")
  /\ UNCHANGED <<heads, current, remotes, dirty, busy, remote, syncVars, cancelled, outside>>

PushExits ==
  /\ pc = "recorded"
  /\ Exits(TRUE, "finish")
  /\ UNCHANGED <<repoVars, remote, syncVars, cancelled, outside>>

\* Rejected or failed; or killed or disconnected after the remote took it.
PushFails ==
  /\ pc \in {"pushing", "landed"}
  /\ Exits(FALSE, "finish")
  /\ UNCHANGED <<repoVars, remote, syncVars, cancelled, outside>>

\* set_sync_upstream, when no push did it.
SetsUpstream == target.establish /\ plan.exists /\ plan.localOnly = 0

Finish ==
  /\ pc = "finish"
  /\ \/ /\ SetsUpstream
        /\ upstream' = [upstream EXCEPT ![target.branch] =
                          [remote |-> target.remote, name |-> target.branch]]
        /\ End("Completed")
     \/ SetsUpstream /\ End("Failed") /\ UNCHANGED upstream
     \/ ~SetsUpstream /\ End("Completed") /\ UNCHANGED upstream
  /\ UNCHANGED <<heads, current, remotes, dirty, busy, tracking, remote, syncVars,
                 cancelled, outside>>

-----------------------------------------------------------------------------
(* Everyone else.                                                          *)

Cancel ==
  /\ pc # "idle" /\ ~cancelled
  /\ cancelled' = TRUE
  /\ UNCHANGED <<repoVars, remote, pc, syncVars, outcome, outside>>

Outside ==
  /\ outside < MaxOutside
  /\ outside' = outside + 1
  /\ UNCHANGED <<pc, syncVars, cancelled, outcome>>

NewChange == 100 + outside

OthersPush(r, n) ==
  /\ Outside
  /\ remote[r][n] # Absent
  /\ remote' = [remote EXCEPT ![r][n] = Append(@, NewChange)]
  /\ UNCHANGED repoVars

\* The branch is deleted on the remote between two Syncs.
OthersDelete(r, n) ==
  /\ Outside
  /\ pc = "idle"
  /\ remote[r][n] # Absent
  /\ remote' = [remote EXCEPT ![r][n] = Absent]
  /\ UNCHANGED repoVars

\* Another terminal works in the same repository.
Elsewhere ==
  /\ Outside
  /\ pc \in Windows
  /\ current # Detached
  /\ UNCHANGED <<remote, remotes, tracking>>

CommitElsewhere ==
  /\ Elsewhere /\ busy = None
  /\ heads' = [heads EXCEPT ![current] = Append(@, NewChange)]
  /\ UNCHANGED <<current, upstream, dirty, busy>>

EditElsewhere ==
  /\ Elsewhere
  /\ dirty' = ~dirty
  /\ UNCHANGED <<heads, current, upstream, busy>>

\* A merge or cherry-pick begins or ends.
OperationElsewhere ==
  /\ Elsewhere
  /\ busy' = IF busy = None THEN "merge" ELSE None
  /\ UNCHANGED <<heads, current, upstream, dirty>>

UpstreamElsewhere(u) ==
  /\ Elsewhere
  /\ u.remote \in remotes \cup {None}
  /\ upstream' = [upstream EXCEPT ![current] = u]
  /\ UNCHANGED <<heads, current, dirty, busy>>

SwitchElsewhere(n) ==
  /\ Outside /\ pc \in Switches
  /\ busy = None /\ current # Detached
  /\ n # current /\ current' = n
  /\ UNCHANGED <<heads, upstream, remotes, dirty, busy, tracking, remote>>

Others ==
  \/ \E r \in Remotes, n \in Names : OthersPush(r, n) \/ OthersDelete(r, n)
  \/ CommitElsewhere \/ EditElsewhere \/ OperationElsewhere
  \/ (\E u \in Upstreams : UpstreamElsewhere(u))
  \/ \E n \in Names : SwitchElsewhere(n)

-----------------------------------------------------------------------------

Start == \E selected \in Remotes \cup {None} : Begin(selected)

\* What Sync does by itself, and what a Git child does.
Steps == Plan \/ CheckRebase \/ Ask \/ Verify \/ Execute \/ AbortRebase \/ Finish
Children ==
  \/ (\E prunes \in BOOLEAN : FetchEnds(prunes)) \/ FetchFails
  \/ MergeEnds \/ MergeFails \/ RebaseEnds \/ RebaseStops \/ ReadFails
  \/ PushLands \/ PushRecords \/ PushExits \/ PushFails

\* The last Sync has ended.
Rest == pc = "idle" /\ syncs = MaxSyncs /\ UNCHANGED vars

Next ==
  \/ Start \/ Steps \/ Children \/ Cancel \/ Others \/ Rest
  \/ \E confirms \in BOOLEAN : Answer(confirms)

Spec == Init /\ [][Next]_vars

-----------------------------------------------------------------------------
(* Safety.                                                                 *)

History == Seq(Nat)
Targets == [remote : Remotes \cup {None}, branch : Names \cup {None},
            establish : BOOLEAN, original : Upstreams]
Plans == [localOnly : Nat, upstreamOnly : Nat, exists : BOOLEAN]
Tips == [tip : History, upstreamTip : History, dirty : BOOLEAN]
Pushes == [branch : Names \cup {None}, tip : History]

RepositoryTyped ==
  /\ heads \in [Names -> History] /\ current \in Names \cup {Detached}
  /\ upstream \in [Names -> Upstreams] /\ remotes \subseteq Remotes
  /\ dirty \in BOOLEAN /\ busy \in {None, "merge", "rebase", "unaborted"}
  /\ tracking \in [Remotes -> [Names -> History]]
  /\ remote \in [Remotes -> [Names -> History]]

SyncTyped ==
  /\ pc \in PCs
  /\ target \in Targets /\ plan \in Plans /\ asked \in Tips /\ pushing \in Pushes
  /\ cancelled \in BOOLEAN
  /\ outcome \in {None, "Completed", "Failed", "Cancelled"}
  /\ syncs \in Nat /\ outside \in Nat

TypeOK == RepositoryTyped /\ SyncTyped

\* However Sync ends it has aborted its rebase.  One that Git fails to abort is
\* left; then the Sync did not complete, and no later one goes on over it.
NoRebaseLeft ==
  /\ busy = "rebase" => pc \in {"rebasing", "aborting"}
  /\ busy = "unaborted" => pc = "idle" /\ outcome \in {"Failed", "Cancelled"}

-----------------------------------------------------------------------------
(* What a step may never do.                                               *)

\* No commit of a local branch is lost: not to a rebase, which drops merge
\* commits, and not to one that stops half way.
LocalWorkKept == [][\A n \in Names : Changes(heads[n]) \subseteq Changes(heads'[n])]_vars

\* Nor is an edit that was not committed: what git rebase --abort resets had none.
EditsKept == [][dirty /\ pc # pc' => dirty']_vars

\* "Never use a remote branch name that differs from the current local branch name"
\* (sync.md, guarantees), whatever other terminals do while Sync fetches.
PushesOwnBranch == [][PushLands => pushing.branch = target.branch]_vars

\* What a push publishes is the branch of that name, and for a protected branch
\* the very commits whose number the user confirmed, rebased or not.
PublishesPlan ==
  [][PushLands =>
       /\ pushing.branch = target.branch
       /\ NeedsConfirmation =>
            /\ pushing.tip \in {asked.tip, Rebased(asked.tip, asked.upstreamTip)}
            /\ Len(Only(asked.tip, asked.upstreamTip)) = plan.localOnly]_vars

EndsWith(o) == pc # "idle" /\ pc' = "idle" /\ outcome' = o

\* After a Sync that completed the local branch and the fetched target agree, and
\* the branch whose upstream was missing or differently named tracks the remote
\* branch of its own name (sync.md, sections 2 and 8).
CompletedAgrees ==
  [][EndsWith("Completed") =>
       /\ heads'[target.branch] = tracking'[target.remote][target.branch]
       /\ target.original.name # target.branch =>
            upstream'[target.branch] = [remote |-> target.remote, name |-> target.branch]]_vars

\* "Set a missing upstream, or replace a differently named upstream, only after
\* the plan succeeds" (sync.md, section 8).
UpstreamAfterSuccess ==
  [][upstream' # upstream /\ pc # pc' =>
       /\ target.establish
       /\ heads'[target.branch] = tracking'[target.remote][target.branch]]_vars

\* No commit or edit of the user is lost, a Sync that completes leaves the branch
\* and its target at one commit, and Sync changes the upstream only where the
\* plan succeeded: where a cancellation is told although the push has recorded the
\* upstream, it stays set, against section 8 of sync.md.
\* (operation.rs: apply_sync_after_fetch, rebase_sync; sync_target.rs.)
WorkAndUpstreamKept ==
  []TypeOK /\ LocalWorkKept /\ EditsKept /\ CompletedAgrees /\ UpstreamAfterSuccess

-----------------------------------------------------------------------------
(* Liveness.                                                               *)

\* Sync's own steps run; run_cancellable kills the child and the broker discards
\* the prompt of a cancelled command.  Nothing else has to happen.
Fairness ==
  /\ WF_vars(Steps)
  /\ WF_vars(cancelled /\ Children)
  /\ WF_vars(cancelled /\ Answer(FALSE))

FairSpec == Spec /\ Fairness

\* A cancelled Sync ends, whatever Git or the user was doing.
CancelledSyncEnds == cancelled ~> pc = "idle"

=============================================================================
