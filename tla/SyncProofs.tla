----------------------------- MODULE SyncProofs -----------------------------
(***************************************************************************)
(* What Sync guarantees for every repository, remote and number of changes, *)
(* proved from one inductive invariant: what apply_sync has established at  *)
(* each of its program points.                                              *)
(***************************************************************************)
EXTENDS Sync, RetainingProofs, FiniteSetTheorems

\* Other terminals may act between Syncs, during the fetch and while the user is
\* asked, and may switch branches between Syncs and while the user is asked.
Quiet ==
  /\ Windows \subseteq {"idle", "fetching", "asking"}
  /\ Switches \subseteq {"idle", "asking"}

-----------------------------------------------------------------------------
(* The inductive invariant.                                                *)

Shape ==
  /\ heads = [n \in Names |-> heads[n]]
  /\ current \in Names \cup {Detached}

\* A stopped rebase is that of a Sync that failed or was cancelled.
RebaseInv ==
  /\ NoRebaseLeft
  /\ pc = "aborting" => outcome \in {"Failed", "Cancelled"}

\* Git starts a rebase on clean files only, and nobody edits them meanwhile.
RebaseClean == busy = "rebase" => ~dirty

\* Where HEAD is on the branch Sync started on.
OnBranch ==
  /\ pc \in {"fetching", "plan", "check", "ask", "execute", "rebasing"} => current = target.branch
  /\ pc \in {"fetching", "plan", "check", "ask", "asking", "verify", "execute", "rebasing"} =>
       target.branch \in Names

\* The plan counts the commits that are there until the user is asked.
Counted == pc \in {"check", "ask"} => plan.localOnly = Len(Only(HeadTip, Fetched))

\* The tips remembered for the user are the ones the plan counted.
Confirmed ==
  (pc \in {"asking", "verify"} \/ (pc \in {"execute", "rebasing", "pushing"} /\ NeedsConfirmation))
    => Len(Only(asked.tip, asked.upstreamTip)) = plan.localOnly

\* And they are the tips the plan is executed on.
Unmoved ==
  pc \in {"execute", "rebasing"} /\ NeedsConfirmation =>
    asked.tip = HeadTip /\ asked.upstreamTip = Fetched

Pushed ==
  pc = "pushing" =>
    /\ pushing.branch = target.branch
    /\ NeedsConfirmation =>
         pushing.tip \in {asked.tip, Rebased(asked.tip, asked.upstreamTip)}

IInv == Shape /\ OnBranch /\ Counted /\ Confirmed /\ Unmoved /\ Pushed

-----------------------------------------------------------------------------
(* Sync aborts the rebase it began.                                        *)

LEMMA RebaseStep == RebaseInv /\ [Next]_vars => RebaseInv'
<1> SUFFICES ASSUME RebaseInv, [Next]_vars PROVE RebaseInv'
  OBVIOUS
<1> USE DEF RebaseInv, NoRebaseLeft, End, Continues, Exits, Spawns, None
<1>1. CASE Start
  BY <1>1 DEF Start, Begin, Startable, repoVars
<1>2. CASE Steps
  <2>1. CASE Execute
    BY <2>1 DEF Execute, PushSpawns
  <2>2. CASE AbortRebase
    BY <2>2 DEF AbortRebase
  <2>3. CASE Plan
    BY <2>3 DEF Plan, repoVars
  <2>4. CASE CheckRebase \/ Ask
    BY <2>4 DEF CheckRebase, Ask, repoVars
  <2>5. CASE Verify \/ Finish
    BY <2>5 DEF Verify, Finish, repoVars
  <2> QED
    BY <1>2, <2>1, <2>2, <2>3, <2>4, <2>5 DEF Steps
<1>3. CASE Children
  <2>1. CASE RebaseEnds
    BY <2>1 DEF RebaseEnds, PushSpawns
  <2>2. CASE RebaseStops
    BY <2>2 DEF RebaseStops, repoVars
  <2>3. CASE (\E prunes \in BOOLEAN : FetchEnds(prunes)) \/ FetchFails \/ MergeEnds \/ MergeFails
    BY <2>3 DEF FetchEnds, FetchFails, MergeEnds, MergeFails, repoVars
  <2>4. CASE ReadFails \/ PushLands \/ PushRecords \/ PushExits \/ PushFails
    BY <2>4 DEF ReadFails, PushLands, PushRecords, PushExits, PushFails, repoVars
  <2> QED
    BY <1>3, <2>1, <2>2, <2>3, <2>4 DEF Children
<1>4. CASE Others
  <2>1. CASE \E r \in Remotes, n \in Names : OthersPush(r, n) \/ OthersDelete(r, n)
    BY <2>1 DEF OthersPush, OthersDelete, Outside, repoVars
  <2>2. CASE CommitElsewhere \/ EditElsewhere \/ OperationElsewhere
    BY <2>2 DEF CommitElsewhere, EditElsewhere, OperationElsewhere, Elsewhere, Outside
  <2>3. CASE (\E u \in Upstreams : UpstreamElsewhere(u)) \/ (\E n \in Names : SwitchElsewhere(n))
    BY <2>3 DEF UpstreamElsewhere, SwitchElsewhere, Elsewhere, Outside
  <2> QED
    BY <1>4, <2>1, <2>2, <2>3 DEF Others
<1>5. CASE Cancel \/ Rest \/ (\E confirms \in BOOLEAN : Answer(confirms)) \/ UNCHANGED vars
  BY <1>5 DEF Cancel, Rest, Answer, vars, repoVars
<1> QED
  BY <1>1, <1>2, <1>3, <1>4, <1>5 DEF Next

\* However Sync ends, conflict, refusal, kill or cancellation, it has aborted the
\* rebase it started; one that Git fails to abort stays, but of a Sync that did
\* not complete, and no later Sync goes on over it (rebase_sync, abort_rebase,
\* check_sync_starting_state).
THEOREM RebaseAborted == Spec => []NoRebaseLeft
<1>1. Init => RebaseInv
  BY DEF Init, RebaseInv, NoRebaseLeft, None
<1>2. RebaseInv => NoRebaseLeft
  BY DEF RebaseInv
<1> QED
  BY <1>1, <1>2, RebaseStep, PTL DEF Spec

\* So what git rebase --abort resets holds no edit.
LEMMA CleanStep ==
  ASSUME Quiet PROVE RebaseInv /\ RebaseClean /\ [Next]_vars => RebaseClean'
<1> SUFFICES ASSUME RebaseInv, RebaseClean, [Next]_vars PROVE RebaseClean'
  OBVIOUS
<1> USE DEF RebaseInv, NoRebaseLeft, RebaseClean, None
<1>1. CASE Execute
  BY <1>1 DEF Execute
<1>2. CASE AbortRebase
  BY <1>2 DEF AbortRebase
<1>3. CASE EditElsewhere \/ OperationElsewhere
  BY <1>3, Quiet DEF EditElsewhere, OperationElsewhere, Elsewhere, Outside, Quiet
<1>4. CASE RebaseEnds
  BY <1>4 DEF RebaseEnds
<1>5. CASE UNCHANGED <<busy, dirty>>
  BY <1>5
<1> QED
  BY <1>1, <1>2, <1>3, <1>4, <1>5
  DEF Next, Start, Begin, Steps, Plan, CheckRebase, Ask, Verify, Finish, Children, FetchEnds,
      FetchFails, MergeEnds, MergeFails, RebaseStops, ReadFails, PushLands, PushRecords,
      PushExits, PushFails, Cancel, Rest, Answer, Others, OthersPush, OthersDelete,
      CommitElsewhere, UpstreamElsewhere, SwitchElsewhere, Elsewhere, vars, repoVars

LEMMA EditsStay ==
  RebaseClean /\ [Next]_vars /\ dirty /\ pc # pc' => dirty'
<1> SUFFICES ASSUME RebaseClean, [Next]_vars, dirty, pc # pc' PROVE dirty'
  OBVIOUS
<1>1. CASE AbortRebase
  BY <1>1 DEF AbortRebase, RebaseClean
<1>2. CASE UNCHANGED dirty
  BY <1>2
<1> QED
  BY <1>1, <1>2
  DEF Next, Start, Begin, Steps, Plan, CheckRebase, Ask, Verify, Execute, Finish, Children,
      FetchEnds, FetchFails, MergeEnds, MergeFails, RebaseEnds, RebaseStops, ReadFails, PushLands,
      PushRecords, PushExits, PushFails, Cancel, Rest, Answer, Others, OthersPush, OthersDelete,
      CommitElsewhere, EditElsewhere, OperationElsewhere, UpstreamElsewhere, SwitchElsewhere,
      Elsewhere, Outside, vars, repoVars

-----------------------------------------------------------------------------
(* What is pushed is what was planned and confirmed.                       *)

\* Each of apply_sync's own steps, and each Git child, keeps what is established.
LEMMA PlanSteps == IInv /\ (Plan \/ CheckRebase \/ Ask \/ Verify) => IInv'
<1> SUFFICES ASSUME IInv, Plan \/ CheckRebase \/ Ask \/ Verify PROVE IInv'
  OBVIOUS
<1> USE DEF IInv, Shape, OnBranch, Counted, Confirmed, Unmoved, Pushed, HeadTip, Fetched,
            NeedsConfirmation, End, Continues, repoVars, syncVars
<1>1. CASE Plan
  BY <1>1 DEF Plan
<1>2. CASE CheckRebase
  BY <1>2 DEF CheckRebase
<1>3. CASE Ask
  BY <1>3 DEF Ask, Facts
<1>4. CASE Verify
  BY <1>4 DEF Verify, PlanIsCurrent, Facts
<1> QED
  BY <1>1, <1>2, <1>3, <1>4

LEMMA ExecuteSteps == IInv /\ (Execute \/ AbortRebase \/ Finish) => IInv'
<1> SUFFICES ASSUME IInv, Execute \/ AbortRebase \/ Finish PROVE IInv'
  OBVIOUS
<1> USE DEF IInv, Shape, OnBranch, Counted, Confirmed, Unmoved, Pushed, HeadTip, Fetched,
            NeedsConfirmation, End, Continues, Spawns, PushSpawns, repoVars, syncVars
<1>1. CASE Execute
  BY <1>1 DEF Execute
<1>2. CASE AbortRebase
  BY <1>2 DEF AbortRebase
<1>3. CASE Finish
  BY <1>3 DEF Finish
<1> QED
  BY <1>1, <1>2, <1>3

LEMMA ChildSteps == IInv /\ Children => IInv'
<1> SUFFICES ASSUME IInv, Children PROVE IInv'
  OBVIOUS
<1> USE DEF IInv, Shape, OnBranch, Counted, Confirmed, Unmoved, Pushed, HeadTip, Fetched,
            NeedsConfirmation, End, Continues, Exits, Spawns, PushSpawns, repoVars, syncVars
<1>1. CASE (\E prunes \in BOOLEAN : FetchEnds(prunes)) \/ FetchFails
  BY <1>1 DEF FetchEnds, FetchFails
<1>2. CASE MergeEnds \/ MergeFails
  BY <1>2 DEF MergeEnds, MergeFails
<1>3. CASE RebaseEnds
  BY <1>3 DEF RebaseEnds
<1>4. CASE RebaseStops \/ ReadFails
  BY <1>4 DEF RebaseStops, ReadFails
<1>5. CASE PushLands \/ PushRecords \/ PushExits \/ PushFails
  BY <1>5 DEF PushLands, PushRecords, PushExits, PushFails
<1> QED
  BY <1>1, <1>2, <1>3, <1>4, <1>5 DEF Children

LEMMA OthersSteps == ASSUME Quiet PROVE IInv /\ Others => IInv'
<1> SUFFICES ASSUME IInv, Others PROVE IInv'
  OBVIOUS
<1> USE Quiet DEF Quiet, IInv, Shape, OnBranch, Counted, Confirmed, Unmoved, Pushed, HeadTip,
            Fetched, NeedsConfirmation, Outside, Elsewhere, repoVars, syncVars
<1>1. CASE \E r \in Remotes, n \in Names : OthersPush(r, n) \/ OthersDelete(r, n)
  BY <1>1 DEF OthersPush, OthersDelete
<1>2. CASE CommitElsewhere
  BY <1>2 DEF CommitElsewhere
<1>3. CASE EditElsewhere \/ OperationElsewhere
  BY <1>3 DEF EditElsewhere, OperationElsewhere
<1>4. CASE \E u \in Upstreams : UpstreamElsewhere(u)
  BY <1>4 DEF UpstreamElsewhere
<1>5. CASE \E n \in Names : SwitchElsewhere(n)
  BY <1>5 DEF SwitchElsewhere
<1> QED
  BY <1>1, <1>2, <1>3, <1>4, <1>5 DEF Others

LEMMA IInvStep == ASSUME Quiet PROVE IInv /\ [Next]_vars => IInv'
<1> SUFFICES ASSUME IInv, [Next]_vars PROVE IInv'
  OBVIOUS
<1> USE DEF IInv, Shape, OnBranch, Counted, Confirmed, Unmoved, Pushed, HeadTip, Fetched,
            NeedsConfirmation, repoVars, syncVars
<1>1. CASE Start
  BY <1>1 DEF Start, Begin, Startable, SyncTarget, End
<1>2. CASE Steps
  BY <1>2, PlanSteps, ExecuteSteps DEF Steps
<1>3. CASE Children
  BY <1>3, ChildSteps
<1>4. CASE Others
  BY <1>4, OthersSteps, Quiet
<1>5. CASE Cancel \/ Rest \/ UNCHANGED vars
  BY <1>5 DEF Cancel, Rest, vars
<1>6. CASE \E confirms \in BOOLEAN : Answer(confirms)
  BY <1>6 DEF Answer, End, Continues
<1> QED
  BY <1>1, <1>2, <1>3, <1>4, <1>5, <1>6 DEF Next

LEMMA IInvInit == Init => IInv
BY DEF Init, IInv, Shape, OnBranch, Counted, Confirmed, Unmoved, Pushed

\* Outside the windows left to other terminals by Quiet, a push publishes the branch
\* of the target's name and, to a protected branch, the commits the user confirmed:
\* what confirm_protected_push reads, asks and verifies is what is pushed.
THEOREM PlanPublished == ASSUME Quiet PROVE Spec => PublishesPlan
<1>1. IInv => (PushLands =>
         /\ pushing.branch = target.branch
         /\ NeedsConfirmation =>
              /\ pushing.tip \in {asked.tip, Rebased(asked.tip, asked.upstreamTip)}
              /\ Len(Only(asked.tip, asked.upstreamTip)) = plan.localOnly)
  BY DEF IInv, Pushed, Confirmed, PushLands
<1>2. IInv /\ [Next]_vars => IInv'
  BY IInvStep, Quiet
<1> QED
  BY <1>1, <1>2, IInvInit, PTL DEF Spec, PublishesPlan
-----------------------------------------------------------------------------
(* What apply_sync does to the user's work and to the upstream.            *)

\* The plan counts what tip and up have by themselves.
Counts(tip, up) ==
  plan = [localOnly |-> Len(Only(tip, up)), upstreamOnly |-> Len(Only(up, tip)),
          exists |-> up # Absent]

\* A branch that must be rebased has no merge commit of its own.
Rebasable(tip, up) ==
  plan.localOnly > 0 /\ plan.upstreamOnly > 0 => Changes(Only(tip, up)) \cap Merges = {}

\* The target is of the branch that HEAD was on.
Targeted ==
  /\ pc # "idle" =>
       /\ target.remote \in Remotes /\ target.branch \in Names
       /\ target.original.name # target.branch => target.establish
  /\ pc \notin {"idle", "asking", "verify", "aborting"} => current = target.branch

\* The plan is of the tips there are, or of those the user is asked about.
Planned ==
  /\ pc \in {"check", "ask", "execute", "merging", "rebasing"} => Counts(HeadTip, Fetched)
  /\ pc \in {"ask", "execute", "rebasing"} => Rebasable(HeadTip, Fetched)
  /\ pc \in {"asking", "verify"} =>
       Counts(asked.tip, asked.upstreamTip) /\ Rebasable(asked.tip, asked.upstreamTip)

\* Which of the plans is executed, and what its push sends.
Executing ==
  /\ pc = "merging" => plan.localOnly = 0 /\ plan.exists
  /\ pc = "rebasing" => plan.localOnly > 0 /\ plan.upstreamOnly > 0
  /\ pc = "aborting" => outcome # "Completed"
  /\ pc \in {"pushing", "landed", "recorded"} => plan.localOnly > 0 \/ ~plan.exists
  /\ pc \in {"pushing", "landed"} => pushing = [branch |-> target.branch, tip |-> heads[target.branch]]

\* What a plan that is executed has brought about.
Executed ==
  pc \in {"recorded", "finish"} =>
    /\ heads[target.branch] = Fetched
    /\ target.establish =>
         \/ plan.exists /\ plan.localOnly = 0
         \/ upstream[target.branch] = [remote |-> target.remote, name |-> target.branch]

WorkInv == TypeOK /\ Targeted /\ Planned /\ Executing /\ Executed

-----------------------------------------------------------------------------
(* Common prefixes, and what a rebase keeps.                               *)

LEMMA PrefixByElements ==
  ASSUME NEW s \in History, NEW t \in History, NEW i \in 0..Len(s)
  PROVE  IsPrefix(SubSeq(s, 1, i), t) <=> i <= Len(t) /\ \A j \in 1..i : s[j] = t[j]
<1>1. Len(SubSeq(s, 1, i)) = i /\ \A j \in 1..i : SubSeq(s, 1, i)[j] = s[j]
  OBVIOUS
<1>2. SubSeq(SubSeq(s, 1, i), 1, i) = SubSeq(s, 1, i)
  BY <1>1
<1>3. ASSUME i <= Len(t)
      PROVE  SubSeq(s, 1, i) = SubSeq(t, 1, i) <=> \A j \in 1..i : s[j] = t[j]
  <2>1. Len(SubSeq(t, 1, i)) = i /\ \A j \in 1..i : SubSeq(t, 1, i)[j] = t[j]
    BY <1>3
  <2>2. (\A j \in 1..i : s[j] = t[j]) => SubSeq(s, 1, i) = SubSeq(t, 1, i)
    BY <1>3
  <2> QED
    BY <1>1, <2>1, <2>2
<1> QED
  BY <1>1, <1>2, <1>3 DEF IsPrefix

\* Shared counts the positions up to which two histories are equal.
LEMMA SharedPrefix ==
  ASSUME NEW s \in History, NEW t \in History
  PROVE  /\ Shared(s, t) \in 0..Len(s) /\ Shared(s, t) <= Len(t)
         /\ \A j \in 1..Shared(s, t) : s[j] = t[j]
<1> DEFINE A == {i \in DOMAIN s : IsPrefix(SubSeq(s, 1, i), t)}
           T == 1..(Len(s) + 1) \ A
<1>1. Len(s) \in Nat /\ DOMAIN s = 1..Len(s)
  BY DEF History
<1>2. A = {i \in 1..Len(s) : i <= Len(t) /\ \A j \in 1..i : s[j] = t[j]}
  BY <1>1, PrefixByElements
<1>3. PICK m \in T : \A y \in T : m <= y
  <2>1. T \subseteq Nat /\ Len(s) + 1 \in T
    BY <1>1
  <2> HIDE DEF T
  <2> QED
    BY <2>1, LeastNatural
<1>4. m \in 1..(Len(s) + 1) /\ m \notin A
  BY <1>3
<1>5. \A i \in 1..(Len(s) + 1) : i < m => i \in A
  BY <1>1, <1>3
<1>6. \A i \in A : i < m
  BY <1>1, <1>2, <1>4
<1>7. A = 1..(m - 1)
  BY <1>1, <1>2, <1>4, <1>5, <1>6
<1>8. Cardinality(A) = m - 1
  <2>1. Cardinality(1..(m - 1)) = IF 1 > m - 1 THEN 0 ELSE (m - 1) - 1 + 1
    BY <1>1, <1>4, FS_Interval
  <2> HIDE DEF A
  <2> QED
    BY <1>1, <1>4, <1>7, <2>1
<1>9. Shared(s, t) = m - 1
  BY <1>8 DEF Shared
<1>10. m - 1 = 0 \/ m - 1 \in A
  BY <1>4, <1>7
<1> HIDE DEF A
<1> QED
  BY <1>1, <1>2, <1>4, <1>9, <1>10 DEF History

LEMMA OnlyFacts ==
  ASSUME NEW s \in History, NEW t \in History
  PROVE  /\ Only(s, t) \in History
         /\ Len(Only(s, t)) = Len(s) - Shared(s, t)
         /\ \A j \in 1..Len(Only(s, t)) : Only(s, t)[j] = s[Shared(s, t) + j]
<1> DEFINE k == Shared(s, t)
<1>1. k \in 0..Len(s) /\ Len(s) \in Nat
  BY SharedPrefix DEF History
<1>2. s \in Seq(Nat)
  BY DEF History
<1> HIDE DEF k
<1>3. SubSeq(s, k + 1, Len(s)) \in Seq(Nat) /\ Len(SubSeq(s, k + 1, Len(s))) = Len(s) - k
  BY <1>1, <1>2
<1>4. \A j \in 1..(Len(s) - k) : SubSeq(s, k + 1, Len(s))[j] = s[k + j]
  BY <1>1, <1>2
<1> QED
  BY <1>3, <1>4 DEF Only, History, k

\* A history is what it shares with another and what only it has.
LEMMA SharedOrOwn ==
  ASSUME NEW s \in History, NEW t \in History
  PROVE  Changes(s) \subseteq Changes(t) \cup Changes(Only(s, t))
<1> DEFINE k == Shared(s, t)
<1>1. k \in 0..Len(s) /\ k <= Len(t) /\ \A j \in 1..k : s[j] = t[j]
  BY SharedPrefix
<1>2. /\ Len(Only(s, t)) = Len(s) - k
      /\ \A j \in 1..Len(Only(s, t)) : Only(s, t)[j] = s[k + j]
  BY OnlyFacts
<1>3. Len(s) \in Nat /\ DOMAIN s = 1..Len(s) /\ Len(t) \in Nat /\ DOMAIN t = 1..Len(t)
      /\ DOMAIN Only(s, t) = 1..Len(Only(s, t))
  BY OnlyFacts DEF History
<1> HIDE DEF k
<1> SUFFICES ASSUME NEW i \in DOMAIN s
             PROVE  s[i] \in Changes(t) \cup Changes(Only(s, t))
  BY DEF Changes, ToSet
<1>4. CASE i <= k
  <2>1. i \in DOMAIN t /\ s[i] = t[i]
    BY <1>1, <1>3, <1>4
  <2> QED
    BY <2>1 DEF Changes, ToSet
<1>5. CASE ~(i <= k)
  <2>1. i - k \in DOMAIN Only(s, t) /\ k + (i - k) = i
    BY <1>1, <1>2, <1>3, <1>5
  <2> QED
    BY <1>2, <1>3, <2>1 DEF Changes, ToSet
<1> QED
  BY <1>1, <1>3, <1>4, <1>5

\* A history that has nothing of its own is the beginning of the other.
LEMMA NothingOwn ==
  ASSUME NEW s \in History, NEW t \in History, Len(Only(s, t)) = 0
  PROVE  Len(s) <= Len(t) /\ \A j \in 1..Len(s) : s[j] = t[j]
<1>1. Shared(s, t) = Len(s)
  BY SharedPrefix, OnlyFacts DEF History
<1> QED
  BY <1>1, SharedPrefix

LEMMA BothNothingOwn ==
  ASSUME NEW s \in History, NEW t \in History, Len(Only(s, t)) = 0, Len(Only(t, s)) = 0
  PROVE  s = t
BY NothingOwn DEF History

\* git rebase loses no change but merge commits and what the upstream has.
LEMMA RebaseKeeps ==
  ASSUME NEW s \in History, NEW onto \in History
  PROVE  /\ Rebased(s, onto) \in History
         /\ Changes(onto) \subseteq Changes(Rebased(s, onto))
         /\ Changes(Only(s, onto)) \cap Merges = {} => Changes(s) \subseteq Changes(Rebased(s, onto))
<1> DEFINE own  == Only(s, onto)
           kept == {i \in DOMAIN own : own[i] \notin Merges \cup Changes(onto)}
           r    == Retained(own, kept)
<1>1. own \in Seq(Nat)
  BY OnlyFacts DEF History
<1>2. r \in Seq(Nat) /\ {r[j] : j \in DOMAIN r} = {own[i] : i \in DOMAIN own \cap kept}
  BY <1>1, RetainedElements
<1>3. Rebased(s, onto) = onto \o r
  BY DEF Rebased
<1>4. onto \o r \in Seq(Nat) /\ Changes(onto \o r) = Changes(onto) \cup Changes(r)
  <2> HIDE DEF r
  <2>1. onto \in Seq(Nat)
    BY DEF History
  <2>2. /\ onto \o r \in Seq(Nat) /\ Len(onto \o r) = Len(onto) + Len(r)
        /\ \A i \in 1..Len(onto) : (onto \o r)[i] = onto[i]
        /\ \A i \in 1..Len(r) : (onto \o r)[Len(onto) + i] = r[i]
    BY <1>2, <2>1
  <2>3. Len(onto) \in Nat /\ Len(r) \in Nat /\ DOMAIN onto = 1..Len(onto) /\ DOMAIN r = 1..Len(r)
        /\ DOMAIN (onto \o r) = 1..(Len(onto) + Len(r))
    BY <1>2, <2>1, <2>2
  <2>4. ASSUME NEW i \in DOMAIN (onto \o r) PROVE (onto \o r)[i] \in Changes(onto) \cup Changes(r)
    <3>1. CASE i \in 1..Len(onto)
      BY <2>2, <2>3, <3>1 DEF Changes, ToSet
    <3>2. CASE i \notin 1..Len(onto)
      <4>1. i - Len(onto) \in 1..Len(r) /\ Len(onto) + (i - Len(onto)) = i
        BY <2>3, <3>2
      <4> QED
        BY <2>2, <2>3, <4>1 DEF Changes, ToSet
    <3> QED
      BY <3>1, <3>2
  <2>5. Changes(onto) \subseteq Changes(onto \o r)
    BY <2>2, <2>3 DEF Changes, ToSet
  <2>6. Changes(r) \subseteq Changes(onto \o r)
    <3>1. \A i \in 1..Len(r) : Len(onto) + i \in 1..(Len(onto) + Len(r))
      BY <2>3
    <3> QED
      BY <2>2, <2>3, <3>1 DEF Changes, ToSet
  <2> QED
    BY <2>2, <2>4, <2>5, <2>6 DEF Changes, ToSet
<1>5. Changes(own) \cap Merges = {} => Changes(own) \subseteq Changes(onto) \cup Changes(r)
  <2> SUFFICES ASSUME Changes(own) \cap Merges = {}, NEW i \in DOMAIN own, own[i] \notin Changes(onto)
               PROVE  own[i] \in Changes(r)
    BY DEF Changes, ToSet
  <2>1. i \in DOMAIN own \cap kept
    BY DEF Changes, ToSet
  <2> QED
    BY <1>2, <2>1 DEF Changes, ToSet
<1>6. Changes(s) \subseteq Changes(onto) \cup Changes(own)
  BY SharedOrOwn
<1> HIDE DEF r, own
<1>7. Changes(own) \cap Merges = {} => Changes(s) \subseteq Changes(Rebased(s, onto))
  BY <1>3, <1>4, <1>5, <1>6
<1> QED
  BY <1>3, <1>4, <1>7 DEF History, own

-----------------------------------------------------------------------------
(* WorkInv is inductive: types first.                                      *)

LEMMA NothingTyped ==
  /\ Base \in History /\ Absent \in History /\ NoUpstream \in Upstreams
  /\ NoTarget \in Targets /\ NoPlan \in Plans /\ NoFacts \in Tips /\ NoPush \in Pushes
BY DEF Base, Absent, History, NoUpstream, Upstreams, NoTarget, Targets, NoPlan, Plans,
       NoFacts, Tips, NoPush, Pushes

LEMMA InitTyped == Init => TypeOK
<1> SUFFICES ASSUME Init PROVE TypeOK
  OBVIOUS
<1>1. heads \in [Names -> History]
  BY NothingTyped, SyncAssumption DEF Init, SyncAssumption, History
<1>2. remote \in [Remotes -> [Names -> History]]
  <2>1. PICK f \in [Remotes -> UNION {RemoteStarts[r] : r \in Remotes}] :
          /\ \A r \in Remotes : f[r] \in RemoteStarts[r]
          /\ remote = [r \in Remotes |-> [n \in Names |-> IF n = current THEN f[r] ELSE Base]]
    BY DEF Init
  <2>2. \A r \in Remotes : f[r] \in History
    BY <2>1, SyncAssumption DEF SyncAssumption, History
  <2> QED
    BY <2>1, <2>2, NothingTyped
<1>3. tracking \in [Remotes -> [Names -> History]]
  BY <1>2, NothingTyped DEF Init
<1>4. upstream \in [Names -> Upstreams]
  BY DEF Init, Upstreams
<1> QED
  BY <1>1, <1>2, <1>3, <1>4, NothingTyped DEF Init, TypeOK, RepositoryTyped, SyncTyped, PCs

LEMMA WorkInit == Init => WorkInv
<1> SUFFICES ASSUME Init PROVE WorkInv
  OBVIOUS
<1>1. pc = "idle"
  BY DEF Init
<1> QED
  BY <1>1, InitTyped DEF WorkInv, Targeted, Planned, Executing, Executed

\* Where Sync is done, all that is left to show is the types.
LEMMA WorkEnds == ASSUME TypeOK', pc' = "idle" PROVE WorkInv'
BY DEF WorkInv, Targeted, Planned, Executing, Executed

\* The tips Sync compares are histories.
LEMMA TipsTyped ==
  ASSUME TypeOK, target.remote \in Remotes, target.branch \in Names
  PROVE  heads[target.branch] \in History /\ Fetched \in History
BY DEF TypeOK, RepositoryTyped, Fetched

-----------------------------------------------------------------------------
(* Its own steps.                                                          *)

\* sync_target: the branch HEAD is on, and a remote there is.
LEMMA TargetIsCurrent ==
  ASSUME TypeOK, NEW selected \in Remotes \cup {None}, Startable(selected)
  PROVE  LET t == SyncTarget(selected) IN
         /\ t \in Targets /\ t.remote \in Remotes /\ t.branch \in Names /\ t.branch = current
         /\ t.original.name # t.branch => t.establish
<1>1. current \in Names /\ upstream[current] \in Upstreams
  BY DEF Startable, TypeOK, RepositoryTyped
<1>2. CASE Configured
  <2>1. upstream[current] \in [remote : Remotes, name : Names]
    BY <1>1, <1>2 DEF Configured, Upstreams
  <2> QED
    BY <1>1, <1>2, <2>1 DEF SyncTarget, Targets
<1>3. CASE ~Configured
  <2>1. remotes \subseteq Remotes
    BY DEF TypeOK, RepositoryTyped
  <2>2. selected = None /\ "origin" \notin remotes => remotes # {}
    <3>1. Cardinality({}) = 0
      BY FS_EmptySet
    <3> QED
      BY <1>3, <3>1 DEF Startable
  <2>3. selected # None => selected \in remotes
    BY <1>3 DEF Startable
  <2>4. Chosen(selected) \in Remotes
    BY <2>1, <2>2, <2>3 DEF Chosen
  <2> QED
    BY <1>1, <1>3, <2>4, NothingTyped DEF SyncTarget, Targets
<1> QED
  BY <1>2, <1>3

LEMMA RepositoryKept ==
  ASSUME RepositoryTyped, UNCHANGED <<repoVars, remote>>
  PROVE  RepositoryTyped'
BY DEF RepositoryTyped, repoVars

LEMMA SyncKept ==
  ASSUME SyncTyped, UNCHANGED <<syncVars, cancelled, outside>>,
         pc' \in PCs, outcome' \in {outcome, "Completed", "Failed", "Cancelled"}
  PROVE  SyncTyped'
BY DEF SyncTyped, syncVars

LEMMA WorkStart == WorkInv /\ Start => WorkInv'
<1> SUFFICES ASSUME WorkInv, NEW selected \in Remotes \cup {None}, Begin(selected) PROVE WorkInv'
  BY DEF Start
<1>1. RepositoryTyped /\ SyncTyped
  BY DEF WorkInv, TypeOK
<1>2. /\ plan' = NoPlan /\ asked' = NoFacts /\ pushing' = NoPush
      /\ syncs' = syncs + 1 /\ cancelled' = FALSE /\ outside' = outside
      /\ UNCHANGED <<repoVars, remote>>
  BY DEF Begin
<1>3. RepositoryTyped'
  BY <1>1, <1>2, RepositoryKept
<1>4. CASE ~Startable(selected)
  <2>1. pc' = "idle" /\ outcome' = "Failed" /\ target' = NoTarget
    BY <1>4 DEF Begin, End
  <2>2. SyncTyped'
    <3>1. cancelled' \in BOOLEAN /\ outcome' \in {None, "Completed", "Failed", "Cancelled"} /\ pc' \in PCs
      BY <1>2, <2>1 DEF PCs
    <3>2. syncs' \in Nat /\ outside' \in Nat
      BY <1>1, <1>2 DEF SyncTyped
    <3> QED
      BY <1>2, <2>1, <3>1, <3>2, NothingTyped DEF SyncTyped
  <2> QED
    BY <1>3, <2>1, <2>2, WorkEnds DEF TypeOK
<1>5. CASE Startable(selected)
  <2>1. pc' = "fetching" /\ outcome' = None /\ target' = SyncTarget(selected)
    BY <1>5 DEF Begin
  <2>2. SyncTyped'
    <3>1. cancelled' \in BOOLEAN /\ outcome' \in {None, "Completed", "Failed", "Cancelled"} /\ pc' \in PCs
      BY <1>2, <2>1 DEF PCs
    <3>2. syncs' \in Nat /\ outside' \in Nat
      BY <1>1, <1>2 DEF SyncTyped
    <3>3. target' \in Targets
      BY <1>1, <1>5, <2>1, TargetIsCurrent DEF TypeOK
    <3> QED
      BY <1>2, <2>1, <3>1, <3>2, <3>3, NothingTyped DEF SyncTyped
  <2>3. Targeted'
    BY <1>1, <1>2, <1>5, <2>1, TargetIsCurrent DEF Targeted, repoVars, TypeOK
  <2> QED
    BY <1>3, <2>1, <2>2, <2>3 DEF WorkInv, TypeOK, Planned, Executing, Executed
<1> QED
  BY <1>4, <1>5

LEMMA WorkFetch ==
  WorkInv /\ ((\E prunes \in BOOLEAN : FetchEnds(prunes)) \/ FetchFails) => WorkInv'
<1> SUFFICES ASSUME WorkInv, (\E prunes \in BOOLEAN : FetchEnds(prunes)) \/ FetchFails
             PROVE  WorkInv'
  OBVIOUS
<1>1. RepositoryTyped /\ SyncTyped /\ pc = "fetching"
  BY DEF WorkInv, TypeOK, FetchEnds, FetchFails
<1>2. /\ UNCHANGED <<heads, current, upstream, remotes, dirty, busy, remote>>
      /\ UNCHANGED <<syncVars, cancelled, outside>>
  BY DEF FetchEnds, FetchFails, repoVars
<1>3. pc' \in {"idle", "plan"} /\ outcome' \in {outcome, "Cancelled", "Failed"}
  BY DEF FetchEnds, FetchFails, Exits, End, Continues
<1>4. tracking' \in [Remotes -> [Names -> History]]
  <2>1. CASE FetchFails
    BY <1>1, <2>1 DEF FetchFails, RepositoryTyped, repoVars
  <2>2. CASE \E prunes \in BOOLEAN : FetchEnds(prunes)
    <3>1. PICK prunes \in BOOLEAN : FetchEnds(prunes)
      BY <2>2
    <3>2. target.remote \in Remotes
      BY <1>1 DEF WorkInv, Targeted
    <3> DEFINE fetched == [n \in Names |-> IF remote[target.remote][n] # Absent \/ prunes
                             THEN remote[target.remote][n] ELSE tracking[target.remote][n]]
    <3>3. fetched \in [Names -> History]
      BY <1>1, <3>2 DEF RepositoryTyped
    <3>4. tracking' = [tracking EXCEPT ![target.remote] = fetched]
      BY <3>1 DEF FetchEnds
    <3> HIDE DEF fetched
    <3> QED
      BY <1>1, <3>3, <3>4 DEF RepositoryTyped
  <2> QED
    BY <2>1, <2>2
<1>5. RepositoryTyped'
  BY <1>1, <1>2, <1>4 DEF RepositoryTyped
<1>6. SyncTyped'
  BY <1>1, <1>2, <1>3, SyncKept DEF PCs
<1>7. CASE pc' = "idle"
  BY <1>5, <1>6, <1>7, WorkEnds DEF TypeOK
<1>8. CASE pc' = "plan"
  <2>1. Targeted'
    BY <1>1, <1>2, <1>8 DEF WorkInv, Targeted, syncVars
  <2> QED
    BY <1>5, <1>6, <1>8, <2>1 DEF WorkInv, TypeOK, Planned, Executing, Executed
<1> QED
  BY <1>3, <1>7, <1>8

\* A step that reads: the plan, its checks, what the user is asked and answers.
LEMMA WorkPlan == WorkInv /\ Plan => WorkInv'
<1> SUFFICES ASSUME WorkInv, Plan PROVE WorkInv'
  OBVIOUS
<1>1. RepositoryTyped /\ SyncTyped /\ Targeted /\ pc = "plan"
  BY DEF WorkInv, TypeOK, Plan
<1>2. /\ UNCHANGED <<heads, current, upstream, remotes, dirty, busy, tracking, remote>>
      /\ UNCHANGED <<target, asked, pushing, syncs, cancelled, outside>>
  BY DEF Plan, repoVars
<1>3. RepositoryTyped'
  BY <1>1, <1>2 DEF RepositoryTyped
<1>4. CASE ~Plannable
  <2>1. UNCHANGED plan /\ pc' = "idle" /\ outcome' = "Failed"
    BY <1>4 DEF Plan, End
  <2>2. SyncTyped'
    BY <1>1, <1>2, <2>1, SyncKept DEF PCs, syncVars
  <2> QED
    BY <1>3, <2>1, <2>2, WorkEnds DEF TypeOK
<1>5. CASE Plannable
  <2>1. /\ plan' = [localOnly |-> Len(Only(HeadTip, Fetched)),
                    upstreamOnly |-> Len(Only(Fetched, HeadTip)), exists |-> Fetched # Absent]
        /\ pc' = (IF plan'.localOnly > 0 /\ plan'.upstreamOnly > 0 THEN "check" ELSE "ask")
        /\ outcome' = outcome
    BY <1>5 DEF Plan, Continues
  <2>2. HeadTip \in History /\ Fetched \in History
    BY <1>1, TipsTyped DEF Targeted, TypeOK, HeadTip
  <2>3. plan' \in Plans
    BY <2>1, <2>2, OnlyFacts DEF Plans, History
  <2>4. SyncTyped'
    BY <1>1, <1>2, <2>1, <2>3 DEF SyncTyped, PCs
  <2>5. Targeted'
    BY <1>1, <1>2, <2>1 DEF Targeted
  <2>6. HeadTip' = HeadTip /\ Fetched' = Fetched
    BY <1>2 DEF HeadTip, Fetched
  <2>7. Planned'
    BY <2>1, <2>6 DEF Planned, Counts, Rebasable
  <2> QED
    BY <1>3, <2>1, <2>4, <2>5, <2>7 DEF WorkInv, TypeOK, Executing, Executed
<1> QED
  BY <1>4, <1>5

LEMMA WorkCheck == WorkInv /\ (CheckRebase \/ ReadFails) => WorkInv'
<1> SUFFICES ASSUME WorkInv, CheckRebase \/ ReadFails PROVE WorkInv'
  OBVIOUS
<1>1. RepositoryTyped /\ SyncTyped /\ Targeted /\ Planned
  BY DEF WorkInv, TypeOK
<1>2. UNCHANGED <<repoVars, remote, syncVars, cancelled, outside>>
  BY DEF CheckRebase, ReadFails
<1>3. pc' \in {"idle", "ask"} /\ outcome' \in {outcome, "Failed"}
  BY DEF CheckRebase, ReadFails, End, Continues
<1>4. RepositoryTyped' /\ SyncTyped'
  BY <1>1, <1>2, <1>3, RepositoryKept, SyncKept DEF PCs
<1>5. CASE pc' = "idle"
  BY <1>4, <1>5, WorkEnds DEF TypeOK
<1>6. CASE pc' = "ask"
  <2>1. pc = "check" /\ Changes(Only(HeadTip, Fetched)) \cap Merges = {}
    BY <1>6 DEF CheckRebase, ReadFails, End, Continues
  <2>2. Targeted'
    BY <1>1, <1>2, <1>6, <2>1 DEF Targeted, repoVars, syncVars
  <2>3. HeadTip' = HeadTip /\ Fetched' = Fetched /\ plan' = plan
    BY <1>2 DEF HeadTip, Fetched, repoVars, syncVars
  <2>4. Planned'
    BY <1>1, <1>6, <2>1, <2>3 DEF Planned, Counts, Rebasable
  <2> QED
    BY <1>4, <1>6, <2>2, <2>4 DEF WorkInv, TypeOK, Executing, Executed
<1> QED
  BY <1>3, <1>5, <1>6

LEMMA WorkAsk == WorkInv /\ Ask => WorkInv'
<1> SUFFICES ASSUME WorkInv, Ask PROVE WorkInv'
  OBVIOUS
<1>1. RepositoryTyped /\ SyncTyped /\ Targeted /\ Planned /\ pc = "ask"
  BY DEF WorkInv, TypeOK, Ask
<1>2. UNCHANGED <<repoVars, remote, target, plan, pushing, syncs, cancelled, outside>>
  BY DEF Ask
<1>3. HeadTip' = HeadTip /\ Fetched' = Fetched
  BY <1>2 DEF HeadTip, Fetched, repoVars
<1>4. RepositoryTyped'
  BY <1>1, <1>2, RepositoryKept
<1>5. HeadTip \in History /\ Fetched \in History
  BY <1>1, TipsTyped DEF Targeted, TypeOK, HeadTip
<1>6. CASE NeedsConfirmation
  <2>1. asked' = [tip |-> HeadTip, upstreamTip |-> Fetched, dirty |-> dirty]
        /\ pc' = "asking" /\ outcome' = outcome
    BY <1>6 DEF Ask, Facts, Continues
  <2>2. asked' \in Tips
    BY <1>1, <1>5, <2>1 DEF Tips, RepositoryTyped
  <2>3. SyncTyped'
    BY <1>1, <1>2, <2>1, <2>2 DEF SyncTyped, PCs
  <2>4. Targeted'
    BY <1>1, <1>2, <2>1 DEF Targeted
  <2>5. asked'.tip = HeadTip /\ asked'.upstreamTip = Fetched
    BY <2>1
  <2>6. Planned'
    BY <1>1, <1>2, <2>1, <2>5 DEF Planned, Counts, Rebasable
  <2> QED
    BY <1>4, <2>1, <2>3, <2>4, <2>6 DEF WorkInv, TypeOK, Executing, Executed
<1>7. CASE ~NeedsConfirmation
  <2>1. UNCHANGED asked /\ pc' = "execute" /\ outcome' = outcome
    BY <1>7 DEF Ask, Continues
  <2>2. SyncTyped'
    BY <1>1, <1>2, <2>1 DEF SyncTyped, PCs
  <2>3. Targeted'
    BY <1>1, <1>2, <2>1 DEF Targeted, repoVars
  <2>4. Planned'
    BY <1>1, <1>2, <1>3, <2>1 DEF Planned, Counts, Rebasable
  <2> QED
    BY <1>4, <2>1, <2>2, <2>3, <2>4 DEF WorkInv, TypeOK, Executing, Executed
<1> QED
  BY <1>6, <1>7

LEMMA WorkAnswer == WorkInv /\ (Verify \/ \E confirms \in BOOLEAN : Answer(confirms)) => WorkInv'
<1> SUFFICES ASSUME WorkInv, Verify \/ \E confirms \in BOOLEAN : Answer(confirms) PROVE WorkInv'
  OBVIOUS
<1>1. RepositoryTyped /\ SyncTyped /\ Targeted /\ Planned
  BY DEF WorkInv, TypeOK
<1>2. UNCHANGED <<repoVars, remote, syncVars, cancelled, outside>>
  BY DEF Verify, Answer
<1>3. pc \in {"asking", "verify"}
      /\ pc' \in {"idle", "verify", "execute"} /\ outcome' \in {outcome, "Failed", "Cancelled"}
  BY DEF Verify, Answer, End, Continues
<1>4. RepositoryTyped' /\ SyncTyped'
  BY <1>1, <1>2, <1>3, RepositoryKept, SyncKept DEF PCs
<1>5. CASE pc' = "idle"
  BY <1>4, <1>5, WorkEnds DEF TypeOK
<1>6. CASE pc' = "verify"
  <2>1. Targeted'
    BY <1>1, <1>2, <1>3, <1>6 DEF Targeted, repoVars, syncVars
  <2>2. Planned'
    BY <1>1, <1>2, <1>3, <1>6 DEF Planned, Counts, Rebasable, syncVars
  <2> QED
    BY <1>4, <1>6, <2>1, <2>2 DEF WorkInv, TypeOK, Executing, Executed
<1>7. CASE pc' = "execute"
  <2>1. PlanIsCurrent
    BY <1>7 DEF Verify, Answer, End, Continues
  <2>2. current = target.branch /\ asked = [tip |-> HeadTip, upstreamTip |-> Fetched, dirty |-> dirty]
    BY <2>1 DEF PlanIsCurrent, Facts
  <2>3. Targeted'
    BY <1>1, <1>2, <1>3, <1>7, <2>2 DEF Targeted, repoVars, syncVars
  <2>4. HeadTip' = HeadTip /\ Fetched' = Fetched /\ plan' = plan
        /\ asked.tip = HeadTip /\ asked.upstreamTip = Fetched
    BY <1>2, <2>2 DEF HeadTip, Fetched, repoVars, syncVars
  <2>5. Planned'
    BY <1>1, <1>3, <1>7, <2>4 DEF Planned, Counts, Rebasable
  <2> QED
    BY <1>4, <1>7, <2>3, <2>5 DEF WorkInv, TypeOK, Executing, Executed
<1> QED
  BY <1>3, <1>5, <1>6, <1>7

-----------------------------------------------------------------------------
(* Executing the plan.                                                     *)

\* In execute, HEAD and the fetched branch are the tips the plan counts.
LEMMA ExecuteTips ==
  ASSUME WorkInv, pc \in {"execute", "merging", "rebasing"}
  PROVE  /\ target.remote \in Remotes /\ target.branch \in Names /\ current = target.branch
         /\ HeadTip \in History /\ Fetched \in History /\ HeadTip = heads[target.branch]
         /\ plan.localOnly = Len(Only(HeadTip, Fetched)) /\ plan.localOnly \in Nat
         /\ plan.upstreamOnly = Len(Only(Fetched, HeadTip)) /\ plan.upstreamOnly \in Nat
         /\ plan.exists = (Fetched # Absent)
         /\ plan.upstreamOnly > 0 => plan.exists
<1>1. target.remote \in Remotes /\ target.branch \in Names /\ current = target.branch /\ TypeOK
  BY DEF WorkInv, Targeted
<1>2. HeadTip \in History /\ Fetched \in History /\ HeadTip = heads[target.branch]
  BY <1>1, TipsTyped DEF HeadTip
<1>3. Counts(HeadTip, Fetched)
  BY DEF WorkInv, Planned
<1>4. Len(Only(HeadTip, Fetched)) \in Nat /\ Len(Only(Fetched, HeadTip)) \in Nat
  BY <1>2, OnlyFacts DEF History
<1>5. Len(Only(Fetched, HeadTip)) > 0 => Fetched # Absent
  <2>1. Len(Only(Fetched, HeadTip)) = Len(Fetched) - Shared(Fetched, HeadTip)
        /\ Shared(Fetched, HeadTip) \in 0..Len(Fetched)
    BY <1>2, OnlyFacts, SharedPrefix
  <2>2. Fetched = Absent => Len(Fetched) = 0
    BY DEF Absent
  <2> QED
    BY <2>1, <2>2
<1> QED
  BY <1>1, <1>2, <1>3, <1>4, <1>5 DEF Counts

LEMMA WorkExecute == WorkInv /\ Execute => WorkInv'
<1> SUFFICES ASSUME WorkInv, Execute PROVE WorkInv'
  OBVIOUS
<1>1. RepositoryTyped /\ SyncTyped /\ Targeted /\ Planned /\ pc = "execute"
  BY DEF WorkInv, TypeOK, Execute
<1>2. UNCHANGED <<heads, current, upstream, remotes, dirty, tracking, remote, target,
                  plan, asked, syncs, cancelled, outside>>
  BY DEF Execute
<1>3. /\ pushing' \in {pushing, [branch |-> current, tip |-> HeadTip]}
      /\ busy' \in {busy, "rebase"}
      /\ pc' \in {"idle", "finish", "merging", "pushing", "rebasing"}
      /\ outcome' \in {outcome, "Cancelled"}
  BY DEF Execute, PushSpawns, Spawns, End, Continues
<1>4. HeadTip' = HeadTip /\ Fetched' = Fetched
  BY <1>2 DEF HeadTip, Fetched
<1>5. RepositoryTyped'
  BY <1>1, <1>2, <1>3 DEF RepositoryTyped
<1>6. SyncTyped'
  <2>1. [branch |-> current, tip |-> HeadTip] \in Pushes
    BY <1>1, ExecuteTips DEF Pushes
  <2>2. pushing' \in Pushes /\ pc' \in PCs
        /\ outcome' \in {None, "Completed", "Failed", "Cancelled"}
    BY <1>1, <1>3, <2>1 DEF SyncTyped, PCs
  <2> QED
    BY <1>1, <1>2, <2>2 DEF SyncTyped
<1>7. Targeted'
  BY <1>1, <1>2, <1>3 DEF Targeted
<1>8. CASE pc' = "idle"
  BY <1>5, <1>6, <1>8, WorkEnds DEF TypeOK
<1>9. CASE pc' = "finish"
  <2>1. plan.localOnly = 0 /\ plan.upstreamOnly = 0 /\ plan.exists
    BY <1>9 DEF Execute, PushSpawns, Spawns, End, Continues
  <2>2. heads[target.branch] = Fetched
    BY <1>1, <2>1, ExecuteTips, BothNothingOwn
  <2>3. Executed'
    BY <1>2, <1>4, <1>9, <2>1, <2>2 DEF Executed
  <2> QED
    BY <1>5, <1>6, <1>7, <1>9, <2>3 DEF WorkInv, TypeOK, Planned, Executing
<1>10. CASE pc' = "merging"
  <2>1. plan.localOnly = 0 /\ plan.upstreamOnly > 0
    BY <1>10 DEF Execute, PushSpawns, Spawns, End, Continues
  <2>2. plan.exists
    BY <1>1, <2>1, ExecuteTips
  <2>3. Planned' /\ Executing'
    BY <1>1, <1>2, <1>4, <1>10, <2>1, <2>2 DEF Planned, Counts, Executing
  <2> QED
    BY <1>5, <1>6, <1>7, <1>10, <2>3 DEF WorkInv, TypeOK, Executed
<1>11. CASE pc' = "pushing"
  <2>1. /\ plan.localOnly > 0 \/ ~plan.exists
        /\ pushing' = [branch |-> current, tip |-> HeadTip]
    BY <1>11 DEF Execute, PushSpawns, Spawns, End, Continues
  <2>2. Executing'
    BY <1>1, <1>2, <1>11, <2>1, ExecuteTips DEF Executing
  <2> QED
    BY <1>5, <1>6, <1>7, <1>11, <2>2 DEF WorkInv, TypeOK, Planned, Executed
<1>12. CASE pc' = "rebasing"
  <2>1. plan.localOnly > 0 /\ plan.upstreamOnly > 0
    BY <1>12 DEF Execute, PushSpawns, Spawns, End, Continues
  <2>2. Planned' /\ Executing'
    BY <1>1, <1>2, <1>4, <1>12, <2>1 DEF Planned, Counts, Rebasable, Executing
  <2> QED
    BY <1>5, <1>6, <1>7, <1>12, <2>2 DEF WorkInv, TypeOK, Executed
<1> QED
  BY <1>3, <1>8, <1>9, <1>10, <1>11, <1>12

LEMMA WorkMerge == WorkInv /\ (MergeEnds \/ MergeFails) => WorkInv'
<1> SUFFICES ASSUME WorkInv, MergeEnds \/ MergeFails PROVE WorkInv'
  OBVIOUS
<1>1. RepositoryTyped /\ SyncTyped /\ Targeted /\ Executing /\ pc = "merging"
  BY DEF WorkInv, TypeOK, MergeEnds, MergeFails
<1>2. UNCHANGED <<current, upstream, remotes, dirty, busy, tracking, remote>>
      /\ UNCHANGED <<syncVars, cancelled, outside>>
  BY DEF MergeEnds, MergeFails, repoVars
<1>3. pc' \in {"idle", "finish"} /\ outcome' \in {outcome, "Failed", "Cancelled"}
  BY DEF MergeEnds, MergeFails, Exits, End, Continues
<1>4. heads' \in [Names -> History]
  BY <1>1, ExecuteTips DEF MergeEnds, MergeFails, RepositoryTyped, repoVars
<1>5. RepositoryTyped' /\ SyncTyped'
  BY <1>1, <1>2, <1>3, <1>4, SyncKept DEF RepositoryTyped, PCs
<1>6. CASE pc' = "idle"
  BY <1>5, <1>6, WorkEnds DEF TypeOK
<1>7. CASE pc' = "finish"
  <2>1. heads' = [heads EXCEPT ![current] = Fetched]
    BY <1>7 DEF MergeEnds, MergeFails, Exits, End, Continues
  <2>2. Fetched' = Fetched /\ target' = target /\ plan' = plan
    BY <1>2 DEF Fetched, syncVars
  <2>3. heads'[target.branch] = Fetched
    BY <1>1, <2>1, ExecuteTips DEF RepositoryTyped
  <2>4. Targeted'
    BY <1>1, <1>2, <1>7, <2>2 DEF Targeted
  <2>5. Executed'
    BY <1>1, <1>7, <2>2, <2>3 DEF Executed, Executing
  <2> QED
    BY <1>5, <1>7, <2>4, <2>5 DEF WorkInv, TypeOK, Planned, Executing
<1> QED
  BY <1>3, <1>6, <1>7

LEMMA WorkRebase == WorkInv /\ (RebaseEnds \/ RebaseStops \/ AbortRebase) => WorkInv'
<1> SUFFICES ASSUME WorkInv, RebaseEnds \/ RebaseStops \/ AbortRebase PROVE WorkInv'
  OBVIOUS
<1>1. RepositoryTyped /\ SyncTyped /\ Targeted /\ Executing
  BY DEF WorkInv, TypeOK
<1>2. CASE RebaseStops
  <2>1. UNCHANGED <<repoVars, remote, syncVars, cancelled, outside>> /\ pc = "rebasing"
        /\ pc' = "aborting" /\ outcome' \in {"Failed", "Cancelled"}
    BY <1>2 DEF RebaseStops
  <2>2. RepositoryTyped' /\ SyncTyped'
    BY <1>1, <2>1, RepositoryKept, SyncKept DEF PCs
  <2>3. Targeted'
    BY <1>1, <2>1 DEF Targeted, syncVars, repoVars
  <2> QED
    BY <2>1, <2>2, <2>3 DEF WorkInv, TypeOK, Planned, Executing, Executed
<1>3. CASE AbortRebase
  <2>1. /\ UNCHANGED <<heads, current, upstream, remotes, tracking, remote>>
        /\ UNCHANGED <<syncVars, cancelled, outside>>
        /\ pc' = "idle" /\ outcome' = outcome /\ busy' \in {None, busy, "unaborted"}
        /\ dirty' \in {dirty} \cup BOOLEAN
    BY <1>3 DEF AbortRebase, End
  <2>2. RepositoryTyped'
    BY <1>1, <2>1 DEF RepositoryTyped
  <2>3. SyncTyped'
    BY <1>1, <2>1, SyncKept DEF PCs
  <2> QED
    BY <2>1, <2>2, <2>3, WorkEnds DEF TypeOK
<1>4. CASE RebaseEnds
  <2>1. /\ UNCHANGED <<current, upstream, remotes, dirty, tracking, remote, target, plan,
                       asked, syncs, cancelled, outside>>
        /\ heads' = [heads EXCEPT ![current] = Rebased(HeadTip, Fetched)]
        /\ busy' = None /\ pc = "rebasing"
        /\ pushing' = [branch |-> current, tip |-> heads'[current]]
        /\ pc' \in {"idle", "pushing"} /\ outcome' \in {outcome, "Cancelled"}
    BY <1>4 DEF RebaseEnds, PushSpawns, Spawns, End, Continues
  <2>2. Rebased(HeadTip, Fetched) \in History
    BY <2>1, ExecuteTips, RebaseKeeps
  <2>3. current \in Names /\ current = target.branch
    BY <2>1, ExecuteTips
  <2>4. heads' \in [Names -> History] /\ heads'[current] \in History
    BY <1>1, <2>1, <2>2, <2>3 DEF RepositoryTyped
  <2>5. RepositoryTyped'
    BY <1>1, <2>1, <2>4 DEF RepositoryTyped
  <2>6. pushing' \in Pushes
    BY <2>1, <2>3, <2>4 DEF Pushes
  <2>7. SyncTyped'
    <3>1. pc' \in PCs /\ outcome' \in {None, "Completed", "Failed", "Cancelled"}
      BY <1>1, <2>1 DEF SyncTyped, PCs
    <3> QED
      BY <1>1, <2>1, <2>6, <3>1 DEF SyncTyped
  <2>8. CASE pc' = "idle"
    BY <2>5, <2>7, <2>8, WorkEnds DEF TypeOK
  <2>9. CASE pc' = "pushing"
    <3>1. Targeted'
      BY <1>1, <2>1, <2>9 DEF Targeted
    <3>2. Executing'
      BY <1>1, <2>1, <2>3, <2>9 DEF Executing
    <3> QED
      BY <2>5, <2>7, <2>9, <3>1, <3>2 DEF WorkInv, TypeOK, Planned, Executed
  <2> QED
    BY <2>1, <2>8, <2>9
<1> QED
  BY <1>2, <1>3, <1>4

LEMMA WorkPush == WorkInv /\ (PushLands \/ PushRecords \/ PushExits \/ PushFails) => WorkInv'
<1> SUFFICES ASSUME WorkInv, PushLands \/ PushRecords \/ PushExits \/ PushFails PROVE WorkInv'
  OBVIOUS
<1>1. RepositoryTyped /\ SyncTyped /\ Targeted /\ Executing /\ Executed
      /\ pc \in {"pushing", "landed", "recorded"}
  BY DEF WorkInv, TypeOK, PushLands, PushRecords, PushExits, PushFails
<1>2. UNCHANGED <<heads, current, remotes, dirty, busy, syncVars, cancelled, outside>>
  BY DEF PushLands, PushRecords, PushExits, PushFails, repoVars
<1>3. target.remote \in Remotes /\ target.branch \in Names /\ target' = target /\ plan' = plan
      /\ pushing' = pushing
  BY <1>1, <1>2 DEF Targeted, syncVars
<1>4. pushing.tip \in History /\ pushing.branch \in Names \cup {None}
  BY <1>1 DEF SyncTyped, Pushes
<1>5. pc' \in {"idle", "landed", "recorded", "finish"} /\ outcome' \in {outcome, "Failed", "Cancelled"}
  BY DEF PushLands, PushRecords, PushExits, PushFails, Exits, End, Continues
<1>6. remote' \in [Remotes -> [Names -> History]]
  <2> DEFINE row == [remote[target.remote] EXCEPT ![target.branch] = pushing.tip]
  <2>1. remote' \in {remote, [remote EXCEPT ![target.remote] = row]}
    BY DEF PushLands, PushRecords, PushExits, PushFails
  <2>2. row \in [Names -> History]
    BY <1>1, <1>3, <1>4 DEF RepositoryTyped
  <2> HIDE DEF row
  <2> QED
    BY <1>1, <2>1, <2>2 DEF RepositoryTyped
<1>7. tracking' \in [Remotes -> [Names -> History]]
  <2> DEFINE row == [tracking[target.remote] EXCEPT ![target.branch] = pushing.tip]
  <2>1. tracking' \in {tracking, [tracking EXCEPT ![target.remote] = row]}
    BY DEF PushLands, PushRecords, PushExits, PushFails, repoVars
  <2>2. row \in [Names -> History]
    BY <1>1, <1>3, <1>4 DEF RepositoryTyped
  <2> HIDE DEF row
  <2> QED
    BY <1>1, <2>1, <2>2 DEF RepositoryTyped
<1>8. upstream' \in [Names -> Upstreams]
  <2>1. [remote |-> target.remote, name |-> target.branch] \in Upstreams
    BY <1>3 DEF Upstreams
  <2> QED
    BY <1>1, <2>1 DEF PushLands, PushRecords, PushExits, PushFails, RepositoryTyped, repoVars
<1>9. RepositoryTyped'
  BY <1>1, <1>2, <1>6, <1>7, <1>8 DEF RepositoryTyped
<1>10. SyncTyped'
  BY <1>1, <1>2, <1>5, SyncKept DEF PCs
<1>11. CASE pc' = "idle"
  BY <1>9, <1>10, <1>11, WorkEnds DEF TypeOK
<1>12. ASSUME pc' # "idle" PROVE Targeted'
  BY <1>1, <1>2, <1>3, <1>5, <1>12 DEF Targeted
<1>13. CASE pc' = "landed"
  <2>1. pc = "pushing"
    BY <1>13 DEF PushLands, PushRecords, PushExits, PushFails, Exits, End, Continues
  <2>2. Executing'
    BY <1>1, <1>2, <1>3, <1>13, <2>1 DEF Executing
  <2> QED
    BY <1>9, <1>10, <1>12, <1>13, <2>2 DEF WorkInv, TypeOK, Planned, Executed
<1>14. CASE pc' = "recorded"
  <2>1. PushRecords /\ pc = "landed"
    BY <1>14 DEF PushLands, PushRecords, PushExits, PushFails, Exits, End, Continues
  <2>2. pushing.tip = heads[target.branch] /\ pushing.branch = target.branch
        /\ (plan.localOnly > 0 \/ ~plan.exists)
    BY <1>1, <2>1 DEF Executing
  <2>3. tracking'[target.remote][target.branch] = pushing.tip
    BY <1>1, <1>3, <2>1 DEF PushRecords, RepositoryTyped
  <2>4. target.establish =>
          upstream'[target.branch] = [remote |-> target.remote, name |-> target.branch]
    BY <1>1, <1>3, <2>1, <2>2 DEF PushRecords, RepositoryTyped
  <2>5. Executed' /\ Executing'
    BY <1>2, <1>3, <1>14, <2>2, <2>3, <2>4 DEF Executed, Executing, Fetched
  <2> QED
    BY <1>9, <1>10, <1>12, <1>14, <2>5 DEF WorkInv, TypeOK, Planned
<1>15. CASE pc' = "finish"
  <2>1. PushExits /\ pc = "recorded" /\ upstream' = upstream /\ tracking' = tracking
    BY <1>15 DEF PushLands, PushRecords, PushExits, PushFails, Exits, End, Continues, repoVars
  <2>2. Executed'
    BY <1>1, <1>2, <1>3, <1>15, <2>1 DEF Executed, Fetched
  <2> QED
    BY <1>9, <1>10, <1>12, <1>15, <2>2 DEF WorkInv, TypeOK, Planned, Executing
<1> QED
  BY <1>5, <1>11, <1>13, <1>14, <1>15

LEMMA WorkFinish == WorkInv /\ Finish => WorkInv'
<1> SUFFICES ASSUME WorkInv, Finish PROVE WorkInv'
  OBVIOUS
<1>1. RepositoryTyped /\ SyncTyped /\ Targeted /\ pc = "finish"
  BY DEF WorkInv, TypeOK, Finish
<1>2. /\ UNCHANGED <<heads, current, remotes, dirty, busy, tracking, remote, syncVars,
                     cancelled, outside>>
      /\ pc' = "idle" /\ outcome' \in {"Completed", "Failed"}
      /\ upstream' \in {upstream, [upstream EXCEPT ![target.branch] =
                                     [remote |-> target.remote, name |-> target.branch]]}
  BY DEF Finish, End
<1>3. [remote |-> target.remote, name |-> target.branch] \in Upstreams
  BY <1>1 DEF Targeted, Upstreams
<1>4. RepositoryTyped'
  BY <1>1, <1>2, <1>3 DEF RepositoryTyped
<1>5. SyncTyped'
  BY <1>1, <1>2, SyncKept DEF PCs
<1> QED
  BY <1>2, <1>4, <1>5, WorkEnds DEF TypeOK

-----------------------------------------------------------------------------
(* Everyone else, and all steps.                                           *)

LEMMA WorkOthersPush ==
  WorkInv /\ (\E r \in Remotes, n \in Names : OthersPush(r, n) \/ OthersDelete(r, n)) => WorkInv'
<1> SUFFICES ASSUME WorkInv, NEW r \in Remotes, NEW n \in Names,
                    OthersPush(r, n) \/ OthersDelete(r, n)
             PROVE  WorkInv'
  OBVIOUS
<1>1. RepositoryTyped /\ SyncTyped
  BY DEF WorkInv, TypeOK
<1>2. UNCHANGED <<repoVars, pc, syncVars, cancelled, outcome>> /\ outside' = outside + 1
  BY DEF OthersPush, OthersDelete, Outside
<1>3. remote' \in [Remotes -> [Names -> History]]
  <2> DEFINE pushed  == [remote[r] EXCEPT ![n] = Append(remote[r][n], NewChange)]
             deleted == [remote[r] EXCEPT ![n] = Absent]
  <2>1. \E row \in {pushed, deleted} : remote' = [remote EXCEPT ![r] = row]
    BY DEF OthersPush, OthersDelete
  <2>2. Append(remote[r][n], NewChange) \in History /\ Absent \in History
    BY <1>1, NothingTyped DEF RepositoryTyped, SyncTyped, NewChange, History
  <2>3. pushed \in [Names -> History] /\ deleted \in [Names -> History]
    BY <1>1, <2>2 DEF RepositoryTyped
  <2> HIDE DEF pushed, deleted
  <2> QED
    BY <1>1, <2>1, <2>3 DEF RepositoryTyped
<1>4. RepositoryTyped' /\ SyncTyped'
  BY <1>1, <1>2, <1>3 DEF RepositoryTyped, SyncTyped, repoVars, syncVars
<1> QED
  BY <1>2, <1>4 DEF WorkInv, TypeOK, Targeted, Planned, Counts, Rebasable, Executing, Executed,
                    HeadTip, Fetched, repoVars, syncVars

\* What other terminals do where Quiet lets them is not yet, or not any more, of
\* the plan.
LEMMA WorkElsewhere ==
  ASSUME Quiet
  PROVE  WorkInv /\ (\/ CommitElsewhere \/ EditElsewhere \/ OperationElsewhere
                     \/ (\E u \in Upstreams : UpstreamElsewhere(u))
                     \/ \E n \in Names : SwitchElsewhere(n)) => WorkInv'
<1> SUFFICES ASSUME WorkInv,
                    \/ CommitElsewhere \/ EditElsewhere \/ OperationElsewhere
                    \/ (\E u \in Upstreams : UpstreamElsewhere(u))
                    \/ \E n \in Names : SwitchElsewhere(n)
             PROVE  WorkInv'
  OBVIOUS
<1> DEFINE Elsewheres == \/ CommitElsewhere \/ EditElsewhere \/ OperationElsewhere
                         \/ (\E u \in Upstreams : UpstreamElsewhere(u))
           Switched   == \E n \in Names : SwitchElsewhere(n)
<1>1. RepositoryTyped /\ SyncTyped /\ Targeted /\ Planned
  BY DEF WorkInv, TypeOK
<1>2. UNCHANGED <<pc, syncVars, cancelled, outcome, remotes, tracking, remote>>
      /\ outside' = outside + 1
  BY DEF CommitElsewhere, EditElsewhere, OperationElsewhere, UpstreamElsewhere, SwitchElsewhere,
         Elsewhere, Outside
<1>3. pc \in {"idle", "fetching", "asking"} /\ (pc = "fetching" => current' = current)
  BY Quiet DEF CommitElsewhere, EditElsewhere, OperationElsewhere, UpstreamElsewhere,
               SwitchElsewhere, Elsewhere, Outside, Quiet
<1>4. RepositoryTyped'
  <2>1. CASE CommitElsewhere
    <3>1. Append(heads[current], NewChange) \in History
      BY <1>1, <2>1 DEF CommitElsewhere, Elsewhere, RepositoryTyped, SyncTyped, NewChange, History
    <3> QED
      BY <1>1, <1>2, <2>1, <3>1 DEF CommitElsewhere, RepositoryTyped
  <2>2. CASE EditElsewhere
    BY <1>1, <1>2, <2>2 DEF EditElsewhere, RepositoryTyped
  <2>3. CASE OperationElsewhere
    BY <1>1, <1>2, <2>3 DEF OperationElsewhere, RepositoryTyped
  <2>4. CASE \E u \in Upstreams : UpstreamElsewhere(u)
    BY <1>1, <1>2, <2>4 DEF UpstreamElsewhere, RepositoryTyped
  <2>5. CASE \E n \in Names : SwitchElsewhere(n)
    BY <1>1, <1>2, <2>5 DEF SwitchElsewhere, RepositoryTyped
  <2> QED
    BY <2>1, <2>2, <2>3, <2>4, <2>5
<1>5. SyncTyped'
  BY <1>1, <1>2 DEF SyncTyped, syncVars
<1>6. Targeted'
  BY <1>1, <1>2, <1>3 DEF Targeted, syncVars
<1>7. Planned'
  BY <1>1, <1>2, <1>3 DEF Planned, Counts, Rebasable, syncVars
<1> QED
  BY <1>2, <1>3, <1>4, <1>5, <1>6, <1>7 DEF WorkInv, TypeOK, Executing, Executed

LEMMA WorkIdle == WorkInv /\ (Cancel \/ Rest \/ UNCHANGED vars) => WorkInv'
<1> SUFFICES ASSUME WorkInv, Cancel \/ Rest \/ UNCHANGED vars PROVE WorkInv'
  OBVIOUS
<1>1. RepositoryTyped /\ SyncTyped
  BY DEF WorkInv, TypeOK
<1>2. UNCHANGED <<repoVars, remote, pc, syncVars, outcome, outside>> /\ cancelled' \in {TRUE, cancelled}
  BY DEF Cancel, Rest, vars
<1>3. RepositoryTyped' /\ SyncTyped'
  BY <1>1, <1>2, RepositoryKept DEF SyncTyped, syncVars
<1> QED
  BY <1>2, <1>3 DEF WorkInv, TypeOK, Targeted, Planned, Counts, Rebasable, Executing, Executed,
                    HeadTip, Fetched, repoVars, syncVars

LEMMA WorkStep == ASSUME Quiet PROVE WorkInv /\ [Next]_vars => WorkInv'
<1> SUFFICES ASSUME WorkInv, [Next]_vars PROVE WorkInv'
  OBVIOUS
<1>1. CASE Steps
  BY <1>1, WorkPlan, WorkCheck, WorkAsk, WorkAnswer, WorkExecute, WorkRebase, WorkFinish DEF Steps
<1>2. CASE Children
  BY <1>2, WorkFetch, WorkMerge, WorkRebase, WorkCheck, WorkPush DEF Children
<1>3. CASE Others
  BY <1>3, WorkOthersPush, WorkElsewhere, Quiet DEF Others
<1>4. CASE Start \/ Cancel \/ Rest \/ (\E confirms \in BOOLEAN : Answer(confirms)) \/ UNCHANGED vars
  BY <1>4, WorkStart, WorkIdle, WorkAnswer
<1> QED
  BY <1>1, <1>2, <1>3, <1>4 DEF Next

-----------------------------------------------------------------------------
(* What no step does.                                                      *)

\* The branch moves when it is fast-forwarded, rebased or committed to.
LEMMA HeadsMoves ==
  [Next]_vars => MergeEnds \/ RebaseEnds \/ CommitElsewhere \/ UNCHANGED heads
BY DEF Next, Start, Begin, Steps, Plan, CheckRebase, Ask, Verify, Execute, AbortRebase, Finish,
       Children, FetchEnds, FetchFails, MergeFails, RebaseStops, ReadFails, PushLands, PushRecords,
       PushExits, PushFails, Cancel, Rest, Answer, Others, OthersPush, OthersDelete, EditElsewhere,
       OperationElsewhere, UpstreamElsewhere, SwitchElsewhere, vars, repoVars

LEMMA WorkKept ==
  WorkInv /\ [Next]_vars => \A n \in Names : Changes(heads[n]) \subseteq Changes(heads'[n])
<1> SUFFICES ASSUME WorkInv, [Next]_vars, NEW n \in Names
             PROVE  Changes(heads[n]) \subseteq Changes(heads'[n])
  OBVIOUS
<1>1. RepositoryTyped /\ SyncTyped
  BY DEF WorkInv, TypeOK
<1>2. heads[n] \in Seq(Nat)
  BY <1>1 DEF RepositoryTyped, History
<1>3. CASE MergeEnds
  <2>1. pc = "merging" /\ IsPrefix(HeadTip, Fetched) /\ heads' = [heads EXCEPT ![current] = Fetched]
    BY <1>3 DEF MergeEnds
  <2>2. HeadTip \in Seq(Nat) /\ Fetched \in Seq(Nat)
    BY <2>1, ExecuteTips DEF History
  <2>3. Changes(HeadTip) \subseteq Changes(Fetched)
    <3>1. Len(HeadTip) <= Len(Fetched) /\ SubSeq(HeadTip, 1, Len(HeadTip)) = SubSeq(Fetched, 1, Len(HeadTip))
      BY <2>1 DEF IsPrefix
    <3>2. \A j \in 1..Len(HeadTip) : HeadTip[j] = Fetched[j]
      BY <2>2, <3>1
    <3>3. DOMAIN HeadTip = 1..Len(HeadTip) /\ DOMAIN Fetched = 1..Len(Fetched)
          /\ Len(HeadTip) \in Nat /\ Len(Fetched) \in Nat
      BY <2>2
    <3> QED
      BY <3>1, <3>2, <3>3 DEF Changes, ToSet
  <2> QED
    BY <1>1, <2>1, <2>3 DEF RepositoryTyped, HeadTip
<1>4. CASE RebaseEnds
  <2>1. pc = "rebasing" /\ heads' = [heads EXCEPT ![current] = Rebased(HeadTip, Fetched)]
    BY <1>4 DEF RebaseEnds
  <2>2. Changes(Only(HeadTip, Fetched)) \cap Merges = {}
    BY <2>1 DEF WorkInv, Planned, Rebasable, Executing
  <2>3. Changes(HeadTip) \subseteq Changes(Rebased(HeadTip, Fetched))
    BY <2>1, <2>2, ExecuteTips, RebaseKeeps
  <2> QED
    BY <1>1, <2>1, <2>3 DEF RepositoryTyped, HeadTip
<1>5. CASE CommitElsewhere
  <2>1. heads' = [heads EXCEPT ![current] = Append(heads[current], NewChange)] /\ current \in Names
    BY <1>1, <1>5 DEF CommitElsewhere, Elsewhere, RepositoryTyped
  <2>2. heads[current] \in Seq(Nat) /\ NewChange \in Nat
    BY <1>1, <2>1 DEF RepositoryTyped, SyncTyped, History, NewChange
  <2>3. Changes(heads[current]) \subseteq Changes(Append(heads[current], NewChange))
    BY <2>2 DEF Changes, ToSet
  <2> QED
    BY <1>1, <2>1, <2>3 DEF RepositoryTyped
<1>6. CASE UNCHANGED heads
  BY <1>6
<1> QED
  BY <1>3, <1>4, <1>5, <1>6, HeadsMoves

\* Only Finish reports a completed Sync.
LEMMA CompletedFinishes == WorkInv /\ [Next]_vars /\ EndsWith("Completed") => Finish
<1> SUFFICES ASSUME WorkInv, [Next]_vars, pc # "idle", pc' = "idle", outcome' = "Completed"
             PROVE  Finish
  BY DEF EndsWith
<1> USE DEF End, Continues, Exits, Spawns
<1>1. CASE Steps
  <2>1. CASE Execute
    BY <2>1 DEF Execute, PushSpawns
  <2>2. CASE AbortRebase
    BY <2>2 DEF AbortRebase, WorkInv, Executing
  <2>3. CASE Plan \/ CheckRebase \/ Ask \/ Verify
    BY <2>3 DEF Plan, CheckRebase, Ask, Verify
  <2> QED
    BY <1>1, <2>1, <2>2, <2>3 DEF Steps
<1>2. CASE Children
  BY <1>2 DEF Children, FetchEnds, FetchFails, MergeEnds, MergeFails, RebaseEnds, PushSpawns,
              RebaseStops, ReadFails, PushLands, PushRecords, PushExits, PushFails
<1>3. CASE Others
  BY <1>3 DEF Others, OthersPush, OthersDelete, CommitElsewhere, EditElsewhere,
              OperationElsewhere, UpstreamElsewhere, SwitchElsewhere, Elsewhere, Outside
<1>4. CASE Start \/ Cancel \/ Rest \/ (\E confirms \in BOOLEAN : Answer(confirms)) \/ UNCHANGED vars
  BY <1>4 DEF Start, Begin, Cancel, Rest, Answer, vars
<1> QED
  BY <1>1, <1>2, <1>3, <1>4 DEF Next

LEMMA CompletedTogether ==
  WorkInv /\ [Next]_vars /\ EndsWith("Completed") =>
    /\ heads'[target.branch] = tracking'[target.remote][target.branch]
    /\ target.original.name # target.branch =>
         upstream'[target.branch] = [remote |-> target.remote, name |-> target.branch]
<1> SUFFICES ASSUME WorkInv, Finish, outcome' = "Completed"
             PROVE  /\ heads'[target.branch] = tracking'[target.remote][target.branch]
                    /\ target.original.name # target.branch =>
                         upstream'[target.branch] = [remote |-> target.remote, name |-> target.branch]
  BY CompletedFinishes DEF EndsWith
<1>1. pc = "finish" /\ Targeted /\ Executed /\ RepositoryTyped
  BY DEF Finish, WorkInv, TypeOK
<1>2. heads' = heads /\ tracking' = tracking
  BY DEF Finish
<1>3. heads'[target.branch] = tracking'[target.remote][target.branch]
  BY <1>1, <1>2 DEF Executed, Fetched
<1>4. target.establish =>
        upstream'[target.branch] = [remote |-> target.remote, name |-> target.branch]
  BY <1>1 DEF Finish, End, SetsUpstream, Executed, Targeted, RepositoryTyped
<1> QED
  BY <1>1, <1>3, <1>4 DEF Targeted

LEMMA UpstreamFollows ==
  WorkInv /\ [Next]_vars /\ upstream' # upstream /\ pc # pc' =>
    /\ target.establish
    /\ heads'[target.branch] = tracking'[target.remote][target.branch]
<1> SUFFICES ASSUME WorkInv, [Next]_vars, upstream' # upstream, pc # pc'
             PROVE  /\ target.establish
                    /\ heads'[target.branch] = tracking'[target.remote][target.branch]
  OBVIOUS
<1>1. PushRecords \/ Finish
  BY DEF Next, Start, Begin, Steps, Plan, CheckRebase, Ask, Verify, Execute, AbortRebase,
         Children, FetchEnds, FetchFails, MergeEnds, MergeFails, RebaseEnds, RebaseStops, ReadFails,
         PushLands, PushExits, PushFails, Cancel, Rest, Answer, Others, OthersPush, OthersDelete,
         CommitElsewhere, EditElsewhere, OperationElsewhere, UpstreamElsewhere, SwitchElsewhere,
         Elsewhere, Outside, vars, repoVars
<1>2. RepositoryTyped /\ Targeted /\ Executing /\ Executed
  BY DEF WorkInv, TypeOK
<1>3. CASE PushRecords
  <2>1. pc = "landed" /\ heads' = heads /\ target.establish
        /\ tracking' = [tracking EXCEPT ![target.remote][target.branch] = pushing.tip]
    BY <1>3 DEF PushRecords
  <2> QED
    BY <1>2, <2>1 DEF RepositoryTyped, Targeted, Executing
<1>4. CASE Finish
  <2>1. pc = "finish" /\ heads' = heads /\ tracking' = tracking /\ target.establish
    BY <1>4 DEF Finish, SetsUpstream
  <2> QED
    BY <1>2, <2>1 DEF Executed, Fetched
<1> QED
  BY <1>1, <1>3, <1>4

\* Outside the windows left to other terminals by Quiet: no commit of the user is
\* lost to a fast-forward or a rebase and no edit to its abort, a Sync that completes
\* leaves the branch and its target at one commit, and Sync changes the upstream
\* only where the plan succeeded, be it that a cancellation is told afterwards.
\* (operation.rs: apply_sync_after_fetch; sync_target.rs.)
THEOREM WorkSurvivesSync == ASSUME Quiet PROVE Spec => WorkAndUpstreamKept
<1>1. WorkInv /\ [Next]_vars => WorkInv'
  BY WorkStep, Quiet
<1>2. WorkInv => TypeOK
  BY DEF WorkInv
<1>3. Spec => []TypeOK
  BY <1>1, <1>2, WorkInit, PTL DEF Spec
<1>4. Spec => LocalWorkKept
  BY <1>1, WorkInit, WorkKept, PTL DEF Spec, LocalWorkKept
<1>5. Spec => CompletedAgrees
  BY <1>1, WorkInit, CompletedTogether, PTL DEF Spec, CompletedAgrees
<1>6. Spec => UpstreamAfterSuccess
  BY <1>1, WorkInit, UpstreamFollows, PTL DEF Spec, UpstreamAfterSuccess
<1>7. Spec => EditsKept
  <2>1. Init => RebaseInv /\ RebaseClean
    BY DEF Init, RebaseInv, NoRebaseLeft, RebaseClean, None
  <2>2. RebaseInv /\ RebaseClean /\ [Next]_vars => (RebaseInv /\ RebaseClean)'
    BY RebaseStep, CleanStep, Quiet
  <2> QED
    BY <2>1, <2>2, EditsStay, PTL DEF Spec, EditsKept
<1> QED
  BY <1>3, <1>4, <1>5, <1>6, <1>7 DEF WorkAndUpstreamKept
=============================================================================
