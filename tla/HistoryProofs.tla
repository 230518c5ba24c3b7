---------------------------- MODULE HistoryProofs ----------------------------
(***************************************************************************)
(* Proofs about History, for every repository and any number of steps.     *)
(*                                                                         *)
(* The handlers of HistoryActivity are operators on its state, so what each *)
(* preserves is a lemma about the operator, and an action only has to say   *)
(* which handlers it calls.  The first theorem needs only what belongs to   *)
(* which selection; the second also where every query is.                   *)
(***************************************************************************)
EXTENDS History, RetainingProofs, SequenceTheorems

-----------------------------------------------------------------------------
(* The inductive invariant.                                                *)

\* Files, hunks and the document of one half belong to its selection.
Belongs(s, files, hunks, d) ==
  /\ files = hunks /\ files \in {None, s.commit}
  /\ d # NoDocument => d.selection = s /\ d.hunks = s.commit /\ d.patch \in {NoSelection, s}

\* Each half belongs to one selection; a pending file without pending lists is
\* one of the committed commit, whose lists it uses.
Consistent(a) ==
  LET p == a.pending IN
  /\ Belongs(a.selection, a.files, a.hunks, a.document)
  /\ Belongs(p.selection, p.files, p.hunks, p.document)
  /\ p.document # NoDocument => p.selection # NoSelection
  /\ p.files = None /\ (p.selection.file # None \/ p.document # NoDocument) =>
       p.selection.commit = a.selection.commit

\* While the text of a file can always be read no query for one fails.
FilesRead == \A i \in DOMAIN events : events[i].kind = "File" => events[i].ok

\* The files on screen are those of the selected commit, once a frame showed any.
RowsMatch == rows.files # None /\ activity.selection # NoSelection => rows.files = activity.files

SelectionInv == Consistent(activity) /\ ReviewMatchesPickers /\ RowsMatch /\ FilesRead

-----------------------------------------------------------------------------
(* The parts of the state.                                                  *)

LEMMA Constants ==
  /\ None \notin Commits /\ Unborn \notin Commits
  /\ None \in OfCommit /\ None \in FileNames \cup {None} /\ None \notin FileNames
  /\ Unborn \in Heads
  /\ \A h \in Heads : Log[h] \in Seq(Commits)
  /\ StartHead \in Heads
  <1>1. \A T : \A s \in Seq(T \ {None}) : \A i \in DOMAIN s : s[i] # None
    OBVIOUS
  <1>2. ASSUME NEW c \in Commits PROVE None \notin ToSet(FilesOf[c])
    <2>1. FilesOf[c] \in Seq(ToSet(FilesOf[c]) \ {None})
      BY HistoryAssumption
    <2>2. \A i \in DOMAIN FilesOf[c] : FilesOf[c][i] # None
      BY <1>1, <2>1
    <2> QED BY <2>2 DEF ToSet
  <1> QED BY <1>2, HistoryAssumption DEF OfCommit, FileNames, Heads

LEMMA ListedFile ==
  ASSUME NEW c \in Commits
  PROVE  /\ \A f \in ToSet(FilesOf[c]) : f \in FileNames /\ f # None
         /\ FilesOf[c] # <<>> => FilesOf[c][1] \in ToSet(FilesOf[c])
  <1>1. FilesOf[c] \in Seq(ToSet(FilesOf[c]) \ {None})
    BY HistoryAssumption
  <1>2. FilesOf[c] # <<>> => 1 \in DOMAIN FilesOf[c]
    BY <1>1
  <1>3. \A f \in ToSet(FilesOf[c]) : f \in FileNames /\ f # None
    BY Constants DEF FileNames
  <1> QED BY <1>2, <1>3 DEF ToSet

LEMMA SelectionTypes ==
  /\ NoSelection \in Selections
  /\ NoSelection.commit = None /\ NoSelection.file = None
  /\ \A c \in Commits : Complete(c) \in Selections /\ Complete(c).commit = c /\ Complete(c).file = None
  /\ \A c \in Commits : \A f \in FileNames \cup {None} :
       FileOf(c, f) \in Selections /\ FileOf(c, f).commit = c /\ FileOf(c, f).file = f
  /\ \A s \in Selections : /\ s.commit \in OfCommit /\ s.file \in FileNames \cup {None}
                           /\ s # NoSelection => s.commit \in Commits /\ s = FileOf(s.commit, s.file)
  BY Constants DEF Selections, NoSelection, Complete, FileOf, OfCommit

LEMMA DocumentTypes ==
  /\ NoDocument \in Reviews
  /\ \A d \in Reviews : d.selection \in Selections /\ d.patch \in Selections /\ d.hunks \in OfCommit
  /\ \A s, q \in Selections : \A h \in OfCommit :
       LET d == [selection |-> s, patch |-> q, hunks |-> h]
       IN d \in Reviews /\ d.selection = s /\ d.patch = q /\ d.hunks = h
  /\ NoDocument.selection = NoSelection
  BY SelectionTypes, Constants DEF Reviews, NoDocument

LEMMA PendingTypes ==
  /\ NothingPending \in Pendings
  /\ NothingPending.files = None /\ NothingPending.hunks = None
  /\ NothingPending.document = NoDocument /\ NothingPending.selection = NoSelection
  /\ NothingPending.commits = <<>> /\ NothingPending.mode = None
  BY DocumentTypes, SelectionTypes, Constants DEF Pendings, NothingPending

LEMMA PendingFields ==
  ASSUME NEW p \in Pendings
  PROVE  /\ p.commits \in Seq(Commits) /\ p.files \in OfCommit /\ p.hunks \in OfCommit
         /\ p.document \in Reviews /\ p.selection \in Selections /\ p.mode \in Modes \cup {None}
  BY DEF Pendings

LEMMA PendingSelects ==
  ASSUME NEW p \in Pendings, NEW s \in Selections, NEW d \in Reviews
  PROVE  LET b == [p EXCEPT !.selection = s, !.document = d]
         IN /\ b \in Pendings /\ b.selection = s /\ b.document = d
            /\ b.files = p.files /\ b.hunks = p.hunks /\ b.commits = p.commits /\ b.mode = p.mode
  BY DEF Pendings

LEMMA ActivityFields ==
  ASSUME NEW a \in Activities
  PROVE  /\ a.head \in Heads /\ a.commits \in Seq(Commits) /\ a.files \in OfCommit
         /\ a.hunks \in OfCommit /\ a.document \in Reviews /\ a.selection \in Selections
         /\ a.mode \in Modes /\ a.cached \subseteq Selections /\ a.pending \in Pendings
         /\ a.waiting \subseteq Kinds /\ a.queued \in Seq(Queries)
         /\ a.latest \in [Kinds -> Nat] /\ a.next \in Nat
  BY DEF Activities

LEMMA WithoutType ==
  ASSUME NEW q \in Seq(Queries), NEW K
  PROVE  Without(q, K) \in Seq(Queries)
  BY RetainedElements DEF Without

\* What a handler that only asks leaves alone.
Keeps(a, b) ==
  /\ b.head = a.head /\ b.commits = a.commits /\ b.files = a.files /\ b.hunks = a.hunks
  /\ b.document = a.document /\ b.selection = a.selection /\ b.mode = a.mode
  /\ b.cached = a.cached

LEMMA RequestKeeps ==
  ASSUME NEW a \in Activities, NEW kind \in Kinds, NEW obsolete \in SUBSET Kinds,
         NEW selection \in Selections
  PROVE  LET b == Request(a, kind, obsolete, selection)
         IN b \in Activities /\ Keeps(a, b) /\ b.pending = a.pending
  <1> DEFINE id == a.next + 1
             q == [kind |-> kind, id |-> id, selection |-> selection]
             queue == Append(Without(a.queued, obsolete), q)
             latest == [a.latest EXCEPT ![kind] = id]
             waiting == (a.waiting \ obsolete) \cup {kind}
  <1>1. id \in Nat /\ q \in Queries /\ latest \in [Kinds -> Nat] /\ waiting \subseteq Kinds
    BY ActivityFields DEF Queries
  <1>2. queue \in Seq(Queries)
    BY <1>1, ActivityFields, WithoutType
  <1>3. Request(a, kind, obsolete, selection) =
          [a EXCEPT !.next = id, !.latest = latest, !.waiting = waiting, !.queued = queue]
    BY DEF Request, Activities
  <1> HIDE DEF id, q, queue, latest, waiting
  <1> QED BY <1>1, <1>2, <1>3 DEF Activities, Keeps

LEMMA RequestPatchKeeps ==
  ASSUME NEW a \in Activities, NEW c \in Commits
  PROVE  LET b == RequestPatch(a, c)
         IN /\ b \in Activities /\ Keeps(a, b)
            /\ b.pending.files = None /\ b.pending.hunks = None /\ b.pending.document = NoDocument
            /\ b.pending.selection = Complete(c) /\ b.pending.commits = a.pending.commits
  <1> DEFINE r == Request(a, "Patch", {"Patch", "File"}, Complete(c))
             p == [NothingPending EXCEPT !.commits = a.pending.commits,
                                         !.selection = Complete(c), !.mode = "Hunk"]
  <1>1. r \in Activities /\ Keeps(a, r)
    BY RequestKeeps, SelectionTypes DEF Kinds, OfCommit
  <1>2. /\ p \in Pendings /\ p.files = None /\ p.hunks = None /\ p.document = NoDocument
        /\ p.selection = Complete(c) /\ p.commits = a.pending.commits
    BY PendingTypes, ActivityFields, PendingFields, SelectionTypes DEF Pendings, Modes, OfCommit
  <1>3. RequestPatch(a, c) = [r EXCEPT !.pending = p]
    BY DEF RequestPatch
  <1> HIDE DEF r, p
  <1> QED BY <1>1, <1>2, <1>3 DEF Activities, Keeps

LEMMA RequestHistoryKeeps ==
  ASSUME NEW a \in Activities
  PROVE  LET b == RequestHistory(a)
         IN b \in Activities /\ Keeps(a, b) /\ b.pending = a.pending
  BY RequestKeeps, SelectionTypes DEF RequestHistory, Kinds

LEMMA RequestFileKeeps ==
  ASSUME NEW a \in Activities, NEW s \in Selections
  PROVE  LET b == RequestFile(a, s)
         IN /\ b \in Activities /\ Keeps(a, b)
            /\ b.pending = [a.pending EXCEPT !.selection = s, !.document = NoDocument]
            /\ b.pending \in Pendings
  <1> DEFINE r == Request(a, "File", {"File"}, s)
             p == [a.pending EXCEPT !.selection = s, !.document = NoDocument]
  <1>1. r \in Activities /\ Keeps(a, r) /\ r.pending = a.pending
    BY RequestKeeps DEF Kinds
  <1>2. p \in Pendings
    BY ActivityFields, DocumentTypes, PendingSelects
  <1>3. RequestFile(a, s) = [r EXCEPT !.pending = p]
    BY <1>1, ActivityFields DEF RequestFile, Activities, Pendings
  <1> HIDE DEF r, p
  <1>4. RequestFile(a, s).pending = p
    BY <1>1, <1>3 DEF Activities
  <1> QED BY <1>1, <1>2, <1>3, <1>4 DEF Activities, Keeps, p

-----------------------------------------------------------------------------
(* The handlers.                                                           *)

\* No other commit is pending than the one a file is selected of.
OfSameCommit(a, c) ==
  /\ c \in Commits
  /\ a.pending.selection.commit \in {None, c}
  /\ a.pending.files = None => c = a.selection.commit

LEMMA SupersedeKeeps ==
  ASSUME NEW a \in Activities, NEW s \in Selections, OfSameCommit(a, s.commit)
  PROVE  LET b == Supersede(a, s)
         IN b \in Activities /\ Keeps(a, b) /\ b.pending = a.pending
  <1> DEFINE q == Without(a.queued, {"File"})
             w == a.waiting \ {"File"}
  <1>1. CASE a.pending.selection \in {NoSelection, s}
    BY <1>1 DEF Supersede, Keeps
  <1>2. CASE a.pending.selection \notin {NoSelection, s}
    <2>1. a.pending.selection.commit = s.commit
      BY <1>2, ActivityFields, PendingFields, SelectionTypes, Constants DEF OfSameCommit
    <2>2. Supersede(a, s) = [a EXCEPT !.waiting = w, !.queued = q]
      BY <1>2, <2>1 DEF Supersede, Activities
    <2>3. q \in Seq(Queries) /\ w \subseteq Kinds
      BY ActivityFields, WithoutType
    <2> HIDE DEF q, w
    <2> QED BY <2>2, <2>3 DEF Activities, Keeps
  <1> QED BY <1>1, <1>2

\* What a handler that leaves the committed half alone keeps.
LEMMA KeepsConsistent ==
  ASSUME NEW a \in Activities, NEW b \in Activities, Keeps(a, b),
         Consistent(a), b.pending = a.pending
  PROVE  Consistent(b)
  BY DEF Keeps, Consistent

LEMMA SelectFileKeeps ==
  ASSUME NEW a \in Activities, Consistent(a), NEW c, OfSameCommit(a, c),
         NEW f \in FileNames, NEW mode \in Modes
  PROVE  LET b == SelectFile(a, c, f, mode)
         IN b \in Activities /\ Keeps(a, b) /\ Consistent(b)
  <1> DEFINE s == FileOf(c, f)
             kept == Supersede(a, s)
             listed == OrElse(kept.pending.files, None, kept.files)
             b == [kept EXCEPT !.pending.mode = mode]
             hunks == OrElse(b.pending.hunks, None, b.hunks)
             patch == IF s \in b.cached THEN s ELSE NoSelection
             d == [selection |-> s, hunks |-> hunks, patch |-> patch]
             p == a.pending
  <1>1. c \in Commits /\ s \in Selections /\ s.commit = c /\ s.file = f /\ s # NoSelection
    BY SelectionTypes, Constants DEF OfSameCommit
  <1>2. kept \in Activities /\ Keeps(a, kept) /\ kept.pending = p
    <2> HIDE DEF s
    <2> QED BY <1>1, SupersedeKeeps
  <1>3. /\ p \in Pendings /\ p.files = p.hunks /\ p.files \in {None, c}
        /\ p.files = None => c = a.selection.commit
        /\ a.files = a.hunks /\ a.files \in {None, a.selection.commit}
    BY ActivityFields, PendingFields, Constants DEF Consistent, Belongs, OfSameCommit
  <1> DEFINE pb == [p EXCEPT !.mode = mode]
  <1>4. /\ pb \in Pendings /\ pb.selection = p.selection /\ pb.document = p.document
        /\ pb.files = p.files /\ pb.hunks = p.hunks
    BY <1>3 DEF Pendings
  <1>5. b = [kept EXCEPT !.pending = pb]
    BY <1>2 DEF Activities, Pendings
  <1>6. b \in Activities /\ Keeps(a, b) /\ b.pending = pb
    <2> HIDE DEF b, kept, pb
    <2> QED BY <1>2, <1>4, <1>5 DEF Activities, Keeps
  <1>7. CASE listed = None \/ f \notin ToSet(FilesOf[listed])
    <2>1. SelectFile(a, c, f, mode) = kept
      BY <1>7 DEF SelectFile
    <2> HIDE DEF kept
    <2> QED BY <1>2, <2>1, KeepsConsistent
  <1>8. CASE listed # None /\ f \in ToSet(FilesOf[listed]) /\ mode # "Hunk" /\ s \notin b.cached
    <2> DEFINE r == RequestFile(b, s)
    <2>1. SelectFile(a, c, f, mode) = r
      BY <1>8 DEF SelectFile
    <2> HIDE DEF b, pb, s
    <2>2. /\ r \in Activities /\ Keeps(b, r) /\ r.pending \in Pendings
          /\ r.pending = [pb EXCEPT !.selection = s, !.document = NoDocument]
      BY <1>1, <1>6, RequestFileKeeps
    <2>3. /\ r.pending.selection = s /\ r.pending.document = NoDocument
          /\ r.pending.files = p.files /\ r.pending.hunks = p.hunks
      <3>1. NoDocument \in Reviews
        BY DocumentTypes
      <3> QED BY <1>1, <1>4, <2>2, <3>1 DEF Pendings
    <2> HIDE DEF r
    <2>4. Keeps(a, r)
      BY <1>6, <2>2 DEF Keeps
    <2>5. Consistent(r)
      BY <1>1, <1>3, <2>3, <2>4 DEF Consistent, Belongs, Keeps
    <2> QED BY <2>1, <2>2, <2>4, <2>5
  <1>9. CASE /\ listed # None /\ f \in ToSet(FilesOf[listed])
             /\ ~(mode # "Hunk" /\ s \notin b.cached)
    <2> DEFINE ps == [pb EXCEPT !.selection = s, !.document = d]
               r == [b EXCEPT !.pending = ps]
    <2>1. SelectFile(a, c, f, mode) = [b EXCEPT !.pending.selection = s, !.pending.document = d]
      BY <1>9 DEF SelectFile
    <2>2. hunks = c /\ patch \in {NoSelection, s} /\ patch \in Selections
      <3>1. listed = OrElse(p.files, None, a.files) /\ hunks = OrElse(p.hunks, None, a.hunks)
        <4> HIDE DEF kept, pb, b
        <4> QED BY <1>2, <1>4, <1>6 DEF Keeps, OrElse
      <3>2. hunks = c
        BY <1>3, <1>9, <3>1 DEF OrElse
      <3> QED BY <1>1, <3>2, SelectionTypes
    <2> HIDE DEF hunks, patch
    <2>3. d \in Reviews /\ d.selection = s /\ d.patch = patch /\ d.hunks = c
      BY <1>1, <2>2, DocumentTypes DEF OfCommit
    <2> HIDE DEF d, b, pb, s
    <2>4. /\ ps \in Pendings /\ ps.selection = s /\ ps.document = d
          /\ ps.files = p.files /\ ps.hunks = p.hunks
      <3>1. s \in Selections /\ d \in Reviews /\ pb \in Pendings
        BY <1>1, <1>4, <2>3
      <3>2. /\ ps \in Pendings /\ ps.selection = s /\ ps.document = d
            /\ ps.files = pb.files /\ ps.hunks = pb.hunks
        BY <3>1 DEF Pendings
      <3> HIDE DEF ps
      <3> QED BY <1>4, <3>2
    <2>5. [b EXCEPT !.pending.selection = s, !.pending.document = d] = r
      BY <1>6 DEF Activities, Pendings
    <2> HIDE DEF ps
    <2>6. r \in Activities /\ Keeps(a, r) /\ r.pending = ps
      BY <1>6, <2>4 DEF Activities, Keeps
    <2> HIDE DEF r
    <2>7. Consistent(r)
      BY <1>1, <1>3, <2>2, <2>3, <2>4, <2>6 DEF Consistent, Belongs, Keeps
    <2> QED BY <2>1, <2>5, <2>6, <2>7
  <1> QED BY <1>7, <1>8, <1>9

LEMMA SetReviewModeConsistent ==
  ASSUME NEW a \in Activities, Consistent(a), NEW mode \in Modes
  PROVE  LET b == SetReviewMode(a, mode)
         IN b \in Activities /\ Consistent(b) /\ b.selection = a.selection /\ b.files = a.files
  <1> DEFINE s == OrElse(a.pending.selection, NoSelection, a.selection)
  <1>1. s \in Selections
    BY ActivityFields, PendingFields DEF OrElse
  <1>2. CASE ReviewMode(a) = mode
    BY <1>2 DEF SetReviewMode
  <1>3. CASE ReviewMode(a) # mode /\ s.file = None
    <2>1. SetReviewMode(a, mode) = [a EXCEPT !.mode = mode]
      BY <1>3 DEF SetReviewMode
    <2> QED BY <2>1 DEF Activities, Consistent
  <1>4. CASE ReviewMode(a) # mode /\ s.file # None
    <2>1. SetReviewMode(a, mode) = SelectFile(a, s.commit, s.file, mode)
      BY <1>4 DEF SetReviewMode
    <2>2. s.commit \in Commits /\ s.file \in FileNames
      BY <1>1, <1>4, SelectionTypes
    <2>3. OfSameCommit(a, s.commit)
      <3>1. CASE a.pending.selection = NoSelection
        <4>1. s = a.selection
          BY <3>1 DEF OrElse
        <4> QED BY <2>2, <3>1, <4>1, SelectionTypes DEF OfSameCommit
      <3>2. CASE a.pending.selection # NoSelection
        <4>1. s = a.pending.selection
          BY <3>2 DEF OrElse
        <4> QED BY <1>4, <2>2, <4>1 DEF OfSameCommit, Consistent
      <3> QED BY <3>1, <3>2
    <2> HIDE DEF s
    <2>4. LET b == SelectFile(a, s.commit, s.file, mode)
          IN b \in Activities /\ Keeps(a, b) /\ Consistent(b)
      BY <2>2, <2>3, SelectFileKeeps
    <2> QED BY <2>1, <2>4 DEF Keeps
  <1> QED BY <1>2, <1>3, <1>4

LEMMA RequestPatchConsistent ==
  ASSUME NEW a \in Activities, Consistent(a), NEW c \in Commits
  PROVE  LET b == RequestPatch(a, c)
         IN b \in Activities /\ Consistent(b) /\ b.selection = a.selection /\ b.files = a.files
  <1> DEFINE b == RequestPatch(a, c)
  <1>1. /\ b \in Activities /\ Keeps(a, b)
        /\ b.pending.files = None /\ b.pending.hunks = None /\ b.pending.document = NoDocument
        /\ b.pending.selection = Complete(c)
    BY RequestPatchKeeps
  <1>2. Complete(c).file = None
    BY SelectionTypes
  <1> HIDE DEF b
  <1>3. Consistent(b)
    BY <1>1, <1>2 DEF Consistent, Belongs, Keeps
  <1> QED BY <1>1, <1>3 DEF Keeps, b

LEMMA RequestHistoryConsistent ==
  ASSUME NEW a \in Activities, Consistent(a)
  PROVE  LET b == RequestHistory(a)
         IN b \in Activities /\ Consistent(b) /\ b.selection = a.selection /\ b.files = a.files
  BY RequestHistoryKeeps, KeepsConsistent DEF Keeps

LEMMA RepositoryChangedConsistent ==
  ASSUME NEW a \in Activities, Consistent(a), NEW h \in Heads
  PROVE  LET b == RepositoryChanged(a, h)
         IN b \in Activities /\ Consistent(b) /\ b.selection = a.selection /\ b.files = a.files
  <1> DEFINE b == [a EXCEPT !.head = h, !.pending = NothingPending,
                            !.waiting = @ \ {"Patch", "File"}]
  <1>1. /\ b \in Activities /\ b.pending = NothingPending
        /\ b.selection = a.selection /\ b.files = a.files /\ b.hunks = a.hunks
        /\ b.document = a.document
    BY PendingTypes DEF Activities
  <1>2. RepositoryChanged(a, h) = IF h = a.head THEN a ELSE RequestHistory(b)
    BY DEF RepositoryChanged
  <1> HIDE DEF b
  <1>3. Consistent(b)
    BY <1>1, PendingTypes, SelectionTypes DEF Consistent, Belongs
  <1> QED BY <1>1, <1>2, <1>3, RequestHistoryConsistent

LEMMA WaitedKeeps ==
  ASSUME NEW a \in Activities, NEW kind
  PROVE  LET b == [a EXCEPT !.waiting = @ \ {kind}]
         IN b \in Activities /\ Keeps(a, b) /\ b.pending = a.pending
  BY DEF Activities, Keeps

LEMMA AcceptHistoryConsistent ==
  ASSUME NEW a \in Activities, Consistent(a), NEW e \in Events
  PROVE  LET b == AcceptHistory(a, e)
         IN /\ b \in Activities /\ Consistent(b) /\ b.selection \in {a.selection, NoSelection}
            /\ b.selection # NoSelection => b.files = a.files
  <1> DEFINE b == [a EXCEPT !.waiting = @ \ {"History"}]
             Current == Answers(a, "History", e) /\ e.head = a.head
  <1>1. e.commits \in Seq(Commits)
    BY DEF Events
  <1>2. b \in Activities /\ Keeps(a, b) /\ b.pending = a.pending /\ Consistent(b)
    <2>1. b \in Activities /\ Keeps(a, b) /\ b.pending = a.pending
      BY WaitedKeeps
    <2> HIDE DEF b
    <2> QED BY <2>1, KeepsConsistent
  <1>3. CASE ~Current
    BY <1>3 DEF AcceptHistory
  <1>4. CASE Current /\ e.commits = <<>>
    <2> DEFINE p == [NothingPending EXCEPT !.mode = b.pending.mode]
               r == [b EXCEPT !.commits = <<>>, !.files = None, !.hunks = None,
                              !.document = NoDocument, !.selection = NoSelection,
                              !.cached = {}, !.pending = p]
    <2>1. AcceptHistory(a, e) = r
      BY <1>4 DEF AcceptHistory
    <2> HIDE DEF b
    <2>2. /\ p \in Pendings /\ p.files = None /\ p.hunks = None
          /\ p.document = NoDocument /\ p.selection = NoSelection
      BY <1>2, ActivityFields, PendingFields, PendingTypes DEF Pendings
    <2> HIDE DEF p
    <2>3. /\ r \in Activities /\ r.pending = p /\ r.files = None /\ r.hunks = None
          /\ r.document = NoDocument /\ r.selection = NoSelection
      <3>1. /\ NoSelection \in Selections /\ NoDocument \in Reviews /\ None \in OfCommit
            /\ <<>> \in Seq(Commits) /\ {} \in SUBSET Selections
        BY SelectionTypes, DocumentTypes, Constants
      <3> QED BY <1>2, <2>2, <3>1 DEF Activities
    <2> HIDE DEF r
    <2>4. Consistent(r)
      BY <2>2, <2>3, SelectionTypes DEF Consistent, Belongs
    <2> QED BY <2>1, <2>3, <2>4
  <1>5. CASE Current /\ e.commits # <<>>
    <2>1. CASE a.selection.commit \in ToSet(e.commits)
      <3>1. AcceptHistory(a, e) = [b EXCEPT !.commits = e.commits]
        BY <1>5, <2>1 DEF AcceptHistory
      <3> HIDE DEF b
      <3> QED BY <1>1, <1>2, <3>1 DEF Activities, Consistent, Keeps
    <2>2. CASE a.selection.commit \notin ToSet(e.commits)
      <3> DEFINE p == [b.pending EXCEPT !.commits = e.commits]
                 r == [b EXCEPT !.pending = p]
                 c == e.commits[1]
      <3>1. AcceptHistory(a, e) = RequestPatch([b EXCEPT !.pending.commits = e.commits], c)
        BY <1>5, <2>2 DEF AcceptHistory
      <3> HIDE DEF b
      <3>2. [b EXCEPT !.pending.commits = e.commits] = r
        BY <1>2 DEF Activities, Pendings
      <3>3. /\ p \in Pendings /\ p.files = b.pending.files /\ p.hunks = b.pending.hunks
            /\ p.document = b.pending.document /\ p.selection = b.pending.selection
        BY <1>1, <1>2, ActivityFields DEF Pendings
      <3> HIDE DEF p
      <3>4. r \in Activities /\ Keeps(b, r) /\ r.pending = p
        BY <1>2, <3>3 DEF Activities, Keeps
      <3> HIDE DEF r
      <3>5. Consistent(r) /\ r.selection = a.selection /\ r.files = a.files
        BY <1>2, <3>3, <3>4 DEF Consistent, Keeps
      <3>6. c \in Commits
        BY <1>1, <1>5
      <3> HIDE DEF c
      <3> QED BY <3>1, <3>2, <3>4, <3>5, <3>6, RequestPatchConsistent
    <2> QED BY <2>1, <2>2
  <1> QED BY <1>3, <1>4, <1>5

LEMMA AcceptPatchConsistent ==
  ASSUME NEW a \in Activities, Consistent(a), NEW e \in Events
  PROVE  LET b == AcceptPatch(a, e)
         IN b \in Activities /\ Consistent(b) /\ b.selection = a.selection /\ b.files = a.files
  <1> DEFINE c == e.selection.commit
             b == [a EXCEPT !.waiting = @ \ {"Patch"}]
             s == IF FilesOf[c] = <<>> THEN Complete(c) ELSE FileOf(c, FilesOf[c][1])
             Wanted == a.pending.selection.commit = c /\ Summarised(a, c)
  <1>1. b \in Activities /\ Keeps(a, b) /\ b.pending = a.pending /\ Consistent(b)
    <2>1. b \in Activities /\ Keeps(a, b) /\ b.pending = a.pending
      BY WaitedKeeps
    <2> HIDE DEF b
    <2>2. Consistent(b)
      BY <2>1, KeepsConsistent
    <2> QED BY <2>1, <2>2
  <1>2. CASE ~Answers(a, "Patch", e)
    BY <1>2 DEF AcceptPatch
  <1>3. CASE Answers(a, "Patch", e) /\ ~Wanted
    <2>1. AcceptPatch(a, e) = b
      BY <1>3 DEF AcceptPatch
    <2> HIDE DEF b
    <2> QED BY <1>1, <2>1 DEF Keeps
  <1>4. CASE Answers(a, "Patch", e) /\ Wanted
    <2> DEFINE d == [selection |-> s, patch |-> NoSelection, hunks |-> c]
               p == [b.pending EXCEPT !.document = d, !.selection = s, !.hunks = c,
                                      !.mode = "Hunk", !.files = c]
               r == [b EXCEPT !.pending = p]
    <2>1. c \in Commits
      <3>1. a.commits \in Seq(Commits) /\ a.pending.commits \in Seq(Commits)
        BY ActivityFields, PendingFields
      <3> QED BY <1>4, <3>1 DEF Summarised, ToSet
    <2>2. s \in Selections /\ s.commit = c /\ s # NoSelection
      BY <2>1, ListedFile, SelectionTypes, Constants
    <2>3. AcceptPatch(a, e) =
            [b EXCEPT !.pending.document = d, !.pending.selection = s, !.pending.hunks = c,
                      !.pending.mode = "Hunk", !.pending.files = c]
      BY <1>4 DEF AcceptPatch
    <2> HIDE DEF s, c
    <2>4. d \in Reviews /\ d.selection = s /\ d.patch = NoSelection /\ d.hunks = c
      BY <2>1, <2>2, SelectionTypes, DocumentTypes DEF OfCommit
    <2> HIDE DEF d, b
    <2>5. [b EXCEPT !.pending.document = d, !.pending.selection = s, !.pending.hunks = c,
                    !.pending.mode = "Hunk", !.pending.files = c] = r
      BY <1>1 DEF Activities, Pendings
    <2>6. /\ p \in Pendings /\ p.document = d /\ p.selection = s /\ p.hunks = c /\ p.files = c
      <3>1. b.pending \in Pendings /\ c \in OfCommit /\ "Hunk" \in Modes
        BY <1>1, <2>1, ActivityFields DEF OfCommit, Modes
      <3> QED BY <2>2, <2>4, <3>1 DEF Pendings
    <2> HIDE DEF p
    <2>7. r \in Activities /\ Keeps(b, r) /\ r.pending = p
      BY <1>1, <2>6 DEF Activities, Keeps
    <2> HIDE DEF r
    <2>8. r.selection = a.selection /\ r.files = a.files /\ c # None
      BY <1>1, <2>1, <2>7, Constants DEF Keeps
    <2>9. Consistent(r)
      BY <1>1, <2>2, <2>4, <2>6, <2>7, <2>8 DEF Consistent, Belongs, Keeps
    <2> QED BY <2>3, <2>5, <2>7, <2>8, <2>9
  <1> HIDE DEF Wanted
  <1> QED BY <1>2, <1>3, <1>4

LEMMA AcceptFileConsistent ==
  ASSUME NEW a \in Activities, Consistent(a), NEW e \in Events
  PROVE  LET b == AcceptFile(a, e)
         IN b \in Activities /\ Consistent(b) /\ b.selection = a.selection /\ b.files = a.files
  <1> DEFINE b == [a EXCEPT !.waiting = @ \ {"File"}]
             files == OrElse(a.pending.files, None, a.files)
             hunks == OrElse(a.pending.hunks, None, a.hunks)
             s == e.selection
             Wanted == a.pending.selection = s /\ files # None /\ s.file \in ToSet(FilesOf[files])
  <1>1. b \in Activities /\ Keeps(a, b) /\ b.pending = a.pending /\ Consistent(b)
    <2>1. b \in Activities /\ Keeps(a, b) /\ b.pending = a.pending
      BY WaitedKeeps
    <2> HIDE DEF b
    <2>2. Consistent(b)
      BY <2>1, KeepsConsistent
    <2> QED BY <2>1, <2>2
  <1>2. CASE ~Answers(a, "File", e)
    BY <1>2 DEF AcceptFile
  <1>3. CASE Answers(a, "File", e) /\ ~Wanted
    <2>1. AcceptFile(a, e) = b
      BY <1>3 DEF AcceptFile
    <2> HIDE DEF b
    <2> QED BY <1>1, <2>1 DEF Keeps
  <1>4. CASE Answers(a, "File", e) /\ Wanted
    <2> DEFINE d == [selection |-> s, patch |-> s, hunks |-> hunks]
               cached == b.cached \cup {s}
               p == [b.pending EXCEPT !.document = d]
               r == [b EXCEPT !.cached = cached, !.pending = p]
    <2>1. AcceptFile(a, e) = [b EXCEPT !.cached = @ \cup {s}, !.pending.document = d]
      BY <1>4 DEF AcceptFile
    <2>2. /\ s \in Selections /\ a.pending.selection = s
          /\ a.files \in OfCommit /\ a.pending.files \in OfCommit
      BY <1>4, ActivityFields, PendingFields
    <2>3. files \in Commits /\ s.file \in ToSet(FilesOf[files])
      BY <1>4, <2>2 DEF OfCommit, OrElse
    <2>4. s.file # None /\ s # NoSelection
      <3> HIDE DEF files
      <3> QED BY <2>3, ListedFile, SelectionTypes
    <2>5. hunks = s.commit /\ hunks \in OfCommit
      BY <2>2, <2>3, <2>4, Constants DEF Consistent, Belongs, OrElse, OfCommit
    <2> HIDE DEF s, hunks, files
    <2>6. d \in Reviews /\ d.selection = s /\ d.patch = s /\ d.hunks = hunks
      BY <2>2, <2>5, DocumentTypes
    <2> HIDE DEF d, b
    <2>7. [b EXCEPT !.cached = @ \cup {s}, !.pending.document = d] = r
      BY <1>1 DEF Activities, Pendings
    <2>8. /\ p \in Pendings /\ p.document = d /\ p.selection = b.pending.selection
          /\ p.files = b.pending.files /\ p.hunks = b.pending.hunks
      BY <1>1, <2>6, ActivityFields DEF Pendings
    <2>9. cached \subseteq Selections
      BY <1>1, <2>2, ActivityFields
    <2> HIDE DEF p, cached
    <2>10. /\ r \in Activities /\ r.pending = p /\ r.selection = b.selection
           /\ r.files = b.files /\ r.hunks = b.hunks /\ r.document = b.document
      BY <1>1, <2>8, <2>9 DEF Activities
    <2> HIDE DEF r
    <2>11. Consistent(r)
      BY <1>1, <2>2, <2>4, <2>5, <2>6, <2>8, <2>10 DEF Consistent, Belongs
    <2> QED BY <1>1, <2>1, <2>7, <2>10, <2>11 DEF Keeps
  <1> HIDE DEF Wanted
  <1> QED BY <1>2, <1>3, <1>4

LEMMA FailedConsistent ==
  ASSUME NEW a \in Activities, Consistent(a), NEW e \in Events, e.kind \in {"History", "Patch"}
  PROVE  LET b == Failed(a, e).activity
         IN /\ b \in Activities /\ Consistent(b) /\ b.selection = a.selection /\ b.files = a.files
            /\ Failed(a, e).told \in BOOLEAN
  <1> DEFINE b == Waited(a, e.kind)
             r == [b EXCEPT !.pending = NothingPending]
  <1>1. b \in Activities /\ Keeps(a, b) /\ b.pending = a.pending /\ Consistent(b)
    <2>1. b \in Activities /\ Keeps(a, b) /\ b.pending = a.pending
      BY WaitedKeeps DEF Waited
    <2> HIDE DEF b
    <2>2. Consistent(b)
      BY <2>1, KeepsConsistent
    <2> QED BY <2>1, <2>2
  <1>2. /\ Failed(a, e).activity \in {a, b, r}
        /\ Failed(a, e).told \in BOOLEAN
    <2>1. CASE ~Answers(a, e.kind, e)
      BY <2>1 DEF Failed
    <2>2. CASE Answers(a, e.kind, e) /\ e.kind = "History"
      BY <2>2 DEF Failed
    <2>3. CASE Answers(a, e.kind, e) /\ e.kind = "Patch"
      BY <2>3 DEF Failed
    <2> QED BY <2>1, <2>2, <2>3
  <1> HIDE DEF b
  <1>3. r \in Activities /\ Keeps(b, r) /\ r.pending = NothingPending
    BY <1>1, PendingTypes DEF Activities, Keeps
  <1> HIDE DEF r
  <1>4. Consistent(r)
    BY <1>1, <1>3, PendingTypes, SelectionTypes DEF Consistent, Belongs, Keeps
  <1> QED BY <1>1, <1>2, <1>3, <1>4 DEF Keeps

\* What the reviewer displays is of what the pickers select.
Matches(a, d) ==
  d.document # NoDocument /\ a.selection # NoSelection => d.document.selection = a.selection

LEMMA PromoteConsistent ==
  ASSUME NEW a \in Activities, Consistent(a),
         NEW d \in [document : Reviews, mode : Modes \cup {None}],
         a.pending.document = NoDocument /\ d.document # NoDocument =>
           d.document.selection = a.selection,
         a.pending.document # NoDocument =>
           \/ d.document = a.pending.document /\ a.pending.mode \in {None, d.mode}
           \/ Matches(a, d)
  PROVE  LET b == Promote(a, d)
         IN b \in Activities /\ Consistent(b) /\ Matches(b, d)
  <1> DEFINE p == a.pending
             Ready == /\ p.selection # NoSelection /\ d.document.selection = p.selection
                      /\ p.mode \in {None, d.mode}
  <1>1. /\ p \in Pendings /\ p.selection \in Selections /\ p.document \in Reviews
        /\ p.files \in OfCommit /\ p.hunks \in OfCommit /\ p.commits \in Seq(Commits)
        /\ p.mode \in Modes \cup {None} /\ d.document \in Reviews
    BY ActivityFields, PendingFields
  <1>2. CASE ~Ready
    <2>1. Promote(a, d) = a
      BY <1>2 DEF Promote
    <2>2. Matches(a, d)
      <3>1. CASE p.document = NoDocument
        BY <3>1 DEF Matches
      <3>2. CASE p.document # NoDocument
        BY <1>2, <3>2 DEF Matches, Consistent, Belongs
      <3> QED BY <3>1, <3>2
    <2> QED BY <2>1, <2>2
  <1>3. CASE Ready
    <2> DEFINE files == OrElse(p.files, None, a.files)
               hunks == OrElse(p.hunks, None, a.hunks)
               mode == OrElse(p.mode, None, a.mode)
               commits == OrElse(p.commits, <<>>, a.commits)
               cached == IF a.selection.commit = p.selection.commit THEN a.cached ELSE {}
               r == [a EXCEPT !.selection = p.selection, !.document = p.document,
                              !.mode = mode, !.commits = commits, !.files = files,
                              !.hunks = hunks, !.cached = cached, !.pending = NothingPending]
    <2>1. Promote(a, d) = r
      BY <1>3 DEF Promote, Activities
    <2>2. /\ mode \in Modes /\ commits \in Seq(Commits) /\ files \in OfCommit
          /\ hunks \in OfCommit /\ cached \subseteq Selections
      BY <1>1, ActivityFields DEF OrElse
    <2>3. p.files = None => p.selection.commit = a.selection.commit
      <3>1. CASE p.document # NoDocument
        BY <3>1 DEF Consistent
      <3>2. CASE p.document = NoDocument
        BY <1>3, <3>2, DocumentTypes
      <3> QED BY <3>1, <3>2
    <2>4. Belongs(p.selection, files, hunks, p.document)
      BY <2>3 DEF Consistent, Belongs, OrElse
    <2> HIDE DEF files, hunks, mode, commits, cached, p
    <2>5. /\ r \in Activities /\ r.pending = NothingPending /\ r.selection = p.selection
          /\ r.document = p.document /\ r.files = files /\ r.hunks = hunks
      BY <1>1, <2>2, PendingTypes DEF Activities
    <2> HIDE DEF r
    <2>6. Consistent(r)
      BY <2>4, <2>5, PendingTypes, SelectionTypes DEF Consistent, Belongs
    <2>7. Matches(r, d)
      BY <1>3, <2>5 DEF Matches
    <2> QED BY <2>1, <2>5, <2>6, <2>7
  <1> QED BY <1>2, <1>3

-----------------------------------------------------------------------------
(* The steps.                                                              *)

Inv == TypeOK /\ SelectionInv

\* What a step has to leave of the activity and of the panes.
ActivityHeld ==
  /\ activity' \in Activities /\ Consistent(activity') /\ ReviewMatchesPickers' /\ RowsMatch'

\* The panes are only prepared in frames.
LEMMA PanesKept ==
  ASSUME Inv, UNCHANGED panes, activity' \in Activities, Consistent(activity'),
         activity'.selection \in {activity.selection, NoSelection},
         activity'.selection # NoSelection => activity'.files = activity.files
  PROVE  ActivityHeld
  BY DEF Inv, SelectionInv, panes, ActivityHeld, ReviewMatchesPickers, RowsMatch

\* What the user does.
LEMMA InputsHeld ==
  ASSUME Inv, SelectCommit \/ PickFile \/ ToggleReviewMode \/ SetModeElsewhere
  PROVE  ActivityHeld /\ chosen' \in Modes \cup {None} /\ inputs' \in Nat
  <1>1. /\ activity \in Activities /\ Consistent(activity) /\ chosen \in Modes \cup {None}
        /\ inputs \in Nat /\ rows \in [commits : Seq(Commits), files : OfCommit]
    BY DEF Inv, TypeOK, SelectionInv
  <1>2. UNCHANGED panes /\ inputs' \in Nat
    BY <1>1 DEF SelectCommit, PickFile, ToggleReviewMode, SetModeElsewhere, Acts
  <1>3. CASE SelectCommit
    <2>1. PICK c \in ToSet(rows.commits) : activity' = RequestPatch(activity, c)
      BY <1>3 DEF SelectCommit
    <2>2. c \in Commits
      <3>1. rows.commits \in Seq(Commits)
        BY <1>1
      <3> QED BY <3>1 DEF ToSet
    <2>3. /\ activity' \in Activities /\ Consistent(activity')
          /\ activity'.selection = activity.selection /\ activity'.files = activity.files
      BY <1>1, <2>1, <2>2, RequestPatchConsistent
    <2> QED BY <1>1, <1>2, <1>3, <2>3, PanesKept DEF SelectCommit
  <1>4. CASE PickFile
    <2> DEFINE c == activity.selection.commit
    <2>1. PICK f \in ToSet(FilesOf[rows.files]) :
             activity' = SelectFile(activity, c, f, activity.mode)
      BY <1>4 DEF PickFile
    <2>2. rows.files \in Commits /\ activity.selection # NoSelection
      BY <1>1, <1>4 DEF PickFile, OfCommit
    <2>3. f \in FileNames /\ activity.mode \in Modes
      BY <1>1, <2>2, ListedFile, ActivityFields
    <2>4. c \in Commits /\ activity.pending.selection.commit \in {None, c}
      BY <1>1, <1>4, <2>2, ActivityFields, SelectionTypes DEF PickFile
    <2>5. OfSameCommit(activity, c)
      BY <2>4 DEF OfSameCommit
    <2> HIDE DEF c
    <2>6. /\ activity' \in Activities /\ Keeps(activity, activity') /\ Consistent(activity')
      BY <1>1, <2>1, <2>3, <2>5, SelectFileKeeps
    <2> QED BY <1>1, <1>2, <1>4, <2>6, PanesKept DEF PickFile, Keeps
  <1>5. CASE ToggleReviewMode
    <2>1. PICK mode \in Modes :
            /\ activity' = SetReviewMode(activity, mode)
            /\ chosen' = OrElse(ReviewMode(activity'), ReviewMode(activity), chosen)
      BY <1>5 DEF ToggleReviewMode
    <2>2. /\ activity' \in Activities /\ Consistent(activity')
          /\ activity'.selection = activity.selection /\ activity'.files = activity.files
      BY <1>1, <2>1, SetReviewModeConsistent
    <2>3. chosen' \in Modes \cup {None}
      BY <1>1, <2>1, <2>2, ActivityFields, PendingFields DEF OrElse, ReviewMode
    <2> QED BY <1>2, <2>2, <2>3, PanesKept
  <1>6. CASE SetModeElsewhere
    <2>1. PICK mode \in Modes : chosen' = mode /\ activity' = SetReviewMode(activity, mode)
      BY <1>6 DEF SetModeElsewhere
    <2>2. /\ activity' \in Activities /\ Consistent(activity')
          /\ activity'.selection = activity.selection /\ activity'.files = activity.files
      BY <1>1, <2>1, SetReviewModeConsistent
    <2> QED BY <1>2, <2>1, <2>2, PanesKept
  <1> QED BY <1>3, <1>4, <1>5, <1>6

\* A frame displays what is pending or, until that is ready, what it displayed.
LEMMA FrameHeld ==
  ASSUME Inv, Frame
  PROVE  /\ ActivityHeld
         /\ displayed' \in [document : Reviews, mode : Modes \cup {None}]
         /\ rows' \in [commits : Seq(Commits), files : OfCommit]
         /\ activity.pending.document = NoDocument /\ displayed'.document # NoDocument =>
              displayed'.document.selection = activity.selection
  <1> DEFINE a == activity
             p == activity.pending
             requested == OrElse(p.document, NoDocument, activity.document)
             mode == IF p.document # NoDocument THEN ReviewMode(activity) ELSE activity.mode
             new == [document |-> requested, mode |-> mode]
  <1>1. /\ activity \in Activities /\ Consistent(activity) /\ Matches(activity, displayed)
        /\ displayed \in [document : Reviews, mode : Modes \cup {None}]
    BY DEF Inv, TypeOK, SelectionInv, ReviewMatchesPickers, Matches
  <1>2. /\ displayed' = new \/ (requested # NoDocument /\ displayed' = displayed)
        /\ activity' = Promote(activity, displayed')
        /\ rows' = [commits |-> activity'.commits, files |-> activity'.files]
    BY DEF Frame
  <1>3. /\ p.document \in Reviews /\ activity.document \in Reviews /\ p.mode \in Modes \cup {None}
        /\ activity.mode \in Modes /\ activity.selection \in Selections
    BY <1>1, ActivityFields, PendingFields
  <1>4. new \in [document : Reviews, mode : Modes \cup {None}]
    BY <1>3 DEF OrElse, ReviewMode
  <1>5. displayed' \in [document : Reviews, mode : Modes \cup {None}]
    BY <1>1, <1>2, <1>4
  <1>6. activity.document # NoDocument =>
          activity.document.selection = activity.selection /\ activity.selection # NoSelection
    <2>1. SUFFICES ASSUME activity.document # NoDocument, activity.selection = NoSelection
                   PROVE  FALSE
      BY <1>1 DEF Consistent, Belongs
    <2>2. /\ activity.document.selection = NoSelection /\ activity.document.hunks = None
          /\ activity.document.patch = NoSelection
      BY <1>1, <2>1, SelectionTypes DEF Consistent, Belongs
    <2>3. activity.document = NoDocument
      BY <1>3, <2>2 DEF Reviews, NoDocument
    <2> QED BY <2>1, <2>3
  <1>7. p.document = NoDocument /\ displayed'.document # NoDocument =>
          displayed'.document.selection = activity.selection
    <2>1. SUFFICES ASSUME p.document = NoDocument, displayed'.document # NoDocument
                   PROVE  displayed'.document.selection = activity.selection
      OBVIOUS
    <2>2. requested = activity.document
      BY <2>1 DEF OrElse
    <2>3. activity.document # NoDocument
      BY <1>2, <2>1, <2>2
    <2> QED BY <1>1, <1>2, <1>6, <2>1, <2>2, <2>3 DEF Matches
  <1>8. p.document # NoDocument =>
          \/ displayed'.document = p.document /\ p.mode \in {None, displayed'.mode}
          \/ Matches(activity, displayed')
    BY <1>1, <1>2, <1>3 DEF OrElse, ReviewMode
  <1> HIDE DEF new, mode, requested
  <1>9. /\ activity' \in Activities /\ Consistent(activity') /\ Matches(activity', displayed')
    BY <1>1, <1>2, <1>5, <1>7, <1>8, PromoteConsistent
  <1>10. rows' \in [commits : Seq(Commits), files : OfCommit]
    BY <1>2, <1>9, ActivityFields
  <1>11. rows'.files = activity'.files
    BY <1>2
  <1> QED BY <1>5, <1>7, <1>9, <1>10, <1>11 DEF ActivityHeld, ReviewMatchesPickers, RowsMatch, Matches

\* What the queues hold.
QueuesTyped ==
  requests \in Seq(Queries) /\ job \in Jobs /\ events \in Seq(Events) /\ FilesRead

LEMMA EventAdded ==
  ASSUME events \in Seq(Events), FilesRead, NEW e \in Events, e.kind = "File" => e.ok,
         events' = Append(events, e)
  PROVE  events' \in Seq(Events) /\ FilesRead'
  <1>1. events' \in Seq(Events) /\ Len(events') = Len(events) + 1
    OBVIOUS
  <1>2. ASSUME NEW i \in DOMAIN events' PROVE events'[i].kind = "File" => events'[i].ok
    <2>1. events'[i] = IF i \in DOMAIN events THEN events[i] ELSE e
      OBVIOUS
    <2> QED BY <2>1 DEF FilesRead
  <1> QED BY <1>1, <1>2 DEF FilesRead

LEMMA EventTaken ==
  ASSUME events \in Seq(Events), FilesRead, events # <<>>, events' = Tail(events)
  PROVE  /\ events' \in Seq(Events) /\ FilesRead'
         /\ Head(events) \in Events /\ (Head(events).kind = "File" => Head(events).ok)
  <1>1. events' \in Seq(Events) /\ Len(events') = Len(events) - 1
    OBVIOUS
  <1>2. \A i \in DOMAIN events' : i + 1 \in DOMAIN events /\ events'[i] = events[i + 1]
    OBVIOUS
  <1>3. 1 \in DOMAIN events /\ Head(events) = events[1]
    OBVIOUS
  <1> QED BY <1>1, <1>2, <1>3 DEF FilesRead

LEMMA NoEventFields ==
  /\ NoEvent.id \in Nat /\ NoEvent.selection \in Selections /\ NoEvent.head \in Heads
  /\ NoEvent.commits \in Seq(Commits) /\ NoEvent.ok \in BOOLEAN
  BY SelectionTypes, Constants DEF NoEvent

LEMMA RequestTaken ==
  ASSUME requests \in Seq(Queries), requests # <<>>, requests' = Tail(requests)
  PROVE  requests' \in Seq(Queries) /\ Head(requests) \in Queries
  OBVIOUS

\* Other processes, the worker and the queues.
LEMMA WorkerHeld ==
  ASSUME Inv, FileFails = FALSE, Moves \/ Dispatch \/ Refresh \/ ReadHead \/ ReadLog \/ Serve
  PROVE  /\ ActivityHeld /\ QueuesTyped'
         /\ head' \in Heads /\ seen' \in Seq(Heads) /\ sent' \in Heads
  <1>1. /\ activity \in Activities /\ Consistent(activity) /\ ReviewMatchesPickers
        /\ requests \in Seq(Queries) /\ job \in Jobs /\ events \in Seq(Events) /\ FilesRead
        /\ head \in Heads /\ seen \in Seq(Heads) /\ sent \in Heads
    BY DEF Inv, TypeOK, SelectionInv
  <1>2. UNCHANGED panes
    BY DEF Moves, Dispatch, Refresh, ReadHead, ReadLog, Serve
  <1>3. ASSUME UNCHANGED activity PROVE ActivityHeld
    BY <1>1, <1>2, <1>3, PanesKept
  <1>4. CASE Moves
    <2>1. DOMAIN Log = Heads
      BY HistoryAssumption DEF Heads
    <2>2. PICK h \in Heads : head' = h /\ seen' = Append(seen, h)
      BY <1>4, <2>1 DEF Moves
    <2>3. UNCHANGED <<activity, requests, job, events, sent>>
      BY <1>4 DEF Moves, worker
    <2>4. seen' \in Seq(Heads)
      BY <1>1, <2>2
    <2> QED BY <1>1, <1>3, <2>2, <2>3, <2>4 DEF QueuesTyped, FilesRead
  <1>5. CASE Dispatch
    <2> DEFINE r == [activity EXCEPT !.queued = <<>>]
    <2>1. r \in Activities /\ Keeps(activity, r) /\ r.pending = activity.pending
      <3>1. <<>> \in Seq(Queries)
        OBVIOUS
      <3> QED BY <1>1, <3>1 DEF Activities, Keeps
    <2>2. activity' = r /\ requests' = requests \o activity.queued
          /\ UNCHANGED <<head, seen, sent, job, events>>
      BY <1>5 DEF Dispatch, repository
    <2> HIDE DEF r
    <2>3. ActivityHeld
      <3>1. Consistent(r)
        BY <1>1, <2>1, KeepsConsistent
      <3> QED BY <1>2, <2>1, <2>2, <3>1, PanesKept DEF Keeps
    <2>4. requests' \in Seq(Queries)
      BY <1>1, <2>2, ActivityFields
    <2> QED BY <1>1, <2>2, <2>3, <2>4 DEF QueuesTyped, FilesRead
  <1>6. CASE Refresh
    <2> DEFINE e == [NoEvent EXCEPT !.kind = "Snapshot", !.head = head]
    <2>1. e \in Events /\ e.kind = "Snapshot"
      BY <1>1, NoEventFields DEF NoEvent, Events
    <2>2. /\ events' = Append(events, e) /\ sent' = head
          /\ UNCHANGED <<activity, head, seen, requests, job>>
      BY <1>6 DEF Refresh, repository
    <2> HIDE DEF e
    <2>3. events' \in Seq(Events) /\ FilesRead'
      BY <1>1, <2>1, <2>2, EventAdded
    <2> QED BY <1>1, <1>3, <2>2, <2>3 DEF QueuesTyped
  <1>7. CASE ReadHead
    <2>1. /\ requests # <<>> /\ requests' = Tail(requests)
          /\ job' = [kind |-> "History", id |-> Head(requests).id, head |-> head]
          /\ UNCHANGED <<activity, head, seen, sent, events>>
      BY <1>7 DEF ReadHead, repository
    <2>2. requests' \in Seq(Queries) /\ Head(requests) \in Queries
      BY <1>1, <2>1, RequestTaken
    <2>3. job' \in Jobs
      BY <1>1, <2>1, <2>2 DEF Jobs, Queries
    <2> QED BY <1>1, <1>3, <2>1, <2>2, <2>3 DEF QueuesTyped, FilesRead
  <1>8. CASE ReadLog
    <2> DEFINE commits == IF job.head = Unborn THEN <<>> ELSE Log[head]
               ok == job.head = Unborn \/ head # Unborn
               e == [NoEvent EXCEPT !.kind = job.kind, !.id = job.id, !.head = job.head,
                                    !.commits = commits, !.ok = ok]
    <2>1. /\ job # NoJob /\ job' = NoJob /\ events' = Append(events, e)
          /\ UNCHANGED <<activity, head, seen, sent, requests>>
      BY <1>8 DEF ReadLog, repository
    <2>2. job.kind = "History" /\ job.id \in Nat /\ job.head \in Heads
      BY <1>1, <2>1 DEF Jobs
    <2>3. commits \in Seq(Commits) /\ ok \in BOOLEAN
      <3>1. Log[head] \in Seq(Commits)
        BY <1>1, Constants
      <3> QED BY <3>1
    <2> HIDE DEF commits, ok
    <2>4. e \in Events /\ e.kind = "History"
      BY <2>2, <2>3, SelectionTypes DEF NoEvent, Events, Kinds
    <2> HIDE DEF e
    <2>5. events' \in Seq(Events) /\ FilesRead'
      BY <1>1, <2>1, <2>4, EventAdded
    <2>6. job' \in Jobs
      BY <2>1 DEF Jobs
    <2> QED BY <1>1, <1>3, <2>1, <2>5, <2>6 DEF QueuesTyped
  <1>9. CASE Serve
    <2> DEFINE r == Head(requests)
    <2>1. PICK ok \in BOOLEAN :
            /\ r.kind = "File" /\ ~FileFails => ok
            /\ events' = Append(events, [NoEvent EXCEPT !.kind = r.kind, !.id = r.id,
                                           !.selection = r.selection, !.ok = ok])
      BY <1>9 DEF Serve
    <2> DEFINE e == [NoEvent EXCEPT !.kind = r.kind, !.id = r.id,
                                    !.selection = r.selection, !.ok = ok]
    <2>2. /\ requests # <<>> /\ requests' = Tail(requests)
          /\ UNCHANGED <<activity, head, seen, sent, job>>
      BY <1>9 DEF Serve, repository
    <2>3. requests' \in Seq(Queries) /\ r \in Queries
      BY <1>1, <2>2, RequestTaken
    <2> HIDE DEF r
    <2>4. e \in Events /\ e.kind = r.kind /\ e.ok = ok
      BY <2>3, NoEventFields DEF NoEvent, Events, Queries
    <2>5. e.kind = "File" => e.ok
      BY <2>1, <2>4
    <2>6. events' = Append(events, e)
      BY <2>1
    <2> HIDE DEF e
    <2>7. events' \in Seq(Events) /\ FilesRead'
      BY <1>1, <2>4, <2>5, <2>6, EventAdded
    <2> QED BY <1>1, <1>3, <2>2, <2>3, <2>7 DEF QueuesTyped
  <1> QED BY <1>4, <1>5, <1>6, <1>7, <1>8, <1>9

\* What arrives.
LEMMA ArrivalsHeld ==
  ASSUME Inv, SnapshotArrives \/ HistoryLoaded \/ PatchLoaded \/ FileLoaded \/ LoadFailed
  PROVE  ActivityHeld /\ QueuesTyped' /\ told' \in BOOLEAN
  <1> DEFINE a == activity
             e == Head(events)
  <1>1. /\ a \in Activities /\ Consistent(a) /\ chosen \in Modes \cup {None} /\ told \in BOOLEAN
        /\ requests \in Seq(Queries) /\ job \in Jobs /\ events \in Seq(Events) /\ FilesRead
    BY DEF Inv, TypeOK, SelectionInv
  <1>2. /\ UNCHANGED <<panes, requests, job>> /\ events # <<>> /\ events' = Tail(events)
    BY DEF SnapshotArrives, HistoryLoaded, PatchLoaded, FileLoaded, LoadFailed, Loaded, Drain
  <1>3. /\ events' \in Seq(Events) /\ FilesRead'
        /\ e \in Events /\ (e.kind = "File" => e.ok)
    BY <1>1, <1>2, EventTaken
  <1>4. QueuesTyped'
    BY <1>1, <1>2, <1>3 DEF QueuesTyped
  <1>5. /\ activity' \in Activities /\ Consistent(activity')
        /\ activity'.selection \in {a.selection, NoSelection} /\ told' \in BOOLEAN
        /\ activity'.selection # NoSelection => activity'.files = a.files
    <2>1. CASE SnapshotArrives
      <3>1. e.head \in Heads
        BY <1>3 DEF Events
      <3>2. activity' = RepositoryChanged(a, e.head) /\ told' = FALSE
        BY <2>1 DEF SnapshotArrives
      <3> HIDE DEF a, e
      <3> QED BY <1>1, <3>1, <3>2, RepositoryChangedConsistent
    <2>2. CASE HistoryLoaded
      <3>1. activity' = AcceptHistory(a, e) /\ told' = told
        BY <2>2 DEF HistoryLoaded, Loaded
      <3> HIDE DEF a, e
      <3> QED BY <1>1, <1>3, <3>1, AcceptHistoryConsistent
    <2>3. CASE PatchLoaded
      <3> DEFINE b == AcceptPatch(a, e)
      <3>1. /\ activity' = b \/ (chosen # None /\ activity' = SetReviewMode(b, chosen))
            /\ told' = told
        BY <2>3 DEF PatchLoaded, Loaded
      <3> HIDE DEF a, e
      <3>2. b \in Activities /\ Consistent(b) /\ b.selection = a.selection /\ b.files = a.files
        BY <1>1, <1>3, AcceptPatchConsistent
      <3> HIDE DEF b
      <3>3. CASE activity' = b
        BY <1>1, <3>1, <3>2, <3>3
      <3>4. CASE chosen # None /\ activity' = SetReviewMode(b, chosen)
        BY <1>1, <3>1, <3>2, <3>4, SetReviewModeConsistent
      <3> QED BY <3>1, <3>3, <3>4
    <2>4. CASE FileLoaded
      <3>1. activity' = AcceptFile(a, e) /\ told' = told
        BY <2>4 DEF FileLoaded, Loaded
      <3> HIDE DEF a, e
      <3> QED BY <1>1, <1>3, <3>1, AcceptFileConsistent
    <2>5. CASE LoadFailed
      <3>1. /\ e.kind \in Kinds /\ ~e.ok /\ activity' = Failed(a, e).activity
            /\ told' = (told \/ Failed(a, e).told)
        BY <2>5 DEF LoadFailed
      <3>2. e.kind \in {"History", "Patch"}
        BY <1>3, <3>1 DEF Kinds
      <3> HIDE DEF a, e
      <3>3. /\ Failed(a, e).activity \in Activities /\ Consistent(Failed(a, e).activity)
            /\ Failed(a, e).activity.selection = a.selection
            /\ Failed(a, e).activity.files = a.files /\ Failed(a, e).told \in BOOLEAN
        BY <1>1, <1>3, <3>2, FailedConsistent
      <3>4. told' \in BOOLEAN
        BY <1>1, <3>1, <3>3
      <3> QED BY <3>1, <3>3, <3>4
    <2> QED BY <2>1, <2>2, <2>3, <2>4, <2>5
  <1>6. ActivityHeld
    BY <1>2, <1>5, PanesKept
  <1> QED BY <1>4, <1>5, <1>6

LEMMA InitInv == ASSUME Init PROVE Inv
  <1> DEFINE a == [head |-> StartHead, commits |-> <<>>, files |-> None, hunks |-> None,
                   document |-> NoDocument, selection |-> NoSelection, mode |-> "Hunk",
                   cached |-> {}, pending |-> NothingPending, waiting |-> {},
                   queued |-> <<>>, latest |-> [k \in Kinds |-> 0], next |-> 0]
  <1>1. /\ NoSelection \in Selections /\ NoDocument \in Reviews /\ None \in OfCommit
        /\ StartHead \in Heads /\ NothingPending \in Pendings
    BY SelectionTypes, DocumentTypes, PendingTypes, Constants
  <1>2. a \in Activities
    <2>1. /\ {} \in SUBSET Selections /\ {} \in SUBSET Kinds /\ "Hunk" \in Modes
          /\ <<>> \in Seq(Commits) /\ <<>> \in Seq(Queries) /\ [k \in Kinds |-> 0] \in [Kinds -> Nat]
      BY DEF Modes
    <2> QED BY <1>1, <2>1 DEF Activities
  <1>3. /\ a.pending = NothingPending /\ a.selection = NoSelection /\ a.files = None
        /\ a.hunks = None /\ a.document = NoDocument
    OBVIOUS
  <1>4. activity = RequestHistory(a)
    BY DEF Init, New
  <1> HIDE DEF a
  <1>5. Consistent(a)
    BY <1>3, PendingTypes, SelectionTypes DEF Consistent, Belongs
  <1>6. activity \in Activities /\ Consistent(activity)
    BY <1>2, <1>4, <1>5, RequestHistoryConsistent
  <1>7. /\ displayed \in [document : Reviews, mode : Modes \cup {None}]
        /\ rows \in [commits : Seq(Commits), files : OfCommit]
        /\ ReviewMatchesPickers /\ RowsMatch
    BY <1>1 DEF Init, ReviewMatchesPickers, RowsMatch
  <1>8. /\ chosen \in Modes \cup {None} /\ told \in BOOLEAN
        /\ head \in Heads /\ seen \in Seq(Heads) /\ sent \in Heads
        /\ requests \in Seq(Queries) /\ job \in Jobs /\ events \in Seq(Events)
        /\ inputs \in Nat /\ FilesRead
    <2>1. chosen = None /\ told = FALSE /\ inputs = 0 /\ job = NoJob /\ events = <<>>
          /\ requests = <<>> /\ head = StartHead /\ sent = StartHead /\ seen = <<StartHead>>
      BY DEF Init
    <2>2. requests \in Seq(Queries) /\ events \in Seq(Events) /\ DOMAIN events = {}
      BY <2>1
    <2>3. seen \in Seq(Heads)
      BY <1>1, <2>1
    <2> QED BY <1>1, <2>1, <2>2, <2>3 DEF Jobs, FilesRead
  <1> QED BY <1>6, <1>7, <1>8 DEF Inv, TypeOK, SelectionInv

LEMMA StepInv == ASSUME FileFails = FALSE, Inv, [Next]_vars PROVE Inv'
  <1> DEFINE Inputs == SelectCommit \/ PickFile \/ ToggleReviewMode \/ SetModeElsewhere
             Working == Moves \/ Dispatch \/ Refresh \/ ReadHead \/ ReadLog \/ Serve
             Arrivals == SnapshotArrives \/ HistoryLoaded \/ PatchLoaded \/ FileLoaded \/ LoadFailed
  <1>1. TypeOK /\ FilesRead
    BY DEF Inv, SelectionInv
  <1>2. CASE Inputs
    <2>1. ActivityHeld /\ chosen' \in Modes \cup {None} /\ inputs' \in Nat
      BY <1>2, InputsHeld
    <2>2. UNCHANGED <<displayed, rows, told, head, seen, sent, requests, job, events>>
      BY <1>2 DEF SelectCommit, PickFile, ToggleReviewMode, SetModeElsewhere, Acts,
                  panes, repository, worker
    <2> QED BY <1>1, <2>1, <2>2 DEF Inv, TypeOK, SelectionInv, ActivityHeld, FilesRead
  <1>3. CASE Frame
    <2>1. /\ ActivityHeld
          /\ displayed' \in [document : Reviews, mode : Modes \cup {None}]
          /\ rows' \in [commits : Seq(Commits), files : OfCommit]
      BY <1>3, FrameHeld
    <2>2. UNCHANGED <<chosen, told, head, seen, sent, requests, job, events, inputs>>
      BY <1>3 DEF Frame, repository, worker
    <2> QED BY <1>1, <2>1, <2>2 DEF Inv, TypeOK, SelectionInv, ActivityHeld, FilesRead
  <1>4. CASE Working
    <2>1. /\ ActivityHeld /\ QueuesTyped'
          /\ head' \in Heads /\ seen' \in Seq(Heads) /\ sent' \in Heads
      BY <1>4, WorkerHeld
    <2>2. UNCHANGED <<displayed, rows, chosen, told, inputs>>
      BY <1>4 DEF Moves, Dispatch, Refresh, ReadHead, ReadLog, Serve, panes
    <2> QED BY <1>1, <2>1, <2>2 DEF Inv, TypeOK, SelectionInv, ActivityHeld, QueuesTyped
  <1>5. CASE Arrivals
    <2>1. ActivityHeld /\ QueuesTyped' /\ told' \in BOOLEAN
      BY <1>5, ArrivalsHeld
    <2>2. UNCHANGED <<displayed, rows, chosen, head, seen, sent, inputs>>
      BY <1>5 DEF SnapshotArrives, HistoryLoaded, PatchLoaded, FileLoaded, LoadFailed, Loaded,
                  Drain, panes, repository
    <2> QED BY <1>1, <2>1, <2>2 DEF Inv, TypeOK, SelectionInv, ActivityHeld, QueuesTyped
  <1>6. CASE UNCHANGED vars
    BY <1>6 DEF vars, panes, repository, worker, Inv, TypeOK, SelectionInv,
                ReviewMatchesPickers, RowsMatch, FilesRead
  <1> QED BY <1>2, <1>3, <1>4, <1>5, <1>6 DEF Next

\* Whatever moves and fails but the reading of a file's text, the panes of the
\* History activity show one commit, one of its files and the review of it.
THEOREM HistoryIsOneSelection == ASSUME FileFails = FALSE PROVE Spec => []OneSelectionShown
  <1>1. Init => Inv
    BY InitInv
  <1>2. Inv /\ [Next]_vars => Inv'
    BY StepInv
  <1>3. Inv => OneSelectionShown
    BY DEF Inv, SelectionInv, Consistent, Belongs, OneSelectionShown, OneCommit
  <1> QED BY <1>1, <1>2, <1>3, PTL DEF Spec

-----------------------------------------------------------------------------
(* What History waits for.  A query is asked by the activity, waits in its   *)
(* queue and the worker's, and comes back as an answer: out is everything    *)
(* under way outside of the activity, h the checkout and t whether an error  *)
(* was shown since it moved.                                                 *)

\* Queries are asked and answered in the order of their numbers.
Ascending(q) ==
  \A i, j \in DOMAIN q :
    i < j /\ q[i].kind \in Kinds /\ q[j].kind \in Kinds => q[i].id < q[j].id

Before(S, T) ==
  \A r \in S, s \in T : r.kind \in Kinds /\ s.kind \in Kinds => r.id < s.id

\* The latest query of a kind, or the answer to it, wherever it is.
Due(a, out, kind) ==
  {r \in ToSet(a.queued) \cup out : r.kind = kind /\ r.id = a.latest[kind]}

\* No number is given twice, and a patch that is waited for was asked after the list.
Numbered(a, out) ==
  /\ Ascending(a.queued) /\ Before(out, ToSet(a.queued))
  /\ \A r \in ToSet(a.queued) \cup out : r.kind \in Kinds => r.id \in 1..a.next
  /\ \A kind \in Kinds : a.latest[kind] \in 0..a.next
  /\ "Patch" \in a.waiting => a.latest["History"] < a.latest["Patch"]

\* What is waited for is under way; but a list that came for another checkout is
\* not asked for again before the snapshot of that one.
Waits(a, out, kinds, h) ==
  \A k \in kinds : Due(a, out, k) # {} \/ (k = "History" /\ a.head # h)

Listed(a) == OrElse(a.pending.files, None, a.files)

AwaitsPatch(a, out) ==
  /\ "Patch" \in a.waiting
  /\ \A r \in Due(a, out, "Patch") : r.selection.commit = a.pending.selection.commit
AwaitsFile(a, out) ==
  /\ "File" \in a.waiting
  /\ Listed(a) # None /\ a.pending.selection.file \in ToSet(FilesOf[Listed(a)])
  /\ \A r \in Due(a, out, "File") : r.selection = a.pending.selection
Dropped(a, out) ==
  ~Summarised(a, a.pending.selection.commit) /\ Due(a, out, "History") = {}

\* A pending selection has its document, or awaits it, or was dropped for good.
Awaited(a, out) ==
  a.pending.selection # NoSelection /\ a.pending.document = NoDocument =>
    AwaitsPatch(a, out) \/ AwaitsFile(a, out) \/ Dropped(a, out)

\* While a patch is waited for nothing of its commit is pending, and the commit
\* is not the selected one.
PatchIsNew(a) ==
  "Patch" \in a.waiting =>
    /\ a.pending.document = NoDocument
    /\ \/ /\ a.pending.selection # NoSelection /\ a.pending.selection.file = None
          /\ a.pending.selection.commit # a.selection.commit
       \/ a.pending.selection = NoSelection /\ a.selection = NoSelection

\* A selection that can be promoted is of a commit that is selected or listed.  It
\* is of the selected one while the list may still change.
Promotable(a, out) ==
  LET p == a.pending IN
  /\ p.selection.file # None \/ p.document # NoDocument =>
       p.selection.commit = a.selection.commit \/ Summarised(a, p.selection.commit)
  /\ Due(a, out, "History") # {} =>
       /\ p.commits = <<>>
       /\ p.selection # NoSelection /\ "Patch" \notin a.waiting =>
            p.selection.commit = a.selection.commit

Settling(a, out) == Awaited(a, out) /\ PatchIsNew(a) /\ Promotable(a, out)

\* The list of the checkout is shown with a commit of it selected, or is pending
\* with one that is going to be, or is waited for, or failed.
Current(a, h, t) ==
  \/ "History" \in a.waiting \/ t \/ a.head # h
  \/ /\ a.commits = Log[h] /\ a.pending.commits = <<>>
     /\ h # Unborn => a.selection.commit \in ToSet(Log[h])
  \/ /\ a.pending.commits = Log[h] /\ Log[h] # <<>> /\ a.pending.selection # NoSelection
     /\ a.pending.selection.commit # a.selection.commit

Arriving(a, out, h, t) ==
  Numbered(a, out) /\ Waits(a, out, a.waiting, h) /\ Settling(a, out) /\ Current(a, h, t)

\* What only the arrival of another checkout changes.
Still(a, b) == b.head = a.head /\ b.latest["History"] = a.latest["History"]

-----------------------------------------------------------------------------
(* Queues.                                                                 *)

LEMMA WithoutQueries ==
  ASSUME NEW q \in Seq(Queries), Ascending(q), NEW K
  PROVE  LET r == Without(q, K) IN
         /\ r \in Seq(Queries) /\ Ascending(r)
         /\ ToSet(r) = {x \in ToSet(q) : x.kind \notin K}
  <1> DEFINE kept == {i \in DOMAIN q : q[i].kind \notin K}
             r == Retained(q, kept)
  <1>1. r \in Seq(Queries) /\ Selects(r, q, DOMAIN q \cap kept)
    BY RetainedSelects
  <1>2. Without(q, K) = r
    BY DEF Without
  <1> HIDE DEF r
  <1>3. PICK at \in [1..Len(r) -> DOMAIN q \cap kept] :
          /\ \A j \in 1..Len(r) : r[j] = q[at[j]]
          /\ \A i, j \in 1..Len(r) : i < j => at[i] < at[j]
          /\ \A k \in DOMAIN q \cap kept : \E j \in 1..Len(r) : at[j] = k
    BY <1>1 DEF Selects
  <1>4. DOMAIN r = 1..Len(r)
    BY <1>1
  <1>5. Ascending(r)
    BY <1>3, <1>4 DEF Ascending
  <1>6. ToSet(r) = {x \in ToSet(q) : x.kind \notin K}
    <2>1. \A j \in DOMAIN r : r[j] = q[at[j]] /\ at[j] \in DOMAIN q /\ q[at[j]].kind \notin K
      BY <1>3, <1>4
    <2>2. \A i \in DOMAIN q : q[i].kind \notin K => \E j \in DOMAIN r : r[j] = q[i]
      <3> SUFFICES ASSUME NEW i \in DOMAIN q, q[i].kind \notin K PROVE \E j \in DOMAIN r : r[j] = q[i]
        OBVIOUS
      <3>1. i \in DOMAIN q \cap kept
        OBVIOUS
      <3> QED BY <1>3, <1>4, <3>1
    <2> HIDE DEF kept
    <2>3. \A x \in ToSet(r) : x \in ToSet(q) /\ x.kind \notin K
      BY <2>1 DEF ToSet
    <2>4. \A x \in ToSet(q) : x.kind \notin K => x \in ToSet(r)
      BY <2>2 DEF ToSet
    <2> QED BY <2>3, <2>4
  <1> QED BY <1>1, <1>2, <1>5, <1>6

LEMMA AppendSet ==
  ASSUME NEW S, NEW q \in Seq(S), NEW x \in S
  PROVE  ToSet(Append(q, x)) = ToSet(q) \cup {x}
  <1> DEFINE r == Append(q, x)
  <1>1. /\ DOMAIN r = DOMAIN q \cup {Len(q) + 1} /\ r[Len(q) + 1] = x
        /\ \A i \in DOMAIN q : r[i] = q[i]
    OBVIOUS
  <1> HIDE DEF r
  <1> QED BY <1>1 DEF ToSet, r

LEMMA ConcatSet ==
  ASSUME NEW S, NEW q \in Seq(S), NEW r \in Seq(S)
  PROVE  ToSet(q \o r) = ToSet(q) \cup ToSet(r)
  <1> DEFINE s == q \o r
  <1>1. /\ DOMAIN s = 1..(Len(q) + Len(r)) /\ DOMAIN q = 1..Len(q) /\ DOMAIN r = 1..Len(r)
        /\ Len(q) \in Nat /\ Len(r) \in Nat
        /\ \A i \in DOMAIN q : s[i] = q[i]
        /\ \A i \in DOMAIN r : s[Len(q) + i] = r[i]
    OBVIOUS
  <1> HIDE DEF s
  <1>2. \A i \in DOMAIN s : i \in DOMAIN q \/ (i - Len(q) \in DOMAIN r /\ s[i] = r[i - Len(q)])
    <2> SUFFICES ASSUME NEW i \in DOMAIN s, i \notin DOMAIN q
                 PROVE  i - Len(q) \in DOMAIN r /\ s[i] = r[i - Len(q)]
      OBVIOUS
    <2>1. i - Len(q) \in DOMAIN r /\ Len(q) + (i - Len(q)) = i
      BY <1>1
    <2> QED BY <1>1, <2>1
  <1>3. \A i \in DOMAIN r : Len(q) + i \in DOMAIN s
    BY <1>1
  <1>4. \A i \in DOMAIN q : i \in DOMAIN s
    BY <1>1
  <1> QED BY <1>1, <1>2, <1>3, <1>4 DEF ToSet, s

LEMMA TailSet ==
  ASSUME NEW S, NEW q \in Seq(S), q # <<>>
  PROVE  ToSet(q) = {Head(q)} \cup ToSet(Tail(q))
  <1> DEFINE r == Tail(q)
  <1>1. /\ DOMAIN q = 1..Len(q) /\ DOMAIN r = 1..(Len(q) - 1) /\ Len(q) \in Nat \ {0}
        /\ Head(q) = q[1] /\ \A i \in DOMAIN r : r[i] = q[i + 1]
    OBVIOUS
  <1> HIDE DEF r
  <1>2. \A i \in DOMAIN q : i = 1 \/ (i - 1 \in DOMAIN r /\ r[i - 1] = q[i])
    <2> SUFFICES ASSUME NEW i \in DOMAIN q, i # 1 PROVE i - 1 \in DOMAIN r /\ r[i - 1] = q[i]
      OBVIOUS
    <2>1. i - 1 \in DOMAIN r /\ (i - 1) + 1 = i
      BY <1>1
    <2> QED BY <1>1, <2>1
  <1>3. \A i \in DOMAIN r : i + 1 \in DOMAIN q
    BY <1>1
  <1>4. 1 \in DOMAIN q
    BY <1>1
  <1>5. \A x \in ToSet(q) : x = q[1] \/ x \in ToSet(r)
    BY <1>2 DEF ToSet
  <1>6. \A x \in ToSet(r) : x \in ToSet(q)
    BY <1>1, <1>3 DEF ToSet
  <1>7. q[1] \in ToSet(q)
    BY <1>4 DEF ToSet
  <1> QED BY <1>1, <1>5, <1>6, <1>7 DEF r

LEMMA AppendAscending ==
  ASSUME NEW S, NEW q \in Seq(S), NEW x \in S, Ascending(q), Before(ToSet(q), {x})
  PROVE  Ascending(Append(q, x))
  <1> DEFINE r == Append(q, x)
  <1>1. /\ DOMAIN r = DOMAIN q \cup {Len(q) + 1} /\ r[Len(q) + 1] = x
        /\ \A i \in DOMAIN q : r[i] = q[i] /\ i < Len(q) + 1 /\ i \in Nat
        /\ Len(q) \in Nat
    OBVIOUS
  <1>2. \A i \in DOMAIN q : q[i] \in ToSet(q)
    BY DEF ToSet
  <1> HIDE DEF r
  <1>3. ASSUME NEW i \in DOMAIN r, NEW j \in DOMAIN r, i < j, r[i].kind \in Kinds, r[j].kind \in Kinds
        PROVE r[i].id < r[j].id
    <2>1. i \in DOMAIN q
      BY <1>1, <1>3
    <2>2. CASE j \in DOMAIN q
      BY <1>1, <1>3, <2>1, <2>2 DEF Ascending
    <2>3. CASE j = Len(q) + 1
      BY <1>1, <1>2, <1>3, <2>1, <2>3 DEF Before
    <2> QED BY <1>1, <2>2, <2>3
  <1> QED BY <1>3 DEF Ascending, r

LEMMA TailAscending ==
  ASSUME NEW S, NEW q \in Seq(S), q # <<>>, Ascending(q)
  PROVE  Ascending(Tail(q)) /\ Before({Head(q)}, ToSet(Tail(q)))
  <1> DEFINE r == Tail(q)
  <1>1. /\ DOMAIN q = 1..Len(q) /\ DOMAIN r = 1..(Len(q) - 1) /\ Len(q) \in Nat \ {0}
        /\ Head(q) = q[1] /\ \A i \in DOMAIN r : r[i] = q[i + 1]
    OBVIOUS
  <1> HIDE DEF r
  <1>2. \A i \in DOMAIN r : i + 1 \in DOMAIN q /\ 1 < i + 1 /\ 1 \in DOMAIN q
    BY <1>1
  <1>3. \A i, j \in DOMAIN r : i < j => i + 1 < j + 1
    BY <1>1
  <1>4. Ascending(r)
    BY <1>1, <1>2, <1>3 DEF Ascending
  <1>5. Before({Head(q)}, ToSet(r))
    BY <1>1, <1>2 DEF Ascending, Before, ToSet
  <1> QED BY <1>4, <1>5 DEF r

LEMMA ConcatAscending ==
  ASSUME NEW S, NEW q \in Seq(S), NEW r \in Seq(S), Ascending(q), Ascending(r),
         Before(ToSet(q), ToSet(r))
  PROVE  Ascending(q \o r)
  <1> DEFINE s == q \o r
  <1>1. /\ DOMAIN s = 1..(Len(q) + Len(r)) /\ DOMAIN q = 1..Len(q) /\ DOMAIN r = 1..Len(r)
        /\ Len(q) \in Nat /\ Len(r) \in Nat
        /\ \A i \in DOMAIN q : s[i] = q[i]
        /\ \A i \in DOMAIN r : s[Len(q) + i] = r[i]
    OBVIOUS
  <1> HIDE DEF s
  <1>2. \A i \in DOMAIN s : i \in DOMAIN q \/ (i - Len(q) \in DOMAIN r /\ s[i] = r[i - Len(q)])
    <2> SUFFICES ASSUME NEW i \in DOMAIN s, i \notin DOMAIN q
                 PROVE  i - Len(q) \in DOMAIN r /\ s[i] = r[i - Len(q)]
      OBVIOUS
    <2>1. i - Len(q) \in DOMAIN r /\ Len(q) + (i - Len(q)) = i
      BY <1>1
    <2> QED BY <1>1, <2>1
  <1>3. (\A i \in DOMAIN q : q[i] \in ToSet(q)) /\ (\A i \in DOMAIN r : r[i] \in ToSet(r))
    BY DEF ToSet
  <1>4. ASSUME NEW i \in DOMAIN s, NEW j \in DOMAIN s, i < j, s[i].kind \in Kinds, s[j].kind \in Kinds
        PROVE s[i].id < s[j].id
    <2>1. CASE j \in DOMAIN q
      <3>1. i \in DOMAIN q
        BY <1>1, <1>4, <2>1
      <3> QED BY <1>1, <1>4, <2>1, <3>1 DEF Ascending
    <2>2. CASE j \notin DOMAIN q /\ i \in DOMAIN q
      BY <1>1, <1>2, <1>3, <1>4, <2>2 DEF Before
    <2>3. CASE j \notin DOMAIN q /\ i \notin DOMAIN q
      <3>1. i - Len(q) < j - Len(q)
        BY <1>1, <1>4
      <3> QED BY <1>2, <1>4, <2>3, <3>1 DEF Ascending
    <2> QED BY <2>1, <2>2, <2>3
  <1> QED BY <1>4 DEF Ascending, s

-----------------------------------------------------------------------------
(* Asking and superseding.                                                  *)

LEMMA RequestFields ==
  ASSUME NEW a \in Activities, NEW kind \in Kinds, NEW obsolete, NEW selection
  PROVE  LET b == Request(a, kind, obsolete, selection)
             q == [kind |-> kind, id |-> a.next + 1, selection |-> selection]
         IN /\ b.next = a.next + 1 /\ b.latest = [a.latest EXCEPT ![kind] = a.next + 1]
            /\ b.waiting = (a.waiting \ obsolete) \cup {kind}
            /\ b.queued = Append(Without(a.queued, obsolete), q)
  <1> DEFINE id == a.next + 1
             queue == Append(Without(a.queued, obsolete), [kind |-> kind, id |-> id, selection |-> selection])
             latest == [a.latest EXCEPT ![kind] = id]
             waiting == (a.waiting \ obsolete) \cup {kind}
  <1>1. Request(a, kind, obsolete, selection) =
          [a EXCEPT !.next = id, !.latest = latest, !.waiting = waiting, !.queued = queue]
    BY DEF Request, Activities
  <1> HIDE DEF id, queue, latest, waiting
  <1>2. LET b == Request(a, kind, obsolete, selection)
        IN b.next = id /\ b.latest = latest /\ b.waiting = waiting /\ b.queued = queue
    BY <1>1 DEF Activities
  <1> QED BY <1>2 DEF id, queue, latest, waiting

\* A new query is the only one due of its kind; of the others no more are due.
Asks(a, b, out, h, kind, obsolete, selection) ==
  /\ Numbered(b, out) /\ Waits(b, out, b.waiting, h)
  /\ b.waiting = (a.waiting \ obsolete) \cup {kind}
  /\ \A r \in Due(b, out, kind) : r.selection = selection
  /\ b.latest[kind] = a.next + 1
  /\ \A k \in Kinds \ {kind} : Due(b, out, k) \subseteq Due(a, out, k)
  /\ \A k \in Kinds \ {kind} : b.latest[k] = a.latest[k]

LEMMA RequestAsks ==
  ASSUME NEW a \in Activities, NEW out, Numbered(a, out), NEW h,
         NEW kind \in Kinds, NEW obsolete \in SUBSET Kinds, kind \in obsolete,
         NEW selection \in Selections,
         Waits(a, out, a.waiting \ obsolete, h),
         kind = "History" => "Patch" \notin a.waiting \ obsolete
  PROVE  Asks(a, Request(a, kind, obsolete, selection), out, h, kind, obsolete, selection)
  <1> DEFINE b == Request(a, kind, obsolete, selection)
             id == a.next + 1
             q == [kind |-> kind, id |-> id, selection |-> selection]
             old == Without(a.queued, obsolete)
  <1>1. /\ b \in Activities /\ b.head = a.head
        /\ b.next = id /\ b.latest = [a.latest EXCEPT ![kind] = id]
        /\ b.waiting = (a.waiting \ obsolete) \cup {kind} /\ b.queued = Append(old, q)
    BY RequestFields, RequestKeeps DEF Keeps
  <1>2. /\ a.next \in Nat /\ a.latest \in [Kinds -> Nat] /\ a.queued \in Seq(Queries)
        /\ a.waiting \subseteq Kinds
    BY ActivityFields
  <1>3. q \in Queries /\ q.kind = kind /\ q.id = id
    BY <1>2 DEF Queries
  <1>4. /\ old \in Seq(Queries) /\ Ascending(old)
        /\ ToSet(old) = {x \in ToSet(a.queued) : x.kind \notin obsolete}
    BY <1>2, WithoutQueries DEF Numbered
  <1> HIDE DEF b, q, old
  <1>5. ToSet(b.queued) = ToSet(old) \cup {q}
    BY <1>1, <1>3, <1>4, AppendSet
  <1>6. \A r \in ToSet(a.queued) \cup out : r.kind \in Kinds => r.id \in 1..a.next
    BY DEF Numbered
  <1>7. \A k \in Kinds : b.latest[k] = IF k = kind THEN id ELSE a.latest[k]
    BY <1>1, <1>2
  <1>8. \A r \in ToSet(old) \cup out : r.kind \in Kinds => r.id < id /\ r.id # id /\ r.id \in 1..id
    BY <1>2, <1>4, <1>6
  <1>9. Due(b, out, kind) = {q}
    BY <1>1, <1>3, <1>5, <1>7, <1>8 DEF Due
  <1>10. \A k \in Kinds \ {kind} : Due(b, out, k) \subseteq Due(a, out, k)
    BY <1>3, <1>4, <1>5, <1>7 DEF Due
  <1>11. \A k \in Kinds \ obsolete : Due(a, out, k) \subseteq Due(b, out, k)
    BY <1>4, <1>5, <1>7 DEF Due
  <1>12. Numbered(b, out)
    <2>1. Ascending(b.queued)
      <3>1. Before(ToSet(old), {q})
        BY <1>3, <1>8 DEF Before
      <3>2. Ascending(Append(old, q))
        BY <1>3, <1>4, <3>1, AppendAscending
      <3> QED BY <1>1, <3>2
    <2>2. Before(out, ToSet(b.queued))
      BY <1>3, <1>4, <1>5, <1>8 DEF Before, Numbered
    <2>3. \A r \in ToSet(b.queued) \cup out : r.kind \in Kinds => r.id \in 1..b.next
      BY <1>1, <1>2, <1>3, <1>5, <1>8
    <2>4. \A k \in Kinds : b.latest[k] \in 0..b.next
      BY <1>1, <1>2, <1>7 DEF Numbered
    <2>5. "Patch" \in b.waiting => b.latest["History"] < b.latest["Patch"]
      <3>1. "History" \in Kinds /\ "Patch" \in Kinds
        BY DEF Kinds
      <3>2. a.latest["History"] < id
        BY <1>2, <3>1 DEF Numbered
      <3> QED BY <1>1, <1>7, <3>1, <3>2 DEF Numbered
    <2> QED BY <2>1, <2>2, <2>3, <2>4, <2>5 DEF Numbered
  <1>13. Waits(b, out, b.waiting, h)
    <2> SUFFICES ASSUME NEW k \in b.waiting, ~(k = "History" /\ b.head # h) PROVE Due(b, out, k) # {}
      BY DEF Waits
    <2>1. CASE k = kind
      BY <1>9, <2>1
    <2>2. CASE k # kind
      <3>1. k \in a.waiting \ obsolete /\ k \in Kinds
        BY <1>1, <1>2, <2>2
      <3>2. Due(a, out, k) # {}
        BY <1>1, <3>1 DEF Waits
      <3> QED BY <1>11, <3>1, <3>2
    <2> QED BY <2>1, <2>2
  <1>14. \A r \in Due(b, out, kind) : r.selection = selection
    BY <1>9 DEF q
  <1> QED BY <1>1, <1>7, <1>10, <1>12, <1>13, <1>14 DEF Asks, b

\* Fewer waits, of queries that are dropped from the queue.
LEMMA SupersededWaits ==
  ASSUME NEW a \in Activities, NEW out, Numbered(a, out), NEW h,
         Waits(a, out, a.waiting, h), NEW K \in SUBSET Kinds
  PROVE  LET b == [a EXCEPT !.waiting = a.waiting \ K, !.queued = Without(a.queued, K)]
         IN /\ b \in Activities /\ Numbered(b, out) /\ Waits(b, out, b.waiting, h)
            /\ b.waiting = a.waiting \ K /\ b.latest = a.latest
            /\ \A k : Due(b, out, k) \subseteq Due(a, out, k)
  <1> DEFINE queue == Without(a.queued, K)
             w == a.waiting \ K
             b == [a EXCEPT !.waiting = w, !.queued = queue]
  <1>1. a.waiting \subseteq Kinds /\ a.queued \in Seq(Queries) /\ Ascending(a.queued)
    BY ActivityFields DEF Numbered
  <1>2. /\ queue \in Seq(Queries) /\ Ascending(queue)
        /\ ToSet(queue) = {x \in ToSet(a.queued) : x.kind \notin K}
    BY <1>1, WithoutQueries
  <1> HIDE DEF queue
  <1>3. /\ b \in Activities /\ b.waiting = w /\ b.queued = queue /\ b.latest = a.latest
        /\ b.next = a.next /\ b.head = a.head
    BY <1>1, <1>2 DEF Activities
  <1> HIDE DEF b
  <1>4. \A k : Due(b, out, k) \subseteq Due(a, out, k)
    BY <1>2, <1>3 DEF Due
  <1>5. \A k \in b.waiting : Due(a, out, k) \subseteq Due(b, out, k)
    BY <1>2, <1>3 DEF Due
  <1>6. Numbered(b, out)
    BY <1>2, <1>3 DEF Numbered, Before
  <1>7. Waits(b, out, b.waiting, h)
    BY <1>3, <1>5 DEF Waits
  <1> QED BY <1>3, <1>4, <1>6, <1>7 DEF b, queue

\* What is awaited, due, pending and listed decides what Settling says.
LEMMA SettlingKept ==
  ASSUME NEW a, NEW b, NEW out, NEW rest, Settling(a, out),
         b.waiting \cap {"Patch", "File"} = a.waiting \cap {"Patch", "File"},
         \A k \in Kinds : Due(b, rest, k) \subseteq Due(a, out, k),
         b.selection = a.selection, b.commits = a.commits, b.files = a.files,
         b.pending.selection = a.pending.selection, b.pending.document = a.pending.document,
         b.pending.commits = a.pending.commits, b.pending.files = a.pending.files
  PROVE  Settling(b, rest)
  <1>1. {"History", "Patch", "File"} \subseteq Kinds
    BY DEF Kinds
  <1>2. \A c : Summarised(b, c) = Summarised(a, c)
    BY DEF Summarised
  <1>3. Listed(b) = Listed(a)
    BY DEF Listed
  <1>4. /\ ("Patch" \in b.waiting) = ("Patch" \in a.waiting)
        /\ ("File" \in b.waiting) = ("File" \in a.waiting)
    OBVIOUS
  <1>5. Awaited(b, rest)
    <2>1. AwaitsPatch(a, out) => AwaitsPatch(b, rest)
      BY <1>1, <1>4 DEF AwaitsPatch
    <2>2. AwaitsFile(a, out) => AwaitsFile(b, rest)
      BY <1>1, <1>3, <1>4 DEF AwaitsFile
    <2>3. Dropped(a, out) => Dropped(b, rest)
      <3>1. Due(b, rest, "History") \subseteq Due(a, out, "History")
        BY <1>1
      <3> QED BY <1>2, <3>1 DEF Dropped
    <2> QED BY <2>1, <2>2, <2>3 DEF Awaited, Settling
  <1>6. PatchIsNew(b)
    BY <1>4 DEF PatchIsNew, Settling
  <1>7. Promotable(b, rest)
    <2>1. Due(b, rest, "History") \subseteq Due(a, out, "History")
      BY <1>1
    <2> QED BY <1>2, <1>4, <2>1 DEF Promotable, Settling
  <1> QED BY <1>5, <1>6, <1>7 DEF Settling

-----------------------------------------------------------------------------
(* What the handlers do to it.                                              *)

LEMMA KindsAre ==
         /\ "History" \in Kinds /\ "Patch" \in Kinds /\ "File" \in Kinds
         /\ {"History"} \in SUBSET Kinds /\ {"File"} \in SUBSET Kinds
         /\ {"Patch", "File"} \in SUBSET Kinds
         /\ "File" # "History" /\ "Patch" # "History" /\ "Patch" # "File"
  BY DEF Kinds

LEMMA SupersedeAsks ==
  ASSUME NEW a \in Activities, NEW out, NEW h, Numbered(a, out), Waits(a, out, a.waiting, h),
         NEW s \in Selections, OfSameCommit(a, s.commit)
  PROVE  LET b == Supersede(a, s)
         IN /\ Numbered(b, out) /\ Waits(b, out, b.waiting, h)
            /\ b.latest = a.latest
            /\ b.waiting = a.waiting \/ b.waiting = a.waiting \ {"File"}
            /\ \A k : Due(b, out, k) \subseteq Due(a, out, k)
  <1>1. CASE a.pending.selection \in {NoSelection, s}
    BY <1>1 DEF Supersede
  <1>2. CASE a.pending.selection \notin {NoSelection, s}
    <2> DEFINE b == [a EXCEPT !.waiting = a.waiting \ {"File"}, !.queued = Without(a.queued, {"File"})]
    <2>1. a.pending.selection.commit = s.commit
      BY <1>2, ActivityFields, PendingFields, SelectionTypes, Constants DEF OfSameCommit
    <2>2. Supersede(a, s) = b
      BY <1>2, <2>1 DEF Supersede, Activities
    <2>3. /\ Numbered(b, out) /\ Waits(b, out, b.waiting, h)
          /\ b.waiting = a.waiting \ {"File"} /\ b.latest = a.latest
          /\ \A k : Due(b, out, k) \subseteq Due(a, out, k)
      BY KindsAre, SupersededWaits
    <2> QED BY <2>2, <2>3
  <1> QED BY <1>1, <1>2

\* A handler that changes neither the lists, nor whether a patch is awaited, nor
\* the commit of what is pending.
LEMMA SelectionArrives ==
  ASSUME NEW a \in Activities, NEW b \in Activities, Keeps(a, b), NEW out, NEW h, NEW t,
         Arriving(a, out, h, t), NEW c, OfSameCommit(a, c), "Patch" \notin a.waiting,
         c = a.selection.commit \/ Summarised(a, c),
         Due(a, out, "History") # {} => c = a.selection.commit,
         Numbered(b, out), Waits(b, out, b.waiting, h), Awaited(b, out),
         "Patch" \notin b.waiting, ("History" \in a.waiting) = ("History" \in b.waiting),
         Due(b, out, "History") \subseteq Due(a, out, "History"),
         b.pending.selection # NoSelection, b.pending.selection.commit = c,
         b.pending.commits = a.pending.commits
  PROVE  Arriving(b, out, h, t)
  <1>1. \A d : Summarised(b, d) = Summarised(a, d)
    BY DEF Summarised, Keeps
  <1>2. PatchIsNew(b)
    BY DEF PatchIsNew
  <1>3. Promotable(b, out)
    BY <1>1 DEF Promotable, Arriving, Settling, Keeps
  <1>4. Current(b, h, t)
    <2>1. a.pending.selection # NoSelection => a.pending.selection.commit = c
      BY ActivityFields, PendingFields, SelectionTypes, Constants DEF OfSameCommit
    <2>2. b.head = a.head /\ b.commits = a.commits /\ b.selection = a.selection
      BY DEF Keeps
    <2>3. Current(a, h, t)
      BY DEF Arriving
    <2> QED BY <2>1, <2>2, <2>3 DEF Current
  <1> QED BY <1>2, <1>3, <1>4 DEF Arriving, Settling

LEMMA SelectFileArrives ==
  ASSUME NEW a \in Activities, Consistent(a), NEW out, NEW h, NEW t, Arriving(a, out, h, t),
         NEW c, OfSameCommit(a, c), NEW f \in FileNames, NEW mode \in Modes,
         "Patch" \notin a.waiting,
         c = a.selection.commit \/ Summarised(a, c),
         Due(a, out, "History") # {} => c = a.selection.commit,
         \/ a.pending.selection \in {NoSelection, FileOf(c, f)}
         \/ Listed(a) # None /\ f \in ToSet(FilesOf[Listed(a)])
  PROVE  LET b == SelectFile(a, c, f, mode) IN Arriving(b, out, h, t) /\ Still(a, b)
  <1> DEFINE s == FileOf(c, f)
             kept == Supersede(a, s)
             listed == OrElse(kept.pending.files, None, kept.files)
             b == [kept EXCEPT !.pending.mode = mode]
             hunks == OrElse(b.pending.hunks, None, b.hunks)
             patch == IF s \in b.cached THEN s ELSE NoSelection
             d == [selection |-> s, hunks |-> hunks, patch |-> patch]
             p == a.pending
             r == SelectFile(a, c, f, mode)
  <1>1. c \in Commits /\ s \in Selections /\ s.commit = c /\ s.file = f /\ s # NoSelection
    BY SelectionTypes, Constants DEF OfSameCommit
  <1>2. r \in Activities /\ Keeps(a, r)
    BY SelectFileKeeps
  <1>3. /\ kept \in Activities /\ Keeps(a, kept) /\ kept.pending = p
        /\ Numbered(kept, out) /\ Waits(kept, out, kept.waiting, h) /\ kept.latest = a.latest
        /\ kept.waiting = a.waiting \/ kept.waiting = a.waiting \ {"File"}
        /\ \A k : Due(kept, out, k) \subseteq Due(a, out, k)
    <2>1. Numbered(a, out) /\ Waits(a, out, a.waiting, h)
      BY DEF Arriving
    <2> HIDE DEF s
    <2> QED BY <1>1, <2>1, SupersedeKeeps, SupersedeAsks
  <1>4. p \in Pendings
    BY ActivityFields
  <1> DEFINE pb == [p EXCEPT !.mode = mode]
  <1>5. /\ pb \in Pendings /\ pb.selection = p.selection /\ pb.document = p.document
        /\ pb.files = p.files /\ pb.hunks = p.hunks /\ pb.commits = p.commits
    BY <1>4 DEF Pendings
  <1>6. b = [kept EXCEPT !.pending = pb]
    BY <1>3 DEF Activities, Pendings
  <1>7. /\ b \in Activities /\ Keeps(kept, b) /\ b.pending = pb /\ b.queued = kept.queued
        /\ b.waiting = kept.waiting /\ b.latest = kept.latest /\ b.next = kept.next
    <2> HIDE DEF b, kept, pb
    <2> QED BY <1>3, <1>5, <1>6 DEF Activities, Keeps
  <1>8. CASE listed = None \/ f \notin ToSet(FilesOf[listed])
    <2>1. r = kept
      BY <1>8 DEF SelectFile
    <2>2. listed = Listed(a)
      <3> HIDE DEF kept
      <3> QED BY <1>3 DEF Listed, Keeps
    <2>3. p.selection \in {NoSelection, s}
      BY <1>8, <2>2
    <2>4. kept = a
      BY <2>3 DEF Supersede
    <2> QED BY <2>1, <2>4 DEF Still
  <1>9. CASE listed # None /\ f \in ToSet(FilesOf[listed]) /\ mode # "Hunk" /\ s \notin b.cached
    <2>1. r = RequestFile(b, s)
      BY <1>9 DEF SelectFile
    <2>2. listed = Listed(a)
      <3> HIDE DEF kept
      <3> QED BY <1>3 DEF Listed, Keeps
    <2> HIDE DEF b, pb, s, listed, kept, r
    <2> DEFINE q == Request(b, "File", {"File"}, s)
    <2>3. /\ Numbered(b, out) /\ Waits(b, out, b.waiting \ {"File"}, h)
          /\ \A k : Due(b, out, k) \subseteq Due(a, out, k)
      <3>1. \A k : Due(b, out, k) = Due(kept, out, k)
        BY <1>7 DEF Due
      <3>2. Numbered(b, out)
        BY <1>3, <1>7 DEF Numbered
      <3> QED BY <1>3, <1>7, <3>1, <3>2 DEF Waits, Keeps
    <2>4. /\ q \in Activities
          /\ Numbered(q, out) /\ Waits(q, out, q.waiting, h)
          /\ q.waiting = (b.waiting \ {"File"}) \cup {"File"}
          /\ \A x \in Due(q, out, "File") : x.selection = s
          /\ Due(q, out, "History") \subseteq Due(b, out, "History")
          /\ q.latest["History"] = b.latest["History"]
      <3>1. "History" \in Kinds \ {"File"}
        BY KindsAre
      <3>3. q \in Activities
        BY <1>1, <1>7, KindsAre, RequestKeeps
      <3>4. Asks(b, q, out, h, "File", {"File"}, s)
        BY <1>1, <1>7, <2>3, KindsAre, RequestAsks
      <3> HIDE DEF q
      <3> QED BY <3>1, <3>3, <3>4 DEF Asks
    <2>5. /\ r.queued = q.queued /\ r.latest = q.latest /\ r.waiting = q.waiting
          /\ r.next = q.next /\ r.head = q.head
      <3>1. r = [q EXCEPT !.pending.selection = s, !.pending.document = NoDocument]
        BY <2>1 DEF RequestFile
      <3> HIDE DEF q
      <3> QED BY <2>4, <3>1 DEF Activities
    <2>6. /\ r.pending.selection = s /\ r.pending.document = NoDocument
          /\ r.pending.files = p.files /\ r.pending.commits = p.commits
      <3>1. r.pending = [pb EXCEPT !.selection = s, !.document = NoDocument]
        BY <1>1, <1>7, <2>1, RequestFileKeeps
      <3>2. NoDocument \in Reviews
        BY DocumentTypes
      <3> QED BY <1>1, <1>5, <3>1, <3>2 DEF Pendings
    <2> HIDE DEF q
    <2>7. \A k : Due(r, out, k) = Due(q, out, k)
      BY <2>5 DEF Due
    <2>8. Numbered(r, out) /\ Waits(r, out, r.waiting, h)
      <3>1. Numbered(r, out)
        BY <2>4, <2>5 DEF Numbered
      <3> QED BY <2>4, <2>5, <2>7, <3>1 DEF Waits
    <2>9. Awaited(r, out)
      <3>1. Listed(r) = Listed(a)
        BY <1>2, <2>6 DEF Listed, Keeps
      <3> QED BY <1>1, <1>9, <2>2, <2>4, <2>5, <2>6, <2>7, <3>1 DEF Awaited, AwaitsFile
    <2>10. "Patch" \notin r.waiting /\ ("History" \in a.waiting) = ("History" \in r.waiting)
      BY <1>3, <1>7, <2>4, <2>5
    <2>11. Due(r, out, "History") \subseteq Due(a, out, "History")
      BY <2>3, <2>4, <2>7
    <2>12. r.pending.selection # NoSelection /\ r.pending.selection.commit = c
      BY <1>1, <2>6
    <2>13. Arriving(r, out, h, t)
      BY <1>2, <2>6, <2>8, <2>9, <2>10, <2>11, <2>12, SelectionArrives
    <2> QED BY <1>2, <1>3, <1>7, <2>4, <2>5, <2>13 DEF Still, Keeps, r
  <1>10. CASE /\ listed # None /\ f \in ToSet(FilesOf[listed])
              /\ ~(mode # "Hunk" /\ s \notin b.cached)
    <2> DEFINE ps == [pb EXCEPT !.selection = s, !.document = d]
    <2>1. r = [b EXCEPT !.pending.selection = s, !.pending.document = d]
      BY <1>10 DEF SelectFile
    <2> HIDE DEF b, pb, s, kept, listed, r
    <2>2. d # NoDocument
      BY <1>1, DocumentTypes
    <2> HIDE DEF d
    <2>3. r = [b EXCEPT !.pending = ps]
      BY <1>7, <2>1 DEF Activities, Pendings
    <2>4. ps.selection = s /\ ps.document = d /\ ps.commits = p.commits
      BY <1>5 DEF Pendings
    <2> HIDE DEF ps
    <2>5. /\ r.pending = ps /\ r.queued = b.queued /\ r.latest = b.latest
          /\ r.waiting = b.waiting /\ r.next = b.next /\ r.head = b.head
      BY <1>7, <2>3 DEF Activities
    <2>6. \A k : Due(r, out, k) = Due(kept, out, k)
      BY <1>7, <2>5 DEF Due
    <2>7. Numbered(r, out) /\ Waits(r, out, r.waiting, h)
      <3>1. Numbered(r, out)
        BY <1>3, <1>7, <2>5 DEF Numbered
      <3> QED BY <1>3, <1>7, <2>5, <2>6, <3>1 DEF Waits, Keeps
    <2>8. Awaited(r, out)
      BY <2>2, <2>4, <2>5 DEF Awaited
    <2>9. "Patch" \notin r.waiting /\ ("History" \in a.waiting) = ("History" \in r.waiting)
      BY <1>3, <1>7, <2>5
    <2>10. Due(r, out, "History") \subseteq Due(a, out, "History")
      BY <1>3, <2>6
    <2>11. /\ r.pending.selection # NoSelection /\ r.pending.selection.commit = c
           /\ r.pending.commits = a.pending.commits
      BY <1>1, <2>4, <2>5
    <2>12. Arriving(r, out, h, t)
      BY <1>2, <2>7, <2>8, <2>9, <2>10, <2>11, SelectionArrives
    <2> QED BY <1>2, <1>3, <1>7, <2>5, <2>12 DEF Still, Keeps, r
  <1> QED BY <1>8, <1>9, <1>10

LEMMA SetReviewModeArrives ==
  ASSUME NEW a \in Activities, Consistent(a), NEW out, NEW h, NEW t, Arriving(a, out, h, t),
         NEW mode \in Modes
  PROVE  LET b == SetReviewMode(a, mode) IN Arriving(b, out, h, t) /\ Still(a, b)
  <1> DEFINE p == a.pending
             s == OrElse(p.selection, NoSelection, a.selection)
  <1>1. s \in Selections /\ p.selection \in Selections
    BY ActivityFields, PendingFields DEF OrElse
  <1>2. CASE ReviewMode(a) = mode
    BY <1>2 DEF SetReviewMode, Still
  <1>3. CASE ReviewMode(a) # mode /\ s.file = None
    <2> DEFINE b == [a EXCEPT !.mode = mode]
    <2>1. SetReviewMode(a, mode) = b
      BY <1>3 DEF SetReviewMode
    <2>2. /\ b.queued = a.queued /\ b.latest = a.latest /\ b.next = a.next
          /\ b.waiting = a.waiting /\ b.head = a.head /\ b.pending = a.pending
          /\ b.selection = a.selection /\ b.commits = a.commits /\ b.files = a.files
      BY DEF Activities
    <2> HIDE DEF b
    <2>3. \A k : Due(b, out, k) = Due(a, out, k)
      BY <2>2 DEF Due
    <2>4. Numbered(b, out)
      BY <2>2 DEF Numbered, Arriving
    <2>5. Waits(b, out, b.waiting, h)
      BY <2>2, <2>3 DEF Waits, Arriving
    <2>6. Settling(b, out)
      <3>1. Settling(a, out)
        BY DEF Arriving
      <3> QED BY <2>2, <2>3, <3>1, SettlingKept
    <2>7. Current(b, h, t)
      BY <2>2 DEF Current, Arriving
    <2> QED BY <2>1, <2>2, <2>4, <2>5, <2>6, <2>7 DEF Arriving, Still
  <1>4. CASE ReviewMode(a) # mode /\ s.file # None
    <2>1. SetReviewMode(a, mode) = SelectFile(a, s.commit, s.file, mode)
      BY <1>4 DEF SetReviewMode
    <2>2. /\ s.commit \in Commits /\ s.file \in FileNames /\ s # NoSelection
          /\ s = FileOf(s.commit, s.file)
      BY <1>1, <1>4, SelectionTypes
    <2>3. PatchIsNew(a) /\ Promotable(a, out)
      BY DEF Arriving, Settling
    <2>4. CASE p.selection = NoSelection
      <3>1. s = a.selection
        BY <2>4 DEF OrElse
      <3>2. OfSameCommit(a, s.commit)
        BY <2>2, <2>4, <3>1, SelectionTypes DEF OfSameCommit
      <3>3. "Patch" \notin a.waiting
        BY <2>2, <2>3, <2>4, <3>1 DEF PatchIsNew
      <3> HIDE DEF s
      <3> QED BY <2>1, <2>2, <2>4, <3>1, <3>2, <3>3, SelectFileArrives
    <2>5. CASE p.selection # NoSelection
      <3>1. s = p.selection
        BY <2>5 DEF OrElse
      <3>2. OfSameCommit(a, s.commit)
        BY <1>4, <2>2, <3>1 DEF OfSameCommit, Consistent
      <3>3. "Patch" \notin a.waiting
        BY <1>4, <2>3, <2>5, <3>1 DEF PatchIsNew
      <3>4. s.commit = a.selection.commit \/ Summarised(a, s.commit)
        BY <1>4, <2>3, <3>1 DEF Promotable
      <3>5. Due(a, out, "History") # {} => s.commit = a.selection.commit
        BY <2>3, <2>5, <3>1, <3>3 DEF Promotable
      <3> HIDE DEF s
      <3> QED BY <2>1, <2>2, <3>1, <3>2, <3>3, <3>4, <3>5, SelectFileArrives
    <2> QED BY <2>4, <2>5
  <1> QED BY <1>2, <1>3, <1>4

\* The patch of another commit than the selected one is asked for.
LEMMA RequestPatchAsks ==
  ASSUME NEW a \in Activities, NEW out, NEW h, Numbered(a, out), Waits(a, out, a.waiting, h),
         NEW c \in Commits, c # a.selection.commit,
         Due(a, out, "History") # {} => a.pending.commits = <<>>
  PROVE  LET b == RequestPatch(a, c)
         IN /\ Numbered(b, out) /\ Waits(b, out, b.waiting, h) /\ Settling(b, out) /\ Still(a, b)
            /\ ("History" \in b.waiting) = ("History" \in a.waiting)
            /\ b.pending.selection # NoSelection /\ b.pending.selection.commit # b.selection.commit
  <1> DEFINE r == Request(a, "Patch", {"Patch", "File"}, Complete(c))
             b == RequestPatch(a, c)
  <1>1. Complete(c) \in Selections /\ Complete(c).commit = c /\ Complete(c).file = None
    BY SelectionTypes
  <1>2. Waits(a, out, a.waiting \ {"Patch", "File"}, h)
    BY DEF Waits
  <1>3. Asks(a, r, out, h, "Patch", {"Patch", "File"}, Complete(c))
    BY <1>1, <1>2, KindsAre, RequestAsks
  <1>4. r \in Activities
    BY <1>1, KindsAre, RequestKeeps
  <1>5. /\ b \in Activities /\ Keeps(a, b)
        /\ b.pending.files = None /\ b.pending.hunks = None /\ b.pending.document = NoDocument
        /\ b.pending.selection = Complete(c) /\ b.pending.commits = a.pending.commits
    BY RequestPatchKeeps
  <1> HIDE DEF r
  <1>6. /\ b.queued = r.queued /\ b.latest = r.latest /\ b.waiting = r.waiting
        /\ b.next = r.next /\ b.head = r.head
    BY <1>4 DEF RequestPatch, Activities, r
  <1> HIDE DEF b
  <1>7. \A k : Due(b, out, k) = Due(r, out, k)
    BY <1>6 DEF Due
  <1>8. Numbered(b, out)
    BY <1>3, <1>6 DEF Numbered, Asks
  <1>9. Waits(b, out, b.waiting, h)
    BY <1>3, <1>6, <1>7 DEF Waits, Asks
  <1>10. Awaited(b, out)
    BY <1>1, <1>3, <1>5, <1>6, <1>7 DEF Awaited, AwaitsPatch, Asks
  <1>11. b.pending.selection # NoSelection
    BY <1>1, <1>5, SelectionTypes, Constants
  <1>12. b.pending.selection.commit # b.selection.commit
    BY <1>1, <1>5 DEF Keeps
  <1>13. PatchIsNew(b)
    BY <1>1, <1>5, <1>11, <1>12 DEF PatchIsNew
  <1>14. Due(b, out, "History") \subseteq Due(a, out, "History") /\ b.latest["History"] = a.latest["History"]
    BY <1>3, <1>6, <1>7, KindsAre DEF Asks
  <1>15. Promotable(b, out)
    BY <1>1, <1>3, <1>5, <1>6, <1>14 DEF Promotable, Asks
  <1>16. ("History" \in b.waiting) = ("History" \in a.waiting)
    BY <1>3, <1>6, KindsAre DEF Asks
  <1> QED BY <1>5, <1>8, <1>9, <1>10, <1>11, <1>12, <1>13, <1>14, <1>15, <1>16
          DEF Settling, Still, Keeps, b

LEMMA SelectCommitArrives ==
  ASSUME NEW a \in Activities, NEW out, NEW h, NEW t, Arriving(a, out, h, t),
         NEW c \in Commits, c # a.selection.commit
  PROVE  LET b == RequestPatch(a, c) IN Arriving(b, out, h, t) /\ Still(a, b)
  <1> DEFINE b == RequestPatch(a, c)
  <1>1. Numbered(a, out) /\ Waits(a, out, a.waiting, h) /\ Promotable(a, out) /\ Current(a, h, t)
    BY DEF Arriving, Settling
  <1>2. Due(a, out, "History") # {} => a.pending.commits = <<>>
    BY <1>1 DEF Promotable
  <1>3. /\ Numbered(b, out) /\ Waits(b, out, b.waiting, h) /\ Settling(b, out) /\ Still(a, b)
        /\ ("History" \in b.waiting) = ("History" \in a.waiting)
        /\ b.pending.selection # NoSelection /\ b.pending.selection.commit # b.selection.commit
    BY <1>1, <1>2, RequestPatchAsks
  <1>4. Keeps(a, b) /\ b.pending.commits = a.pending.commits
    BY RequestPatchKeeps
  <1> HIDE DEF b
  <1>5. Current(b, h, t)
    BY <1>1, <1>3, <1>4 DEF Current, Keeps
  <1> QED BY <1>3, <1>5 DEF Arriving, b

\* Another checkout: nothing is pending any more and its list is asked for.
LEMMA RepositoryChangedArrives ==
  ASSUME NEW a \in Activities, NEW out, NEW h, NEW t, NEW u, Arriving(a, out, h, t),
         NEW c \in Heads, c # a.head
  PROVE  LET b == RepositoryChanged(a, c)
         IN /\ Arriving(b, out, h, u) /\ b.head = c
            /\ \A r \in out : r.kind \in Kinds => r.id # b.latest["History"]
  <1> DEFINE w == a.waiting \ {"Patch", "File"}
             r == [a EXCEPT !.head = c, !.pending = NothingPending, !.waiting = w]
             b == RequestHistory(r)
  <1>1. RepositoryChanged(a, c) = b
    BY DEF RepositoryChanged
  <1>2. /\ r \in Activities /\ r.pending = NothingPending /\ r.waiting = w /\ r.head = c
        /\ r.queued = a.queued /\ r.latest = a.latest /\ r.next = a.next
    BY PendingTypes DEF Activities
  <1> HIDE DEF r
  <1>3. Numbered(r, out)
    BY <1>2 DEF Numbered, Arriving
  <1>4. Waits(r, out, r.waiting \ {"History"}, h)
    BY <1>2, ActivityFields DEF Waits, Kinds
  <1>5. Asks(r, b, out, h, "History", {"History"}, NoSelection)
    <2>1. "Patch" \notin r.waiting \ {"History"}
      BY <1>2
    <2> QED BY <1>2, <1>3, <1>4, <2>1, SelectionTypes, KindsAre, RequestAsks DEF RequestHistory
  <1>6. b \in Activities /\ Keeps(r, b) /\ b.pending = r.pending
    BY <1>2, RequestHistoryKeeps
  <1> HIDE DEF b
  <1>8. b.waiting \cap {"Patch", "File"} = {} /\ "History" \in b.waiting
    BY <1>2, <1>5, KindsAre DEF Asks
  <1>9. Settling(b, out)
    <2>1. b.pending = NothingPending /\ "Patch" \notin b.waiting
      BY <1>2, <1>6, <1>8
    <2> QED BY <2>1, PendingTypes, SelectionTypes DEF Settling, Awaited, PatchIsNew, Promotable
  <1>10. Current(b, h, u)
    BY <1>8 DEF Current
  <1>11. \A x \in out : x.kind \in Kinds => x.id # b.latest["History"]
    <2>1. b.latest["History"] = a.next + 1 /\ a.next \in Nat
      BY <1>2, <1>5, KindsAre, ActivityFields DEF Asks
    <2>2. \A x \in out : x.kind \in Kinds => x.id \in 1..a.next
      BY DEF Arriving, Numbered
    <2> QED BY <2>1, <2>2
  <1> QED BY <1>1, <1>2, <1>5, <1>6, <1>9, <1>10, <1>11 DEF Arriving, Keeps, Asks

-----------------------------------------------------------------------------
(* What an answer does: e leaves out, and rest remains.                     *)

LEMMA NumberedRest ==
  ASSUME NEW a, NEW out, NEW rest, Numbered(a, out), rest \subseteq out
  PROVE  Numbered(a, rest)
  BY DEF Numbered, Before

\* What is not the answer to a latest query changes nothing.
LEMMA OtherArrives ==
  ASSUME NEW a, NEW out, NEW rest, NEW e, NEW h, NEW t, Arriving(a, out, h, t),
         out = rest \cup {e}, a.waiting \subseteq Kinds,
         e.kind \in Kinds => e.id # a.latest[e.kind]
  PROVE  Arriving(a, rest, h, t)
  <1>1. \A k \in Kinds : Due(a, rest, k) = Due(a, out, k)
    BY DEF Due
  <1>2. Numbered(a, rest)
    BY NumberedRest DEF Arriving
  <1>3. Waits(a, rest, a.waiting, h)
    BY <1>1 DEF Waits, Arriving
  <1>4. Settling(a, out)
    BY DEF Arriving
  <1>5. Settling(a, rest)
    BY <1>1, <1>4, SettlingKept
  <1> QED BY <1>2, <1>3, <1>5 DEF Arriving

\* The answer to the latest query of its kind: no other one is due, and after a
\* patch that was waited for no list is.
Answered(a, b, out, rest, h, k) ==
  /\ Numbered(b, rest) /\ Waits(b, rest, b.waiting, h) /\ Due(b, rest, k) = {}
  /\ k = "Patch" /\ "Patch" \in a.waiting => Due(b, rest, "History") = {}
  /\ \A j \in Kinds : Due(b, rest, j) \subseteq Due(a, out, j)
  /\ b.waiting = a.waiting \ {k} /\ b.latest = a.latest

LEMMA AnswerIsLast ==
  ASSUME NEW a \in Activities, NEW out, NEW rest, NEW e, NEW h,
         Numbered(a, out), Waits(a, out, a.waiting, h),
         out = rest \cup {e}, Before({e}, rest), NEW k \in Kinds, e.kind = k, e.id = a.latest[k]
  PROVE  Answered(a, [a EXCEPT !.waiting = @ \ {k}], out, rest, h, k)
  <1> DEFINE b == [a EXCEPT !.waiting = @ \ {k}]
  <1>1. /\ b.waiting = a.waiting \ {k} /\ b.latest = a.latest /\ b.queued = a.queued
        /\ b.next = a.next /\ b.head = a.head /\ a.waiting \subseteq Kinds
    BY DEF Activities
  <1> HIDE DEF b
  <1>2. \A j : Due(b, rest, j) = Due(a, rest, j)
    BY <1>1 DEF Due
  <1>3. \A j \in Kinds : Due(a, rest, j) \subseteq Due(a, out, j)
    BY DEF Due
  <1>4. \A j \in Kinds \ {k} : Due(a, rest, j) = Due(a, out, j)
    BY DEF Due
  <1>5. Numbered(a, rest)
    BY NumberedRest
  <1>6. \A r \in ToSet(a.queued) \cup rest : r.kind \in Kinds => e.id < r.id /\ e.id \in Nat /\ r.id \in Nat
    <2>1. e.id \in 1..a.next /\ a.next \in Nat
      BY ActivityFields DEF Numbered
    <2>2. \A r \in ToSet(a.queued) \cup rest : r.kind \in Kinds => r.id \in 1..a.next
      BY DEF Numbered
    <2> QED BY <2>1, <2>2 DEF Numbered, Before
  <1>7. Due(a, rest, k) = {}
    BY <1>6 DEF Due
  <1>8. ASSUME k = "Patch", "Patch" \in a.waiting PROVE Due(a, rest, "History") = {}
    <2>1. a.latest["History"] < e.id /\ a.latest["History"] \in Nat
      BY <1>8, KindsAre, ActivityFields DEF Numbered
    <2>2. \A r \in Due(a, rest, "History") : r.id = a.latest["History"] /\ e.id < r.id
      BY <1>6, KindsAre DEF Due
    <2> SUFFICES ASSUME NEW r \in Due(a, rest, "History") PROVE FALSE
      OBVIOUS
    <2>3. r.id = a.latest["History"] /\ e.id < r.id /\ e.id \in Nat
      BY <1>6, <2>2, KindsAre DEF Due
    <2> QED BY <2>1, <2>3
  <1>9. Numbered(b, rest)
    BY <1>1, <1>5 DEF Numbered
  <1>10. Waits(b, rest, b.waiting, h)
    BY <1>1, <1>2, <1>4 DEF Waits
  <1> QED BY <1>1, <1>2, <1>3, <1>7, <1>8, <1>9, <1>10 DEF Answered, b

\* The list of another checkout than the activity's: HEAD has moved since.
LEMMA StaleListArrives ==
  ASSUME NEW a \in Activities, NEW out, NEW rest, NEW e, NEW h, NEW t, Arriving(a, out, h, t),
         out = rest \cup {e}, e.kind = "History", a.head # h
  PROVE  Arriving(a, rest, h, t)
  <1>1. \A k \in Kinds \ {"History"} : Due(a, rest, k) = Due(a, out, k)
    BY DEF Due
  <1>2. \A k \in Kinds : Due(a, rest, k) \subseteq Due(a, out, k)
    BY DEF Due
  <1>3. Numbered(a, rest)
    BY NumberedRest DEF Arriving
  <1>4. Waits(a, rest, a.waiting, h)
    BY <1>1, ActivityFields DEF Waits, Arriving
  <1>5. Settling(a, out)
    BY DEF Arriving
  <1>6. Settling(a, rest)
    BY <1>2, <1>5, SettlingKept
  <1> QED BY <1>3, <1>4, <1>6 DEF Arriving, Current

LEMMA AcceptHistoryArrives ==
  ASSUME NEW a \in Activities, Consistent(a), NEW out, NEW rest, NEW e \in Events, NEW h \in Heads, NEW t,
         Arriving(a, out, h, t), out = rest \cup {e}, Before({e}, rest), e.kind = "History",
         e.id = a.latest["History"] /\ e.head # a.head => a.head # h,
         e.head # h \/ e.commits = Log[e.head]
  PROVE  LET r == AcceptHistory(a, e) IN Arriving(r, rest, h, t) /\ Still(a, r)
  <1> DEFINE r == AcceptHistory(a, e)
             b == [a EXCEPT !.waiting = @ \ {"History"}]
             p == a.pending
  <1>1. e.commits \in Seq(Commits) /\ a.waiting \subseteq Kinds /\ p \in Pendings
    BY ActivityFields DEF Events
  <1>2. CASE ~Answers(a, "History", e)
    <2>1. r = a
      BY <1>2 DEF AcceptHistory
    <2>2. e.kind \in Kinds => e.id # a.latest[e.kind]
      BY <1>2 DEF Answers
    <2> HIDE DEF r
    <2> QED BY <1>1, <2>1, <2>2, OtherArrives DEF Still, r
  <1>3. CASE Answers(a, "History", e) /\ e.head # a.head
    <2>1. r = a
      BY <1>3 DEF AcceptHistory
    <2>2. a.head # h
      BY <1>3 DEF Answers
    <2> HIDE DEF r
    <2> QED BY <2>1, <2>2, StaleListArrives DEF Still, r
  <1>4. CASE Answers(a, "History", e) /\ e.head = a.head
    <2>1. Answered(a, b, out, rest, h, "History")
      BY <1>4, KindsAre, AnswerIsLast DEF Arriving, Answers
    <2>2. b \in Activities /\ Keeps(a, b) /\ b.pending = p
      BY WaitedKeeps
    <2>3. a.head # h \/ (e.commits = Log[h] /\ (h # Unborn => e.commits # <<>>))
      BY <1>4, HistoryAssumption DEF Heads
    <2>4. Due(a, out, "History") # {}
      BY <1>4 DEF Due, Answers
    <2>5. PatchIsNew(a) /\ Promotable(a, out) /\ Awaited(a, out)
      BY DEF Arriving, Settling
    <2>6. ("Patch" \in b.waiting) = ("Patch" \in a.waiting) /\ ("File" \in b.waiting) = ("File" \in a.waiting)
      BY <2>1, KindsAre DEF Answered
    <2>7. CASE e.commits = <<>>
      <3> DEFINE q == [NothingPending EXCEPT !.mode = b.pending.mode]
      <3>1. r = [b EXCEPT !.commits = <<>>, !.files = None, !.hunks = None,
                          !.document = NoDocument, !.selection = NoSelection,
                          !.cached = {}, !.pending = q]
        BY <1>4, <2>7 DEF AcceptHistory
      <3>2. /\ q.document = NoDocument /\ q.selection = NoSelection /\ q.commits = <<>>
        BY PendingTypes DEF NothingPending
      <3> HIDE DEF q, b, r
      <3>3. /\ r.queued = b.queued /\ r.latest = b.latest /\ r.waiting = b.waiting
            /\ r.next = b.next /\ r.head = b.head /\ r.pending = q /\ r.selection = NoSelection
            /\ r.commits = <<>>
        BY <2>2, <3>1 DEF Activities
      <3>4. \A k : Due(r, rest, k) = Due(b, rest, k)
        BY <3>3 DEF Due
      <3>5. Numbered(r, rest)
        BY <2>1, <3>3 DEF Numbered, Answered
      <3>6. Waits(r, rest, r.waiting, h)
        BY <2>1, <3>3, <3>4 DEF Waits, Answered
      <3>7. Settling(r, rest)
        BY <2>1, <3>2, <3>3, <3>4, SelectionTypes DEF Settling, Awaited, PatchIsNew, Promotable, Answered
      <3>8. Current(r, h, t)
        BY <2>2, <2>3, <2>7, <3>2, <3>3 DEF Current, Keeps
      <3> QED BY <2>1, <2>2, <3>3, <3>5, <3>6, <3>7, <3>8 DEF Arriving, Still, Keeps, Answered, r
    <2>8. CASE e.commits # <<>> /\ a.selection.commit \in ToSet(e.commits)
      <3>1. r = [b EXCEPT !.commits = e.commits]
        BY <1>4, <2>8 DEF AcceptHistory
      <3> HIDE DEF b, r
      <3>2. /\ r.queued = b.queued /\ r.latest = b.latest /\ r.waiting = b.waiting
            /\ r.next = b.next /\ r.head = b.head /\ r.pending = p /\ r.selection = a.selection
            /\ r.commits = e.commits /\ r.files = a.files
        BY <2>2, <3>1 DEF Activities, Keeps
      <3>3. \A k : Due(r, rest, k) = Due(b, rest, k)
        BY <3>2 DEF Due
      <3>4. Numbered(r, rest)
        BY <2>1, <3>2 DEF Numbered, Answered
      <3>5. Waits(r, rest, r.waiting, h)
        BY <2>1, <3>2, <3>3 DEF Waits, Answered
      <3>6. Awaited(r, rest)
        <4>1. Listed(r) = Listed(a)
          BY <3>2 DEF Listed
        <4>2. AwaitsPatch(a, out) => AwaitsPatch(r, rest)
          BY <2>1, <2>6, <3>2, <3>3, KindsAre DEF AwaitsPatch, Answered
        <4>3. AwaitsFile(a, out) => AwaitsFile(r, rest)
          BY <2>1, <2>6, <3>2, <3>3, <4>1, KindsAre DEF AwaitsFile, Answered
        <4> QED BY <2>4, <2>5, <3>2, <4>2, <4>3 DEF Awaited, Dropped
      <3>7. PatchIsNew(r)
        BY <2>5, <2>6, <3>2 DEF PatchIsNew
      <3>8. Promotable(r, rest)
        <4>1. Due(r, rest, "History") = {}
          BY <2>1, <3>3 DEF Answered
        <4>2. ASSUME p.selection.file # None \/ p.document # NoDocument
              PROVE  p.selection.commit = a.selection.commit
          <5>1. p.selection # NoSelection
            BY <4>2, SelectionTypes DEF Consistent
          <5>2. "Patch" \notin a.waiting
            BY <2>5, <4>2, SelectionTypes DEF PatchIsNew
          <5> QED BY <2>4, <2>5, <5>1, <5>2 DEF Promotable
        <4> QED BY <3>2, <4>1, <4>2 DEF Promotable
      <3>9. Current(r, h, t)
        <4>1. p.commits = <<>>
          BY <2>4, <2>5 DEF Promotable
        <4> QED BY <2>2, <2>3, <2>8, <3>2, <4>1 DEF Current, Keeps
      <3> QED BY <2>1, <2>2, <3>2, <3>4, <3>5, <3>6, <3>7, <3>8, <3>9
              DEF Arriving, Settling, Still, Keeps, Answered, r
    <2>9. CASE e.commits # <<>> /\ a.selection.commit \notin ToSet(e.commits)
      <3> DEFINE q == [b.pending EXCEPT !.commits = e.commits]
                 s == [b EXCEPT !.pending = q]
                 c == e.commits[1]
      <3>1. r = RequestPatch([b EXCEPT !.pending.commits = e.commits], c)
        BY <1>4, <2>9 DEF AcceptHistory
      <3>2. c \in Commits /\ c \in ToSet(e.commits)
        <4>1. 1 \in DOMAIN e.commits
          BY <1>1, <2>9
        <4> QED BY <1>1, <4>1 DEF ToSet
      <3> HIDE DEF b, c, r
      <3>3. [b EXCEPT !.pending.commits = e.commits] = s
        BY <2>2 DEF Activities, Pendings
      <3>4. q \in Pendings /\ q.commits = e.commits
        BY <1>1, <2>2 DEF Pendings
      <3> HIDE DEF q
      <3>5. /\ s \in Activities /\ s.queued = b.queued /\ s.latest = b.latest /\ s.waiting = b.waiting
            /\ s.next = b.next /\ s.head = b.head /\ s.pending = q /\ s.selection = b.selection
        BY <2>2, <3>4 DEF Activities
      <3> HIDE DEF s
      <3>6. \A k : Due(s, rest, k) = Due(b, rest, k)
        BY <3>5 DEF Due
      <3>7. Numbered(s, rest)
        BY <2>1, <3>5 DEF Numbered, Answered
      <3>8. Waits(s, rest, s.waiting, h)
        BY <2>1, <3>5, <3>6 DEF Waits, Answered
      <3>9. c # s.selection.commit
        BY <2>2, <2>9, <3>2, <3>5 DEF Keeps
      <3>10. Due(s, rest, "History") = {}
        BY <2>1, <3>6 DEF Answered
      <3>11. r = RequestPatch(s, c)
        BY <3>1, <3>3
      <3>12. /\ Numbered(r, rest) /\ Waits(r, rest, r.waiting, h) /\ Settling(r, rest) /\ Still(s, r)
             /\ r.pending.selection # NoSelection /\ r.pending.selection.commit # r.selection.commit
        BY <3>2, <3>5, <3>7, <3>8, <3>9, <3>10, <3>11, RequestPatchAsks
      <3>13. r.pending.commits = e.commits
        BY <3>2, <3>4, <3>5, <3>11, RequestPatchKeeps
      <3>14. r.head = a.head /\ r.latest["History"] = a.latest["History"]
        BY <2>1, <2>2, <3>5, <3>12 DEF Still, Keeps, Answered
      <3>15. Current(r, h, t)
        BY <2>3, <2>9, <3>12, <3>13, <3>14 DEF Current
      <3> QED BY <3>12, <3>14, <3>15 DEF Arriving, Still, r
    <2> QED BY <2>7, <2>8, <2>9
  <1> QED BY <1>2, <1>3, <1>4

\* A patch that is not wanted, or failed, for another commit than what is pending.
LEMMA PatchDropped ==
  ASSUME NEW a \in Activities, NEW out, NEW rest, NEW e, NEW h, NEW t, Arriving(a, out, h, t),
         out = rest \cup {e}, Before({e}, rest), e.kind = "Patch", Answers(a, "Patch", e),
         ~(a.pending.selection.commit = e.selection.commit /\ Summarised(a, e.selection.commit))
  PROVE  LET b == [a EXCEPT !.waiting = @ \ {"Patch"}] IN Arriving(b, rest, h, t) /\ Still(a, b)
  <1> DEFINE b == [a EXCEPT !.waiting = @ \ {"Patch"}]
  <1>1. Answered(a, b, out, rest, h, "Patch")
    BY KindsAre, AnswerIsLast DEF Arriving, Answers
  <1>2. Keeps(a, b) /\ b.pending = a.pending
    BY WaitedKeeps
  <1> HIDE DEF b
  <1>3. Awaited(a, out) /\ Promotable(a, out) /\ Current(a, h, t)
    BY DEF Arriving, Settling
  <1>4. /\ \A c : Summarised(b, c) = Summarised(a, c)
        /\ Listed(b) = Listed(a)
    BY <1>2 DEF Summarised, Listed, Keeps
  <1>5. /\ "Patch" \notin b.waiting /\ ("File" \in b.waiting) = ("File" \in a.waiting)
        /\ ("History" \in b.waiting) = ("History" \in a.waiting)
        /\ Due(b, rest, "History") \subseteq Due(a, out, "History")
        /\ Due(b, rest, "File") \subseteq Due(a, out, "File")
        /\ "Patch" \in a.waiting => Due(b, rest, "History") = {}
    BY <1>1, KindsAre DEF Answered
  <1>6. Awaited(b, rest)
    <2>1. ASSUME AwaitsPatch(a, out) PROVE Dropped(b, rest)
      <3>1. e \in Due(a, out, "Patch") /\ "Patch" \in a.waiting
        BY <2>1 DEF Due, Answers, AwaitsPatch
      <3>2. e.selection.commit = a.pending.selection.commit
        BY <2>1, <3>1 DEF AwaitsPatch
      <3> QED BY <1>2, <1>4, <1>5, <3>1, <3>2 DEF Dropped
    <2>2. ASSUME AwaitsFile(a, out) PROVE AwaitsFile(b, rest)
      BY <1>2, <1>4, <1>5, <2>2 DEF AwaitsFile
    <2>3. ASSUME Dropped(a, out) PROVE Dropped(b, rest)
      BY <1>2, <1>4, <1>5, <2>3 DEF Dropped
    <2> QED BY <1>2, <1>3, <2>1, <2>2, <2>3 DEF Awaited
  <1>7. PatchIsNew(b)
    BY <1>5 DEF PatchIsNew
  <1>8. Promotable(b, rest)
    <2>1. \/ Due(b, rest, "History") = {}
          \/ Due(a, out, "History") # {} /\ "Patch" \notin a.waiting
      BY <1>5
    <2>2. a.pending = b.pending /\ a.selection = b.selection
      BY <1>2 DEF Keeps
    <2> QED BY <1>3, <1>4, <2>1, <2>2 DEF Promotable
  <1>9. Current(b, h, t)
    BY <1>2, <1>3, <1>5 DEF Current, Keeps
  <1> QED BY <1>1, <1>2, <1>6, <1>7, <1>8, <1>9 DEF Arriving, Settling, Still, Keeps, Answered, b

\* A document for what is pending.
LEMMA DocumentArrives ==
  ASSUME NEW a, NEW b, NEW r, NEW out, NEW rest, NEW h, NEW t, NEW k \in {"Patch", "File"},
         Arriving(a, out, h, t), Answered(a, b, out, rest, h, k),
         r.head = a.head, b.head = a.head, r.commits = a.commits, r.selection = a.selection,
         r.queued = b.queued, r.latest = b.latest, r.waiting = b.waiting, r.next = b.next,
         r.pending.document # NoDocument, r.pending.commits = a.pending.commits,
         r.pending.selection # NoSelection, a.pending.selection # NoSelection,
         r.pending.selection.commit = a.pending.selection.commit,
         "Patch" \notin r.waiting,
         \/ a.pending.selection.commit = a.selection.commit
         \/ Summarised(a, a.pending.selection.commit)
  PROVE  Arriving(r, rest, h, t) /\ Still(a, r)
  <1>1. \A j : Due(r, rest, j) = Due(b, rest, j)
    BY DEF Due
  <1>2. Numbered(r, rest)
    BY DEF Numbered, Answered
  <1>3. Waits(r, rest, r.waiting, h)
    BY <1>1 DEF Waits, Answered
  <1>4. Awaited(r, rest) /\ PatchIsNew(r)
    BY DEF Awaited, PatchIsNew
  <1>5. \A c : Summarised(r, c) = Summarised(a, c)
    BY DEF Summarised
  <1>6. Promotable(r, rest)
    <2>1. ASSUME Due(r, rest, "History") # {}
          PROVE  Due(a, out, "History") # {} /\ "Patch" \notin a.waiting
      <3>1. Due(r, rest, "History") \subseteq Due(a, out, "History")
        BY <1>1, KindsAre DEF Answered
      <3>2. CASE k = "Patch"
        BY <1>1, <2>1, <3>1, <3>2 DEF Answered
      <3>3. CASE k = "File"
        BY <2>1, <3>1, <3>3, KindsAre DEF Answered
      <3> QED BY <3>2, <3>3
    <2>2. Promotable(a, out) /\ r.selection = a.selection
      BY DEF Arriving, Settling
    <2> QED BY <1>5, <2>1, <2>2 DEF Promotable
  <1>7. Current(r, h, t)
    <2>1. ("History" \in r.waiting) = ("History" \in a.waiting)
      BY KindsAre DEF Answered
    <2> QED BY <2>1 DEF Current, Arriving
  <1> QED BY <1>2, <1>3, <1>4, <1>6, <1>7 DEF Arriving, Settling, Still, Answered

LEMMA AcceptPatchArrives ==
  ASSUME NEW a \in Activities, Consistent(a), NEW out, NEW rest, NEW e \in Events, NEW h, NEW t,
         Arriving(a, out, h, t), out = rest \cup {e}, Before({e}, rest), e.kind = "Patch"
  PROVE  LET r == AcceptPatch(a, e) IN Arriving(r, rest, h, t) /\ Still(a, r)
  <1> DEFINE c == e.selection.commit
             b == [a EXCEPT !.waiting = @ \ {"Patch"}]
             s == IF FilesOf[c] = <<>> THEN Complete(c) ELSE FileOf(c, FilesOf[c][1])
             Wanted == a.pending.selection.commit = c /\ Summarised(a, c)
             r == AcceptPatch(a, e)
  <1>1. CASE ~Answers(a, "Patch", e)
    <2>1. r = a
      BY <1>1 DEF AcceptPatch
    <2>2. e.kind \in Kinds => e.id # a.latest[e.kind]
      BY <1>1 DEF Answers
    <2> HIDE DEF r
    <2> QED BY <2>1, <2>2, OtherArrives, ActivityFields DEF Still, r
  <1>2. CASE Answers(a, "Patch", e) /\ ~Wanted
    <2>1. r = b
      BY <1>2 DEF AcceptPatch
    <2> HIDE DEF r
    <2> QED BY <1>2, <2>1, PatchDropped DEF r
  <1>3. CASE Answers(a, "Patch", e) /\ Wanted
    <2> DEFINE d == [selection |-> s, patch |-> NoSelection, hunks |-> c]
               p == [b.pending EXCEPT !.document = d, !.selection = s, !.hunks = c,
                                      !.mode = "Hunk", !.files = c]
    <2>1. c \in Commits
      <3>1. a.commits \in Seq(Commits) /\ a.pending.commits \in Seq(Commits)
        BY ActivityFields, PendingFields
      <3> QED BY <1>3, <3>1 DEF Summarised, ToSet
    <2>2. s \in Selections /\ s.commit = c /\ s # NoSelection
      BY <2>1, ListedFile, SelectionTypes, Constants
    <2>3. r = [b EXCEPT !.pending.document = d, !.pending.selection = s, !.pending.hunks = c,
                        !.pending.mode = "Hunk", !.pending.files = c]
      BY <1>3 DEF AcceptPatch
    <2>4. Answered(a, b, out, rest, h, "Patch")
      BY <1>3, KindsAre, AnswerIsLast DEF Arriving, Answers
    <2>5. b \in Activities /\ Keeps(a, b) /\ b.pending = a.pending
      BY WaitedKeeps
    <2> HIDE DEF s, c, r
    <2>6. d # NoDocument
      BY <2>2, DocumentTypes
    <2> HIDE DEF d, b
    <2>7. r = [b EXCEPT !.pending = p]
      BY <2>3, <2>5 DEF Activities, Pendings
    <2>8. p.document = d /\ p.selection = s /\ p.commits = b.pending.commits
      BY <2>5 DEF Activities, Pendings
    <2> HIDE DEF p
    <2>9. /\ Keeps(a, r) /\ r.pending = p
          /\ r.queued = b.queued /\ r.latest = b.latest /\ r.waiting = b.waiting /\ r.next = b.next
      BY <2>5, <2>7 DEF Activities, Keeps
    <2>10. a.pending.selection # NoSelection /\ a.pending.selection.commit = c /\ Summarised(a, c)
      BY <1>3, <2>1, SelectionTypes, Constants
    <2>11. "Patch" \notin r.waiting
      BY <2>4, <2>9 DEF Answered
    <2>12. Arriving(r, rest, h, t) /\ Still(a, r)
      BY <2>2, <2>4, <2>5, <2>6, <2>8, <2>9, <2>10, <2>11, DocumentArrives DEF Keeps
    <2> QED BY <2>12 DEF r
  <1> HIDE DEF Wanted
  <1> QED BY <1>1, <1>2, <1>3

LEMMA AcceptFileArrives ==
  ASSUME NEW a \in Activities, Consistent(a), NEW out, NEW rest, NEW e \in Events, NEW h, NEW t,
         Arriving(a, out, h, t), out = rest \cup {e}, Before({e}, rest), e.kind = "File"
  PROVE  LET r == AcceptFile(a, e) IN Arriving(r, rest, h, t) /\ Still(a, r)
  <1> DEFINE b == [a EXCEPT !.waiting = @ \ {"File"}]
             files == OrElse(a.pending.files, None, a.files)
             hunks == OrElse(a.pending.hunks, None, a.hunks)
             s == e.selection
             Wanted == a.pending.selection = s /\ files # None /\ s.file \in ToSet(FilesOf[files])
             r == AcceptFile(a, e)
  <1>1. CASE ~Answers(a, "File", e)
    <2>1. r = a
      BY <1>1 DEF AcceptFile
    <2>2. e.kind \in Kinds => e.id # a.latest[e.kind]
      BY <1>1 DEF Answers
    <2> HIDE DEF r
    <2> QED BY <2>1, <2>2, OtherArrives, ActivityFields DEF Still, r
  <1>2. ASSUME Answers(a, "File", e)
        PROVE  /\ Answered(a, b, out, rest, h, "File")
               /\ b \in Activities /\ Keeps(a, b) /\ b.pending = a.pending
               /\ ("Patch" \in b.waiting) = ("Patch" \in a.waiting)
               /\ ("History" \in b.waiting) = ("History" \in a.waiting)
    <2>1. Answered(a, b, out, rest, h, "File")
      BY <1>2, KindsAre, AnswerIsLast DEF Arriving, Answers
    <2>2. b \in Activities /\ Keeps(a, b) /\ b.pending = a.pending
      BY WaitedKeeps
    <2> HIDE DEF b
    <2> QED BY <2>1, <2>2, KindsAre DEF Answered
  <1>3. CASE Answers(a, "File", e) /\ ~Wanted
    <2>1. r = b
      BY <1>3 DEF AcceptFile
    <2>2. ~AwaitsFile(a, out)
      BY <1>3 DEF AwaitsFile, Due, Answers, Listed
    <2> HIDE DEF b, Wanted, r
    <2>3. Settling(a, out) /\ Current(a, h, t)
      BY DEF Arriving
    <2>4. /\ \A c : Summarised(b, c) = Summarised(a, c)
      BY <1>2, <1>3 DEF Summarised, Keeps
    <2>5. Due(b, rest, "Patch") \subseteq Due(a, out, "Patch") /\ Due(b, rest, "History") \subseteq Due(a, out, "History")
      BY <1>2, <1>3, KindsAre DEF Answered
    <2>6. Awaited(b, rest)
      <3>1. AwaitsPatch(a, out) => AwaitsPatch(b, rest)
        BY <1>2, <1>3, <2>5 DEF AwaitsPatch
      <3>2. Dropped(a, out) => Dropped(b, rest)
        BY <1>2, <1>3, <2>4, <2>5 DEF Dropped
      <3> QED BY <1>2, <1>3, <2>2, <2>3, <3>1, <3>2 DEF Awaited, Settling
    <2>7. PatchIsNew(b)
      BY <1>2, <1>3, <2>3 DEF PatchIsNew, Settling, Keeps
    <2>8. Promotable(b, rest)
      BY <1>2, <1>3, <2>3, <2>4, <2>5 DEF Promotable, Settling, Keeps
    <2>9. Current(b, h, t)
      BY <1>2, <1>3, <2>3 DEF Current, Keeps
    <2>10. Arriving(b, rest, h, t) /\ Still(a, b)
      BY <1>2, <1>3, <2>6, <2>7, <2>8, <2>9 DEF Arriving, Settling, Still, Keeps, Answered
    <2> QED BY <2>1, <2>10 DEF r
  <1>4. CASE Answers(a, "File", e) /\ Wanted
    <2> DEFINE d == [selection |-> s, patch |-> s, hunks |-> hunks]
               cached == b.cached \cup {s}
               p == [b.pending EXCEPT !.document = d]
    <2>1. r = [b EXCEPT !.cached = @ \cup {s}, !.pending.document = d]
      BY <1>4 DEF AcceptFile
    <2>2. /\ s \in Selections /\ a.pending.selection = s
          /\ a.files \in OfCommit /\ a.pending.files \in OfCommit
      BY <1>4, ActivityFields, PendingFields
    <2>3. files \in Commits /\ s.file \in ToSet(FilesOf[files])
      BY <1>4, <2>2 DEF OfCommit, OrElse
    <2>4. s.file # None /\ s # NoSelection
      <3> HIDE DEF files
      <3> QED BY <2>3, ListedFile, SelectionTypes
    <2>5. d # NoDocument
      BY <2>4, DocumentTypes
    <2> HIDE DEF s, hunks, files, d, b, r
    <2>6. r = [b EXCEPT !.cached = cached, !.pending = p]
      BY <1>2, <1>4, <2>1 DEF Activities, Pendings
    <2>7. p.document = d /\ p.selection = s /\ p.commits = a.pending.commits
      BY <1>2, <1>4, <2>2 DEF Activities, Pendings
    <2> HIDE DEF p, cached
    <2>8. /\ r.pending = p /\ r.head = b.head /\ r.commits = b.commits /\ r.files = b.files
          /\ r.hunks = b.hunks /\ r.document = b.document /\ r.selection = b.selection /\ r.mode = b.mode
          /\ r.queued = b.queued /\ r.latest = b.latest /\ r.waiting = b.waiting /\ r.next = b.next
      BY <1>2, <1>4, <2>6 DEF Activities
    <2>9. "Patch" \notin a.waiting
      BY <2>2, <2>4 DEF Arriving, Settling, PatchIsNew
    <2>10. s.commit = a.selection.commit \/ Summarised(a, s.commit)
      BY <2>2, <2>4 DEF Arriving, Settling, Promotable
    <2>11. "Patch" \notin r.waiting /\ b.head = a.head
           /\ r.head = a.head /\ r.commits = a.commits /\ r.selection = a.selection
      BY <1>2, <1>4, <2>8, <2>9 DEF Keeps
    <2>12. Arriving(r, rest, h, t) /\ Still(a, r)
      BY <1>2, <1>4, <2>2, <2>4, <2>5, <2>7, <2>8, <2>10, <2>11, DocumentArrives
    <2> QED BY <2>12 DEF r
  <1> HIDE DEF Wanted
  <1> QED BY <1>1, <1>3, <1>4

LEMMA NothingSettles ==
  ASSUME NEW a, NEW out, a.pending = NothingPending, "Patch" \notin a.waiting
  PROVE  Settling(a, out)
  BY PendingTypes, SelectionTypes DEF Settling, Awaited, PatchIsNew, Promotable

\* A list that fails is told to the user, and so is a patch unless another one is
\* pending by then.
LEMMA FailedArrives ==
  ASSUME NEW a \in Activities, NEW out, NEW rest, NEW e \in Events, NEW h, NEW t \in BOOLEAN,
         Arriving(a, out, h, t), out = rest \cup {e}, Before({e}, rest),
         e.kind \in {"History", "Patch"}
  PROVE  LET b == Failed(a, e).activity
         IN Arriving(b, rest, h, t \/ Failed(a, e).told) /\ Still(a, b)
  <1> DEFINE k == e.kind
             b == [a EXCEPT !.waiting = @ \ {k}]
             f == Failed(a, e)
  <1>1. ASSUME Answers(a, k, e)
        PROVE  Answered(a, b, out, rest, h, k)
    BY <1>1, KindsAre, AnswerIsLast DEF Arriving, Answers
  <1>2. Waited(a, k) = b /\ b \in Activities /\ Keeps(a, b) /\ b.pending = a.pending
    BY WaitedKeeps DEF Waited
  <1>3. CASE ~Answers(a, k, e)
    <2>1. f = [activity |-> a, told |-> FALSE]
      BY <1>3 DEF Failed
    <2>2. e.kind \in Kinds => e.id # a.latest[e.kind]
      BY <1>3 DEF Answers
    <2>3. Arriving(a, rest, h, t)
      BY <2>2, OtherArrives, ActivityFields
    <2>4. f.activity = a /\ (t \/ f.told) = t
      BY <2>1
    <2> HIDE DEF f
    <2> QED BY <2>3, <2>4 DEF Still, f
  <1>4. CASE Answers(a, k, e) /\ k = "History"
    <2>1. f = [activity |-> b, told |-> TRUE]
      BY <1>2, <1>4 DEF Failed
    <2> HIDE DEF b
    <2>2. Answered(a, b, out, rest, h, "History")
      BY <1>1, <1>4
    <2>3. b.waiting \cap {"Patch", "File"} = a.waiting \cap {"Patch", "File"}
      BY <2>2, KindsAre DEF Answered
    <2>4. Settling(b, rest)
      BY <1>2, <2>2, <2>3, SettlingKept DEF Arriving, Keeps, Answered
    <2>5. Arriving(b, rest, h, TRUE) /\ Still(a, b)
      BY <1>2, <2>2, <2>4 DEF Arriving, Current, Still, Keeps, Answered
    <2>6. f.activity = b /\ (t \/ f.told) = TRUE
      BY <2>1
    <2> HIDE DEF f
    <2> QED BY <2>5, <2>6 DEF f
  <1>5. CASE /\ Answers(a, k, e) /\ k = "Patch"
             /\ a.pending.selection.commit = e.selection.commit
    <2> DEFINE r == [b EXCEPT !.pending = NothingPending]
    <2>1. f = [activity |-> r, told |-> TRUE]
      BY <1>2, <1>5 DEF Failed
    <2>2. Answered(a, b, out, rest, h, "Patch")
      BY <1>1, <1>5
    <2> HIDE DEF b
    <2>3. /\ r.pending = NothingPending /\ r.queued = b.queued /\ r.latest = b.latest
          /\ r.waiting = b.waiting /\ r.next = b.next /\ r.head = b.head
      BY <1>2 DEF Activities
    <2> HIDE DEF r
    <2>4. \A j : Due(r, rest, j) = Due(b, rest, j)
      BY <2>3 DEF Due
    <2>5. Numbered(r, rest)
      BY <2>2, <2>3 DEF Numbered, Answered
    <2>6. Waits(r, rest, r.waiting, h)
      BY <2>2, <2>3, <2>4 DEF Waits, Answered
    <2>7. Settling(r, rest)
      BY <2>2, <2>3, NothingSettles DEF Answered
    <2>8. Arriving(r, rest, h, TRUE) /\ Still(a, r)
      BY <1>2, <2>2, <2>3, <2>5, <2>6, <2>7 DEF Arriving, Current, Still, Keeps, Answered
    <2>9. f.activity = r /\ (t \/ f.told) = TRUE
      BY <2>1
    <2> HIDE DEF f
    <2> QED BY <2>8, <2>9 DEF f
  <1>6. CASE /\ Answers(a, k, e) /\ k = "Patch"
             /\ a.pending.selection.commit # e.selection.commit
    <2>1. f = [activity |-> b, told |-> FALSE]
      BY <1>2, <1>6 DEF Failed
    <2>2. Arriving(b, rest, h, t) /\ Still(a, b)
      BY <1>6, PatchDropped
    <2> HIDE DEF b
    <2>3. f.activity = b /\ (t \/ f.told) = t
      BY <2>1
    <2> HIDE DEF f
    <2> QED BY <2>2, <2>3 DEF f
  <1> QED BY <1>3, <1>4, <1>5, <1>6

-----------------------------------------------------------------------------
(* What frames, the worker and other processes do to it.                    *)

\* A frame promotes only what has its document, or what the activity has already.
LEMMA PromoteArrives ==
  ASSUME NEW a \in Activities, NEW out, NEW h, NEW t, Arriving(a, out, h, t),
         NEW d \in [document : Reviews, mode : Modes \cup {None}],
         a.pending.document = NoDocument /\ d.document # NoDocument =>
           d.document.selection = a.selection
  PROVE  LET b == Promote(a, d) IN Arriving(b, out, h, t) /\ Still(a, b)
  <1> DEFINE p == a.pending
             Ready == /\ p.selection # NoSelection /\ d.document.selection = p.selection
                      /\ p.mode \in {None, d.mode}
  <1>1. CASE ~Ready
    BY <1>1 DEF Promote, Still
  <1>2. CASE Ready
    <2> DEFINE files == OrElse(p.files, None, a.files)
               hunks == OrElse(p.hunks, None, a.hunks)
               mode == OrElse(p.mode, None, a.mode)
               commits == OrElse(p.commits, <<>>, a.commits)
               cached == IF a.selection.commit = p.selection.commit THEN a.cached ELSE {}
               r == [a EXCEPT !.selection = p.selection, !.document = p.document,
                              !.mode = mode, !.commits = commits, !.files = files,
                              !.hunks = hunks, !.cached = cached, !.pending = NothingPending]
    <2>1. Promote(a, d) = r
      BY <1>2 DEF Promote, Activities
    <2>2. commits = IF p.commits # <<>> THEN p.commits ELSE a.commits
      BY DEF OrElse
    <2>3. p.document # NoDocument \/ p.selection = a.selection
      BY <1>2, DocumentTypes
    <2>4. p.selection # NoSelection
      BY <1>2
    <2> HIDE DEF files, hunks, mode, commits, cached, p
    <2>5. /\ r.pending = NothingPending /\ r.selection = p.selection /\ r.commits = commits
          /\ r.queued = a.queued /\ r.latest = a.latest
          /\ r.waiting = a.waiting /\ r.next = a.next /\ r.head = a.head
      BY DEF Activities
    <2> HIDE DEF r
    <2>6. "Patch" \notin a.waiting
      BY <2>3, <2>4 DEF PatchIsNew, Arriving, Settling, p
    <2>7. \A k : Due(r, out, k) = Due(a, out, k)
      BY <2>5 DEF Due
    <2>8. Numbered(r, out)
      BY <2>5 DEF Numbered, Arriving
    <2>9. Waits(r, out, r.waiting, h)
      BY <2>5, <2>7 DEF Waits, Arriving
    <2>10. Settling(r, out)
      BY <2>5, <2>6, NothingSettles
    <2>11. Current(r, h, t)
      <3>1. p.selection # a.selection =>
              p.selection.commit = a.selection.commit \/ Summarised(a, p.selection.commit)
        BY <2>3 DEF Promotable, Arriving, Settling, p
      <3>2. Current(a, h, t)
        BY DEF Arriving
      <3>3. CASE "History" \in a.waiting \/ t \/ a.head # h
        BY <2>5, <3>3 DEF Current
      <3>4. CASE /\ a.commits = Log[h] /\ p.commits = <<>>
                 /\ h # Unborn => a.selection.commit \in ToSet(Log[h])
        <4>1. commits = Log[h]
          BY <2>2, <3>4
        <4>2. h # Unborn => p.selection.commit \in ToSet(Log[h])
          BY <3>1, <3>4 DEF Summarised, p
        <4> QED BY <2>5, <4>1, <4>2, PendingTypes DEF Current
      <3>5. CASE /\ p.commits = Log[h] /\ Log[h] # <<>> /\ p.selection # NoSelection
                 /\ p.selection.commit # a.selection.commit
        <4>1. commits = Log[h]
          BY <2>2, <3>5
        <4>2. p.selection.commit \in ToSet(Log[h])
          BY <3>1, <3>5 DEF Summarised, p
        <4> QED BY <2>5, <4>1, <4>2, PendingTypes DEF Current
      <3> QED BY <3>2, <3>3, <3>4, <3>5 DEF Current, p
    <2>12. Arriving(r, out, h, t) /\ Still(a, r)
      BY <2>5, <2>8, <2>9, <2>10, <2>11 DEF Arriving, Still
    <2> QED BY <2>1, <2>12
  <1> QED BY <1>1, <1>2

\* The same queries and answers are under way, in whichever place.
SameQueries(S, T) ==
  \A r \in S : r.kind \in Kinds =>
    \E s \in T : /\ s.kind = r.kind /\ s.id = r.id
                 /\ r.kind # "History" => s.selection = r.selection

LEMMA MovedArrives ==
  ASSUME NEW a \in Activities, NEW out, NEW rest, NEW h, NEW t, Arriving(a, out, h, t),
         SameQueries(out, rest), SameQueries(rest, out)
  PROVE  Arriving(a, rest, h, t)
  <1>1. ASSUME NEW k \in Kinds, NEW S, NEW T, SameQueries(S, T), NEW r \in Due(a, S, k)
        PROVE  \E s \in Due(a, T, k) : k # "History" => s.selection = r.selection
    <2>1. CASE r \in ToSet(a.queued)
      BY <1>1, <2>1 DEF Due
    <2>2. CASE r \in S
      <3>1. r.kind = k /\ r.id = a.latest[k]
        BY <1>1 DEF Due
      <3>2. PICK s \in T : /\ s.kind = r.kind /\ s.id = r.id
                           /\ r.kind # "History" => s.selection = r.selection
        BY <1>1, <2>2, <3>1 DEF SameQueries
      <3>3. s \in Due(a, T, k)
        BY <3>1, <3>2 DEF Due
      <3> QED BY <3>1, <3>2, <3>3
    <2> QED BY <1>1, <2>1, <2>2 DEF Due
  <1>2. \A k \in Kinds : (Due(a, rest, k) # {}) = (Due(a, out, k) # {})
    BY <1>1
  <1>3. Numbered(a, rest)
    <2>1. Numbered(a, out)
      BY DEF Arriving
    <2>2. Before(rest, ToSet(a.queued))
      BY <2>1 DEF Numbered, Before, SameQueries
    <2>3. \A r \in ToSet(a.queued) \cup rest : r.kind \in Kinds => r.id \in 1..a.next
      BY <2>1 DEF Numbered, SameQueries
    <2> QED BY <2>1, <2>2, <2>3 DEF Numbered
  <1>4. Waits(a, rest, a.waiting, h)
    BY <1>2, ActivityFields DEF Waits, Arriving
  <1>5. Settling(a, rest)
    <2>1. Settling(a, out)
      BY DEF Arriving
    <2>2. AwaitsPatch(a, out) => AwaitsPatch(a, rest)
      BY <1>1, KindsAre DEF AwaitsPatch
    <2>3. AwaitsFile(a, out) => AwaitsFile(a, rest)
      BY <1>1, KindsAre DEF AwaitsFile
    <2>4. Dropped(a, out) => Dropped(a, rest)
      BY <1>2, KindsAre DEF Dropped
    <2>5. Awaited(a, rest)
      BY <2>1, <2>2, <2>3, <2>4 DEF Awaited, Settling
    <2>6. Promotable(a, rest)
      BY <1>2, <2>1, KindsAre DEF Promotable, Settling
    <2> QED BY <2>1, <2>5, <2>6 DEF Settling
  <1> QED BY <1>3, <1>4, <1>5 DEF Arriving

LEMMA DispatchArrives ==
  ASSUME NEW a \in Activities, NEW out, NEW h, NEW t, Arriving(a, out, h, t)
  PROVE  LET b == [a EXCEPT !.queued = <<>>]
         IN Arriving(b, out \cup ToSet(a.queued), h, t) /\ Still(a, b)
  <1> DEFINE b == [a EXCEPT !.queued = <<>>]
             all == out \cup ToSet(a.queued)
  <1>1. Keeps(a, b) /\ b.pending = a.pending /\ b.queued = <<>> /\ b.latest = a.latest
        /\ b.waiting = a.waiting /\ b.next = a.next
    BY DEF Activities, Keeps
  <1> HIDE DEF b
  <1>2. ToSet(b.queued) = {} /\ DOMAIN b.queued = {}
    BY <1>1 DEF ToSet
  <1>3. \A k : Due(b, all, k) = Due(a, out, k)
    BY <1>1, <1>2 DEF Due
  <1>4. Numbered(b, all)
    BY <1>1, <1>2 DEF Numbered, Arriving, Ascending, Before
  <1>5. Waits(b, all, b.waiting, h)
    BY <1>1, <1>3 DEF Waits, Arriving, Keeps
  <1>6. Settling(b, all)
    <2>1. Settling(a, out)
      BY DEF Arriving
    <2>2. b.selection = a.selection /\ b.commits = a.commits /\ b.files = a.files
      BY <1>1 DEF Keeps
    <2>3. \A k \in Kinds : Due(b, all, k) \subseteq Due(a, out, k)
      BY <1>3
    <2> HIDE DEF all
    <2> QED BY <1>1, <2>1, <2>2, <2>3, SettlingKept
  <1>7. Current(b, h, t)
    BY <1>1 DEF Current, Arriving, Keeps
  <1> QED BY <1>1, <1>4, <1>5, <1>6, <1>7 DEF Arriving, Still, Keeps, b

LEMMA MovesArrives ==
  ASSUME NEW a, NEW out, NEW h, NEW t, Arriving(a, out, h, t), NEW g, a.head # g
  PROVE  Arriving(a, out, g, t)
  BY DEF Arriving, Waits, Current

-----------------------------------------------------------------------------
(* The queues of the worker and of the event loop.                          *)

UnderWay == ToSet(requests) \cup {job} \cup ToSet(events)

InOrder ==
  /\ Ascending(events) /\ Ascending(requests)
  /\ Before(ToSet(events), {job} \cup ToSet(requests)) /\ Before({job}, ToSet(requests))

\* No two snapshots in a queue are of the same checkout.
SnapshotHeads(S) == {e.head : e \in {x \in S : x.kind = "Snapshot"}}
Distinct(q) ==
  \A i, j \in DOMAIN q :
    i < j /\ q[i].kind = "Snapshot" /\ q[j].kind = "Snapshot" => q[i].head # q[j].head

\* Behind the snapshot of another checkout comes the one of h.
EndsWith(q, h) ==
  \A i \in DOMAIN q : q[i].kind = "Snapshot" /\ q[i].head # h =>
    \E j \in DOMAIN q : i < j /\ q[j].kind = "Snapshot" /\ q[j].head = h

\* The worker announced the checkout of the activity or a later one, and HEAD is
\* at a checkout it has not announced unless it is the last.
HeadsKnown ==
  /\ {head, activity.head} \cup SnapshotHeads(ToSet(events)) \subseteq ToSet(seen)
  /\ Distinct(events) /\ activity.head \notin SnapshotHeads(ToSet(events))
  /\ EndsWith(events, sent) /\ sent \in SnapshotHeads(ToSet(events)) \cup {activity.head}
  /\ head # sent => head \notin SnapshotHeads(ToSet(events)) \cup {activity.head}

\* A list that would not be accepted is of a checkout that HEAD left, and one of
\* the checkout is its log.
ListsKnown ==
  /\ \A r \in {job} \cup ToSet(events) : r.kind = "History" =>
       /\ r.head \in ToSet(seen)
       /\ r.id = activity.latest["History"] /\ r.head # activity.head => activity.head # head
  /\ \A e \in ToSet(events) : e.kind = "History" /\ e.ok => e.head # head \/ e.commits = Log[e.head]

ArrivalInv ==
  /\ Inv /\ InOrder /\ HeadsKnown /\ ListsKnown
  /\ Arriving(activity, UnderWay, head, told)

LEMMA AppendDistinct ==
  ASSUME NEW S, NEW q \in Seq(S), NEW x \in S, Distinct(q),
         x.kind = "Snapshot" => x.head \notin SnapshotHeads(ToSet(q))
  PROVE  Distinct(Append(q, x))
  <1> DEFINE r == Append(q, x)
  <1>1. /\ DOMAIN r = DOMAIN q \cup {Len(q) + 1} /\ r[Len(q) + 1] = x
        /\ \A i \in DOMAIN q : r[i] = q[i] /\ i < Len(q) + 1 /\ i \in Nat
        /\ Len(q) \in Nat
    OBVIOUS
  <1>2. \A i \in DOMAIN q : q[i].kind = "Snapshot" => q[i].head \in SnapshotHeads(ToSet(q))
    BY DEF ToSet, SnapshotHeads
  <1> HIDE DEF r
  <1>3. ASSUME NEW i \in DOMAIN r, NEW j \in DOMAIN r, i < j,
               r[i].kind = "Snapshot", r[j].kind = "Snapshot"
        PROVE r[i].head # r[j].head
    <2>1. i \in DOMAIN q
      BY <1>1, <1>3
    <2>2. CASE j \in DOMAIN q
      BY <1>1, <1>3, <2>1, <2>2 DEF Distinct
    <2>3. CASE j = Len(q) + 1
      BY <1>1, <1>2, <1>3, <2>1, <2>3
    <2> QED BY <1>1, <2>2, <2>3
  <1> QED BY <1>3 DEF Distinct, r

LEMMA TailDistinct ==
  ASSUME NEW S, NEW q \in Seq(S), q # <<>>, Distinct(q)
  PROVE  /\ Distinct(Tail(q))
         /\ Head(q).kind = "Snapshot" => Head(q).head \notin SnapshotHeads(ToSet(Tail(q)))
  <1> DEFINE r == Tail(q)
  <1>1. /\ DOMAIN q = 1..Len(q) /\ DOMAIN r = 1..(Len(q) - 1) /\ Len(q) \in Nat \ {0}
        /\ Head(q) = q[1] /\ \A i \in DOMAIN r : r[i] = q[i + 1]
    OBVIOUS
  <1> HIDE DEF r
  <1>2. \A i \in DOMAIN r : i + 1 \in DOMAIN q /\ 1 < i + 1 /\ 1 \in DOMAIN q
    BY <1>1
  <1>3. \A i, j \in DOMAIN r : i < j => i + 1 < j + 1
    BY <1>1
  <1>4. Distinct(r)
    BY <1>1, <1>2, <1>3 DEF Distinct
  <1>5. q[1].kind = "Snapshot" => \A i \in DOMAIN r : r[i].kind = "Snapshot" => r[i].head # q[1].head
    BY <1>1, <1>2 DEF Distinct
  <1>6. q[1].kind = "Snapshot" => q[1].head \notin SnapshotHeads(ToSet(r))
    BY <1>5 DEF SnapshotHeads, ToSet
  <1> QED BY <1>1, <1>4, <1>6 DEF r

LEMMA AppendEnds ==
  ASSUME NEW S, NEW q \in Seq(S), NEW x \in S, NEW h,
         IF x.kind = "Snapshot" THEN x.head = h ELSE EndsWith(q, h)
  PROVE  EndsWith(Append(q, x), h)
  <1> DEFINE r == Append(q, x)
  <1>1. /\ DOMAIN r = DOMAIN q \cup {Len(q) + 1} /\ r[Len(q) + 1] = x
        /\ \A i \in DOMAIN q : r[i] = q[i] /\ i < Len(q) + 1
    OBVIOUS
  <1> HIDE DEF r
  <1>2. CASE x.kind = "Snapshot"
    BY <1>1, <1>2 DEF EndsWith, r
  <1>3. CASE x.kind # "Snapshot"
    BY <1>1, <1>3 DEF EndsWith, r
  <1> QED BY <1>2, <1>3

LEMMA TailEnds ==
  ASSUME NEW S, NEW q \in Seq(S), q # <<>>, NEW h, EndsWith(q, h)
  PROVE  /\ EndsWith(Tail(q), h)
         /\ Head(q).kind = "Snapshot" => h \in {Head(q).head} \cup SnapshotHeads(ToSet(Tail(q)))
  <1> DEFINE r == Tail(q)
  <1>1. /\ DOMAIN q = 1..Len(q) /\ DOMAIN r = 1..(Len(q) - 1) /\ Len(q) \in Nat \ {0}
        /\ Head(q) = q[1] /\ \A i \in DOMAIN r : r[i] = q[i + 1]
    OBVIOUS
  <1> HIDE DEF r
  <1>2. ASSUME NEW i \in DOMAIN q, q[i].kind = "Snapshot", q[i].head # h
        PROVE  \E j \in DOMAIN r : i < j + 1 /\ r[j].kind = "Snapshot" /\ r[j].head = h
    <2>1. PICK k \in DOMAIN q : i < k /\ q[k].kind = "Snapshot" /\ q[k].head = h
      BY <1>2 DEF EndsWith
    <2>2. k - 1 \in DOMAIN r /\ (k - 1) + 1 = k
      BY <1>1, <2>1
    <2> QED BY <1>1, <2>1, <2>2
  <1>3. EndsWith(r, h)
    <2> SUFFICES ASSUME NEW i \in DOMAIN r, r[i].kind = "Snapshot", r[i].head # h
                 PROVE  \E j \in DOMAIN r : i < j /\ r[j].kind = "Snapshot" /\ r[j].head = h
      BY DEF EndsWith
    <2>1. i + 1 \in DOMAIN q /\ q[i + 1] = r[i]
      BY <1>1
    <2>2. PICK j \in DOMAIN r : i + 1 < j + 1 /\ r[j].kind = "Snapshot" /\ r[j].head = h
      BY <1>2, <2>1
    <2> QED BY <1>1, <2>2
  <1>4. q[1].kind = "Snapshot" => h \in {q[1].head} \cup SnapshotHeads(ToSet(r))
    <2>1. 1 \in DOMAIN q
      BY <1>1
    <2> QED BY <1>2, <2>1 DEF SnapshotHeads, ToSet
  <1> QED BY <1>1, <1>3, <1>4 DEF r

\* An event is added at the end, after all there is of its kind.
LEMMA EventQueued ==
  ASSUME events \in Seq(Events), NEW e \in Events, events' = Append(events, e),
         Ascending(events), Distinct(events), NEW h, Before(ToSet(events), {e}),
         e.kind = "Snapshot" => e.head \notin SnapshotHeads(ToSet(events)),
         IF e.kind = "Snapshot" THEN e.head = h ELSE EndsWith(events, h)
  PROVE  /\ ToSet(events') = ToSet(events) \cup {e} /\ Ascending(events')
         /\ Distinct(events') /\ EndsWith(events', h)
         /\ SnapshotHeads(ToSet(events')) =
              SnapshotHeads(ToSet(events)) \cup (IF e.kind = "Snapshot" THEN {e.head} ELSE {})
  <1>1. ToSet(Append(events, e)) = ToSet(events) \cup {e}
    BY AppendSet
  <1>2. /\ Ascending(Append(events, e)) /\ Distinct(Append(events, e))
        /\ EndsWith(Append(events, e), h)
    BY AppendAscending, AppendDistinct, AppendEnds
  <1>3. ToSet(events') = ToSet(events) \cup {e}
    BY <1>1
  <1>4. SnapshotHeads(ToSet(events) \cup {e}) =
          SnapshotHeads(ToSet(events)) \cup (IF e.kind = "Snapshot" THEN {e.head} ELSE {})
    BY DEF SnapshotHeads
  <1> QED BY <1>2, <1>3, <1>4

LEMMA QueueFacts ==
  ASSUME ArrivalInv
  PROVE  /\ activity \in Activities /\ Consistent(activity) /\ told \in BOOLEAN /\ chosen \in Modes \cup {None}
         /\ requests \in Seq(Queries) /\ job \in Jobs /\ events \in Seq(Events) /\ FilesRead
         /\ head \in Heads /\ seen \in Seq(Heads) /\ sent \in Heads
         /\ activity.queued \in Seq(Queries)
         /\ Arriving(activity, UnderWay, head, told) /\ Numbered(activity, UnderWay)
  BY ActivityFields DEF ArrivalInv, Inv, TypeOK, SelectionInv, Arriving

\* What a step has to say that leaves the queues and HEAD alone.
LEMMA StillKnown ==
  ASSUME ArrivalInv, UNCHANGED <<head, seen, sent, requests, job, events>>,
         Still(activity, activity'), Arriving(activity', UnderWay, head, told')
  PROVE  /\ InOrder' /\ HeadsKnown' /\ ListsKnown'
         /\ Arriving(activity', UnderWay', head', told')
  <1>1. InOrder' /\ UnderWay' = UnderWay
    BY DEF ArrivalInv, InOrder, UnderWay
  <1>2. HeadsKnown'
    BY DEF ArrivalInv, HeadsKnown, Still
  <1>3. ListsKnown'
    BY DEF ArrivalInv, ListsKnown, Still
  <1> QED BY <1>1, <1>2, <1>3

-----------------------------------------------------------------------------
(* The steps.                                                              *)

\* What a step has to leave of the queues, of HEAD and of what is waited for.
ArrivalHeld ==
  InOrder' /\ HeadsKnown' /\ ListsKnown' /\ Arriving(activity', UnderWay', head', told')

LEMMA InputsArrive ==
  ASSUME ArrivalInv, SelectCommit \/ PickFile \/ ToggleReviewMode \/ SetModeElsewhere
  PROVE  ArrivalHeld
  <1> DEFINE Goes(b) == Arriving(b, UnderWay, head, told) /\ Still(activity, b)
  <1>1. /\ activity \in Activities /\ Consistent(activity) /\ Arriving(activity, UnderWay, head, told)
        /\ rows \in [commits : Seq(Commits), files : OfCommit] /\ RowsMatch
    BY QueueFacts DEF ArrivalInv, Inv, TypeOK, SelectionInv
  <1>2. UNCHANGED <<head, seen, sent, requests, job, events, told>>
    BY DEF SelectCommit, PickFile, ToggleReviewMode, SetModeElsewhere, Acts, repository, worker
  <1>3. ASSUME SelectCommit PROVE Goes(activity')
    <2>1. PICK c \in ToSet(rows.commits) \ {activity.selection.commit} : activity' = RequestPatch(activity, c)
      BY <1>3 DEF SelectCommit
    <2>2. c \in Commits
      <3>1. rows.commits \in Seq(Commits)
        BY <1>1
      <3> QED BY <3>1 DEF ToSet
    <2> QED BY <1>1, <2>1, <2>2, SelectCommitArrives
  <1>4. ASSUME PickFile PROVE Goes(activity')
    <2> DEFINE c == activity.selection.commit
    <2>1. PICK f \in ToSet(FilesOf[rows.files]) : activity' = SelectFile(activity, c, f, activity.mode)
      BY <1>4 DEF PickFile
    <2>2. /\ rows.files \in Commits /\ activity.selection # NoSelection /\ activity.files = rows.files
          /\ "Patch" \notin activity.waiting
      BY <1>1, <1>4 DEF PickFile, OfCommit, RowsMatch
    <2>3. f \in FileNames /\ activity.mode \in Modes
      BY <1>1, <2>2, ListedFile, ActivityFields
    <2>4. c \in Commits /\ activity.pending.selection.commit \in {None, c}
      BY <1>1, <1>4, <2>2, ActivityFields, SelectionTypes DEF PickFile
    <2>5. OfSameCommit(activity, c)
      BY <2>4 DEF OfSameCommit
    <2>6. Listed(activity) = rows.files /\ Listed(activity) # None
      <3>1. activity.files = c /\ activity.pending.files \in {None, activity.pending.selection.commit}
        BY <1>1, <2>2, Constants DEF Consistent, Belongs
      <3> QED BY <2>2, <2>4, <3>1, Constants DEF Listed, OrElse
    <2>7. Goes(SelectFile(activity, c, f, activity.mode))
      BY <1>1, <2>1, <2>2, <2>3, <2>5, <2>6, SelectFileArrives
    <2> QED BY <2>1, <2>7
  <1>5. ASSUME ToggleReviewMode \/ SetModeElsewhere PROVE Goes(activity')
    <2>1. PICK mode \in Modes : activity' = SetReviewMode(activity, mode)
      BY <1>5 DEF ToggleReviewMode, SetModeElsewhere
    <2> QED BY <1>1, <2>1, SetReviewModeArrives
  <1>6. Goes(activity')
    BY <1>3, <1>4, <1>5
  <1> QED BY <1>2, <1>6, StillKnown DEF ArrivalHeld

LEMMA FrameArrives ==
  ASSUME ArrivalInv, Frame
  PROVE  ArrivalHeld
  <1>1. activity \in Activities /\ Arriving(activity, UnderWay, head, told)
    BY QueueFacts
  <1>2. activity' = Promote(activity, displayed')
        /\ UNCHANGED <<head, seen, sent, requests, job, events, told>>
    BY DEF Frame, repository, worker
  <1>3. /\ displayed' \in [document : Reviews, mode : Modes \cup {None}]
        /\ activity.pending.document = NoDocument /\ displayed'.document # NoDocument =>
             displayed'.document.selection = activity.selection
    BY FrameHeld DEF ArrivalInv
  <1>4. Arriving(activity', UnderWay, head, told) /\ Still(activity, activity')
    BY <1>1, <1>2, <1>3, PromoteArrives
  <1> QED BY <1>2, <1>4, StillKnown DEF ArrivalHeld

LEMMA MovesHeld ==
  ASSUME ArrivalInv, Moves, MovesBack = FALSE
  PROVE  ArrivalHeld
  <1>1. /\ UNCHANGED <<activity, told, sent, requests, job, events>>
        /\ head' \notin ToSet(seen) /\ seen' = Append(seen, head') /\ head' \in Heads
    <2>1. DOMAIN Log = Heads
      BY HistoryAssumption DEF Heads
    <2> QED BY <2>1 DEF Moves, worker
  <1>2. ToSet(seen') = ToSet(seen) \cup {head'}
    BY <1>1, QueueFacts, AppendSet
  <1>3. InOrder /\ HeadsKnown /\ ListsKnown
    BY DEF ArrivalInv
  <1>4. UnderWay' = UnderWay /\ InOrder'
    BY <1>1, <1>3 DEF UnderWay, InOrder
  <1>5. HeadsKnown'
    BY <1>1, <1>2, <1>3 DEF HeadsKnown
  <1>6. activity.head # head'
    BY <1>1, <1>3 DEF HeadsKnown
  <1>7. ListsKnown'
    BY <1>1, <1>2, <1>3, <1>6 DEF ListsKnown
  <1>8. Arriving(activity, UnderWay, head', told)
    BY <1>6, QueueFacts, MovesArrives
  <1> QED BY <1>1, <1>4, <1>5, <1>7, <1>8 DEF ArrivalHeld

LEMMA DispatchHeld ==
  ASSUME ArrivalInv, Dispatch
  PROVE  ArrivalHeld
  <1> DEFINE b == [activity EXCEPT !.queued = <<>>]
  <1>1. /\ activity' = b /\ requests' = requests \o activity.queued
        /\ UNCHANGED <<told, head, seen, sent, job, events>>
    BY DEF Dispatch, repository
  <1>2. /\ InOrder /\ Numbered(activity, UnderWay)
        /\ requests \in Seq(Queries) /\ activity.queued \in Seq(Queries)
    BY QueueFacts DEF ArrivalInv
  <1>3. ToSet(requests') = ToSet(requests) \cup ToSet(activity.queued)
    BY <1>1, <1>2, ConcatSet
  <1>4. UnderWay' = UnderWay \cup ToSet(activity.queued)
    BY <1>1, <1>3 DEF UnderWay
  <1>5. Before(UnderWay, ToSet(activity.queued)) /\ Ascending(activity.queued)
    BY <1>2 DEF Numbered
  <1>6. Ascending(requests')
    <2>1. Before(ToSet(requests), ToSet(activity.queued)) /\ Ascending(requests)
      BY <1>2, <1>5 DEF Before, UnderWay, InOrder
    <2> QED BY <1>1, <1>2, <1>5, <2>1, ConcatAscending
  <1>7. InOrder'
    BY <1>1, <1>2, <1>3, <1>5, <1>6 DEF InOrder, Before, UnderWay
  <1>8. Arriving(b, UnderWay \cup ToSet(activity.queued), head, told) /\ Still(activity, b)
    BY QueueFacts, DispatchArrives
  <1> HIDE DEF b
  <1>9. HeadsKnown' /\ ListsKnown'
    BY <1>1, <1>8 DEF ArrivalInv, HeadsKnown, ListsKnown, Still
  <1>10. Arriving(activity', UnderWay', head', told')
    BY <1>1, <1>4, <1>8
  <1> QED BY <1>7, <1>9, <1>10 DEF ArrivalHeld

\* What a step has to say that moves a query along, e being added to the events.
LEMMA MovedHeld ==
  ASSUME ArrivalInv, UNCHANGED <<activity, told, head, seen>>, InOrder', HeadsKnown', ListsKnown',
         SameQueries(UnderWay, UnderWay'), SameQueries(UnderWay', UnderWay)
  PROVE  ArrivalHeld
  <1>1. activity \in Activities /\ Arriving(activity, UnderWay, head, told)
    BY QueueFacts
  <1> DEFINE out == UnderWay'
  <1>2. SameQueries(UnderWay, out) /\ SameQueries(out, UnderWay)
    OBVIOUS
  <1> HIDE DEF out
  <1>3. Arriving(activity, out, head, told)
    BY <1>1, <1>2, MovedArrives
  <1> QED BY <1>3 DEF ArrivalHeld, out

LEMMA RefreshHeld ==
  ASSUME ArrivalInv, Refresh
  PROVE  ArrivalHeld
  <1> DEFINE e == [NoEvent EXCEPT !.kind = "Snapshot", !.head = head]
  <1>1. /\ head # sent /\ sent' = head /\ events' = Append(events, e)
        /\ UNCHANGED <<activity, told, head, seen, requests, job>>
    BY DEF Refresh, repository
  <1>2. InOrder /\ HeadsKnown /\ ListsKnown /\ events \in Seq(Events) /\ head \in Heads
    BY QueueFacts DEF ArrivalInv
  <1>3. e \in Events /\ e.kind = "Snapshot" /\ e.head = head /\ e.kind \notin Kinds
    BY <1>2, NoEventFields DEF NoEvent, Events, Kinds
  <1> HIDE DEF e
  <1>4. head \notin SnapshotHeads(ToSet(events)) \cup {activity.head}
    BY <1>1, <1>2 DEF HeadsKnown
  <1>5. /\ ToSet(events') = ToSet(events) \cup {e} /\ Ascending(events')
        /\ Distinct(events') /\ EndsWith(events', head)
        /\ SnapshotHeads(ToSet(events')) = SnapshotHeads(ToSet(events)) \cup {head}
    <2>1. Before(ToSet(events), {e})
      BY <1>3 DEF Before
    <2>2. Ascending(events) /\ Distinct(events)
      BY <1>2 DEF InOrder, HeadsKnown
    <2> QED BY <1>1, <1>2, <1>3, <1>4, <2>1, <2>2, EventQueued
  <1>6. InOrder'
    BY <1>1, <1>2, <1>3, <1>5 DEF InOrder, Before
  <1>7. HeadsKnown'
    BY <1>1, <1>2, <1>4, <1>5 DEF HeadsKnown
  <1>8. ListsKnown'
    BY <1>1, <1>2, <1>3, <1>5, KindsAre DEF ListsKnown
  <1>9. UnderWay' = UnderWay \cup {e}
    BY <1>1, <1>5 DEF UnderWay
  <1>10. SameQueries(UnderWay, UnderWay') /\ SameQueries(UnderWay', UnderWay)
    BY <1>3, <1>9 DEF SameQueries
  <1> QED BY <1>1, <1>6, <1>7, <1>8, <1>10, MovedHeld

LEMMA NoJobIsNoQuery == NoJob.kind \notin Kinds /\ NoJob.kind # "Snapshot" /\ None \notin Kinds
  BY DEF NoJob, Kinds, None

LEMMA ReadHeadHeld ==
  ASSUME ArrivalInv, ReadHead
  PROVE  ArrivalHeld
  <1> DEFINE r == Head(requests)
             rest == Tail(requests)
  <1>1. /\ job = NoJob /\ requests # <<>> /\ r.kind = "History" /\ requests' = rest
        /\ job' = [kind |-> "History", id |-> r.id, head |-> head]
        /\ UNCHANGED <<activity, told, head, seen, events, sent>>
    BY DEF ReadHead, repository
  <1>2. InOrder /\ HeadsKnown /\ ListsKnown /\ requests \in Seq(Queries)
    BY QueueFacts DEF ArrivalInv
  <1>3. ToSet(requests) = {r} \cup ToSet(rest)
    BY <1>1, <1>2, TailSet
  <1>4. Ascending(rest) /\ Before({r}, ToSet(rest))
    BY <1>1, <1>2, TailAscending DEF InOrder
  <1> HIDE DEF r, rest
  <1>5. job'.kind = "History" /\ job'.id = r.id /\ job'.head = head
    BY <1>1
  <1>6. InOrder'
    <2>1. Before({job'}, ToSet(rest)) /\ Before(ToSet(events), {job'} \cup ToSet(rest))
      BY <1>1, <1>2, <1>3, <1>4, <1>5 DEF Before, InOrder
    <2> QED BY <1>1, <1>2, <1>4, <2>1 DEF InOrder
  <1>7. HeadsKnown'
    BY <1>1, <1>2 DEF HeadsKnown
  <1>8. ListsKnown'
    BY <1>1, <1>2, <1>5 DEF ListsKnown, HeadsKnown
  <1>9. UnderWay = {r} \cup ToSet(rest) \cup {NoJob} \cup ToSet(events)
    BY <1>1, <1>3 DEF UnderWay
  <1>10. UnderWay' = ToSet(rest) \cup {job'} \cup ToSet(events)
    BY <1>1 DEF UnderWay
  <1>11. SameQueries(UnderWay, UnderWay') /\ SameQueries(UnderWay', UnderWay)
    BY <1>1, <1>5, <1>9, <1>10, NoJobIsNoQuery DEF SameQueries
  <1> QED BY <1>1, <1>6, <1>7, <1>8, <1>11, MovedHeld

LEMMA ReadLogHeld ==
  ASSUME ArrivalInv, ReadLog
  PROVE  ArrivalHeld
  <1> DEFINE commits == IF job.head = Unborn THEN <<>> ELSE Log[head]
             ok == job.head = Unborn \/ head # Unborn
             e == [NoEvent EXCEPT !.kind = job.kind, !.id = job.id, !.head = job.head,
                                  !.commits = commits, !.ok = ok]
  <1>1. /\ job # NoJob /\ job' = NoJob /\ events' = Append(events, e)
        /\ UNCHANGED <<activity, told, head, seen, sent, requests>>
    BY DEF ReadLog, repository
  <1>2. /\ InOrder /\ HeadsKnown /\ ListsKnown /\ events \in Seq(Events) /\ head \in Heads
        /\ job \in Jobs
    BY QueueFacts DEF ArrivalInv
  <1>3. job.kind = "History" /\ job.id \in Nat /\ job.head \in Heads
    BY <1>1, <1>2 DEF Jobs
  <1>4. commits \in Seq(Commits) /\ ok \in BOOLEAN /\ (job.head = head => commits = Log[job.head])
    BY <1>2, Constants, HistoryAssumption
  <1> HIDE DEF commits, ok
  <1>5. /\ e \in Events /\ e.kind = "History" /\ e.id = job.id /\ e.head = job.head
        /\ e.commits = commits
    BY <1>3, <1>4, SelectionTypes DEF NoEvent, Events, Kinds
  <1> HIDE DEF e
  <1>6. /\ ToSet(events') = ToSet(events) \cup {e} /\ Ascending(events')
        /\ Distinct(events') /\ EndsWith(events', sent)
        /\ SnapshotHeads(ToSet(events')) = SnapshotHeads(ToSet(events))
    <2>1. Before(ToSet(events), {e})
      BY <1>2, <1>3, <1>5 DEF Before, InOrder
    <2>2. Ascending(events) /\ Distinct(events) /\ EndsWith(events, sent)
      BY <1>2 DEF InOrder, HeadsKnown
    <2> QED BY <1>1, <1>2, <1>5, <2>1, <2>2, EventQueued
  <1>7. InOrder'
    <2>1. Before(ToSet(events) \cup {e}, {NoJob} \cup ToSet(requests))
      BY <1>2, <1>3, <1>5, NoJobIsNoQuery DEF InOrder, Before
    <2>2. Before({NoJob}, ToSet(requests))
      BY NoJobIsNoQuery DEF Before
    <2> QED BY <1>1, <1>2, <1>6, <2>1, <2>2 DEF InOrder
  <1>8. HeadsKnown'
    BY <1>1, <1>2, <1>6 DEF HeadsKnown
  <1>9. ListsKnown'
    <2>1. /\ e.head \in ToSet(seen)
          /\ e.id = activity.latest["History"] /\ e.head # activity.head => activity.head # head
      BY <1>2, <1>3, <1>5 DEF ListsKnown
    <2>2. e.head # head \/ e.commits = Log[e.head]
      BY <1>4, <1>5
    <2> QED BY <1>1, <1>2, <1>6, <2>1, <2>2, NoJobIsNoQuery, KindsAre DEF ListsKnown
  <1>10. UnderWay' = ToSet(requests) \cup {NoJob} \cup ToSet(events) \cup {e}
    BY <1>1, <1>6 DEF UnderWay
  <1>11. UnderWay = ToSet(requests) \cup {job} \cup ToSet(events)
    BY DEF UnderWay
  <1>12. SameQueries(UnderWay, UnderWay') /\ SameQueries(UnderWay', UnderWay)
    BY <1>3, <1>5, <1>10, <1>11, NoJobIsNoQuery DEF SameQueries
  <1> QED BY <1>1, <1>7, <1>8, <1>9, <1>12, MovedHeld

LEMMA ServeHeld ==
  ASSUME ArrivalInv, Serve
  PROVE  ArrivalHeld
  <1> DEFINE r == Head(requests)
             rest == Tail(requests)
  <1>1. /\ job = NoJob /\ requests # <<>> /\ r.kind # "History" /\ requests' = rest
        /\ UNCHANGED <<activity, told, head, seen, sent, job>>
    BY DEF Serve, repository
  <1>2. InOrder /\ HeadsKnown /\ ListsKnown /\ requests \in Seq(Queries) /\ events \in Seq(Events)
    BY QueueFacts DEF ArrivalInv
  <1>3. ToSet(requests) = {r} \cup ToSet(rest) /\ r \in Queries
    BY <1>1, <1>2, TailSet
  <1>4. Ascending(rest) /\ Before({r}, ToSet(rest))
    BY <1>1, <1>2, TailAscending DEF InOrder
  <1>5. PICK ok \in BOOLEAN :
          events' = Append(events, [NoEvent EXCEPT !.kind = r.kind, !.id = r.id,
                                      !.selection = r.selection, !.ok = ok])
    BY DEF Serve
  <1> DEFINE e == [NoEvent EXCEPT !.kind = r.kind, !.id = r.id,
                                  !.selection = r.selection, !.ok = ok]
  <1>6. events' = Append(events, e)
    BY <1>5
  <1> HIDE DEF r, rest
  <1>7. e \in Events /\ e.kind = r.kind /\ e.id = r.id /\ e.selection = r.selection
    BY <1>3, NoEventFields DEF NoEvent, Events, Queries
  <1> HIDE DEF e
  <1>8. e.kind \in Kinds /\ e.kind # "Snapshot"
    BY <1>3, <1>7 DEF Queries, Kinds
  <1>9. /\ ToSet(events') = ToSet(events) \cup {e} /\ Ascending(events')
        /\ Distinct(events') /\ EndsWith(events', sent)
        /\ SnapshotHeads(ToSet(events')) = SnapshotHeads(ToSet(events))
    <2>1. Before(ToSet(events), {e})
      BY <1>2, <1>3, <1>7, <1>8 DEF Before, InOrder
    <2>2. Ascending(events) /\ Distinct(events) /\ EndsWith(events, sent)
      BY <1>2 DEF InOrder, HeadsKnown
    <2> QED BY <1>2, <1>6, <1>7, <1>8, <2>1, <2>2, EventQueued
  <1>10. InOrder'
    <2>1. Before(ToSet(events) \cup {e}, {NoJob} \cup ToSet(rest))
      BY <1>1, <1>2, <1>3, <1>4, <1>7, <1>8, NoJobIsNoQuery DEF InOrder, Before
    <2>2. Before({NoJob}, ToSet(rest))
      BY NoJobIsNoQuery DEF Before
    <2> QED BY <1>1, <1>4, <1>9, <2>1, <2>2 DEF InOrder
  <1>11. HeadsKnown'
    BY <1>1, <1>2, <1>9 DEF HeadsKnown
  <1>12. ListsKnown'
    BY <1>1, <1>2, <1>7, <1>9 DEF ListsKnown
  <1>13. UnderWay' = ToSet(rest) \cup {job} \cup ToSet(events) \cup {e}
    BY <1>1, <1>9 DEF UnderWay
  <1>14. UnderWay = {r} \cup ToSet(rest) \cup {job} \cup ToSet(events)
    BY <1>3 DEF UnderWay
  <1>15. SameQueries(UnderWay, UnderWay') /\ SameQueries(UnderWay', UnderWay)
    BY <1>7, <1>13, <1>14 DEF SameQueries
  <1> QED BY <1>1, <1>10, <1>11, <1>12, <1>15, MovedHeld

\* The first event leaves the queue.
LEMMA EventLeaves ==
  ASSUME ArrivalInv, Drain
  PROVE  /\ UnderWay = UnderWay' \cup {Head(events)} /\ Before({Head(events)}, UnderWay')
         /\ InOrder' /\ Distinct(events') /\ EndsWith(events', sent)
         /\ Head(events) \in Events /\ Head(events) \in ToSet(events)
         /\ ToSet(events) = {Head(events)} \cup ToSet(events')
         /\ Head(events).kind = "Snapshot" =>
              /\ Head(events).head \notin SnapshotHeads(ToSet(events'))
              /\ sent \in {Head(events).head} \cup SnapshotHeads(ToSet(events'))
  <1> DEFINE e == Head(events)
             rest == Tail(events)
  <1>1. /\ events # <<>> /\ events' = rest /\ UNCHANGED <<requests, job>>
    BY DEF Drain
  <1>2. InOrder /\ HeadsKnown /\ events \in Seq(Events)
    BY QueueFacts DEF ArrivalInv
  <1>3. ToSet(events) = {e} \cup ToSet(rest) /\ e \in Events
    BY <1>1, <1>2, TailSet
  <1>4. Ascending(rest) /\ Before({e}, ToSet(rest))
    BY <1>1, <1>2, TailAscending DEF InOrder
  <1>5. /\ Distinct(rest) /\ EndsWith(rest, sent)
        /\ e.kind = "Snapshot" => /\ e.head \notin SnapshotHeads(ToSet(rest))
                                 /\ sent \in {e.head} \cup SnapshotHeads(ToSet(rest))
    BY <1>1, <1>2, TailDistinct, TailEnds DEF HeadsKnown
  <1> HIDE DEF e, rest
  <1>6. /\ UnderWay = ToSet(requests) \cup {job} \cup {e} \cup ToSet(rest)
        /\ UnderWay' = ToSet(requests) \cup {job} \cup ToSet(rest)
    BY <1>1, <1>3 DEF UnderWay
  <1>7. Before({e}, UnderWay')
    BY <1>2, <1>3, <1>4, <1>6 DEF InOrder, Before
  <1>8. InOrder'
    BY <1>1, <1>2, <1>3, <1>4 DEF InOrder, Before
  <1> QED BY <1>1, <1>3, <1>5, <1>6, <1>7, <1>8 DEF e

\* The answer to a query leaves HEAD and the latest list asked for alone.
LEMMA AnswerHeld ==
  ASSUME ArrivalInv, Drain, Head(events).kind # "Snapshot",
         Still(activity, activity'), Arriving(activity', UnderWay', head', told')
  PROVE  ArrivalHeld
  <1>1. /\ InOrder' /\ Distinct(events') /\ EndsWith(events', sent)
        /\ ToSet(events) = {Head(events)} \cup ToSet(events')
    BY EventLeaves
  <1>2. SnapshotHeads(ToSet(events')) = SnapshotHeads(ToSet(events))
    BY <1>1 DEF SnapshotHeads
  <1>3. UNCHANGED <<head, seen, sent, job>>
    BY DEF Drain, repository
  <1>4. HeadsKnown'
    BY <1>1, <1>2, <1>3 DEF ArrivalInv, HeadsKnown, Still
  <1>5. ListsKnown'
    BY <1>1, <1>3 DEF ArrivalInv, ListsKnown, Still
  <1> QED BY <1>1, <1>4, <1>5 DEF ArrivalHeld

LEMMA SnapshotHeld ==
  ASSUME ArrivalInv, SnapshotArrives
  PROVE  ArrivalHeld
  <1> DEFINE e == Head(events)
             c == e.head
             b == RepositoryChanged(activity, c)
             rest == UnderWay'
  <1>1. /\ activity' = b /\ told' = FALSE /\ e.kind = "Snapshot" /\ Drain
        /\ UNCHANGED <<head, seen, sent, job>>
    BY DEF SnapshotArrives, Drain, repository
  <1>2. /\ activity \in Activities /\ Arriving(activity, UnderWay, head, told)
        /\ HeadsKnown /\ ListsKnown
    BY QueueFacts DEF ArrivalInv
  <1>3. /\ UnderWay = rest \cup {e} /\ InOrder' /\ Distinct(events') /\ EndsWith(events', sent)
        /\ e \in Events /\ ToSet(events) = {e} \cup ToSet(events')
        /\ c \notin SnapshotHeads(ToSet(events'))
        /\ sent \in {c} \cup SnapshotHeads(ToSet(events'))
    BY <1>1, EventLeaves
  <1> HIDE DEF rest
  <1>4. SnapshotHeads(ToSet(events)) = {c} \cup SnapshotHeads(ToSet(events'))
    BY <1>1, <1>3 DEF SnapshotHeads
  <1>5. c \in Heads /\ c # activity.head
    BY <1>2, <1>3, <1>4 DEF HeadsKnown, Events
  <1> HIDE DEF e, c
  <1>6. /\ Arriving(b, UnderWay, head, FALSE) /\ b.head = c
        /\ \A r \in UnderWay : r.kind \in Kinds => r.id # b.latest["History"]
    BY <1>2, <1>5, RepositoryChangedArrives
  <1>7. b \in Activities
    BY <1>1, <1>5, QueueFacts, RepositoryChangedConsistent
  <1> HIDE DEF b
  <1>8. e.kind \notin Kinds
    BY <1>1 DEF Kinds
  <1>9. Arriving(b, rest, head, FALSE)
    BY <1>3, <1>6, <1>7, <1>8, OtherArrives, ActivityFields
  <1>10. HeadsKnown'
    BY <1>1, <1>2, <1>3, <1>4, <1>6 DEF HeadsKnown
  <1>11. ListsKnown'
    <2>1. \A r \in {job} \cup ToSet(events) : r.kind = "History" => r.id # b.latest["History"]
      BY <1>6, KindsAre DEF UnderWay
    <2> QED BY <1>1, <1>2, <1>3, <2>1 DEF ListsKnown
  <1> QED BY <1>1, <1>3, <1>9, <1>10, <1>11 DEF ArrivalHeld, rest

LEMMA LoadedHeld ==
  ASSUME ArrivalInv, HistoryLoaded \/ PatchLoaded \/ FileLoaded
  PROVE  ArrivalHeld
  <1> DEFINE e == Head(events)
             rest == UnderWay'
             Goes(b) == Arriving(b, rest, head, told) /\ Still(activity, b)
  <1>1. /\ Drain /\ e.kind \in Kinds /\ e.ok /\ UNCHANGED <<head, told>>
    BY KindsAre DEF HistoryLoaded, PatchLoaded, FileLoaded, Loaded, Drain, repository
  <1>2. /\ activity \in Activities /\ Consistent(activity) /\ chosen \in Modes \cup {None}
        /\ Arriving(activity, UnderWay, head, told) /\ HeadsKnown /\ ListsKnown /\ head \in Heads
    BY QueueFacts DEF ArrivalInv
  <1>3. /\ UnderWay = rest \cup {e} /\ Before({e}, rest) /\ e \in Events /\ e \in ToSet(events)
    BY <1>1, EventLeaves
  <1>4. ASSUME HistoryLoaded PROVE Goes(activity')
    <2>1. activity' = AcceptHistory(activity, e) /\ e.kind = "History"
      BY <1>4 DEF HistoryLoaded, Loaded
    <2> HIDE DEF e, rest
    <2>2. /\ e.id = activity.latest["History"] /\ e.head # activity.head => activity.head # head
          /\ e.head # head \/ e.commits = Log[e.head]
      BY <1>1, <1>2, <1>3, <2>1 DEF ListsKnown
    <2> QED BY <1>2, <1>3, <2>1, <2>2, AcceptHistoryArrives
  <1>5. ASSUME PatchLoaded PROVE Goes(activity')
    <2> DEFINE b == AcceptPatch(activity, e)
    <2>1. /\ activity' = b \/ (chosen # None /\ activity' = SetReviewMode(b, chosen))
          /\ e.kind = "Patch"
      BY <1>5 DEF PatchLoaded, Loaded
    <2> HIDE DEF e, rest
    <2>2. Goes(b)
      BY <1>2, <1>3, <2>1, AcceptPatchArrives
    <2>3. b \in Activities /\ Consistent(b)
      BY <1>2, <1>3, AcceptPatchConsistent
    <2> HIDE DEF b
    <2>4. CASE chosen # None /\ activity' = SetReviewMode(b, chosen)
      <3>1. LET c == SetReviewMode(b, chosen) IN Arriving(c, rest, head, told) /\ Still(b, c)
        BY <1>2, <2>2, <2>3, <2>4, SetReviewModeArrives
      <3> QED BY <2>2, <2>4, <3>1 DEF Still
    <2> QED BY <2>1, <2>2, <2>4
  <1>6. ASSUME FileLoaded PROVE Goes(activity')
    <2>1. activity' = AcceptFile(activity, e) /\ e.kind = "File"
      BY <1>6 DEF FileLoaded, Loaded
    <2> HIDE DEF e, rest
    <2> QED BY <1>2, <1>3, <2>1, AcceptFileArrives
  <1>7. Goes(activity')
    BY <1>4, <1>5, <1>6
  <1>8. e.kind # "Snapshot"
    BY <1>1 DEF Kinds
  <1> QED BY <1>1, <1>7, <1>8, AnswerHeld

LEMMA FailureHeld ==
  ASSUME ArrivalInv, LoadFailed
  PROVE  ArrivalHeld
  <1> DEFINE e == Head(events)
             rest == UnderWay'
             f == Failed(activity, e)
  <1>1. /\ Drain /\ e.kind \in Kinds /\ ~e.ok /\ UNCHANGED head
        /\ activity' = f.activity /\ told' = (told \/ f.told)
    BY DEF LoadFailed, Drain, repository
  <1>2. /\ activity \in Activities /\ told \in BOOLEAN /\ Arriving(activity, UnderWay, head, told)
        /\ events \in Seq(Events) /\ FilesRead
    BY QueueFacts
  <1>3. /\ UnderWay = rest \cup {e} /\ Before({e}, rest) /\ e \in Events
    BY <1>1, EventLeaves
  <1>4. e.kind = "File" => e.ok
    BY <1>1, <1>2, EventTaken DEF Drain
  <1>5. e.kind \in {"History", "Patch"} /\ e.kind # "Snapshot"
    BY <1>1, <1>4 DEF Kinds
  <1> HIDE DEF e, rest
  <1>6. Arriving(f.activity, rest, head, told \/ f.told) /\ Still(activity, f.activity)
    BY <1>2, <1>3, <1>5, FailedArrives
  <1> HIDE DEF f
  <1> QED BY <1>1, <1>5, <1>6, AnswerHeld DEF e, rest

LEMMA ArrivalInit == ASSUME Init PROVE ArrivalInv
  <1> DEFINE a == [head |-> StartHead, commits |-> <<>>, files |-> None, hunks |-> None,
                   document |-> NoDocument, selection |-> NoSelection, mode |-> "Hunk",
                   cached |-> {}, pending |-> NothingPending, waiting |-> {},
                   queued |-> <<>>, latest |-> [k \in Kinds |-> 0], next |-> 0]
             b == RequestHistory(a)
             out == {NoJob}
  <1>1. /\ activity = b /\ requests = <<>> /\ job = NoJob /\ events = <<>>
        /\ head = StartHead /\ sent = StartHead /\ seen = <<StartHead>>
    BY DEF Init, New
  <1>2. a \in Activities
    <2>1. /\ NoSelection \in Selections /\ NoDocument \in Reviews /\ None \in OfCommit
          /\ StartHead \in Heads /\ NothingPending \in Pendings
      BY SelectionTypes, DocumentTypes, PendingTypes, Constants
    <2>2. /\ {} \in SUBSET Selections /\ {} \in SUBSET Kinds /\ "Hunk" \in Modes
          /\ <<>> \in Seq(Commits) /\ <<>> \in Seq(Queries) /\ [k \in Kinds |-> 0] \in [Kinds -> Nat]
      BY DEF Modes
    <2> QED BY <2>1, <2>2 DEF Activities
  <1>3. /\ a.pending = NothingPending /\ a.head = StartHead /\ a.waiting = {} /\ a.next = 0
        /\ DOMAIN a.queued = {} /\ \A k \in Kinds : a.latest[k] = 0
    OBVIOUS
  <1> HIDE DEF a
  <1>4. ToSet(a.queued) = {}
    BY <1>3 DEF ToSet
  <1>5. Numbered(a, out) /\ Waits(a, out, a.waiting \ {"History"}, head)
    BY <1>3, <1>4, NoJobIsNoQuery DEF Numbered, Waits, Ascending, Before
  <1>6. Asks(a, b, out, head, "History", {"History"}, NoSelection)
    <2>1. "Patch" \notin a.waiting \ {"History"}
      BY <1>3
    <2> HIDE DEF out
    <2> QED BY <1>2, <1>5, <2>1, SelectionTypes, KindsAre, RequestAsks DEF RequestHistory
  <1>7. b \in Activities /\ Keeps(a, b) /\ b.pending = NothingPending
    BY <1>2, <1>3, RequestHistoryKeeps
  <1> HIDE DEF b
  <1>8. "Patch" \notin b.waiting /\ "History" \in b.waiting
    BY <1>3, <1>6, KindsAre DEF Asks
  <1>9. Arriving(b, out, head, told)
    <2>1. Settling(b, out)
      BY <1>7, <1>8, NothingSettles
    <2>2. Current(b, head, told)
      BY <1>8 DEF Current
    <2> QED BY <1>6, <2>1, <2>2 DEF Arriving, Asks
  <1>10. ToSet(requests) = {} /\ ToSet(events) = {} /\ DOMAIN requests = {} /\ DOMAIN events = {}
    BY <1>1 DEF ToSet
  <1>11. UnderWay = out
    BY <1>1, <1>10 DEF UnderWay
  <1>12. InOrder
    BY <1>10 DEF InOrder, Ascending, Before
  <1>13. HeadsKnown
    <2>1. StartHead \in ToSet(seen)
      <3>1. 1 \in DOMAIN seen /\ seen[1] = StartHead
        BY <1>1
      <3> QED BY <3>1 DEF ToSet
    <2>2. SnapshotHeads(ToSet(events)) = {}
      BY <1>10 DEF SnapshotHeads
    <2>3. activity.head = StartHead
      BY <1>1, <1>3, <1>7 DEF Keeps
    <2> QED BY <1>1, <1>10, <2>1, <2>2, <2>3 DEF HeadsKnown, Distinct, EndsWith
  <1>14. ListsKnown
    BY <1>1, <1>10, NoJobIsNoQuery, KindsAre DEF ListsKnown
  <1> QED BY <1>1, <1>9, <1>11, <1>12, <1>13, <1>14, InitInv DEF ArrivalInv

LEMMA ArrivalStep ==
  ASSUME FileFails = FALSE, MovesBack = FALSE, ArrivalInv, [Next]_vars
  PROVE  ArrivalInv'
  <1>1. Inv'
    BY StepInv DEF ArrivalInv
  <1>2. ASSUME Next PROVE ArrivalHeld
    BY <1>2, InputsArrive, FrameArrives, MovesHeld, DispatchHeld, RefreshHeld, ReadHeadHeld,
       ReadLogHeld, ServeHeld, SnapshotHeld, LoadedHeld, FailureHeld DEF Next
  <1>3. ASSUME UNCHANGED vars PROVE ArrivalHeld
    <2>1. UNCHANGED <<activity, told, head, seen, sent, requests, job, events>>
      BY <1>3 DEF vars, repository, worker
    <2>2. Still(activity, activity') /\ Arriving(activity', UnderWay, head, told')
      BY <2>1, QueueFacts DEF Still
    <2> QED BY <2>1, <2>2, StillKnown DEF ArrivalHeld
  <1> QED BY <1>1, <1>2, <1>3 DEF ArrivalInv, ArrivalHeld

\* Whatever is waited for is in the queues, and when they are empty the list is current.
LEMMA ArrivalShows == ASSUME ArrivalInv PROVE HistoryArrives
  <1> DEFINE a == activity
  <1>1. /\ Waits(a, UnderWay, a.waiting, head) /\ Awaited(a, UnderWay)
        /\ Current(a, head, told) /\ HeadsKnown
        /\ a.waiting \subseteq Kinds
    BY QueueFacts, ActivityFields DEF ArrivalInv, Arriving, Settling
  <1>2. \A kind : Coming(kind) <=> Due(a, UnderWay, kind) # {}
    BY DEF Coming, Due, UnderWay
  <1> HIDE DEF a
  <1>3. NothingStranded
    <2>1. ASSUME NEW kind \in a.waiting, ~Coming(kind)
          PROVE  kind = "History" /\ (head # sent \/ \E e \in ToSet(events) : e.kind = "Snapshot")
      <3>1. kind = "History" /\ a.head # head
        BY <1>1, <1>2, <2>1 DEF Waits
      <3>2. sent # a.head => \E e \in ToSet(events) : e.kind = "Snapshot"
        BY <1>1 DEF HeadsKnown, SnapshotHeads, a
      <3> QED BY <3>1, <3>2
    <2>2. ASSUME a.pending.selection # NoSelection, a.pending.document = NoDocument,
                 a.waiting \cap {"Patch", "File"} = {}
          PROVE  ~Summarised(a, a.pending.selection.commit)
      BY <1>1, <2>2 DEF Awaited, AwaitsPatch, AwaitsFile, Dropped
    <2> QED BY <2>1, <2>2 DEF NothingStranded, a
  <1>4. ListIsCurrent
    <2> SUFFICES ASSUME requests = <<>>, job = NoJob, events = <<>>, sent = head,
                        a.queued = <<>>, a.pending = NothingPending, ~told
                 PROVE  /\ a.commits = Log[head]
                        /\ head # Unborn => a.selection.commit \in ToSet(Log[head])
      BY DEF ListIsCurrent, a
    <2>1. ToSet(requests) = {} /\ ToSet(events) = {} /\ ToSet(a.queued) = {}
      BY DEF ToSet
    <2>2. Due(a, UnderWay, "History") = {}
      BY <2>1, NoJobIsNoQuery, KindsAre DEF Due, UnderWay
    <2>3. a.head = head
      BY <1>1, <2>1 DEF HeadsKnown, SnapshotHeads, a
    <2>4. "History" \notin a.waiting
      BY <1>1, <2>2, <2>3 DEF Waits
    <2> QED BY <1>1, <2>3, <2>4, PendingTypes DEF Current
  <1> QED BY <1>3, <1>4 DEF HistoryArrives

\* Whatever commits the user selects and wherever HEAD goes while queries fail or
\* are superseded, as long as HEAD returns to no commit it left: History waits for
\* nothing that is not coming, and once nothing is, its list is the log of the
\* checkout or the user was told. (history/mod.rs: accept_history, history_failed;
\* history/requests.rs.)
THEOREM HistoryComes ==
  ASSUME FileFails = FALSE, MovesBack = FALSE PROVE Spec => []HistoryArrives
  <1>1. Init => ArrivalInv
    BY ArrivalInit
  <1>2. ArrivalInv /\ [Next]_vars => ArrivalInv'
    BY ArrivalStep
  <1>3. ArrivalInv => HistoryArrives
    BY ArrivalShows
  <1> QED BY <1>1, <1>2, <1>3, PTL DEF Spec
=============================================================================
