----------------------------- MODULE TaskProofs -----------------------------
(***************************************************************************)
(* Proofs about what runs outside the repository worker: the Explorer with *)
(* its thread, the AI commit, the updater and the askpass bridge.  They    *)
(* share no state; each has a part here.                                   *)
(***************************************************************************)
EXTENDS Explorer, AiCommit, Askpass, Update, RetainingProofs, FiniteSetTheorems, SequenceTheorems

-----------------------------------------------------------------------------
(***************************************************************************)
(* Explorer.  The inductive invariant follows each request from the queue  *)
(* over the channel, the worker and the other channel back to the handler, *)
(* for any files, contents, sizes and numbers of steps: the newest load    *)
(* and the newest window are never taken for stale, every id belongs to    *)
(* one load, and what is on its way reads the disk as it is unless a       *)
(* change of it is still to be noticed.                                    *)
(***************************************************************************)

(* Types.                                                                   *)

Asks == [first : Nat, rows : Nat, viewports : Nat]

Requests ==
  [kind : {"Paths"}, id : Nat]
    \cup [kind : {"LoadFile"}, id : Nat, path : Files, ask : Asks]
    \cup [kind : {"HighlightWindow"}, id : Nat, doc : Nat, content : Contents, ask : Asks]

Answers ==
  [kind : {"Paths"}, id : Nat, result : (SUBSET Files) \cup {None}]
    \cup [kind : {"LoadFile"}, id : Nat, result : Viewers \cup {None}]
    \cup [kind : {"HighlightWindow"}, id : Nat, doc : Nat, covered : SUBSET Styles]

Explorers ==
  [paths : SUBSET Files, rows : SUBSET Files, expanded : BOOLEAN,
   selected : Files \cup {Dir, None}, viewer : Viewers \cup {None},
   viewer_scroll : Nat, requested : Nat \cup {None}, viewport_rows : Nat \ {0},
   pending_path : Files \cup {None}, pending_window : (Nat \X Nat) \cup {None},
   pending_quick_open : Files \cup {None}, paths_pending : BOOLEAN,
   latest_paths : Nat, latest_load : Nat, queued : Seq(Requests)]

Types ==
  /\ disk \in [Files -> Contents \cup {Absent}]
  /\ noticed \in BOOLEAN /\ missed \in BOOLEAN
  /\ fullScreen \in BOOLEAN /\ fullPending \in BOOLEAN
  /\ phase \in {"events", "drain", "input"}
  /\ explorer \in Explorers
  /\ requests \in Seq(Requests) /\ job \in Requests \cup {NoJob} /\ outcomes \in Seq(Answers)
  /\ newestLoad \in Nat /\ newestWindow \in Nat

-----------------------------------------------------------------------------
(* The inductive invariant.  e is the Explorer's state and outs the outcomes *)
(* it has not accepted.                                                      *)

Running == IF job = NoJob THEN {} ELSE {job}
InHand == ToSet(requests) \cup Running
Under(e, outs) == ToSet(e.queued) \cup InHand \cup ToSet(outs)

Of(S, kind) == {r \in S : r.kind = kind}
Loads(S) == Of(S, "LoadFile")
Windows(S) == Of(S, "HighlightWindow")

OnePerKind(queue) == \A i, j \in DOMAIN queue : queue[i].kind = queue[j].kind => i = j

\* The load in the queue is the latest, and without one the worker knows it.
LoadsQueued(e) ==
  /\ OnePerKind(e.queued)
  /\ \A r \in Loads(ToSet(e.queued)) : r.id = e.latest_load
  /\ newestLoad = e.latest_load \/ Loads(ToSet(e.queued)) # {}

PathsComing(e, outs) ==
  e.paths_pending => \E r \in Of(Under(e, outs), "Paths") : r.id = e.latest_paths

LatestComing(e, outs) == \E r \in Loads(Under(e, outs)) : r.id = e.latest_load

\* The window that is pending is of the text on screen; it is the one queued, or
\* the worker knows it and no load that would end it is queued.
WindowComing(e, outs) ==
  e.pending_window # None =>
    LET w == e.pending_window
        q == Windows(ToSet(e.queued))
    IN /\ \E r \in Windows(Under(e, outs)) : r.id = w[1]
       /\ \A r \in Windows(Under(e, outs)) : r.id = w[1] => r.doc = w[2]
       /\ \A r \in q : r.id = w[1]
       /\ q = {} => newestWindow = w[1] /\ Loads(ToSet(e.queued)) = {}
       /\ e.viewer # None /\ e.viewer.doc = w[2]

Coming(e, outs) ==
  /\ PathsComing(e, outs)
  /\ e.pending_path # None => LatestComing(e, outs)
  /\ WindowComing(e, outs)

\* No two loads have the same id.
Once(queue) ==
  \A i, j \in DOMAIN queue :
    queue[i].kind = "LoadFile" /\ queue[j].kind = "LoadFile" /\ queue[i].id = queue[j].id => i = j

Apart(S, T) == \A r \in Loads(S), s \in Loads(T) : r.id # s.id

LoadsOnce(e, outs) ==
  /\ Once(outs) /\ Once(requests)
  /\ Apart(Running, ToSet(requests)) /\ Apart(InHand, ToSet(outs))
  /\ Apart(ToSet(e.queued), InHand \cup ToSet(outs))

\* Styles on their way are of the text that has the id they were asked for: no
\* text with that id is still to come.
Documents(e, outs) ==
  /\ \A y \in Loads(Under(e, outs)) :
       /\ e.viewer # None => y.id # e.viewer.doc
       /\ \A x \in Windows(Under(e, outs)) : x.doc # y.id
  /\ e.viewer # None =>
       /\ \A s \in e.viewer.covered : s.of = e.viewer.content
       /\ \A x \in Windows(ToSet(e.queued) \cup InHand) :
            x.doc = e.viewer.doc => x.content = e.viewer.content
       /\ \A x \in Windows(ToSet(outs)) :
            x.doc = e.viewer.doc => \A s \in x.covered : s.of = e.viewer.content
  /\ \A o \in Loads(ToSet(outs)) : o.result # None =>
       o.result.doc = o.id /\ \A s \in o.result.covered : s.of = o.result.content

Consistent(e, outs) ==
  LoadsQueued(e) /\ Coming(e, outs) /\ LoadsOnce(e, outs) /\ Documents(e, outs)

\* The latest paths that were read are those of the disk.
PathsCurrent(e, outs) ==
  \A o \in Of(ToSet(outs), "Paths") : o.id = e.latest_paths => o.result \in {None, Present}

\* The latest load reads, or has read, the disk, of a path that is in the tree if
\* the file exists.  Once there is none the viewer is what it read.
ViewerCurrent(e, outs) ==
  /\ \A r \in Loads(ToSet(e.queued) \cup InHand) :
       r.id = e.latest_load => r.path \in e.paths \/ r.path \notin Present
  /\ \A o \in Loads(ToSet(outs)) : o.id = e.latest_load /\ o.result # None =>
       o.result.content = disk[o.result.path] /\ o.result.path \in e.paths
  /\ e.viewer # None =>
       e.viewer.content = disk[e.viewer.path] \/ LatestComing(e, outs)

UpToDate(e, outs, excused) ==
  noticed => PathsCurrent(e, outs) /\ (excused \/ ViewerCurrent(e, outs))

\* m excuses the viewer as long as l is the latest load.
Good(e, outs, l, m) ==
  Consistent(e, outs) /\ UpToDate(e, outs, m /\ e.latest_load = l)

Selectable(e) == e.selected \in Visible(e) \cup {None}

IInv ==
  /\ Types /\ Selectable(explorer)
  /\ Good(explorer, outcomes, explorer.latest_load, missed)

-----------------------------------------------------------------------------
(* Sequences.                                                               *)

LEMMA AppendSet ==
  ASSUME NEW S, NEW q \in Seq(S), NEW x \in S
  PROVE  ToSet(Append(q, x)) = ToSet(q) \cup {x}
  <1> DEFINE r == Append(q, x)
  <1>1. /\ DOMAIN r = DOMAIN q \cup {Len(q) + 1} /\ r[Len(q) + 1] = x
        /\ \A i \in DOMAIN q : r[i] = q[i]
    OBVIOUS
  <1> HIDE DEF r
  <1> QED BY <1>1 DEF ToSet, r

LEMMA ConcatSet ==
  ASSUME NEW S, NEW q \in Seq(S), NEW r \in Seq(S)
  PROVE  ToSet(q \o r) = ToSet(q) \cup ToSet(r)
  <1> DEFINE s == q \o r
  <1>1. /\ DOMAIN s = 1..(Len(q) + Len(r)) /\ DOMAIN q = 1..Len(q) /\ DOMAIN r = 1..Len(r)
        /\ Len(q) \in Nat /\ Len(r) \in Nat
        /\ \A i \in DOMAIN q : s[i] = q[i]
        /\ \A i \in DOMAIN r : s[Len(q) + i] = r[i]
    OBVIOUS
  <1> HIDE DEF s
  <1>2. \A i \in DOMAIN s : i \in DOMAIN q \/ (i - Len(q) \in DOMAIN r /\ s[i] = r[i - Len(q)])
    <2> SUFFICES ASSUME NEW i \in DOMAIN s, i \notin DOMAIN q
                 PROVE  i - Len(q) \in DOMAIN r /\ s[i] = r[i - Len(q)]
      OBVIOUS
    <2>1. i - Len(q) \in DOMAIN r /\ Len(q) + (i - Len(q)) = i
      BY <1>1
    <2> QED BY <1>1, <2>1
  <1>3. \A i \in DOMAIN r : Len(q) + i \in DOMAIN s
    BY <1>1
  <1>4. \A i \in DOMAIN q : i \in DOMAIN s
    BY <1>1
  <1> QED BY <1>1, <1>2, <1>3, <1>4 DEF ToSet, s

LEMMA TailSet ==
  ASSUME NEW S, NEW q \in Seq(S), q # <<>>
  PROVE  ToSet(q) = {Head(q)} \cup ToSet(Tail(q))
  <1> DEFINE r == Tail(q)
  <1>1. /\ DOMAIN q = 1..Len(q) /\ DOMAIN r = 1..(Len(q) - 1) /\ Len(q) \in Nat \ {0}
        /\ Head(q) = q[1] /\ \A i \in DOMAIN r : r[i] = q[i + 1]
    OBVIOUS
  <1> HIDE DEF r
  <1>2. \A i \in DOMAIN q : i = 1 \/ (i - 1 \in DOMAIN r /\ r[i - 1] = q[i])
    <2> SUFFICES ASSUME NEW i \in DOMAIN q, i # 1 PROVE i - 1 \in DOMAIN r /\ r[i - 1] = q[i]
      OBVIOUS
    <2>1. i - 1 \in DOMAIN r /\ (i - 1) + 1 = i
      BY <1>1
    <2> QED BY <1>1, <2>1
  <1>3. \A i \in DOMAIN r : i + 1 \in DOMAIN q
    BY <1>1
  <1>4. 1 \in DOMAIN q
    BY <1>1
  <1>5. \A x \in ToSet(q) : x = q[1] \/ x \in ToSet(r)
    BY <1>2 DEF ToSet
  <1>6. \A x \in ToSet(r) : x \in ToSet(q)
    BY <1>1, <1>3 DEF ToSet
  <1>7. q[1] \in ToSet(q)
    BY <1>4 DEF ToSet
  <1> QED BY <1>1, <1>5, <1>6, <1>7 DEF r

LEMMA WithoutKinds ==
  ASSUME NEW q \in Seq(Requests), OnePerKind(q), NEW K, NEW x \in Requests, x.kind \in K
  PROVE  LET r == Append(Without(q, K), x) IN
         /\ r \in Seq(Requests) /\ OnePerKind(r)
         /\ ToSet(r) = {y \in ToSet(q) : y.kind \notin K} \cup {x}
  <1> DEFINE kept == {i \in DOMAIN q : q[i].kind \notin K}
             w == Retained(q, kept)
             r == Append(w, x)
  <1>1. w \in Seq(Requests) /\ Selects(w, q, DOMAIN q \cap kept)
    BY RetainedSelects
  <1>2. Without(q, K) = w
    BY DEF Without
  <1> HIDE DEF w
  <1>3. PICK at \in [1..Len(w) -> DOMAIN q \cap kept] :
          /\ \A j \in 1..Len(w) : w[j] = q[at[j]]
          /\ \A i, j \in 1..Len(w) : i < j => at[i] < at[j]
          /\ \A k \in DOMAIN q \cap kept : \E j \in 1..Len(w) : at[j] = k
    BY <1>1 DEF Selects
  <1>4. DOMAIN w = 1..Len(w) /\ Len(w) \in Nat
    BY <1>1
  <1>5. \A j \in DOMAIN w : w[j] = q[at[j]] /\ at[j] \in DOMAIN q /\ q[at[j]].kind \notin K
    BY <1>3, <1>4
  <1>6. ToSet(w) = {y \in ToSet(q) : y.kind \notin K}
    <2>1. \A i \in DOMAIN q : q[i].kind \notin K => \E j \in DOMAIN w : w[j] = q[i]
      <3> SUFFICES ASSUME NEW i \in DOMAIN q, q[i].kind \notin K
                   PROVE  \E j \in DOMAIN w : w[j] = q[i]
        OBVIOUS
      <3>1. i \in DOMAIN q \cap kept
        OBVIOUS
      <3>2. PICK j \in 1..Len(w) : at[j] = i
        BY <1>3, <3>1
      <3> QED BY <1>3, <1>4, <3>2
    <2> HIDE DEF kept
    <2>2. \A y \in ToSet(w) : y \in ToSet(q) /\ y.kind \notin K
      BY <1>5 DEF ToSet
    <2>3. \A y \in ToSet(q) : y.kind \notin K => y \in ToSet(w)
      BY <2>1 DEF ToSet
    <2> QED BY <2>2, <2>3
  <1>7. r \in Seq(Requests) /\ ToSet(r) = ToSet(w) \cup {x}
    BY <1>1, AppendSet
  <1>8. /\ DOMAIN r = DOMAIN w \cup {Len(w) + 1} /\ r[Len(w) + 1] = x
        /\ \A i \in DOMAIN w : r[i] = w[i]
    BY <1>1
  <1> HIDE DEF r
  <1>9. ASSUME NEW i \in DOMAIN w, NEW j \in DOMAIN w, w[i].kind = w[j].kind PROVE i = j
    <2>1. at[i] = at[j]
      BY <1>5, <1>9 DEF OnePerKind
    <2>2. i \in Int /\ j \in Int /\ ~(i < j) /\ ~(j < i)
      BY <1>3, <1>4, <2>1
    <2> QED BY <2>2
  <1>10. \A i \in DOMAIN w : w[i].kind # x.kind
    BY <1>5
  <1>11. OnePerKind(r)
    BY <1>8, <1>9, <1>10 DEF OnePerKind
  <1> QED BY <1>2, <1>6, <1>7, <1>11 DEF r

LEMMA OnceAppend ==
  ASSUME NEW S, NEW q \in Seq(S), NEW x \in S, Once(q), Apart({x}, ToSet(q))
  PROVE  Once(Append(q, x))
  <1> DEFINE r == Append(q, x)
  <1>1. /\ DOMAIN r = DOMAIN q \cup {Len(q) + 1} /\ r[Len(q) + 1] = x
        /\ \A i \in DOMAIN q : r[i] = q[i]
    OBVIOUS
  <1>2. \A i \in DOMAIN q : q[i] \in ToSet(q)
    BY DEF ToSet
  <1>3. \A i \in DOMAIN q : q[i].kind = "LoadFile" /\ x.kind = "LoadFile" => q[i].id # x.id
    BY <1>2 DEF Apart, Loads, Of
  <1> HIDE DEF r
  <1>4. Once(r)
    BY <1>1, <1>3 DEF Once
  <1> QED BY <1>4 DEF r

LEMMA OnceTail ==
  ASSUME NEW S, NEW q \in Seq(S), q # <<>>, Once(q)
  PROVE  Once(Tail(q)) /\ Apart({Head(q)}, ToSet(Tail(q)))
  <1> DEFINE r == Tail(q)
  <1>1. /\ DOMAIN q = 1..Len(q) /\ DOMAIN r = 1..(Len(q) - 1) /\ Len(q) \in Nat \ {0}
        /\ Head(q) = q[1] /\ \A i \in DOMAIN r : r[i] = q[i + 1]
    OBVIOUS
  <1> HIDE DEF r
  <1>2. \A i \in DOMAIN r : i + 1 \in DOMAIN q /\ i + 1 # 1 /\ i \in Int
    BY <1>1
  <1>3. 1 \in DOMAIN q
    BY <1>1
  <1>4. Once(r)
    <2> SUFFICES ASSUME NEW i \in DOMAIN r, NEW j \in DOMAIN r, r[i].kind = "LoadFile",
                        r[j].kind = "LoadFile", r[i].id = r[j].id
                 PROVE  i = j
      BY DEF Once
    <2>1. i + 1 = j + 1
      BY <1>1, <1>2 DEF Once
    <2> QED BY <1>2, <2>1
  <1>5. \A i \in DOMAIN r : r[i].kind = "LoadFile" /\ q[1].kind = "LoadFile" => q[1].id # r[i].id
    BY <1>1, <1>2, <1>3 DEF Once
  <1>6. Apart({q[1]}, ToSet(r))
    BY <1>5 DEF Apart, Loads, Of, ToSet
  <1> QED BY <1>1, <1>4, <1>6 DEF r

LEMMA OnceConcat ==
  ASSUME NEW S, NEW q \in Seq(S), NEW r \in Seq(S), Once(q), OnePerKind(r),
         Apart(ToSet(r), ToSet(q))
  PROVE  Once(q \o r)
  <1> DEFINE s == q \o r
  <1>1. /\ DOMAIN s = 1..(Len(q) + Len(r)) /\ DOMAIN q = 1..Len(q) /\ DOMAIN r = 1..Len(r)
        /\ Len(q) \in Nat /\ Len(r) \in Nat
        /\ \A i \in DOMAIN q : s[i] = q[i]
        /\ \A i \in DOMAIN r : s[Len(q) + i] = r[i]
    OBVIOUS
  <1> HIDE DEF s
  <1>2. \A i \in DOMAIN s : i \in DOMAIN q \/ (i - Len(q) \in DOMAIN r /\ s[i] = r[i - Len(q)])
    <2> SUFFICES ASSUME NEW i \in DOMAIN s, i \notin DOMAIN q
                 PROVE  i - Len(q) \in DOMAIN r /\ s[i] = r[i - Len(q)]
      OBVIOUS
    <2>1. i - Len(q) \in DOMAIN r /\ Len(q) + (i - Len(q)) = i
      BY <1>1
    <2> QED BY <1>1, <2>1
  <1>3. \A i \in DOMAIN q, j \in DOMAIN r :
          q[i].kind = "LoadFile" /\ r[j].kind = "LoadFile" => q[i].id # r[j].id
    BY DEF Apart, Loads, Of, ToSet
  <1> SUFFICES ASSUME NEW i \in DOMAIN s, NEW j \in DOMAIN s, s[i].kind = "LoadFile",
                      s[j].kind = "LoadFile", s[i].id = s[j].id
               PROVE  i = j
    BY DEF Once, s
  <1>4. CASE i \in DOMAIN q /\ j \in DOMAIN q
    BY <1>1, <1>4 DEF Once
  <1>5. CASE i \notin DOMAIN q /\ j \notin DOMAIN q
    <2>1. i - Len(q) = j - Len(q) /\ i \in Int /\ j \in Int
      BY <1>1, <1>2, <1>5 DEF OnePerKind
    <2> QED BY <1>1, <2>1
  <1>6. CASE i \in DOMAIN q /\ j \notin DOMAIN q
    BY <1>1, <1>2, <1>3, <1>6
  <1>7. CASE i \notin DOMAIN q /\ j \in DOMAIN q
    BY <1>1, <1>2, <1>3, <1>7
  <1> QED BY <1>4, <1>5, <1>6, <1>7

-----------------------------------------------------------------------------
(* A new id is held by nobody.                                              *)

LEMMA LeastIsIn ==
  ASSUME NEW T \in SUBSET Nat, T # {} PROVE Min(T) \in T
  <1>1. PICK x \in T : \A y \in T : x <= y
    BY LeastNatural
  <1> QED BY <1>1 DEF Min

LEMMA LeastOfTwo ==
  ASSUME NEW a \in Nat, NEW b \in Nat
  PROVE  Min({a, b}) \in Nat /\ Min({a, b}) <= a /\ Min({a, b}) <= b
  <1>1. \E x \in {a, b} : \A y \in {a, b} : x <= y
    <2>1. CASE a <= b BY <2>1
    <2>2. CASE b <= a BY <2>2
    <2> QED BY <2>1, <2>2
  <1>2. Min({a, b}) \in {a, b} /\ \A y \in {a, b} : Min({a, b}) <= y
    BY <1>1 DEF Min
  <1> QED BY <1>2

\* Among one number more than there are in a finite set, one is not in it.
LEMMA OneIsFree ==
  ASSUME NEW T, IsFiniteSet(T)
  PROVE  LET m == Min(1..(Cardinality(T) + 1) \ T) IN m \in Nat \ {0} /\ m \notin T
  <1> DEFINE n == Cardinality(T)
             I == 1..(n + 1)
  <1>1. n \in Nat
    BY FS_CardinalityType
  <1> HIDE DEF n
  <1>2. IsFiniteSet(I) /\ Cardinality(I) = n + 1
    BY <1>1, FS_Interval
  <1>3. ~(I \subseteq T)
    <2> SUFFICES ASSUME I \in SUBSET T PROVE FALSE
      OBVIOUS
    <2>1. Cardinality(I) <= n
      BY FS_Subset DEF n
    <2> QED BY <1>1, <1>2, <2>1
  <1>4. I \ T \in SUBSET Nat /\ I \ T # {}
    BY <1>1, <1>3
  <1>5. Min(I \ T) \in I \ T
    BY <1>4, LeastIsIn
  <1> QED BY <1>1, <1>5 DEF n

LEMMA FiniteImage ==
  ASSUME NEW S, NEW q \in Seq(S)
  PROVE  /\ IsFiniteSet(Ids(q)) /\ IsFiniteSet(WindowDocs(q))
  <1>1. IsFiniteSet(DOMAIN q)
    <2>1. DOMAIN q = 1..Len(q) /\ Len(q) \in Nat
      OBVIOUS
    <2> QED BY <2>1, FS_Interval
  <1>2. ASSUME NEW D \in SUBSET DOMAIN q, NEW f, f = [i \in D |-> f[i]]
        PROVE  IsFiniteSet({f[i] : i \in D})
    <2>1. IsFiniteSet(D)
      BY <1>1, FS_Subset
    <2>2. f \in Surjection(D, {f[i] : i \in D})
      BY <1>2 DEF Surjection
    <2> QED BY <2>1, <2>2, FS_Surjection
  <1>3. IsFiniteSet(Ids(q))
    <2> DEFINE D == DOMAIN q
               f == [i \in D |-> q[i].id]
    <2>1. f = [i \in D |-> f[i]] /\ Ids(q) = {f[i] : i \in D} /\ D \in SUBSET DOMAIN q
      BY DEF Ids
    <2> HIDE DEF D, f
    <2> QED BY <1>2, <2>1
  <1>4. IsFiniteSet(WindowDocs(q))
    <2> DEFINE D == {j \in DOMAIN q : q[j].kind = "HighlightWindow"}
               f == [i \in D |-> q[i].doc]
    <2>1. f = [i \in D |-> f[i]] /\ WindowDocs(q) = {f[i] : i \in D} /\ D \in SUBSET DOMAIN q
      BY DEF WindowDocs
    <2> HIDE DEF D, f
    <2> QED BY <1>2, <2>1
  <1> QED BY <1>3, <1>4

\* What nobody holds: no request or outcome has this id, nor asks for styles of it.
Fresh(e, id) ==
  /\ id \in Nat \ {0}
  /\ \A r \in Under(e, outcomes) : r.id # id
  /\ \A r \in Windows(Under(e, outcomes)) : r.doc # id
  /\ id \notin {e.latest_paths, e.latest_load, newestLoad, newestWindow}
  /\ e.viewer # None => id # e.viewer.doc

LEMMA Fields ==
  ASSUME NEW e \in Explorers
  PROVE  /\ e.paths \in SUBSET Files /\ e.rows \in SUBSET Files /\ e.expanded \in BOOLEAN
         /\ e.selected \in Files \cup {Dir, None} /\ e.viewer \in Viewers \cup {None}
         /\ e.viewer_scroll \in Nat /\ e.requested \in Nat \cup {None}
         /\ e.viewport_rows \in Nat \ {0} /\ e.pending_path \in Files \cup {None}
         /\ e.pending_window \in (Nat \X Nat) \cup {None}
         /\ e.pending_quick_open \in Files \cup {None} /\ e.paths_pending \in BOOLEAN
         /\ e.latest_paths \in Nat /\ e.latest_load \in Nat /\ e.queued \in Seq(Requests)
  BY DEF Explorers

LEMMA NextIdIsFresh ==
  ASSUME Types, NEW e \in Explorers
  PROVE  Fresh(e, NextId(e))
  <1> DEFINE W == IF e.pending_window = None THEN {} ELSE Range(e.pending_window)
             V == IF e.viewer = None THEN {} ELSE {e.viewer.doc}
             L == {job.id, e.latest_paths, e.latest_load, newestLoad, newestWindow}
             held == Ids(e.queued) \cup Ids(requests) \cup Ids(outcomes) \cup L \cup V \cup W
                       \cup WindowDocs(e.queued) \cup WindowDocs(requests)
                       \cup WindowDocs(outcomes) \cup WindowDocs(<<job>>)
             id == Min(1..(Cardinality(held) + 1) \ held)
  <1>1. id = NextId(e)
    BY DEF NextId
  <1>2. e.queued \in Seq(Requests) /\ requests \in Seq(Requests) /\ outcomes \in Seq(Answers)
    BY Fields DEF Types
  <1>3. /\ IsFiniteSet(Ids(e.queued)) /\ IsFiniteSet(Ids(requests)) /\ IsFiniteSet(Ids(outcomes))
        /\ IsFiniteSet(WindowDocs(e.queued)) /\ IsFiniteSet(WindowDocs(requests))
        /\ IsFiniteSet(WindowDocs(outcomes)) /\ IsFiniteSet(WindowDocs(<<job>>))
    <2>1. <<job>> \in Seq({job})
      OBVIOUS
    <2> QED BY <1>2, <2>1, FiniteImage
  <1>4. IsFiniteSet(L) /\ IsFiniteSet(V)
    <2>1. \A a, b, c, d, f : IsFiniteSet({a, b, c, d, f})
      <3> SUFFICES ASSUME NEW a, NEW b, NEW c, NEW d, NEW f PROVE IsFiniteSet({a, b, c, d, f})
        OBVIOUS
      <3>1. IsFiniteSet({a} \cup {b})
        BY FS_Singleton, FS_Union
      <3>2. IsFiniteSet(({a} \cup {b}) \cup {c})
        BY <3>1, FS_Singleton, FS_Union
      <3>3. IsFiniteSet((({a} \cup {b}) \cup {c}) \cup {d})
        BY <3>2, FS_Singleton, FS_Union
      <3>4. IsFiniteSet(((({a} \cup {b}) \cup {c}) \cup {d}) \cup {f})
        BY <3>3, FS_Singleton, FS_Union
      <3>5. ((({a} \cup {b}) \cup {c}) \cup {d}) \cup {f} = {a, b, c, d, f}
        OBVIOUS
      <3> QED BY <3>4, <3>5
    <2> QED BY <2>1, FS_Singleton, FS_EmptySet
  <1>5. IsFiniteSet(W)
    <2>1. CASE e.pending_window = None
      BY <2>1, FS_EmptySet
    <2>2. CASE e.pending_window # None
      <3>1. PICK a \in Nat, b \in Nat : e.pending_window = <<a, b>>
        BY <2>2, Fields
      <3>2. W = {a} \cup {b}
        BY <2>2, <3>1 DEF Range
      <3>3. IsFiniteSet({a} \cup {b})
        BY FS_Singleton, FS_Union
      <3> QED BY <3>2, <3>3
    <2> QED BY <2>1, <2>2
  <1>6. IsFiniteSet(held)
    <2> HIDE DEF L, V, W
    <2>1. IsFiniteSet(Ids(e.queued) \cup Ids(requests) \cup Ids(outcomes))
      BY <1>3, FS_Union
    <2>2. IsFiniteSet(Ids(e.queued) \cup Ids(requests) \cup Ids(outcomes) \cup L \cup V \cup W)
      BY <1>4, <1>5, <2>1, FS_Union
    <2>3. IsFiniteSet(Ids(e.queued) \cup Ids(requests) \cup Ids(outcomes) \cup L \cup V \cup W
                        \cup WindowDocs(e.queued) \cup WindowDocs(requests))
      BY <1>3, <2>2, FS_Union
    <2> QED BY <1>3, <2>3, FS_Union
  <1>7. id \in Nat \ {0} /\ id \notin held
    <2> HIDE DEF held
    <2> QED BY <1>6, OneIsFree
  <1> HIDE DEF id
  <1>8. \A r \in ToSet(e.queued) \cup ToSet(requests) \cup ToSet(outcomes) \cup {job} : r.id # id
    BY <1>7 DEF Ids, ToSet
  <1>9. \A r \in ToSet(e.queued) \cup ToSet(requests) \cup ToSet(outcomes) \cup {job} :
          r.kind = "HighlightWindow" => r.doc # id
    <2>1. \A q : \A r \in ToSet(q) : r.kind = "HighlightWindow" => r.doc \in WindowDocs(q)
      BY DEF WindowDocs, ToSet
    <2>2. job \in ToSet(<<job>>)
      BY DEF ToSet
    <2> QED BY <1>7, <2>1, <2>2
  <1>10. id \notin L /\ id \notin V
    BY <1>7
  <1> QED BY <1>1, <1>7, <1>8, <1>9, <1>10 DEF Fresh, Under, InHand, Running, Windows, Of

-----------------------------------------------------------------------------
(* The three requests.                                                      *)

SameTree(e, r) ==
  /\ r.paths = e.paths /\ r.rows = e.rows /\ r.expanded = e.expanded /\ r.selected = e.selected
  /\ r.pending_quick_open = e.pending_quick_open

\* The new request supersedes the path list that was asked for before.
LEMMA AsksPaths ==
  ASSUME Types, NEW e \in Explorers, NEW outs \in Seq(Answers),
         ToSet(outs) \subseteq ToSet(outcomes), Consistent(e, outs)
  PROVE  LET r == RequestPaths(e) IN
         /\ r \in Explorers /\ SameTree(e, r) /\ Consistent(r, outs)
         /\ PathsCurrent(r, outs)
         /\ ViewerCurrent(e, outs) => ViewerCurrent(r, outs)
         /\ r.latest_load = e.latest_load
  <1> DEFINE id == NextId(e)
             x == [kind |-> "Paths", id |-> id]
             queue == Append(Without(e.queued, {"Paths"}), x)
             r == [e EXCEPT !.latest_paths = id, !.paths_pending = TRUE, !.queued = queue]
  <1>1. Fresh(e, id)
    BY NextIdIsFresh
  <1>2. id \in Nat
    BY <1>1 DEF Fresh
  <1> HIDE DEF id
  <1>3. x \in Requests /\ x.kind = "Paths" /\ x.id = id
    BY <1>2 DEF Requests
  <1>4. OnePerKind(e.queued)
    BY DEF Consistent, LoadsQueued
  <1>5. queue \in Seq(Requests)
    BY <1>3, <1>4, Fields, WithoutKinds
  <1> HIDE DEF x, queue
  <1>6. /\ r \in Explorers /\ SameTree(e, r)
        /\ r.latest_paths = id /\ r.latest_load = e.latest_load /\ r.viewer = e.viewer
        /\ r.pending_path = e.pending_path /\ r.pending_window = e.pending_window
        /\ r.queued = queue
    BY <1>2, <1>5 DEF Explorers, SameTree
  <1>7. r = RequestPaths(e)
    BY DEF RequestPaths, id, x, queue
  <1> HIDE DEF r
  <1>8. /\ OnePerKind(r.queued)
        /\ Loads(ToSet(r.queued)) = Loads(ToSet(e.queued))
        /\ Windows(ToSet(r.queued)) = Windows(ToSet(e.queued))
        /\ Loads(Under(r, outs)) = Loads(Under(e, outs))
        /\ Windows(Under(r, outs)) = Windows(Under(e, outs))
        /\ x \in Under(r, outs)
    <2>1. /\ OnePerKind(r.queued)
          /\ ToSet(r.queued) = {y \in ToSet(e.queued) : y.kind \notin {"Paths"}} \cup {x}
      <3>1. e.queued \in Seq(Requests) /\ x.kind \in {"Paths"}
        BY <1>3, Fields
      <3> QED BY <1>3, <1>4, <1>6, <3>1, WithoutKinds DEF queue
    <2> QED BY <1>3, <2>1 DEF Loads, Windows, Of, Under
  <1>9. LoadsQueued(r)
    BY <1>6, <1>8 DEF LoadsQueued, Consistent
  <1>10. Coming(r, outs)
    <2>1. PathsComing(r, outs)
      BY <1>3, <1>6, <1>8 DEF PathsComing, Of
    <2>2. WindowComing(r, outs)
      BY <1>6, <1>8 DEF WindowComing, Consistent, Coming
    <2>3. LatestComing(r, outs) = LatestComing(e, outs)
      BY <1>6, <1>8 DEF LatestComing
    <2> QED BY <1>6, <2>1, <2>2, <2>3 DEF Coming, Consistent
  <1>11. LoadsOnce(r, outs)
    BY <1>8 DEF LoadsOnce, Consistent, Apart
  <1>12. Documents(r, outs)
    <2>1. Windows(ToSet(r.queued) \cup InHand) = Windows(ToSet(e.queued) \cup InHand)
      BY <1>8 DEF Windows, Of
    <2> QED BY <1>6, <1>8, <2>1 DEF Documents, Consistent
  <1>13. PathsCurrent(r, outs)
    <2>1. \A o \in ToSet(outs) : o.id # id
      BY <1>1 DEF Fresh, Under
    <2> QED BY <1>6, <2>1 DEF PathsCurrent, Of
  <1>14. ViewerCurrent(e, outs) => ViewerCurrent(r, outs)
    <2>1. Loads(ToSet(r.queued) \cup InHand) = Loads(ToSet(e.queued) \cup InHand)
      BY <1>8 DEF Loads, Of
    <2>2. LatestComing(r, outs) = LatestComing(e, outs)
      BY <1>6, <1>8 DEF LatestComing
    <2>3. r.paths = e.paths
      BY <1>6 DEF SameTree
    <2> QED BY <1>6, <2>1, <2>2, <2>3 DEF ViewerCurrent
  <1> QED BY <1>6, <1>7, <1>9, <1>10, <1>11, <1>12, <1>13, <1>14 DEF Consistent

\* The new load supersedes the one before and the window of what it replaces.
LEMMA AsksLoad ==
  ASSUME Types, NEW e \in Explorers, NEW outs \in Seq(Answers),
         ToSet(outs) \subseteq ToSet(outcomes), Consistent(e, outs),
         NEW path \in e.paths, NEW first \in Nat
  PROVE  LET r == RequestFileLoad(e, path, first) IN
         /\ r \in Explorers /\ SameTree(e, r) /\ Consistent(r, outs)
         /\ PathsCurrent(e, outs) => PathsCurrent(r, outs)
         /\ ViewerCurrent(r, outs)
         /\ r.latest_load # e.latest_load
  <1> DEFINE id == NextId(e)
             committed == IF Displayed(e) = path THEN e.viewer_scroll ELSE first
             ask == [first |-> first, rows |-> e.viewport_rows,
                     viewports |-> Prefetch(committed, first, e.viewport_rows)]
             x == [kind |-> "LoadFile", id |-> id, path |-> path, ask |-> ask]
             K == {"LoadFile", "HighlightWindow"}
             queue == Append(Without(e.queued, K), x)
             r == [e EXCEPT !.latest_load = id, !.pending_path = path,
                            !.pending_window = None, !.queued = queue]
  <1>1. Fresh(e, id)
    BY NextIdIsFresh
  <1>2. id \in Nat /\ id # e.latest_load
    BY <1>1 DEF Fresh
  <1> HIDE DEF id
  <1>3. x \in Requests /\ x.kind = "LoadFile" /\ x.id = id /\ x.path = path
    <2>1. \A c : Prefetch(c, first, e.viewport_rows) \in Nat
      BY DEF Prefetch
    <2>2. ask \in Asks
      BY <2>1, Fields DEF Asks
    <2>3. path \in Files
      BY Fields
    <2> HIDE DEF ask
    <2> QED BY <1>2, <2>2, <2>3 DEF Requests
  <1>4. OnePerKind(e.queued)
    BY DEF Consistent, LoadsQueued
  <1>5. queue \in Seq(Requests)
    <2>1. x.kind \in K
      BY <1>3
    <2> HIDE DEF K, x
    <2> QED BY <1>3, <1>4, <2>1, Fields, WithoutKinds
  <1>6. r = RequestFileLoad(e, path, first)
    BY DEF RequestFileLoad, id
  <1> HIDE DEF x, queue
  <1>7. /\ r \in Explorers /\ SameTree(e, r)
        /\ r.latest_paths = e.latest_paths /\ r.latest_load = id /\ r.viewer = e.viewer
        /\ r.pending_path = path /\ r.pending_window = None
        /\ r.queued = queue /\ r.paths_pending = e.paths_pending
    BY <1>2, <1>5, Fields DEF Explorers, SameTree
  <1> HIDE DEF r
  <1>8. /\ OnePerKind(r.queued)
        /\ Loads(ToSet(r.queued)) = {x}
        /\ Windows(ToSet(r.queued)) = {}
        /\ Loads(Under(r, outs)) \subseteq Loads(Under(e, outs)) \cup {x}
        /\ Windows(Under(r, outs)) \subseteq Windows(Under(e, outs))
        /\ Of(Under(r, outs), "Paths") = Of(Under(e, outs), "Paths")
        /\ x \in Under(r, outs)
    <2>1. /\ OnePerKind(r.queued)
          /\ ToSet(r.queued) = {y \in ToSet(e.queued) : y.kind \notin K} \cup {x}
      <3>1. e.queued \in Seq(Requests) /\ x.kind \in K
        BY <1>3, Fields
      <3> HIDE DEF K
      <3> QED BY <1>3, <1>4, <1>7, <3>1, WithoutKinds DEF queue
    <2> QED BY <1>3, <2>1 DEF Loads, Windows, Of, Under
  <1>9. LoadsQueued(r)
    BY <1>3, <1>7, <1>8 DEF LoadsQueued
  <1>10. LatestComing(r, outs)
    BY <1>3, <1>7, <1>8 DEF LatestComing, Loads, Of
  <1>11. Coming(r, outs)
    <2>1. PathsComing(r, outs)
      BY <1>7, <1>8 DEF PathsComing, Consistent, Coming
    <2> QED BY <1>7, <1>10, <2>1 DEF Coming, WindowComing
  <1>12. \A y \in Under(e, outs) : y.id # id
    BY <1>1 DEF Fresh, Under
  <1>13. LoadsOnce(r, outs)
    <2>1. Apart(ToSet(r.queued), InHand \cup ToSet(outs))
      <3>1. \A y \in InHand \cup ToSet(outs) : y.id # x.id
        BY <1>3, <1>12 DEF Under
      <3> QED BY <1>8, <3>1 DEF Apart, Loads, Of
    <2> QED BY <2>1 DEF LoadsOnce, Consistent
  <1>14. Documents(r, outs)
    <2>1. \A w \in Windows(Under(e, outs)) : w.doc # id
      BY <1>1 DEF Fresh, Under, Windows, Of
    <2>2. e.viewer # None => id # e.viewer.doc
      BY <1>1 DEF Fresh
    <2>3. Windows(ToSet(r.queued) \cup InHand) \subseteq Windows(ToSet(e.queued) \cup InHand)
      BY <1>8 DEF Windows, Of
    <2> QED BY <1>3, <1>7, <1>8, <2>1, <2>2, <2>3 DEF Documents, Consistent
  <1>15. PathsCurrent(e, outs) => PathsCurrent(r, outs)
    BY <1>7 DEF PathsCurrent
  <1>16. ViewerCurrent(r, outs)
    <2>1. r.paths = e.paths
      BY <1>7 DEF SameTree
    <2>2. \A y \in InHand \cup ToSet(outs) : y.id # r.latest_load
      BY <1>7, <1>12 DEF Under
    <2>3. \A y \in Loads(ToSet(r.queued)) : y.path \in e.paths
      BY <1>3, <1>8
    <2> QED BY <1>10, <2>1, <2>2, <2>3 DEF ViewerCurrent, Loads, Of
  <1> QED BY <1>2, <1>6, <1>7, <1>9, <1>11, <1>13, <1>14, <1>15, <1>16 DEF Consistent

\* A window is asked for with the id of the text on screen.
LEMMA AsksWindow ==
  ASSUME Types, NEW e \in Explorers, NEW outs \in Seq(Answers),
         ToSet(outs) \subseteq ToSet(outcomes), Consistent(e, outs),
         e.viewer # None, NEW first \in Nat
  PROVE  LET r == RequestSyntaxWindow(e, first) IN
         /\ r \in Explorers /\ SameTree(e, r) /\ Consistent(r, outs)
         /\ PathsCurrent(e, outs) => PathsCurrent(r, outs)
         /\ ViewerCurrent(e, outs) => ViewerCurrent(r, outs)
         /\ r.latest_load = e.latest_load
  <1> DEFINE id == NextId(e)
             doc == e.viewer.doc
             ask == [first |-> first, rows |-> e.viewport_rows,
                     viewports |-> Prefetch(e.viewer_scroll, first, e.viewport_rows)]
             x == [kind |-> "HighlightWindow", id |-> id, doc |-> doc,
                   content |-> e.viewer.content, ask |-> ask]
             K == {"HighlightWindow"}
             queue == Append(Without(e.queued, K), x)
             r == [e EXCEPT !.pending_window = <<id, doc>>, !.queued = queue]
  <1>1. Fresh(e, id)
    BY NextIdIsFresh
  <1>2. id \in Nat
    BY <1>1 DEF Fresh
  <1>3. r = RequestSyntaxWindow(e, first)
    BY DEF RequestSyntaxWindow
  <1> HIDE DEF id
  <1>4. doc \in Nat /\ e.viewer \in Viewers
    BY Fields DEF Viewers
  <1>5. x \in Requests /\ x.kind = "HighlightWindow" /\ x.id = id /\ x.doc = doc
        /\ x.content = e.viewer.content
    <2>1. \A c : Prefetch(c, first, e.viewport_rows) \in Nat
      BY DEF Prefetch
    <2>2. ask \in Asks
      BY <2>1, Fields DEF Asks
    <2>3. e.viewer.content \in Contents
      BY <1>4 DEF Viewers
    <2> HIDE DEF ask, doc
    <2> QED BY <1>2, <1>4, <2>2, <2>3 DEF Requests
  <1>6. OnePerKind(e.queued)
    BY DEF Consistent, LoadsQueued
  <1>7. queue \in Seq(Requests)
    <2>1. x.kind \in K
      BY <1>5
    <2> HIDE DEF K, x
    <2> QED BY <1>5, <1>6, <2>1, Fields, WithoutKinds
  <1> HIDE DEF x, queue, doc
  <1>8. /\ r \in Explorers /\ SameTree(e, r)
        /\ r.latest_paths = e.latest_paths /\ r.latest_load = e.latest_load /\ r.viewer = e.viewer
        /\ r.pending_path = e.pending_path /\ r.pending_window = <<id, doc>>
        /\ r.queued = queue /\ r.paths_pending = e.paths_pending
    BY <1>2, <1>4, <1>7, Fields DEF Explorers, SameTree
  <1> HIDE DEF r
  <1>9. /\ OnePerKind(r.queued)
        /\ Loads(ToSet(r.queued)) = Loads(ToSet(e.queued))
        /\ Loads(Under(r, outs)) = Loads(Under(e, outs))
        /\ Windows(ToSet(r.queued)) = {x}
        /\ Windows(Under(r, outs)) \subseteq Windows(Under(e, outs)) \cup {x}
        /\ Of(Under(r, outs), "Paths") = Of(Under(e, outs), "Paths")
        /\ x \in Windows(Under(r, outs))
    <2>1. /\ OnePerKind(r.queued)
          /\ ToSet(r.queued) = {y \in ToSet(e.queued) : y.kind \notin K} \cup {x}
      <3>1. e.queued \in Seq(Requests) /\ x.kind \in K
        BY <1>5, Fields
      <3> HIDE DEF K
      <3> QED BY <1>5, <1>6, <1>8, <3>1, WithoutKinds DEF queue
    <2> QED BY <1>5, <2>1 DEF Loads, Windows, Of, Under
  <1>10. LoadsQueued(r)
    BY <1>8, <1>9 DEF LoadsQueued, Consistent
  <1>11. LatestComing(r, outs) = LatestComing(e, outs)
    BY <1>8, <1>9 DEF LatestComing
  <1>12. Coming(r, outs)
    <2>1. PathsComing(r, outs)
      BY <1>8, <1>9 DEF PathsComing, Consistent, Coming
    <2>2. \A y \in Windows(Under(e, outs)) : y.id # id
      BY <1>1 DEF Fresh, Under, Windows, Of
    <2>3. WindowComing(r, outs)
      <3>1. r.pending_window[1] = x.id /\ r.pending_window[2] = x.doc /\ r.viewer.doc = x.doc
        BY <1>5, <1>8 DEF doc
      <3>2. \A y \in Windows(Under(r, outs)) : y.id = x.id => y = x
        BY <1>5, <1>9, <2>2
      <3>3. Windows(ToSet(r.queued)) # {}
        BY <1>9
      <3> QED BY <1>8, <1>9, <3>1, <3>2, <3>3 DEF WindowComing
    <2> QED BY <1>8, <1>11, <2>1, <2>3 DEF Coming, Consistent
  <1>13. LoadsOnce(r, outs)
    BY <1>9 DEF LoadsOnce, Consistent, Apart
  <1>14. Documents(r, outs)
    <2>1. \A y \in Loads(Under(e, outs)) : y.id # x.doc
      BY <1>5 DEF Documents, Consistent, doc
    <2>2. \A y \in Windows(ToSet(r.queued) \cup InHand) :
            y \in Windows(ToSet(e.queued) \cup InHand) \/ y = x
      BY <1>9 DEF Windows, Of
    <2>3. \A y \in Loads(Under(r, outs)) :
            /\ r.viewer # None => y.id # r.viewer.doc
            /\ \A w \in Windows(Under(r, outs)) : w.doc # y.id
      BY <1>8, <1>9, <2>1 DEF Documents, Consistent
    <2>4. \A w \in Windows(ToSet(r.queued) \cup InHand) :
            w.doc = r.viewer.doc => w.content = r.viewer.content
      BY <1>5, <1>8, <2>2 DEF Documents, Consistent
    <2> QED BY <1>8, <2>3, <2>4 DEF Documents, Consistent
  <1>15. PathsCurrent(e, outs) => PathsCurrent(r, outs)
    BY <1>8 DEF PathsCurrent
  <1>16. ViewerCurrent(e, outs) => ViewerCurrent(r, outs)
    <2>1. Loads(ToSet(r.queued) \cup InHand) = Loads(ToSet(e.queued) \cup InHand)
      BY <1>9 DEF Loads, Of
    <2>2. r.paths = e.paths
      BY <1>8 DEF SameTree
    <2> QED BY <1>8, <1>11, <2>1, <2>2 DEF ViewerCurrent
  <1> QED BY <1>3, <1>8, <1>10, <1>12, <1>13, <1>14, <1>15, <1>16 DEF Consistent

-----------------------------------------------------------------------------
(* What the handlers preserve.                                              *)

\* A step that asks for nothing and may stop waiting.
Calm(e, r) ==
  /\ r.queued = e.queued /\ r.paths = e.paths /\ r.viewer = e.viewer
  /\ r.latest_paths = e.latest_paths /\ r.latest_load = e.latest_load
  /\ r.paths_pending = e.paths_pending
  /\ r.pending_path \in {e.pending_path, None}
  /\ r.pending_window \in {e.pending_window, None}

LEMMA CalmKeeps ==
  ASSUME NEW e, NEW r, NEW outs, Calm(e, r), Consistent(e, outs)
  PROVE  /\ Consistent(r, outs)
         /\ PathsCurrent(e, outs) => PathsCurrent(r, outs)
         /\ ViewerCurrent(e, outs) => ViewerCurrent(r, outs)
  <1>1. Under(r, outs) = Under(e, outs)
    BY DEF Calm, Under
  <1>2. LatestComing(r, outs) = LatestComing(e, outs)
    BY <1>1 DEF LatestComing, Calm
  <1>3. LoadsQueued(r)
    BY DEF LoadsQueued, Consistent, Calm
  <1>4. Coming(r, outs)
    <2>1. PathsComing(r, outs)
      BY <1>1 DEF PathsComing, Consistent, Coming, Calm
    <2>2. WindowComing(r, outs)
      BY <1>1 DEF WindowComing, Consistent, Coming, Calm
    <2> QED BY <1>2, <2>1, <2>2 DEF Coming, Consistent, Calm
  <1>5. LoadsOnce(r, outs)
    BY DEF LoadsOnce, Consistent, Calm
  <1>6. Documents(r, outs)
    BY <1>1 DEF Documents, Consistent, Calm
  <1>7. PathsCurrent(e, outs) => PathsCurrent(r, outs)
    BY DEF PathsCurrent, Calm
  <1>8. ViewerCurrent(e, outs) => ViewerCurrent(r, outs)
    BY <1>2 DEF ViewerCurrent, Calm
  <1> QED BY <1>3, <1>4, <1>5, <1>6, <1>7, <1>8 DEF Consistent

\* The same for what is shown, as long as no load was asked for since l.
LEMMA GoodCalm ==
  ASSUME NEW e, NEW r, NEW outs, NEW l, NEW m \in BOOLEAN, Calm(e, r), Good(e, outs, l, m)
  PROVE  Good(r, outs, l, m)
  BY CalmKeeps DEF Good, UpToDate, Calm

Situation(e, outs) ==
  /\ Types /\ e \in Explorers /\ outs \in Seq(Answers)
  /\ ToSet(outs) \subseteq ToSet(outcomes)

LEMMA GoodPaths ==
  ASSUME NEW e, NEW outs, NEW l, NEW m \in BOOLEAN, Situation(e, outs), Good(e, outs, l, m)
  PROVE  LET r == RequestPaths(e) IN
         r \in Explorers /\ SameTree(e, r) /\ Good(r, outs, l, m)
  <1> DEFINE r == RequestPaths(e)
  <1>1. /\ r \in Explorers /\ SameTree(e, r) /\ Consistent(r, outs)
        /\ PathsCurrent(r, outs)
        /\ ViewerCurrent(e, outs) => ViewerCurrent(r, outs)
        /\ r.latest_load = e.latest_load
    BY AsksPaths DEF Situation, Good
  <1> HIDE DEF r
  <1> QED BY <1>1 DEF Good, UpToDate, r

LEMMA GoodLoad ==
  ASSUME NEW e, NEW outs, NEW l, NEW m \in BOOLEAN, Situation(e, outs), Good(e, outs, l, m),
         NEW path, NEW first \in Nat
  PROVE  LET r == RequestFileLoad(e, path, first) IN
         r \in Explorers /\ SameTree(e, r) /\ Good(r, outs, l, m)
  <1> DEFINE r == RequestFileLoad(e, path, first)
  <1>1. CASE path \in e.paths
    <2>1. /\ r \in Explorers /\ SameTree(e, r) /\ Consistent(r, outs)
          /\ PathsCurrent(e, outs) => PathsCurrent(r, outs)
          /\ ViewerCurrent(r, outs)
      BY <1>1, AsksLoad DEF Situation, Good
    <2> HIDE DEF r
    <2> QED BY <2>1 DEF Good, UpToDate, r
  <1>2. CASE path \notin e.paths
    <2>1. r = e
      BY <1>2 DEF RequestFileLoad
    <2> QED BY <2>1 DEF Situation, SameTree
  <1> QED BY <1>1, <1>2

LEMMA GoodWindow ==
  ASSUME NEW e, NEW outs, NEW l, NEW m \in BOOLEAN, Situation(e, outs), Good(e, outs, l, m),
         NEW first \in Nat
  PROVE  LET r == RequestSyntaxWindow(e, first) IN
         r \in Explorers /\ SameTree(e, r) /\ Good(r, outs, l, m)
  <1> DEFINE r == RequestSyntaxWindow(e, first)
  <1>1. CASE e.viewer # None
    <2>1. /\ r \in Explorers /\ SameTree(e, r) /\ Consistent(r, outs)
          /\ PathsCurrent(e, outs) => PathsCurrent(r, outs)
          /\ ViewerCurrent(e, outs) => ViewerCurrent(r, outs)
          /\ r.latest_load = e.latest_load
      BY <1>1, AsksWindow DEF Situation, Good
    <2> HIDE DEF r
    <2> QED BY <2>1 DEF Good, UpToDate, r
  <1>2. CASE e.viewer = None
    <2>1. r = e
      BY <1>2 DEF RequestSyntaxWindow
    <2> QED BY <2>1 DEF Situation, SameTree
  <1> QED BY <1>1, <1>2

\* What every handler starts from and leaves.
Fits(e, outs, l, m) ==
  Situation(e, outs) /\ Selectable(e) /\ Good(e, outs, l, m)

LEMMA FitsCalm ==
  ASSUME NEW e, NEW r \in Explorers, NEW outs, NEW l, NEW m \in BOOLEAN,
         Calm(e, r), Selectable(r), Fits(e, outs, l, m)
  PROVE  Fits(r, outs, l, m)
  BY GoodCalm DEF Fits, Situation

LEMMA SameTreeSelects ==
  ASSUME NEW e, NEW r, SameTree(e, r), Selectable(e) PROVE Selectable(r)
  BY DEF SameTree, Selectable, Visible

LEMMA FitsRequests ==
  ASSUME NEW e, NEW outs, NEW l, NEW m \in BOOLEAN, Fits(e, outs, l, m)
  PROVE  /\ Fits(RequestPaths(e), outs, l, m)
         /\ \A path : \A first \in Nat : Fits(RequestFileLoad(e, path, first), outs, l, m)
         /\ \A first \in Nat : Fits(RequestSyntaxWindow(e, first), outs, l, m)
  <1>1. Fits(RequestPaths(e), outs, l, m)
    BY GoodPaths, SameTreeSelects DEF Fits, Situation
  <1>2. ASSUME NEW path, NEW first \in Nat PROVE Fits(RequestFileLoad(e, path, first), outs, l, m)
    BY GoodLoad, SameTreeSelects DEF Fits, Situation
  <1>3. ASSUME NEW first \in Nat PROVE Fits(RequestSyntaxWindow(e, first), outs, l, m)
    BY GoodWindow, SameTreeSelects DEF Fits, Situation
  <1> QED BY <1>1, <1>2, <1>3

LEMMA ChangedSelection ==
  ASSUME NEW e, NEW outs, NEW l, NEW m \in BOOLEAN, Fits(e, outs, l, m)
  PROVE  Fits(SelectionChanged(e), outs, l, m)
  <1> DEFINE kept == [e EXCEPT !.requested = None]
             left == [kept EXCEPT !.pending_path = None, !.pending_window = None]
             file == SelectedFile(e)
  <1>1. e \in Explorers /\ Selectable(e)
    BY DEF Fits, Situation
  <1>2. kept \in Explorers /\ Calm(e, kept) /\ Selectable(kept)
    BY <1>1 DEF Explorers, Calm, Selectable, Visible
  <1>3. left \in Explorers /\ Calm(e, left) /\ Selectable(left)
    BY <1>1 DEF Explorers, Calm, Selectable, Visible
  <1>4. SelectionChanged(e) \in {kept, left, RequestFileLoad(kept, file, 0)}
    BY DEF SelectionChanged
  <1> HIDE DEF kept, left, file
  <1>5. Fits(kept, outs, l, m) /\ Fits(left, outs, l, m)
    BY <1>2, <1>3, FitsCalm
  <1>6. Fits(RequestFileLoad(kept, file, 0), outs, l, m)
    BY <1>5, FitsRequests
  <1> QED BY <1>4, <1>5, <1>6

LEMMA PickedFits ==
  ASSUME NEW e, NEW outs, NEW l, NEW m \in BOOLEAN, Fits(e, outs, l, m), NEW old
  PROVE  Fits(Picked(old, e), outs, l, m)
  BY ChangedSelection DEF Picked

\* Rows that are on screen are files or the directory.
LEMMA RowsAre ==
  ASSUME NEW e \in Explorers
  PROVE  Visible(e) \subseteq Files \cup {Dir}
  BY Fields DEF Visible

LEMMA MaximumScrollType ==
  ASSUME NEW lines \in Nat, NEW rows \in Nat PROVE MaximumScroll(lines, rows) \in Nat
  BY DEF MaximumScroll

LEMMA LinesType ==
  ASSUME NEW e \in Explorers, e.viewer # None PROVE Lines(e) \in Nat
  <1>1. e.viewer \in Viewers
    BY Fields
  <1> QED BY <1>1, ExplorerAssumption DEF Viewers, Lines

LEMMA ScrollRequested ==
  ASSUME NEW e, NEW outs, NEW l, NEW m \in BOOLEAN, Fits(e, outs, l, m), NEW position \in Nat
  PROVE  Fits(RequestScroll(e, position), outs, l, m)
  <1> DEFINE target == Min({position, MaximumScroll(Lines(e), e.viewport_rows)})
             there == [e EXCEPT !.viewer_scroll = target, !.requested = None]
             asking == [e EXCEPT !.requested = target]
  <1>1. e \in Explorers /\ Selectable(e)
    BY DEF Fits, Situation
  <1>2. CASE e.viewer = None
    BY <1>2 DEF RequestScroll
  <1>3. CASE e.viewer # None
    <2>1. target \in Nat
      <3>1. MaximumScroll(Lines(e), e.viewport_rows) \in Nat
        BY <1>1, <1>3, LinesType, MaximumScrollType, Fields
      <3> QED BY <3>1, LeastOfTwo
    <2>2. RequestScroll(e, position) \in {there, RequestSyntaxWindow(asking, target)}
      BY <1>3 DEF RequestScroll
    <2> HIDE DEF target
    <2>3. there \in Explorers /\ Calm(e, there) /\ Selectable(there)
      BY <1>1, <2>1 DEF Explorers, Calm, Selectable, Visible
    <2>4. asking \in Explorers /\ Calm(e, asking) /\ Selectable(asking)
      BY <1>1, <2>1 DEF Explorers, Calm, Selectable, Visible
    <2> HIDE DEF there, asking
    <2>5. Fits(there, outs, l, m) /\ Fits(asking, outs, l, m)
      BY <2>3, <2>4, FitsCalm
    <2> QED BY <2>1, <2>2, <2>5, FitsRequests
  <1> QED BY <1>2, <1>3

\* A scroll neither moves the selection nor the tree.
LEMMA ScrollPrepared ==
  ASSUME NEW e, NEW outs, NEW l, NEW m \in BOOLEAN, Fits(e, outs, l, m)
  PROVE  LET r == PrepareScroll(e) IN
         /\ Fits(r, outs, l, m) /\ SameTree(e, r) /\ r.viewer = e.viewer
         /\ r.viewport_rows = e.viewport_rows
  <1> DEFINE target == Min({e.requested, MaximumScroll(Lines(e), e.viewport_rows)})
             left == [e EXCEPT !.requested = None]
             there == [e EXCEPT !.viewer_scroll = target, !.requested = None]
             asking == [e EXCEPT !.requested = target]
  <1>1. e \in Explorers /\ Selectable(e)
    BY DEF Fits, Situation
  <1>2. CASE e.requested = None
    BY <1>2 DEF PrepareScroll, SameTree
  <1>3. CASE e.requested # None /\ e.viewer = None
    <2>1. left \in Explorers /\ Calm(e, left) /\ Selectable(left) /\ SameTree(e, left)
          /\ left.viewport_rows = e.viewport_rows
      BY <1>1 DEF Explorers, Calm, Selectable, Visible, SameTree
    <2>2. left = PrepareScroll(e)
      BY <1>3 DEF PrepareScroll
    <2> HIDE DEF left
    <2> QED BY <2>1, <2>2, FitsCalm DEF Calm
  <1>4. CASE e.requested # None /\ e.viewer # None
    <2>1. target \in Nat
      <3>1. MaximumScroll(Lines(e), e.viewport_rows) \in Nat /\ e.requested \in Nat
        BY <1>1, <1>4, LinesType, MaximumScrollType, Fields
      <3> QED BY <3>1, LeastOfTwo
    <2>2. PrepareScroll(e) \in {there, asking, RequestSyntaxWindow(asking, target)}
      BY <1>4 DEF PrepareScroll
    <2>3. /\ SameTree(asking, RequestSyntaxWindow(asking, target))
          /\ RequestSyntaxWindow(asking, target).viewer = asking.viewer
          /\ RequestSyntaxWindow(asking, target).viewport_rows = asking.viewport_rows
      BY DEF RequestSyntaxWindow, SameTree
    <2> HIDE DEF target
    <2>4. there \in Explorers /\ Calm(e, there) /\ Selectable(there) /\ SameTree(e, there)
          /\ there.viewport_rows = e.viewport_rows
      BY <1>1, <2>1 DEF Explorers, Calm, Selectable, Visible, SameTree
    <2>5. asking \in Explorers /\ Calm(e, asking) /\ Selectable(asking) /\ SameTree(e, asking)
          /\ asking.viewport_rows = e.viewport_rows
      BY <1>1, <2>1 DEF Explorers, Calm, Selectable, Visible, SameTree
    <2> HIDE DEF there, asking
    <2>6. Fits(there, outs, l, m) /\ Fits(asking, outs, l, m)
      BY <2>4, <2>5, FitsCalm
    <2>7. Fits(RequestSyntaxWindow(asking, target), outs, l, m)
      BY <2>1, <2>6, FitsRequests
    <2>8. SameTree(e, RequestSyntaxWindow(asking, target))
      BY <2>3, <2>5 DEF SameTree
    <2> QED BY <2>2, <2>3, <2>4, <2>5, <2>6, <2>7, <2>8 DEF Calm
  <1> QED BY <1>2, <1>3, <1>4

LEMMA TreePrepared ==
  ASSUME NEW e, NEW outs, NEW l, NEW m \in BOOLEAN, Fits(e, outs, l, m),
         NEW fallback \in Fallbacks(e)
  PROVE  Fits(PickerPrepared(e, fallback), outs, l, m)
  <1> DEFINE open == e.expanded /\ e.paths \cap Folder # {}
             tree == [e EXCEPT !.rows = e.paths, !.expanded = @ /\ e.paths \cap Folder # {}]
             moved == [tree EXCEPT !.selected = fallback]
             rows == Visible([e EXCEPT !.rows = e.paths])
  <1>1. e \in Explorers
    BY DEF Fits, Situation
  <1>2. /\ tree \in Explorers /\ Calm(e, tree) /\ tree.selected = e.selected
        /\ tree.rows = e.paths /\ tree.expanded = open
    <2>1. open \in BOOLEAN /\ tree = [e EXCEPT !.rows = e.paths, !.expanded = open]
      BY <1>1, Fields
    <2> HIDE DEF open, tree
    <2> QED BY <1>1, <2>1 DEF Explorers, Calm
  <1>3. Visible(tree) = rows
    <2>1. /\ [e EXCEPT !.rows = e.paths].rows = e.paths
          /\ [e EXCEPT !.rows = e.paths].expanded = e.expanded
      BY <1>1 DEF Explorers
    <2> QED BY <1>2, <2>1 DEF Visible
  <1>4. rows \subseteq Files \cup {Dir}
    BY <1>2, <1>3, RowsAre
  <1>5. fallback \in rows \cup {None}
    BY DEF Fallbacks
  <1> HIDE DEF rows
  <1>6. /\ moved \in Explorers /\ Calm(e, moved) /\ moved.selected = fallback
        /\ moved.rows = tree.rows /\ moved.expanded = tree.expanded
    <2> HIDE DEF tree
    <2> QED BY <1>2, <1>4, <1>5 DEF Explorers, Calm
  <1>7. Visible(moved) = rows
    <2> HIDE DEF tree, moved
    <2> QED BY <1>3, <1>6 DEF Visible
  <1>8. PickerPrepared(e, fallback) = IF e.selected \in Visible(tree) THEN tree ELSE moved
    BY DEF PickerPrepared
  <1> HIDE DEF tree, moved
  <1>9. CASE e.selected \in Visible(tree)
    BY <1>2, <1>8, <1>9, FitsCalm DEF Selectable
  <1>10. CASE e.selected \notin Visible(tree)
    <2>1. Selectable(moved)
      BY <1>5, <1>6, <1>7 DEF Selectable
    <2> QED BY <1>6, <1>8, <1>10, <2>1, FitsCalm
  <1> QED BY <1>9, <1>10

LEMMA MissingFits ==
  ASSUME NEW e, NEW outs, NEW l, NEW m \in BOOLEAN, Fits(e, outs, l, m)
  PROVE  Fits(MissingLoaded(e), outs, l, m)
  BY FitsRequests DEF MissingLoaded

LEMMA PanesFit ==
  ASSUME NEW e, NEW outs, NEW l, NEW m \in BOOLEAN, Fits(e, outs, l, m),
         NEW fallback \in Fallbacks(e)
  PROVE  Fits(PanesPrepared(e, fallback), outs, l, m)
  <1> DEFINE sized == [e EXCEPT !.viewport_rows = Rows]
             scrolled == PrepareScroll(sized)
             picked == PickerPrepared(scrolled, fallback)
  <1>1. e \in Explorers /\ Selectable(e)
    BY DEF Fits, Situation
  <1>2. sized \in Explorers /\ Calm(e, sized) /\ Selectable(sized) /\ SameTree(e, sized)
    BY <1>1, ExplorerAssumption DEF Explorers, Calm, Selectable, Visible, SameTree
  <1>3. PanesPrepared(e, fallback) = MissingLoaded(Picked(scrolled, picked))
    BY DEF PanesPrepared
  <1> HIDE DEF sized
  <1>4. Fits(sized, outs, l, m)
    BY <1>2, FitsCalm
  <1>5. Fits(scrolled, outs, l, m) /\ SameTree(sized, scrolled)
    BY <1>4, ScrollPrepared
  <1> HIDE DEF scrolled
  <1>6. fallback \in Fallbacks(scrolled)
    <2>1. scrolled \in Explorers /\ scrolled.paths = e.paths /\ scrolled.expanded = e.expanded
      BY <1>2, <1>5 DEF SameTree, Fits, Situation
    <2>2. Visible([scrolled EXCEPT !.rows = scrolled.paths]) = Visible([e EXCEPT !.rows = e.paths])
      BY <1>1, <2>1 DEF Visible, Explorers
    <2> QED BY <2>2 DEF Fallbacks
  <1>7. Fits(picked, outs, l, m)
    BY <1>5, <1>6, TreePrepared
  <1> HIDE DEF picked
  <1> QED BY <1>3, <1>7, PickedFits, MissingFits

LEMMA FullScreenFits ==
  ASSUME NEW e, NEW outs, NEW l, NEW m \in BOOLEAN, Fits(e, outs, l, m), e.viewer # None
  PROVE  Fits(FullScreenPrepared(e), outs, l, m)
  <1> DEFINE scroll == Min({e.viewer_scroll, MaximumScroll(Lines(e), FullRows)})
             clamped == [e EXCEPT !.viewport_rows = FullRows, !.viewer_scroll = scroll]
             scrolled == PrepareScroll(clamped)
  <1>1. e \in Explorers /\ Selectable(e)
    BY DEF Fits, Situation
  <1>2. scroll \in Nat
    <2>1. MaximumScroll(Lines(e), FullRows) \in Nat /\ e.viewer_scroll \in Nat
      BY <1>1, LinesType, MaximumScrollType, Fields, ExplorerAssumption
    <2> QED BY <2>1, LeastOfTwo
  <1>3. FullScreenPrepared(e) \in {MissingLoaded(scrolled), scrolled,
                                   RequestSyntaxWindow(scrolled, scrolled.viewer_scroll)}
    BY DEF FullScreenPrepared
  <1> HIDE DEF scroll
  <1>4. clamped \in Explorers /\ Calm(e, clamped) /\ Selectable(clamped)
    BY <1>1, <1>2, ExplorerAssumption DEF Explorers, Calm, Selectable, Visible
  <1> HIDE DEF clamped
  <1>5. Fits(scrolled, outs, l, m)
    BY <1>4, FitsCalm, ScrollPrepared
  <1> HIDE DEF scrolled
  <1>6. scrolled.viewer_scroll \in Nat
    BY <1>5, Fields DEF Fits, Situation
  <1> QED BY <1>3, <1>5, <1>6, MissingFits, FitsRequests

-----------------------------------------------------------------------------
(* What the user does.                                                      *)

LEMMA DirectoryIsVisible ==
  ASSUME NEW e \in Explorers
  PROVE  Dir \in Visible(e) <=> e.rows \cap Folder # {}
  <1>1. Dir \notin e.rows
    BY Fields, ExplorerAssumption
  <1> QED BY <1>1, ExplorerAssumption DEF Visible

LEMMA SelectFits ==
  ASSUME NEW e, NEW outs, NEW l, NEW m \in BOOLEAN, Fits(e, outs, l, m),
         NEW row \in Visible(e)
  PROVE  Fits(Picked(e, [e EXCEPT !.selected = row]), outs, l, m)
  <1> DEFINE r == [e EXCEPT !.selected = row]
  <1>1. e \in Explorers
    BY DEF Fits, Situation
  <1>2. row \in Files \cup {Dir}
    BY <1>1, RowsAre
  <1>3. r \in Explorers /\ Calm(e, r) /\ Selectable(r)
    BY <1>1, <1>2 DEF Explorers, Calm, Selectable, Visible
  <1> HIDE DEF r
  <1> QED BY <1>3, FitsCalm, PickedFits DEF r

LEMMA ToggleFits ==
  ASSUME NEW e, NEW outs, NEW l, NEW m \in BOOLEAN, Fits(e, outs, l, m), Dir \in Visible(e)
  PROVE  Fits(Picked(e, [e EXCEPT !.selected = Dir, !.expanded = ~@]), outs, l, m)
  <1> DEFINE r == [e EXCEPT !.selected = Dir, !.expanded = ~@]
  <1>1. e \in Explorers
    BY DEF Fits, Situation
  <1>2. r \in Explorers /\ Calm(e, r) /\ r.rows = e.rows /\ r.selected = Dir
    BY <1>1 DEF Explorers, Calm
  <1> HIDE DEF r
  <1>3. Dir \in Visible(r)
    BY <1>1, <1>2, DirectoryIsVisible
  <1>4. Selectable(r)
    BY <1>2, <1>3 DEF Selectable
  <1> QED BY <1>2, <1>4, FitsCalm, PickedFits DEF r

\* Visible rows of an open directory are those of a closed one and its files.
LEMMA OpenedRows ==
  ASSUME NEW e \in Explorers, NEW r \in Explorers, r.rows = e.rows,
         r.expanded \/ ~e.expanded
  PROVE  Visible(e) \subseteq Visible(r)
  BY DEF Visible

LEMMA CollapseFits ==
  ASSUME NEW e, NEW outs, NEW l, NEW m \in BOOLEAN, Fits(e, outs, l, m)
  PROVE  Fits(SelectionChanged([e EXCEPT !.expanded = FALSE,
                                !.selected = IF @ \in Folder THEN Dir ELSE @]), outs, l, m)
  <1> DEFINE row == IF e.selected \in Folder THEN Dir ELSE e.selected
             r == [e EXCEPT !.expanded = FALSE, !.selected = row]
  <1>1. e \in Explorers /\ Selectable(e)
    BY DEF Fits, Situation
  <1>2. row \in Files \cup {Dir, None}
    BY <1>1, Fields
  <1>3. row \in Visible(r) \cup {None}
    <2>1. Visible(r) = (e.rows \ Folder) \cup IF e.rows \cap Folder = {} THEN {} ELSE {Dir}
      BY <1>1 DEF Visible, Explorers
    <2>2. e.selected \in Folder => e.rows \cap Folder # {}
      BY <1>1, ExplorerAssumption DEF Selectable, Visible
    <2>3. e.selected \notin Folder => e.selected \in Visible(r) \cup {None}
      BY <1>1, <2>1 DEF Selectable, Visible
    <2> QED BY <2>1, <2>2, <2>3
  <1> HIDE DEF row
  <1>4. r \in Explorers /\ Calm(e, r) /\ r.selected = row
    BY <1>1, <1>2 DEF Explorers, Calm
  <1> HIDE DEF r
  <1>5. Fits(r, outs, l, m)
    BY <1>3, <1>4, FitsCalm DEF Selectable
  <1> QED BY <1>5, ChangedSelection DEF r, row

LEMMA ExpandFits ==
  ASSUME NEW e, NEW outs, NEW l, NEW m \in BOOLEAN, Fits(e, outs, l, m)
  PROVE  Fits(SelectionChanged([e EXCEPT !.expanded = e.rows \cap Folder # {}]), outs, l, m)
  <1> DEFINE open == e.rows \cap Folder # {}
             r == [e EXCEPT !.expanded = open]
  <1>1. e \in Explorers /\ Selectable(e) /\ open \in BOOLEAN
    BY DEF Fits, Situation
  <1>2. r \in Explorers /\ Calm(e, r) /\ r.selected = e.selected /\ r.rows = e.rows
        /\ r.expanded = open
    <2> HIDE DEF open
    <2> QED BY <1>1 DEF Explorers, Calm
  <1> HIDE DEF r
  <1>3. Visible(e) \subseteq Visible(r)
    BY <1>2 DEF Visible
  <1>4. Fits(r, outs, l, m)
    BY <1>1, <1>2, <1>3, FitsCalm DEF Selectable
  <1> QED BY <1>4, ChangedSelection DEF r

LEMMA QuickOpenFits ==
  ASSUME NEW e, NEW outs, NEW l, NEW m \in BOOLEAN, Fits(e, outs, l, m), NEW f \in Files
  PROVE  /\ Fits(RequestPaths(e), outs, l, m)
         /\ Fits(RequestFileLoad([e EXCEPT !.pending_quick_open = f], f, 0), outs, l, m)
  <1> DEFINE r == [e EXCEPT !.pending_quick_open = f]
  <1>1. e \in Explorers /\ Selectable(e)
    BY DEF Fits, Situation
  <1>2. r \in Explorers /\ Calm(e, r) /\ Selectable(r)
    BY <1>1 DEF Explorers, Calm, Selectable, Visible
  <1> HIDE DEF r
  <1>3. Fits(r, outs, l, m)
    BY <1>2, FitsCalm
  <1> QED BY <1>3, FitsRequests DEF r

LEMMA RevealFits ==
  ASSUME NEW e, NEW outs, NEW l, NEW m \in BOOLEAN, Fits(e, outs, l, m), NEW path \in Files
  PROVE  Fits(Reveal(e, path), outs, l, m)
  <1> DEFINE open == e.expanded \/ path \in Folder
             opened == [e EXCEPT !.expanded = @ \/ path \in Folder]
             there == [opened EXCEPT !.selected = path]
  <1>1. e \in Explorers /\ Selectable(e)
    BY DEF Fits, Situation
  <1>2. /\ opened \in Explorers /\ Calm(e, opened) /\ opened.selected = e.selected
        /\ opened.rows = e.rows /\ opened.expanded = open
    <2>1. open \in BOOLEAN /\ opened = [e EXCEPT !.expanded = open]
      BY <1>1, Fields
    <2> HIDE DEF open, opened
    <2> QED BY <1>1, <2>1 DEF Explorers, Calm
  <1>3. Reveal(e, path) = IF path \in Visible(opened) THEN there ELSE opened
    BY DEF Reveal
  <1> HIDE DEF opened
  <1>4. Visible(e) \subseteq Visible(opened)
    BY <1>1, <1>2, OpenedRows
  <1>5. Fits(opened, outs, l, m)
    BY <1>1, <1>2, <1>4, FitsCalm DEF Selectable
  <1>6. ASSUME path \in Visible(opened) PROVE Fits(there, outs, l, m)
    <2>1. there \in Explorers /\ Calm(opened, there) /\ there.selected = path
          /\ Visible(there) = Visible(opened)
      BY <1>2 DEF Explorers, Calm, Visible
    <2> HIDE DEF there
    <2> QED BY <1>5, <1>6, <2>1, FitsCalm DEF Selectable
  <1> QED BY <1>3, <1>5, <1>6

-----------------------------------------------------------------------------
(* What is accepted.                                                        *)

\* The oldest outcome is taken from the channel.
Taking(o, rest) ==
  /\ Types /\ outcomes # <<>> /\ o = Head(outcomes) /\ rest = Tail(outcomes)

LEMMA Taken ==
  ASSUME NEW o, NEW rest, Taking(o, rest), NEW e
  PROVE  /\ o \in Answers /\ rest \in Seq(Answers)
         /\ ToSet(outcomes) = {o} \cup ToSet(rest)
         /\ Under(e, outcomes) = {o} \cup Under(e, rest)
         /\ Once(outcomes) => Once(rest) /\ Apart({o}, ToSet(rest))
  <1>1. outcomes \in Seq(Answers) /\ outcomes # <<>>
    BY DEF Taking, Types
  <1>2. o \in Answers /\ rest \in Seq(Answers)
    BY <1>1 DEF Taking
  <1>3. ToSet(outcomes) = {o} \cup ToSet(rest)
    BY <1>1, TailSet DEF Taking
  <1>4. Once(outcomes) => Once(rest) /\ Apart({o}, ToSet(rest))
    BY <1>1, OnceTail DEF Taking
  <1> QED BY <1>2, <1>3, <1>4 DEF Under

LEMMA AnswerTypes ==
  ASSUME NEW o \in Answers
  PROVE  /\ o.kind \in {"Paths", "LoadFile", "HighlightWindow"} /\ o.id \in Nat
         /\ o.kind = "Paths" => o.result \in (SUBSET Files) \cup {None}
         /\ o.kind = "LoadFile" => o.result \in Viewers \cup {None}
         /\ o.kind = "HighlightWindow" => o.doc \in Nat /\ o.covered \in SUBSET Styles
  BY DEF Answers

\* Nothing waits for the outcome any more.
LEMMA Removed ==
  ASSUME NEW o, NEW rest, Taking(o, rest), NEW e, Consistent(e, outcomes),
         o.kind = "Paths" /\ o.id = e.latest_paths => ~e.paths_pending,
         o.kind = "LoadFile" /\ o.id = e.latest_load => e.pending_path = None,
         o.kind = "HighlightWindow" /\ e.pending_window # None => o.id # e.pending_window[1]
  PROVE  /\ Consistent(e, rest)
         /\ PathsCurrent(e, outcomes) => PathsCurrent(e, rest)
         /\ (o.kind = "LoadFile" => o.id # e.latest_load) /\ ViewerCurrent(e, outcomes) =>
              ViewerCurrent(e, rest)
  <1>1. /\ o \in Answers /\ rest \in Seq(Answers)
        /\ ToSet(outcomes) = {o} \cup ToSet(rest)
        /\ Under(e, outcomes) = {o} \cup Under(e, rest)
        /\ Once(outcomes) => Once(rest)
    BY Taken
  <1>2. /\ Loads(Under(e, rest)) \subseteq Loads(Under(e, outcomes))
        /\ Windows(Under(e, rest)) \subseteq Windows(Under(e, outcomes))
        /\ Loads(ToSet(rest)) \subseteq Loads(ToSet(outcomes))
        /\ Windows(ToSet(rest)) \subseteq Windows(ToSet(outcomes))
    BY <1>1 DEF Loads, Windows, Of
  <1>3. (o.kind = "LoadFile" => o.id # e.latest_load) /\ LatestComing(e, outcomes) =>
          LatestComing(e, rest)
    BY <1>1 DEF LatestComing, Loads, Of
  <1>4. Coming(e, rest)
    <2>1. PathsComing(e, rest)
      BY <1>1 DEF PathsComing, Consistent, Coming, Of
    <2>2. e.pending_path # None => LatestComing(e, rest)
      BY <1>3 DEF Consistent, Coming
    <2>3. WindowComing(e, rest)
      <3> SUFFICES ASSUME e.pending_window # None
                   PROVE  \E r \in Windows(Under(e, rest)) : r.id = e.pending_window[1]
        BY <1>2 DEF WindowComing, Consistent, Coming
      <3>1. PICK r \in Windows(Under(e, outcomes)) : r.id = e.pending_window[1]
        BY DEF WindowComing, Consistent, Coming
      <3>2. r # o
        BY <3>1 DEF Windows, Of
      <3> QED BY <1>1, <3>1, <3>2 DEF Windows, Of
    <2> QED BY <2>1, <2>2, <2>3 DEF Coming
  <1>5. LoadsOnce(e, rest)
    BY <1>1 DEF LoadsOnce, Consistent, Apart, Loads, Of
  <1>6. Documents(e, rest)
    BY <1>2 DEF Documents, Consistent
  <1>7. PathsCurrent(e, outcomes) => PathsCurrent(e, rest)
    BY <1>1 DEF PathsCurrent, Of
  <1>8. (o.kind = "LoadFile" => o.id # e.latest_load) /\ ViewerCurrent(e, outcomes) =>
          ViewerCurrent(e, rest)
    BY <1>2, <1>3 DEF ViewerCurrent
  <1> QED BY <1>4, <1>5, <1>6, <1>7, <1>8 DEF Consistent

LEMMA RestSituation ==
  ASSUME NEW o, NEW rest, Taking(o, rest), NEW e \in Explorers
  PROVE  Situation(e, rest)
  BY Taken DEF Situation, Taking

\* The paths that are accepted are those of the disk, if nothing has changed since.
LEMMA PathsAccepted ==
  ASSUME NEW o, NEW rest, Taking(o, rest), NEW l, NEW m \in BOOLEAN, o.kind = "Paths",
         NEW e, Fits(e, outcomes, l, m)
  PROVE  Fits(AcceptPaths(e, o), rest, l, m)
  <1>1. o \in Answers /\ ToSet(outcomes) = {o} \cup ToSet(rest)
    BY Taken
  <1>2. e \in Explorers /\ Selectable(e) /\ Consistent(e, outcomes)
        /\ UpToDate(e, outcomes, m /\ e.latest_load = l)
    BY DEF Fits, Situation, Good
  <1>3. CASE o.id # e.latest_paths
    <2>1. AcceptPaths(e, o) = e
      BY <1>3 DEF AcceptPaths
    <2>2. /\ Consistent(e, rest)
          /\ PathsCurrent(e, outcomes) => PathsCurrent(e, rest)
          /\ ViewerCurrent(e, outcomes) => ViewerCurrent(e, rest)
      BY <1>2, <1>3, Removed
    <2> QED BY <1>2, <2>1, <2>2, RestSituation DEF Fits, Good, UpToDate
  <1>4. CASE o.id = e.latest_paths
    <2> DEFINE paths == IF o.result = None THEN e.paths ELSE o.result
               r == [e EXCEPT !.paths_pending = FALSE, !.paths = paths]
    <2>1. AcceptPaths(e, o) = r
      BY <1>4 DEF AcceptPaths
    <2>2. paths \in SUBSET Files
      <3>1. o.result \in (SUBSET Files) \cup {None}
        BY <1>1, AnswerTypes
      <3>2. e.paths \in SUBSET Files
        BY <1>2, Fields
      <3>3. CASE o.result = None BY <3>2, <3>3
      <3>4. CASE o.result # None
        <4>1. paths = o.result
          BY <3>4
        <4>2. o.result \in SUBSET Files
          BY <3>1, <3>4
        <4> QED BY <4>1, <4>2
      <3> QED BY <3>3, <3>4
    <2>3. noticed /\ PathsCurrent(e, outcomes) => paths \in {e.paths, Present}
      <3>1. o \in Of(ToSet(outcomes), "Paths")
        BY <1>1 DEF Of
      <3> QED BY <1>4, <3>1 DEF PathsCurrent
    <2> HIDE DEF paths
    <2>4. /\ r \in Explorers /\ r.queued = e.queued /\ r.viewer = e.viewer
          /\ r.latest_paths = e.latest_paths /\ r.latest_load = e.latest_load
          /\ r.paths_pending = FALSE /\ r.paths = paths
          /\ r.pending_path = e.pending_path /\ r.pending_window = e.pending_window
          /\ r.rows = e.rows /\ r.expanded = e.expanded /\ r.selected = e.selected
      BY <1>2, <2>2 DEF Explorers
    <2> HIDE DEF r
    <2>5. Under(r, outcomes) = Under(e, outcomes)
      BY <2>4 DEF Under
    <2>6. LatestComing(r, outcomes) = LatestComing(e, outcomes)
      BY <2>4, <2>5 DEF LatestComing
    <2>7. Consistent(r, outcomes)
      <3>1. LoadsQueued(r)
        BY <1>2, <2>4 DEF LoadsQueued, Consistent
      <3>2. Coming(r, outcomes)
        BY <1>2, <2>4, <2>5, <2>6 DEF Coming, PathsComing, WindowComing, Consistent
      <3>3. LoadsOnce(r, outcomes)
        BY <1>2, <2>4 DEF LoadsOnce, Consistent
      <3>4. Documents(r, outcomes)
        BY <1>2, <2>4, <2>5 DEF Documents, Consistent
      <3> QED BY <3>1, <3>2, <3>3, <3>4 DEF Consistent
    <2>8. PathsCurrent(e, outcomes) => PathsCurrent(r, outcomes)
      BY <2>4 DEF PathsCurrent
    <2>9. noticed /\ PathsCurrent(e, outcomes) /\ ViewerCurrent(e, outcomes) =>
            ViewerCurrent(r, outcomes)
      <3> SUFFICES ASSUME noticed, PathsCurrent(e, outcomes), ViewerCurrent(e, outcomes)
                   PROVE  ViewerCurrent(r, outcomes)
        OBVIOUS
      <3>1. r.paths \in {e.paths, Present}
        BY <2>3, <2>4
      <3>2. ASSUME NEW a \in Loads(ToSet(outcomes)), a.id = r.latest_load, a.result # None
            PROVE  a.result.content = disk[a.result.path] /\ a.result.path \in r.paths
        <4>1. a.result.content = disk[a.result.path] /\ a.result.path \in e.paths
          BY <2>4, <3>2 DEF ViewerCurrent
        <4>2. a.result \in Viewers
          <5>1. a \in Answers /\ a.kind = "LoadFile"
            BY Taken, <1>1, <3>2 DEF Loads, Of, Taking, Types, ToSet
          <5> QED BY <3>2, <5>1, AnswerTypes
        <4>3. a.result.path \in Present
          BY <4>1, <4>2, ExplorerAssumption DEF Present, Viewers
        <4> QED BY <3>1, <4>1, <4>3
      <3>3. Loads(ToSet(r.queued) \cup InHand) = Loads(ToSet(e.queued) \cup InHand)
        BY <2>4
      <3>4. \A a \in Loads(ToSet(r.queued) \cup InHand) :
              a.id = r.latest_load => a.path \in r.paths \/ a.path \notin Present
        BY <2>4, <3>1, <3>3 DEF ViewerCurrent
      <3> QED BY <2>4, <2>6, <3>2, <3>4 DEF ViewerCurrent
    <2>10. /\ Consistent(r, rest)
           /\ PathsCurrent(r, outcomes) => PathsCurrent(r, rest)
           /\ ViewerCurrent(r, outcomes) => ViewerCurrent(r, rest)
      BY <2>4, <2>7, Removed
    <2>11. Selectable(r)
      BY <1>2, <2>4 DEF Selectable, Visible
    <2> QED BY <1>2, <2>1, <2>4, <2>8, <2>9, <2>10, <2>11, RestSituation
            DEF Fits, Good, UpToDate
  <1> QED BY <1>3, <1>4

\* The text that is accepted is what the latest load read; styles that are on
\* their way are not of it.
LEMMA ViewerShown ==
  ASSUME NEW o, NEW rest, Taking(o, rest), NEW l, NEW m \in BOOLEAN,
         o.kind = "LoadFile", o.result # None,
         NEW e, Fits(e, outcomes, l, m), o.id = e.latest_load,
         NEW r \in Explorers, r.queued = e.queued, r.paths = e.paths, r.viewer = o.result,
         r.latest_paths = e.latest_paths, r.latest_load = e.latest_load,
         r.paths_pending = e.paths_pending, r.pending_path = None, r.pending_window = None,
         Selectable(r)
  PROVE  Fits(r, rest, l, m)
  <1>1. /\ o \in Answers /\ rest \in Seq(Answers)
        /\ ToSet(outcomes) = {o} \cup ToSet(rest)
        /\ Under(e, outcomes) = {o} \cup Under(e, rest)
        /\ Once(outcomes) => Once(rest) /\ Apart({o}, ToSet(rest))
    BY Taken
  <1>2. Consistent(e, outcomes) /\ UpToDate(e, outcomes, m /\ e.latest_load = l)
    BY DEF Fits, Situation, Good
  <1>3. Under(r, rest) = Under(e, rest)
    BY DEF Under
  <1>4. o \in Loads(ToSet(outcomes)) /\ o \in Loads(Under(e, outcomes))
    BY <1>1 DEF Loads, Of
  <1>5. r.viewer.doc = o.id /\ \A s \in r.viewer.covered : s.of = r.viewer.content
    BY <1>2, <1>4 DEF Documents, Consistent
  <1>6. \A y \in Loads(Under(e, rest)) : y.id # o.id
    <2>1. Apart(ToSet(e.queued), InHand \cup ToSet(outcomes)) /\ Apart(InHand, ToSet(outcomes))
      BY <1>2 DEF LoadsOnce, Consistent
    <2>2. Apart({o}, ToSet(rest))
      BY <1>1, <1>2 DEF LoadsOnce, Consistent
    <2> QED BY <1>1, <1>4, <2>1, <2>2 DEF Apart, Loads, Of, Under
  <1>7. LoadsQueued(r)
    BY <1>2 DEF LoadsQueued, Consistent
  <1>8. Coming(r, rest)
    BY <1>1, <1>2, <1>3 DEF Coming, PathsComing, WindowComing, Consistent, Of
  <1>9. LoadsOnce(r, rest)
    BY <1>1, <1>2 DEF LoadsOnce, Consistent, Apart, Loads, Of
  <1>10. Documents(r, rest)
    <2>1. \A x \in Windows(Under(e, outcomes)) : \A y \in Loads(Under(e, outcomes)) : x.doc # y.id
      BY <1>2 DEF Documents, Consistent
    <2>2. /\ Windows(Under(e, rest)) \subseteq Windows(Under(e, outcomes))
          /\ Loads(Under(e, rest)) \subseteq Loads(Under(e, outcomes))
          /\ Windows(ToSet(r.queued) \cup InHand) \subseteq Windows(Under(e, outcomes))
          /\ Windows(ToSet(rest)) \subseteq Windows(Under(e, outcomes))
          /\ Loads(ToSet(rest)) \subseteq Loads(ToSet(outcomes))
      BY <1>1 DEF Loads, Windows, Of, Under
    <2>3. \A x \in Windows(Under(e, outcomes)) : x.doc # r.viewer.doc
      BY <1>4, <1>5, <2>1
    <2>4. \A a \in Loads(ToSet(rest)) : a.result # None =>
            a.result.doc = a.id /\ \A s \in a.result.covered : s.of = a.result.content
      BY <1>2, <2>2 DEF Documents, Consistent
    <2> QED BY <1>3, <1>5, <1>6, <2>1, <2>2, <2>3, <2>4 DEF Documents
  <1>11. PathsCurrent(e, outcomes) => PathsCurrent(r, rest)
    BY <1>1 DEF PathsCurrent, Of
  <1>12. ViewerCurrent(e, outcomes) => ViewerCurrent(r, rest)
    BY <1>1, <1>4 DEF ViewerCurrent, Loads, Of
  <1> QED BY <1>2, <1>7, <1>8, <1>9, <1>10, <1>11, <1>12, RestSituation
          DEF Fits, Good, Consistent, UpToDate


\* A load that failed leaves the viewer as it was, and says so.
LEMMA FitsWeaker ==
  ASSUME NEW e, NEW outs, NEW l, NEW m \in BOOLEAN, NEW n \in BOOLEAN, m => n,
         Fits(e, outs, l, m)
  PROVE  Fits(e, outs, l, n)
  BY DEF Fits, Good, UpToDate

\* The latest load is not what is awaited any more.
LEMMA LoadTaken ==
  ASSUME NEW o, NEW rest, Taking(o, rest), NEW l, NEW m \in BOOLEAN, o.kind = "LoadFile",
         NEW e, Fits(e, outcomes, l, m), l = e.latest_load,
         NEW r \in Explorers, Calm(e, r), r.pending_path = None, Selectable(r),
         m \/ ~noticed
  PROVE  Fits(r, rest, l, m)
  <1>1. Fits(r, outcomes, l, m)
    BY FitsCalm
  <1>2. /\ Consistent(r, rest)
        /\ PathsCurrent(r, outcomes) => PathsCurrent(r, rest)
    BY <1>1, Removed DEF Fits, Good
  <1>3. r.latest_load = l
    BY DEF Calm
  <1> QED BY <1>1, <1>2, <1>3, RestSituation DEF Fits, Good, UpToDate

\* Another file is read from its first line, with no window asked for.
LEMMA ToTheTop ==
  ASSUME NEW e \in Explorers
  PROVE  [e EXCEPT !.viewer_scroll = 0, !.requested = None] \in Explorers
  BY DEF Explorers

(* Two assignments of the answer to a load, on an Explorer of its type.      *)
LEMMA AnswerSet ==
  ASSUME NEW e \in Explorers
  PROVE  /\ [e EXCEPT !.requested = None, !.pending_quick_open = None] \in Explorers
         /\ \A v \in Viewers : [e EXCEPT !.pending_window = None, !.viewer = v,
                                        !.pending_quick_open = None] \in Explorers
  <1>1. [e EXCEPT !.requested = None, !.pending_quick_open = None] \in Explorers
    BY DEF Explorers
  <1>2. ASSUME NEW v \in Viewers
        PROVE [e EXCEPT !.pending_window = None, !.viewer = v,
                        !.pending_quick_open = None] \in Explorers
    BY DEF Explorers
  <1> QED BY <1>1, <1>2

LEMMA FileAccepted ==
  ASSUME NEW o, NEW rest, Taking(o, rest), NEW m \in BOOLEAN, o.kind = "LoadFile",
         NEW e, Fits(e, outcomes, e.latest_load, m)
  PROVE  Fits(AcceptFile(e, o), rest, e.latest_load,
              m \/ (o.id = e.latest_load /\ o.result = None))
  <1> DEFINE l == e.latest_load
             taken == [e EXCEPT !.pending_path = None]
  <1>1. o \in Answers /\ ToSet(outcomes) = {o} \cup ToSet(rest)
    BY Taken
  <1>2. e \in Explorers /\ Selectable(e) /\ Consistent(e, outcomes) /\ UpToDate(e, outcomes, m)
    BY DEF Fits, Situation, Good
  <1>3. CASE o.id # l
    <2>1. AcceptFile(e, o) = e
      BY <1>3 DEF AcceptFile
    <2>2. /\ Consistent(e, rest)
          /\ PathsCurrent(e, outcomes) => PathsCurrent(e, rest)
          /\ ViewerCurrent(e, outcomes) => ViewerCurrent(e, rest)
      BY <1>2, <1>3, Removed
    <2>3. Fits(e, rest, l, m)
      BY <1>2, <2>2, RestSituation DEF Fits, Good, UpToDate
    <2> QED BY <1>3, <2>1, <2>3
  <1>4. /\ taken \in Explorers /\ Calm(e, taken) /\ Selectable(taken)
        /\ taken.pending_path = None /\ taken.viewer = e.viewer /\ taken.paths = e.paths
        /\ taken.pending_quick_open = e.pending_quick_open
        /\ taken.queued = e.queued
        /\ taken.latest_paths = e.latest_paths /\ taken.latest_load = e.latest_load
        /\ taken.paths_pending = e.paths_pending
    BY <1>2 DEF Explorers, Calm, Selectable, Visible
  <1>5. o.id = l => AcceptFile(e, o) = IF o.result = None THEN AcceptLoadError(taken)
                                        ELSE AcceptViewer(taken, o.result)
    BY DEF AcceptFile
  <1> HIDE DEF taken
  <1>6. CASE o.id = l /\ o.result = None
    <2> DEFINE cleared == [taken EXCEPT !.requested = None, !.pending_quick_open = None]
    <2>1. /\ cleared \in Explorers /\ Calm(taken, cleared) /\ Selectable(cleared)
          /\ cleared.pending_path = None
      <3>1. cleared \in Explorers
        BY <1>4, AnswerSet
      <3>2. Calm(taken, cleared) /\ cleared.pending_path = None
        BY <1>4 DEF Explorers, Calm
      <3>3. Selectable(cleared)
        BY <1>4 DEF Explorers, Selectable, Visible
      <3> QED BY <3>1, <3>2, <3>3
    <2>2. AcceptLoadError(taken) \in {cleared, RequestPaths(cleared)}
      BY DEF AcceptLoadError
    <2> HIDE DEF cleared
    <2>3. Calm(e, cleared)
      BY <1>4, <2>1 DEF Calm
    <2>4. Fits(e, outcomes, l, TRUE)
      BY FitsWeaker
    <2>5. Fits(cleared, rest, l, TRUE)
      BY <2>1, <2>3, <2>4, LoadTaken
    <2>6. Fits(RequestPaths(cleared), rest, l, TRUE)
      BY <2>5, FitsRequests
    <2> QED BY <1>5, <1>6, <2>2, <2>5, <2>6
  <1>7. CASE o.id = l /\ o.result # None
    <2> DEFINE viewer == o.result
               placed == IF Displayed(taken) = viewer.path THEN taken
                         ELSE [taken EXCEPT !.viewer_scroll = 0, !.requested = None]
               displayed == [placed EXCEPT !.pending_window = None, !.viewer = viewer,
                                       !.pending_quick_open = None]
               dropped == [taken EXCEPT !.pending_quick_open = None]
    <2>1. viewer \in Viewers
      BY <1>1, <1>7, AnswerTypes
    <2>2. AcceptViewer(taken, viewer) =
            IF taken.pending_quick_open = viewer.path /\ viewer.path \notin taken.paths
            THEN RequestPaths(dropped)
            ELSE IF taken.pending_quick_open = None THEN displayed
            ELSE Reveal(displayed, taken.pending_quick_open)
      BY DEF AcceptViewer
    <2> HIDE DEF viewer
    <2>3. /\ placed \in Explorers /\ placed.selected = taken.selected
          /\ placed.rows = taken.rows /\ placed.expanded = taken.expanded
          /\ placed.queued = taken.queued /\ placed.paths = taken.paths
          /\ placed.pending_path = None
          /\ placed.latest_paths = taken.latest_paths /\ placed.latest_load = taken.latest_load
          /\ placed.paths_pending = taken.paths_pending
      <3> DEFINE top == [taken EXCEPT !.viewer_scroll = 0, !.requested = None]
      <3>1. top \in Explorers
        BY <1>4, ToTheTop
      <3>2. /\ top.selected = taken.selected
            /\ top.rows = taken.rows /\ top.expanded = taken.expanded
            /\ top.queued = taken.queued /\ top.paths = taken.paths
            /\ top.pending_path = taken.pending_path
            /\ top.latest_paths = taken.latest_paths /\ top.latest_load = taken.latest_load
            /\ top.paths_pending = taken.paths_pending
        BY <1>4 DEF Explorers
      <3>3. placed \in {taken, top}
        OBVIOUS
      <3> HIDE DEF placed, top
      <3> QED BY <1>4, <3>1, <3>2, <3>3
    <2> HIDE DEF placed
    <2>3a. displayed \in Explorers
      BY <2>1, <2>3, AnswerSet
    <2>4. /\ displayed \in Explorers /\ displayed.selected = taken.selected
          /\ displayed.rows = taken.rows /\ displayed.expanded = taken.expanded
          /\ displayed.queued = taken.queued /\ displayed.paths = taken.paths
          /\ displayed.viewer = viewer
          /\ displayed.pending_path = None /\ displayed.pending_window = None
          /\ displayed.latest_paths = taken.latest_paths
          /\ displayed.latest_load = taken.latest_load
          /\ displayed.paths_pending = taken.paths_pending
      BY <2>1, <2>3, <2>3a DEF Explorers
    <2>5. Selectable(displayed)
      BY <1>4, <2>4 DEF Selectable, Visible
    <2> HIDE DEF displayed
    <2>6. Fits(displayed, rest, l, m)
      BY <1>4, <1>7, <2>4, <2>5, ViewerShown DEF viewer
    <2>7. CASE taken.pending_quick_open = viewer.path /\ viewer.path \notin taken.paths
      <3>1. m \/ ~noticed
        <4>1. o \in Loads(ToSet(outcomes))
          BY <1>1 DEF Loads, Of
        <4>2. viewer.path \notin e.paths
          BY <1>4, <2>7
        <4> QED BY <1>2, <1>7, <4>1, <4>2 DEF UpToDate, ViewerCurrent, viewer
      <3>2. /\ dropped \in Explorers /\ Calm(taken, dropped) /\ Selectable(dropped)
            /\ dropped.pending_path = None
        BY <1>4 DEF Explorers, Calm, Selectable, Visible
      <3> HIDE DEF dropped
      <3>3. Calm(e, dropped)
        BY <1>4, <3>2 DEF Calm
      <3>4. Fits(dropped, rest, l, m)
        BY <3>1, <3>2, <3>3, LoadTaken
      <3> QED BY <1>5, <1>7, <2>2, <2>7, <3>4, FitsRequests DEF viewer
    <2>8. CASE ~(taken.pending_quick_open = viewer.path /\ viewer.path \notin taken.paths)
      <3>1. CASE taken.pending_quick_open = None
        BY <1>5, <1>7, <2>2, <2>6, <2>8, <3>1 DEF viewer
      <3>2. CASE taken.pending_quick_open # None
        <4>1. taken.pending_quick_open \in Files
          BY <1>4, <3>2, Fields
        <4>2. Fits(Reveal(displayed, taken.pending_quick_open), rest, l, m)
          BY <2>6, <4>1, RevealFits
        <4> QED BY <1>5, <1>7, <2>2, <2>8, <3>2, <4>2 DEF viewer
      <3> QED BY <3>1, <3>2
    <2> QED BY <2>7, <2>8
  <1> QED BY <1>3, <1>6, <1>7

\* The same text with more of its styles.
Restyles(e, r) ==
  /\ r.queued = e.queued /\ r.paths = e.paths /\ r.rows = e.rows /\ r.expanded = e.expanded
  /\ r.selected = e.selected /\ r.latest_paths = e.latest_paths
  /\ r.latest_load = e.latest_load /\ r.paths_pending = e.paths_pending
  /\ r.pending_path = e.pending_path /\ r.pending_window = e.pending_window
  /\ e.viewer # None /\ r.viewer # None
  /\ r.viewer.doc = e.viewer.doc /\ r.viewer.path = e.viewer.path
  /\ r.viewer.content = e.viewer.content

LEMMA RestyledFits ==
  ASSUME NEW e, NEW outs, NEW l, NEW m \in BOOLEAN, Fits(e, outs, l, m),
         NEW r \in Explorers, Restyles(e, r),
         \A s \in r.viewer.covered : s.of = r.viewer.content
  PROVE  Fits(r, outs, l, m)
  <1>1. Consistent(e, outs) /\ Selectable(e) /\ UpToDate(e, outs, m /\ e.latest_load = l)
    BY DEF Fits, Good
  <1>2. Under(r, outs) = Under(e, outs)
    BY DEF Restyles, Under
  <1>3. LatestComing(r, outs) = LatestComing(e, outs)
    BY <1>2 DEF LatestComing, Restyles
  <1>4. LoadsQueued(r)
    BY <1>1 DEF LoadsQueued, Consistent, Restyles
  <1>5. Coming(r, outs)
    <2>1. PathsComing(r, outs)
      BY <1>1, <1>2 DEF PathsComing, Consistent, Coming, Restyles
    <2>2. WindowComing(r, outs)
      BY <1>1, <1>2 DEF WindowComing, Consistent, Coming, Restyles
    <2> QED BY <1>1, <1>3, <2>1, <2>2 DEF Coming, Consistent, Restyles
  <1>6. LoadsOnce(r, outs)
    BY <1>1 DEF LoadsOnce, Consistent, Restyles
  <1>7. Documents(r, outs)
    BY <1>1, <1>2 DEF Documents, Consistent, Restyles
  <1>8. PathsCurrent(e, outs) => PathsCurrent(r, outs)
    BY DEF PathsCurrent, Restyles
  <1>9. ViewerCurrent(e, outs) => ViewerCurrent(r, outs)
    BY <1>3 DEF ViewerCurrent, Restyles
  <1>10. Selectable(r)
    BY <1>1 DEF Selectable, Visible, Restyles
  <1>11. Situation(r, outs) /\ r.latest_load = e.latest_load
    BY DEF Fits, Situation, Restyles
  <1> QED BY <1>1, <1>4, <1>5, <1>6, <1>7, <1>8, <1>9, <1>10, <1>11
          DEF Fits, Good, Consistent, UpToDate

\* Styles that come join those of the text they were asked for.
LEMMA WindowAccepted ==
  ASSUME NEW o, NEW rest, Taking(o, rest), NEW l, NEW m \in BOOLEAN,
         o.kind = "HighlightWindow", NEW e, Fits(e, outcomes, l, m)
  PROVE  Fits(AcceptWindow(e, o), rest, l, m)
  <1> DEFINE ended == [e EXCEPT !.pending_window = None]
             cleared == IF e.pending_window = <<o.id, o.doc>> THEN ended ELSE e
             styles == e.viewer.covered \cup o.covered
             view == [e.viewer EXCEPT !.covered = styles]
             restyled == [cleared EXCEPT !.viewer = view]
  <1>1. o \in Answers /\ ToSet(outcomes) = {o} \cup ToSet(rest)
    BY Taken
  <1>2. e \in Explorers /\ Selectable(e) /\ Consistent(e, outcomes)
    BY DEF Fits, Situation, Good
  <1>3. o \in Windows(ToSet(outcomes)) /\ o \in Windows(Under(e, outcomes))
    BY <1>1 DEF Windows, Of, Under
  <1>4. ended \in Explorers /\ Calm(e, ended) /\ Selectable(ended) /\ ended.pending_window = None
    BY <1>2 DEF Explorers, Calm, Selectable, Visible
  <1>5. AcceptWindow(e, o) =
          IF e.viewer # None /\ e.viewer.doc = o.doc
          THEN [cleared EXCEPT !.viewer.covered = @ \cup o.covered] ELSE cleared
    BY DEF AcceptWindow
  <1> HIDE DEF ended
  <1>6. /\ Fits(cleared, outcomes, l, m) /\ Calm(e, cleared)
        /\ cleared.pending_window # None => o.id # cleared.pending_window[1]
    <2>1. CASE e.pending_window = <<o.id, o.doc>>
      BY <1>4, <2>1, FitsCalm
    <2>2. CASE e.pending_window # <<o.id, o.doc>>
      <3> SUFFICES ASSUME e.pending_window # None, o.id = e.pending_window[1] PROVE FALSE
        BY <2>2 DEF Calm
      <3>1. o.doc = e.pending_window[2]
        BY <1>2, <1>3 DEF Consistent, Coming, WindowComing
      <3>2. PICK a \in Nat, b \in Nat : e.pending_window = <<a, b>>
        BY <1>2, Fields
      <3> QED BY <2>2, <3>1, <3>2
    <2> QED BY <2>1, <2>2
  <1> HIDE DEF cleared
  <1>7. Fits(cleared, rest, l, m)
    <2>1. /\ Consistent(cleared, rest)
          /\ PathsCurrent(cleared, outcomes) => PathsCurrent(cleared, rest)
          /\ ViewerCurrent(cleared, outcomes) => ViewerCurrent(cleared, rest)
      BY <1>6, Removed DEF Fits, Good
    <2> QED BY <1>6, <2>1, RestSituation DEF Fits, Good, UpToDate, Situation
  <1>8. CASE e.viewer # None /\ e.viewer.doc = o.doc
    <2>1. cleared \in Explorers /\ cleared.viewer = e.viewer /\ Selectable(cleared)
      BY <1>6 DEF Fits, Situation, Calm
    <2>2. e.viewer \in Viewers /\ styles \in SUBSET Styles
      <3>1. e.viewer \in Viewers
        BY <1>2, <1>8, Fields
      <3>2. e.viewer.covered \in SUBSET Styles
        BY <3>1 DEF Viewers
      <3>3. o.covered \in SUBSET Styles
        BY <1>1, AnswerTypes
      <3> QED BY <3>1, <3>2, <3>3
    <2>3. \A s \in styles : s.of = e.viewer.content
      BY <1>2, <1>3, <1>8 DEF Consistent, Documents
    <2>4. AcceptWindow(e, o) = restyled
      BY <1>5, <1>8, <2>1 DEF Explorers
    <2> HIDE DEF styles
    <2>5. /\ view \in Viewers /\ view.doc = e.viewer.doc /\ view.content = e.viewer.content
          /\ view.path = e.viewer.path /\ view.covered = styles /\ view # None
      <3>1. /\ view \in Viewers /\ view.doc = e.viewer.doc /\ view.content = e.viewer.content
            /\ view.path = e.viewer.path /\ view.covered = styles
        BY <2>2 DEF Viewers
      <3> QED BY <3>1, ExplorerAssumption
    <2> HIDE DEF view
    <2>6. restyled \in Explorers /\ Restyles(cleared, restyled)
      BY <2>1, <2>5, <1>8 DEF Explorers, Restyles
    <2> HIDE DEF restyled
    <2>7. \A s \in restyled.viewer.covered : s.of = restyled.viewer.content
      BY <2>1, <2>3, <2>5, <2>6 DEF Restyles, restyled
    <2> QED BY <1>7, <2>1, <2>4, <2>6, <2>7, RestyledFits
  <1>9. CASE ~(e.viewer # None /\ e.viewer.doc = o.doc)
    BY <1>5, <1>7, <1>9
  <1> QED BY <1>8, <1>9

-----------------------------------------------------------------------------
(* The steps of the event loop.                                             *)

\* The worker rests: what holds of the loop's new state holds in the new state.
LEMMA LoopStep ==
  ASSUME UNCHANGED <<requests, newestLoad, newestWindow, job>>, Types',
         Selectable(explorer'), Consistent(explorer', outcomes'),
         noticed' => /\ disk' = disk /\ PathsCurrent(explorer', outcomes')
                     /\ missed' \/ ViewerCurrent(explorer', outcomes')
  PROVE  IInv'
  <1>1. Selectable(explorer)'
    BY DEF Selectable, Visible
  <1>2. LoadsQueued(explorer)'
    BY DEF Consistent, LoadsQueued
  <1>3. Under(explorer', outcomes') = Under(explorer, outcomes)' /\ InHand' = InHand
        /\ Running' = Running
    BY DEF Under, InHand, Running
  <1>4. LatestComing(explorer', outcomes') = LatestComing(explorer, outcomes)'
    BY <1>3 DEF LatestComing
  <1>5. Coming(explorer, outcomes)'
    <2>1. PathsComing(explorer, outcomes)'
      BY <1>3 DEF Consistent, Coming, PathsComing
    <2>2. WindowComing(explorer, outcomes)'
      BY <1>3 DEF Consistent, Coming, WindowComing
    <2> QED BY <1>4, <2>1, <2>2 DEF Consistent, Coming
  <1>6. LoadsOnce(explorer, outcomes)'
    BY <1>3 DEF Consistent, LoadsOnce
  <1>7. Documents(explorer, outcomes)'
    BY <1>3 DEF Consistent, Documents
  <1>8. disk' = disk /\ PathsCurrent(explorer', outcomes') => PathsCurrent(explorer, outcomes)'
    BY DEF PathsCurrent, Present
  <1>9. disk' = disk /\ ViewerCurrent(explorer', outcomes') => ViewerCurrent(explorer, outcomes)'
    BY <1>3, <1>4 DEF ViewerCurrent, Present
  <1>10. UpToDate(explorer, outcomes, missed)'
    BY <1>8, <1>9 DEF UpToDate
  <1> QED BY <1>1, <1>2, <1>5, <1>6, <1>7, <1>10 DEF IInv, Good, Consistent, UpToDate

\* A handler that fits, with what it says of the viewer.
LEMMA HandlerStep ==
  ASSUME IInv, UNCHANGED <<disk, noticed, requests, newestLoad, newestWindow, job>>,
         NEW m \in BOOLEAN, Fits(explorer', outcomes', explorer.latest_load, m),
         missed' = (explorer'.latest_load = explorer.latest_load /\ m),
         phase' \in {"events", "drain", "input"}, fullScreen' \in BOOLEAN,
         fullPending' \in BOOLEAN
  PROVE  IInv'
  <1>1. Types'
    BY DEF IInv, Types, Fits, Situation
  <1>2. /\ Selectable(explorer') /\ Consistent(explorer', outcomes')
        /\ UpToDate(explorer', outcomes', m /\ explorer'.latest_load = explorer.latest_load)
    BY DEF Fits, Good
  <1> QED BY <1>1, <1>2, LoopStep DEF UpToDate

LEMMA Fitting ==
  ASSUME IInv
  PROVE  Fits(explorer, outcomes, explorer.latest_load, missed) /\ missed \in BOOLEAN
  BY DEF IInv, Fits, Situation, Types

\* Every input is a handler that gives the viewer no excuse.
LEMMA InputStep ==
  ASSUME IInv, NEW STATE after, Input(after), fullScreen' \in BOOLEAN,
         fullPending' \in BOOLEAN,
         Fits(after, outcomes, explorer.latest_load, missed)
  PROVE  IInv'
  <1>1. missed' = (explorer'.latest_load = explorer.latest_load /\ missed)
    BY Fitting DEF Input, Rereads
  <1>2. UNCHANGED <<disk, noticed, requests, newestLoad, newestWindow, job, outcomes, phase>>
        /\ explorer' = after
    BY DEF Input, workerVars
  <1>3. Fits(explorer', outcomes', explorer.latest_load, missed)
    BY <1>2
  <1> QED BY <1>1, <1>2, <1>3, Fitting, HandlerStep DEF IInv, Types

LEMMA UserStep == IInv /\ User => IInv'
  <1> SUFFICES ASSUME IInv, User PROVE IInv'
    OBVIOUS
  <1> DEFINE l == explorer.latest_load
  <1>1. /\ Fits(explorer, outcomes, l, missed) /\ missed \in BOOLEAN /\ fullScreen \in BOOLEAN
        /\ fullPending \in BOOLEAN /\ explorer \in Explorers
    BY Fitting DEF IInv, Types
  <1>2. CASE Select
    <2>1. PICK row \in Visible(explorer) :
            /\ Input(Picked(explorer, [explorer EXCEPT !.selected = row]))
            /\ UNCHANGED screenVars
      BY <1>2 DEF Select
    <2>2. Fits(Picked(explorer, [explorer EXCEPT !.selected = row]), outcomes, l, missed)
      BY <1>1, SelectFits
    <2> QED BY <1>1, <2>1, <2>2, InputStep DEF screenVars
  <1>3. CASE Toggle
    <2>1. Fits(Picked(explorer, [explorer EXCEPT !.selected = Dir, !.expanded = ~@]),
               outcomes, l, missed)
      BY <1>1, <1>3, ToggleFits DEF Toggle
    <2> QED BY <1>1, <1>3, <2>1, InputStep DEF Toggle, screenVars
  <1>4. CASE CollapseAll
    <2>1. Fits(SelectionChanged([explorer EXCEPT !.expanded = FALSE,
                                 !.selected = IF @ \in Folder THEN Dir ELSE @]),
               outcomes, l, missed)
      BY <1>1, CollapseFits
    <2> QED BY <1>1, <1>4, <2>1, InputStep DEF CollapseAll, screenVars
  <1>5. CASE ExpandAll
    <2>1. Fits(SelectionChanged([explorer EXCEPT !.expanded = explorer.rows \cap Folder # {}]),
               outcomes, l, missed)
      BY <1>1, ExpandFits
    <2> QED BY <1>1, <1>5, <2>1, InputStep DEF ExpandAll, screenVars
  <1>6. CASE Scroll
    <2>1. PICK position \in 0..MaximumScroll(Lines(explorer), explorer.viewport_rows) :
            Input(RequestScroll(explorer, position)) /\ UNCHANGED screenVars
      BY <1>6 DEF Scroll
    <2>2. position \in Nat
      OBVIOUS
    <2>3. Fits(RequestScroll(explorer, position), outcomes, l, missed)
      BY <1>1, <2>2, ScrollRequested
    <2> QED BY <1>1, <2>1, <2>3, InputStep DEF screenVars
  <1>7. CASE QuickOpen
    <2>1. PICK f \in Files :
            /\ Input(IF f \notin explorer.paths THEN RequestPaths(explorer)
                     ELSE RequestFileLoad([explorer EXCEPT !.pending_quick_open = f], f, 0))
            /\ UNCHANGED screenVars
      BY <1>7 DEF QuickOpen
    <2>2. Fits(IF f \notin explorer.paths THEN RequestPaths(explorer)
               ELSE RequestFileLoad([explorer EXCEPT !.pending_quick_open = f], f, 0),
               outcomes, l, missed)
      BY <1>1, QuickOpenFits
    <2> QED BY <1>1, <2>1, <2>2, InputStep DEF screenVars
  <1>8. CASE ToggleFullScreen
    BY <1>1, <1>8, InputStep DEF ToggleFullScreen
  <1> QED BY <1>2, <1>3, <1>4, <1>5, <1>6, <1>7, <1>8 DEF User

LEMMA PrepareStep ==
  ASSUME IInv, PreparePanes \/ PrepareFullScreen
  PROVE  IInv'
  <1> DEFINE l == explorer.latest_load
  <1>1. Fits(explorer, outcomes, l, missed) /\ missed \in BOOLEAN /\ fullScreen \in BOOLEAN
        /\ fullPending \in BOOLEAN
    BY Fitting DEF IInv, Types
  <1>2. /\ UNCHANGED <<disk, noticed, requests, newestLoad, newestWindow, job, outcomes>>
        /\ phase' = "events" /\ missed' = (explorer'.latest_load = l /\ missed)
    BY <1>1 DEF PreparePanes, PrepareFullScreen, Rereads, workerVars
  <1>3. Fits(explorer', outcomes, l, missed)
    BY <1>1, PanesFit, FullScreenFits DEF PreparePanes, PrepareFullScreen
  <1>4. fullScreen' \in BOOLEAN /\ fullPending' \in BOOLEAN
    BY <1>1 DEF PreparePanes, PrepareFullScreen
  <1> HIDE DEF l
  <1>5. Fits(explorer', outcomes', l, missed)
    BY <1>2, <1>3
  <1> QED BY <1>1, <1>2, <1>4, <1>5, HandlerStep DEF l

LEMMA AcceptStep ==
  ASSUME IInv, DrainOutcomes
  PROVE  IInv'
  <1> DEFINE l == explorer.latest_load
             o == Head(outcomes)
             rest == Tail(outcomes)
             failed == o.kind = "LoadFile" /\ o.id = l /\ o.result = None
  <1>1. Fits(explorer, outcomes, l, missed) /\ missed \in BOOLEAN /\ fullScreen \in BOOLEAN
        /\ fullPending \in BOOLEAN
    BY Fitting DEF IInv, Types
  <1>2. /\ UNCHANGED <<disk, noticed, fullScreen, fullPending, requests, newestLoad, newestWindow,
                       job>>
        /\ phase' = "drain" /\ explorer' = Accepted(explorer, o) /\ outcomes' = rest
        /\ missed' = (explorer'.latest_load = l /\ (missed \/ failed))
    BY DEF DrainOutcomes, Rereads, screenVars
  <1>3. Taking(o, rest)
    BY DEF Taking, DrainOutcomes, IInv
  <1>4. o.kind \in {"Paths", "LoadFile", "HighlightWindow"}
    BY <1>3, Taken, AnswerTypes
  <1> HIDE DEF o, rest
  <1>5. CASE o.kind = "Paths"
    <2>1. Fits(AcceptPaths(explorer, o), rest, l, missed)
      BY <1>1, <1>3, <1>5, PathsAccepted
    <2>2. explorer' = AcceptPaths(explorer, o) /\ ~failed
      BY <1>2, <1>5 DEF Accepted
    <2>3. Fits(explorer', outcomes', l, missed)
      BY <1>2, <2>1, <2>2
    <2> QED BY <1>1, <1>2, <2>2, <2>3, HandlerStep
  <1>6. CASE o.kind = "LoadFile"
    <2>1. Fits(AcceptFile(explorer, o), rest, l, missed \/ (o.id = l /\ o.result = None))
      BY <1>1, <1>3, <1>6, FileAccepted
    <2>2. explorer' = AcceptFile(explorer, o) /\ failed = (o.id = l /\ o.result = None)
      BY <1>2, <1>6 DEF Accepted
    <2>3. Fits(explorer', outcomes', l, missed \/ failed)
      BY <1>2, <2>1, <2>2
    <2> QED BY <1>1, <1>2, <2>3, HandlerStep
  <1>7. CASE o.kind = "HighlightWindow"
    <2>1. Fits(AcceptWindow(explorer, o), rest, l, missed)
      BY <1>1, <1>3, <1>7, WindowAccepted
    <2>2. explorer' = AcceptWindow(explorer, o) /\ ~failed
      BY <1>2, <1>7 DEF Accepted
    <2>3. Fits(explorer', outcomes', l, missed)
      BY <1>2, <2>1, <2>2
    <2> QED BY <1>1, <1>2, <2>2, <2>3, HandlerStep
  <1> QED BY <1>4, <1>5, <1>6, <1>7


LEMMA ChangeStep ==
  ASSUME IInv, Change
  PROVE  IInv'
  <1>1. /\ UNCHANGED <<explorer, outcomes, requests, newestLoad, newestWindow, job, fullScreen,
                       fullPending, phase, missed>>
        /\ noticed' = FALSE
    BY DEF Change, workerVars, screenVars
  <1>2. disk' \in [Files -> Contents \cup {Absent}]
    BY DEF Change, IInv, Types
  <1>3. Selectable(explorer) /\ Consistent(explorer, outcomes)
    BY DEF IInv, Good
  <1>4. Selectable(explorer') /\ Consistent(explorer', outcomes')
    BY <1>1, <1>3
  <1>5. Types'
    BY <1>1, <1>2 DEF IInv, Types
  <1> QED BY <1>1, <1>4, <1>5, LoopStep

\* A change that is noticed is followed by a new list of paths and, if a file is
\* selected, by a load of it.
LEMMA NoticeStep ==
  ASSUME IInv, Notice
  PROVE  IInv'
  <1> DEFINE e == [explorer EXCEPT !.requested = None]
             scanned == RequestPaths(e)
             file == SelectedFile(explorer)
             loaded == RequestFileLoad(scanned, file, explorer.viewer_scroll)
             skipped == file \notin explorer.paths
  <1>1. Types /\ explorer \in Explorers /\ Selectable(explorer) /\ Consistent(explorer, outcomes)
        /\ outcomes \in Seq(Answers)
    BY DEF IInv, Good, Types
  <1>2. /\ UNCHANGED <<disk, fullScreen, fullPending, requests, newestLoad, newestWindow, job,
                       outcomes>>
        /\ phase' = "drain" /\ noticed' = TRUE
        /\ explorer' = IF file = None THEN scanned ELSE loaded
        /\ missed' = (explorer'.latest_load = explorer.latest_load /\ (missed \/ skipped))
    BY DEF Notice, Rereads, Reload, screenVars, workerVars
  <1>3. /\ e \in Explorers /\ Calm(explorer, e) /\ Selectable(e)
        /\ e.paths = explorer.paths /\ e.latest_load = explorer.latest_load
    BY <1>1 DEF Explorers, Calm, Selectable, Visible
  <1>4. explorer.viewer_scroll \in Nat
    BY <1>1, Fields
  <1>5. file = None => skipped
    BY <1>1, Fields, ExplorerAssumption
  <1> HIDE DEF e, file
  <1>6. Consistent(e, outcomes)
    BY <1>1, <1>3, CalmKeeps
  <1>7. /\ scanned \in Explorers /\ SameTree(e, scanned) /\ Consistent(scanned, outcomes)
        /\ PathsCurrent(scanned, outcomes) /\ scanned.latest_load = e.latest_load
    BY <1>1, <1>3, <1>6, AsksPaths
  <1> HIDE DEF scanned
  <1>8. CASE skipped
    <2>1. loaded = scanned
      BY <1>3, <1>7, <1>8 DEF RequestFileLoad, SameTree
    <2> HIDE DEF loaded
    <2>2. explorer' = scanned /\ missed' = TRUE
      BY <1>2, <1>3, <1>7, <1>8, <2>1
    <2>3. Types'
      BY <1>1, <1>2, <1>7, <2>2 DEF Types
    <2>4. Selectable(scanned)
      BY <1>3, <1>7, SameTreeSelects
    <2> HIDE DEF skipped
    <2>5. /\ Selectable(explorer') /\ Consistent(explorer', outcomes')
          /\ PathsCurrent(explorer', outcomes')
      BY <1>2, <1>7, <2>2, <2>4
    <2> QED BY <1>2, <2>2, <2>3, <2>5, LoopStep
  <1>9. CASE ~skipped
    <2>1. file \in scanned.paths
      BY <1>3, <1>7, <1>9 DEF SameTree
    <2>2. /\ loaded \in Explorers /\ SameTree(scanned, loaded) /\ Consistent(loaded, outcomes)
          /\ PathsCurrent(loaded, outcomes) /\ ViewerCurrent(loaded, outcomes)
          /\ loaded.latest_load # scanned.latest_load
      BY <1>1, <1>4, <1>7, <2>1, AsksLoad
    <2> HIDE DEF loaded
    <2>3. explorer' = loaded /\ missed' = FALSE
      BY <1>2, <1>3, <1>5, <1>7, <1>9, <2>2
    <2>4. Types'
      BY <1>1, <1>2, <2>2, <2>3 DEF Types
    <2>5. Selectable(loaded)
      BY <1>3, <1>7, <2>2, SameTreeSelects
    <2>6. /\ Selectable(explorer') /\ Consistent(explorer', outcomes')
          /\ PathsCurrent(explorer', outcomes') /\ ViewerCurrent(explorer', outcomes')
      BY <1>2, <2>2, <2>3, <2>5
    <2> QED BY <1>2, <2>4, <2>6, LoopStep
  <1> QED BY <1>8, <1>9

-----------------------------------------------------------------------------
(* The requests on their way to the worker.                                 *)

\* Of a kind that has a request in the queue that request is the newest.
LEMMA NewestQueued ==
  ASSUME Types, OnePerKind(explorer.queued), NEW kind, NEW old
  PROVE  LET S == Of(ToSet(explorer.queued), kind) IN
         /\ S = {} => NewestOf(kind, old) = old
         /\ \A r \in S : NewestOf(kind, old) = r.id
  <1> DEFINE q == explorer.queued
             ofIt == {i \in DOMAIN q : q[i].kind = kind}
  <1>1. DOMAIN q = 1..Len(q) /\ Len(q) \in Nat
    BY Fields DEF Types
  <1>2. NewestOf(kind, old) = IF ofIt = {} THEN old ELSE q[Max(ofIt)].id
    BY DEF NewestOf
  <1>3. CASE Of(ToSet(q), kind) = {}
    <2>1. ofIt = {}
      BY <1>3 DEF Of, ToSet
    <2> QED BY <1>2, <1>3, <2>1
  <1>4. ASSUME NEW r \in Of(ToSet(q), kind) PROVE NewestOf(kind, old) = r.id
    <2>1. PICK i \in DOMAIN q : q[i] = r /\ r.kind = kind
      BY <1>4 DEF Of, ToSet
    <2>2. ofIt = {i}
      BY <2>1 DEF OnePerKind
    <2> HIDE DEF ofIt
    <2>3. Max({i}) = i
      <3>1. i >= i
        BY <1>1
      <3> QED BY <3>1 DEF Max
    <2> QED BY <1>2, <2>1, <2>2, <2>3
  <1> QED BY <1>3, <1>4

\* Submitting moves the queue to the channel; the worker learns of the newest
\* load and window, and a load ends the window before it.
LEMMA SubmitStep ==
  ASSUME IInv, Submit
  PROVE  IInv'
  <1> DEFINE q == explorer.queued
  <1>1. Types /\ explorer \in Explorers /\ Selectable(explorer) /\ Consistent(explorer, outcomes)
        /\ q \in Seq(Requests) /\ requests \in Seq(Requests)
        /\ UpToDate(explorer, outcomes, missed)
    BY Fields DEF IInv, Good, Types
  <1>2. /\ UNCHANGED <<disk, noticed, fullScreen, fullPending, job, outcomes, missed>>
        /\ phase' = "input"
        /\ requests' = requests \o q
        /\ newestLoad' = NewestOf("LoadFile", newestLoad)
        /\ newestWindow' = NewestOf("HighlightWindow",
                                  IF "LoadFile" \in {r.kind : r \in ToSet(q)}
                                  THEN 0 ELSE newestWindow)
        /\ explorer' = [explorer EXCEPT !.queued = <<>>]
    BY DEF Submit, screenVars
  <1>3. OnePerKind(q)
    BY <1>1 DEF Consistent, LoadsQueued
  <1>4. newestLoad' \in Nat /\ newestLoad' = explorer.latest_load
    <2>1. explorer.latest_load \in Nat
      BY <1>1, Fields
    <2>2. \A r \in Loads(ToSet(q)) : r.id = explorer.latest_load
      BY <1>1 DEF Consistent, LoadsQueued
    <2>3. newestLoad = explorer.latest_load \/ Loads(ToSet(q)) # {}
      BY <1>1 DEF Consistent, LoadsQueued
    <2>4. /\ Loads(ToSet(q)) = {} => newestLoad' = newestLoad
          /\ \A r \in Loads(ToSet(q)) : newestLoad' = r.id
      BY <1>1, <1>2, <1>3, NewestQueued DEF Loads
    <2> QED BY <2>1, <2>2, <2>3, <2>4
  <1>5. /\ newestWindow' \in Nat
        /\ Windows(ToSet(q)) = {} /\ Loads(ToSet(q)) = {} => newestWindow' = newestWindow
        /\ \A r \in Windows(ToSet(q)) : newestWindow' = r.id
    <2> DEFINE old == IF "LoadFile" \in {r.kind : r \in ToSet(q)} THEN 0 ELSE newestWindow
    <2>1. old \in Nat /\ (Loads(ToSet(q)) = {} => old = newestWindow)
      BY <1>1 DEF Types, Loads, Of
    <2>2. newestWindow' = NewestOf("HighlightWindow", old)
      BY <1>2
    <2> HIDE DEF old
    <2>3. /\ Windows(ToSet(q)) = {} => newestWindow' = old
          /\ \A r \in Windows(ToSet(q)) : newestWindow' = r.id
      BY <1>1, <1>3, <2>2, NewestQueued DEF Windows
    <2>4. \A r \in Windows(ToSet(q)) : r.id \in Nat
      BY <1>1 DEF Windows, Of, ToSet, Requests
    <2> QED BY <2>1, <2>3, <2>4
  <1>6. /\ explorer' \in Explorers /\ explorer'.queued = <<>>
        /\ explorer'.paths = explorer.paths /\ explorer'.rows = explorer.rows
        /\ explorer'.expanded = explorer.expanded /\ explorer'.selected = explorer.selected
        /\ explorer'.viewer = explorer.viewer
        /\ explorer'.latest_paths = explorer.latest_paths
        /\ explorer'.latest_load = explorer.latest_load
        /\ explorer'.paths_pending = explorer.paths_pending
        /\ explorer'.pending_path = explorer.pending_path
        /\ explorer'.pending_window = explorer.pending_window
    <2> DEFINE none == <<>>
               e == [explorer EXCEPT !.queued = none]
    <2>1. explorer' = e
      BY <1>2
    <2>2. none \in Seq(Requests)
      OBVIOUS
    <2> HIDE DEF none, q
    <2>3. e \in Explorers /\ e.queued = none
      BY <1>1, <2>2 DEF Explorers
    <2>4. /\ e.paths = explorer.paths /\ e.rows = explorer.rows
          /\ e.expanded = explorer.expanded /\ e.selected = explorer.selected
          /\ e.viewer = explorer.viewer /\ e.latest_paths = explorer.latest_paths
          /\ e.latest_load = explorer.latest_load /\ e.paths_pending = explorer.paths_pending
          /\ e.pending_path = explorer.pending_path
          /\ e.pending_window = explorer.pending_window
      BY <1>1 DEF Explorers
    <2> HIDE DEF e
    <2> QED BY <2>1, <2>3, <2>4 DEF none
  <1>7. /\ ToSet(explorer'.queued) = {}
        /\ ToSet(requests') = ToSet(requests) \cup ToSet(q)
        /\ requests' \in Seq(Requests)
    <2>1. ToSet(<<>>) = {}
      BY DEF ToSet
    <2> QED BY <1>1, <1>2, <1>6, <2>1, ConcatSet
  <1>8. Running' = Running /\ InHand' = InHand \cup ToSet(q)
        /\ Under(explorer, outcomes)' = Under(explorer, outcomes)
        /\ ToSet(outcomes)' = ToSet(outcomes)
        /\ ToSet(explorer'.queued) \cup InHand' = ToSet(q) \cup InHand
    BY <1>2, <1>7 DEF Running, InHand, Under
  <1>9. LoadsQueued(explorer)'
    BY <1>4, <1>6, <1>7 DEF LoadsQueued, OnePerKind, Loads, Of
  <1>10. LatestComing(explorer, outcomes)' = LatestComing(explorer, outcomes)
    BY <1>6, <1>8 DEF LatestComing
  <1>11. Coming(explorer, outcomes)'
    <2>1. PathsComing(explorer, outcomes)'
      BY <1>1, <1>6, <1>8 DEF Consistent, Coming, PathsComing
    <2>2. WindowComing(explorer, outcomes)'
      <3> SUFFICES ASSUME explorer.pending_window # None PROVE WindowComing(explorer, outcomes)'
        BY <1>6 DEF WindowComing
      <3> DEFINE w == explorer.pending_window
      <3>1. /\ \E r \in Windows(Under(explorer, outcomes)) : r.id = w[1]
            /\ \A r \in Windows(Under(explorer, outcomes)) : r.id = w[1] => r.doc = w[2]
            /\ \A r \in Windows(ToSet(q)) : r.id = w[1]
            /\ Windows(ToSet(q)) = {} => newestWindow = w[1] /\ Loads(ToSet(q)) = {}
            /\ explorer.viewer # None /\ explorer.viewer.doc = w[2]
        BY <1>1 DEF Consistent, Coming, WindowComing
      <3>2. newestWindow' = w[1]
        BY <1>5, <3>1
      <3>3. Windows(ToSet(explorer'.queued)) = {} /\ Loads(ToSet(explorer'.queued)) = {}
        BY <1>7 DEF Windows, Loads, Of
      <3> QED BY <1>6, <1>8, <3>1, <3>2, <3>3 DEF WindowComing
    <2> QED BY <1>1, <1>6, <1>10, <2>1, <2>2 DEF Consistent, Coming
  <1>12. LoadsOnce(explorer, outcomes)'
    <2>1. /\ Once(outcomes) /\ Once(requests)
          /\ Apart(Running, ToSet(requests)) /\ Apart(InHand, ToSet(outcomes))
          /\ Apart(ToSet(q), InHand \cup ToSet(outcomes))
      BY <1>1 DEF Consistent, LoadsOnce
    <2>2. Once(requests')
      <3>1. Apart(ToSet(q), ToSet(requests))
        BY <2>1 DEF Apart, InHand, Loads, Of
      <3> QED BY <1>1, <1>2, <1>3, <2>1, <3>1, OnceConcat
    <2>3. Apart(Running, ToSet(requests'))
      BY <1>7, <2>1 DEF Apart, InHand, Loads, Of
    <2>4. Apart(InHand \cup ToSet(q), ToSet(outcomes))
      BY <2>1 DEF Apart, Loads, Of
    <2>5. Apart({}, InHand' \cup ToSet(outcomes))
      BY DEF Apart, Loads, Of
    <2> QED BY <1>2, <1>7, <1>8, <2>1, <2>2, <2>3, <2>4, <2>5 DEF LoadsOnce
  <1>13. Documents(explorer, outcomes)'
    BY <1>1, <1>6, <1>8 DEF Consistent, Documents
  <1>14. PathsCurrent(explorer, outcomes) => PathsCurrent(explorer, outcomes)'
    BY <1>2, <1>6 DEF PathsCurrent, Present
  <1>15. ViewerCurrent(explorer, outcomes) => ViewerCurrent(explorer, outcomes)'
    BY <1>2, <1>6, <1>8, <1>10 DEF ViewerCurrent, Present
  <1>16. Types' /\ Selectable(explorer)'
    BY <1>1, <1>2, <1>4, <1>5, <1>6, <1>7 DEF Types, Selectable, Visible
  <1>17. Good(explorer, outcomes, explorer.latest_load, missed)'
    BY <1>1, <1>2, <1>9, <1>11, <1>12, <1>13, <1>14, <1>15 DEF Good, Consistent, UpToDate
  <1> QED BY <1>16, <1>17 DEF IInv


-----------------------------------------------------------------------------
(* The worker.                                                              *)

LEMMA RequestTypes ==
  ASSUME NEW x \in Requests
  PROVE  /\ x.kind \in {"Paths", "LoadFile", "HighlightWindow"} /\ x.id \in Nat /\ x # NoJob
         /\ x.kind = "LoadFile" => x.path \in Files /\ x.ask \in Asks
         /\ x.kind = "HighlightWindow" =>
              x.doc \in Nat /\ x.content \in Contents /\ x.ask \in Asks
  <1>1. /\ x.kind \in {"Paths", "LoadFile", "HighlightWindow"} /\ x.id \in Nat
        /\ x.kind = "LoadFile" => x.path \in Files /\ x.ask \in Asks
        /\ x.kind = "HighlightWindow" =>
             x.doc \in Nat /\ x.content \in Contents /\ x.ask \in Asks
    BY DEF Requests
  <1>2. NoJob.kind \notin {"Paths", "LoadFile", "HighlightWindow"}
    BY DEF NoJob
  <1> QED BY <1>1, <1>2

\* A request that is dropped is not the load or the window that is awaited.
LEMMA StaleIsNotAwaited ==
  ASSUME Consistent(explorer, outcomes), NEW x, Stale(x)
  PROVE  /\ x.kind # "Paths"
         /\ x.kind = "LoadFile" /\ x.id = explorer.latest_load =>
              \E r \in Loads(ToSet(explorer.queued)) : r.id = explorer.latest_load
         /\ x.kind = "HighlightWindow" /\ explorer.pending_window # None
              /\ x.id = explorer.pending_window[1] =>
              \E r \in Windows(ToSet(explorer.queued)) : r.id = explorer.pending_window[1]
  <1>1. x.kind = "LoadFile" /\ x.id = explorer.latest_load =>
          \E r \in Loads(ToSet(explorer.queued)) : r.id = explorer.latest_load
    BY DEF Stale, Consistent, LoadsQueued
  <1>2. x.kind = "HighlightWindow" /\ explorer.pending_window # None
          /\ x.id = explorer.pending_window[1] =>
          \E r \in Windows(ToSet(explorer.queued)) : r.id = explorer.pending_window[1]
    <2> SUFFICES ASSUME x.kind = "HighlightWindow", explorer.pending_window # None,
                        x.id = explorer.pending_window[1]
                 PROVE  \E r \in Windows(ToSet(explorer.queued)) : r.id = explorer.pending_window[1]
      OBVIOUS
    <2>1. newestWindow # explorer.pending_window[1]
      BY DEF Stale
    <2> QED BY <2>1 DEF Consistent, Coming, WindowComing
  <1> QED BY <1>1, <1>2 DEF Stale

\* The worker may drop x when nothing awaits it: what remains is as it was.
LEMMA WorkerStep ==
  ASSUME IInv, Types', NEW x,
         UNCHANGED <<disk, noticed, explorer, newestLoad, newestWindow, outcomes, missed>>,
         InHand' \subseteq InHand, InHand \subseteq InHand' \cup {x},
         x \in InHand' \/ Stale(x),
         Once(requests'), Apart(Running', ToSet(requests'))
  PROVE  IInv'
  <1> DEFINE e == explorer
             U == Under(explorer, outcomes)
  <1>1. Types /\ Selectable(explorer) /\ Consistent(explorer, outcomes)
        /\ UpToDate(explorer, outcomes, missed)
    BY DEF IInv, Good, UpToDate
  <1>2. /\ Under(explorer, outcomes)' \subseteq U /\ U \subseteq Under(explorer, outcomes)' \cup {x}
        /\ ToSet(explorer.queued) \subseteq Under(explorer, outcomes)'
        /\ x \in Under(explorer, outcomes)' \/ Stale(x)
    BY DEF Under
  <1>3. LatestComing(explorer, outcomes) => LatestComing(explorer, outcomes)'
    <2> SUFFICES ASSUME NEW r \in Loads(U), r.id = e.latest_load
                 PROVE  \E y \in Loads(Under(explorer, outcomes)') : y.id = e.latest_load
      BY DEF LatestComing
    <2>1. CASE r \in Under(explorer, outcomes)'
      BY <2>1 DEF Loads, Of
    <2>2. CASE r = x /\ Stale(x)
      <3>1. PICK y \in Loads(ToSet(explorer.queued)) : y.id = e.latest_load
        BY <1>1, <2>2, StaleIsNotAwaited DEF Loads, Of
      <3> QED BY <1>2, <3>1 DEF Loads, Of
    <2> QED BY <1>2, <2>1, <2>2 DEF Loads, Of
  <1>4. LoadsQueued(explorer)'
    BY <1>1 DEF Consistent, LoadsQueued
  <1>5. Coming(explorer, outcomes)'
    <2>1. PathsComing(explorer, outcomes)'
      <3> SUFFICES ASSUME e.paths_pending
                   PROVE  \E y \in Of(Under(explorer, outcomes)', "Paths") : y.id = e.latest_paths
        BY DEF PathsComing
      <3>1. PICK r \in Of(U, "Paths") : r.id = e.latest_paths
        BY <1>1 DEF Consistent, Coming, PathsComing
      <3>2. r \in Under(explorer, outcomes)'
        BY <1>1, <1>2, <3>1, StaleIsNotAwaited DEF Of
      <3> QED BY <3>1, <3>2 DEF Of
    <2>2. WindowComing(explorer, outcomes)'
      <3> SUFFICES ASSUME e.pending_window # None
                   PROVE  \E y \in Windows(Under(explorer, outcomes)') : y.id = e.pending_window[1]
        BY <1>1, <1>2 DEF Consistent, Coming, WindowComing, Windows, Of
      <3>1. PICK r \in Windows(U) : r.id = e.pending_window[1]
        BY <1>1 DEF Consistent, Coming, WindowComing
      <3>2. CASE r \in Under(explorer, outcomes)'
        BY <3>1, <3>2 DEF Windows, Of
      <3>3. CASE r = x /\ Stale(x)
        <4>1. PICK y \in Windows(ToSet(explorer.queued)) : y.id = e.pending_window[1]
          BY <1>1, <3>1, <3>3, StaleIsNotAwaited DEF Windows, Of
        <4> QED BY <1>2, <4>1 DEF Windows, Of
      <3> QED BY <1>2, <3>1, <3>2, <3>3 DEF Windows, Of
    <2> QED BY <1>1, <1>3, <2>1, <2>2 DEF Consistent, Coming
  <1>6. LoadsOnce(explorer, outcomes)'
    BY <1>1 DEF Consistent, LoadsOnce, Apart, Loads, Of
  <1>7. Documents(explorer, outcomes)'
    BY <1>1, <1>2 DEF Consistent, Documents, Loads, Windows, Of
  <1>8. PathsCurrent(explorer, outcomes) => PathsCurrent(explorer, outcomes)'
    BY DEF PathsCurrent, Present
  <1>9. ViewerCurrent(explorer, outcomes) => ViewerCurrent(explorer, outcomes)'
    BY <1>3 DEF ViewerCurrent, Present, Loads, Of
  <1>10. Selectable(explorer)'
    BY <1>1 DEF Selectable, Visible
  <1> QED BY <1>1, <1>4, <1>5, <1>6, <1>7, <1>8, <1>9, <1>10 DEF IInv, Good, Consistent, UpToDate

LEMMA RecvStep ==
  ASSUME IInv, Recv
  PROVE  IInv'
  <1> DEFINE h == Head(requests)
             t == Tail(requests)
  <1>1. Types /\ requests \in Seq(Requests) /\ requests # <<>> /\ job = NoJob
        /\ Consistent(explorer, outcomes)
    BY DEF IInv, Good, Types, Recv
  <1>2. /\ UNCHANGED <<disk, noticed, explorer, newestLoad, newestWindow, outcomes, missed,
                       fullScreen, fullPending, phase>>
        /\ requests' = t /\ job' = IF Stale(h) THEN NoJob ELSE h
    BY DEF Recv, screenVars
  <1>3. h \in Requests /\ t \in Seq(Requests)
    BY <1>1
  <1>4. ToSet(requests) = {h} \cup ToSet(t)
    BY <1>1, TailSet
  <1>5. Once(t) /\ Apart({h}, ToSet(t))
    BY <1>1, OnceTail DEF Consistent, LoadsOnce
  <1> HIDE DEF h, t
  <1>6. h # NoJob
    BY <1>3, RequestTypes
  <1>7. /\ InHand = {h} \cup ToSet(t) /\ Running' = (IF Stale(h) THEN {} ELSE {h})
        /\ InHand' = ToSet(t) \cup Running'
    BY <1>1, <1>2, <1>4, <1>6 DEF InHand, Running
  <1>8. Apart(Running', ToSet(requests')) /\ Once(requests')
    BY <1>2, <1>5, <1>7 DEF Apart, Loads, Of
  <1>9. Types'
    BY <1>1, <1>2, <1>3 DEF Types
  <1>10. /\ InHand' \subseteq InHand /\ InHand \subseteq InHand' \cup {h}
         /\ h \in InHand' \/ Stale(h)
    BY <1>7
  <1> QED BY <1>2, <1>8, <1>9, <1>10, WorkerStep


\* The lines of a window are numbered from one.
LEMMA HighlightedStyles ==
  ASSUME NEW content \in Contents, NEW ask \in Asks
  PROVE  /\ Highlighted(content, ask) \in SUBSET Styles
         /\ \A s \in Highlighted(content, ask) : s.of = content
  <1> DEFINE lines == Length[content]
             size == ask.rows * ask.viewports
             above == ask.rows * (ask.viewports \div 2)
             start == Min({MaximumScroll(ask.first, above), MaximumScroll(lines, size)})
  <1>1. ask.first \in Nat /\ ask.rows \in Nat /\ ask.viewports \in Nat /\ lines \in Nat
    BY ExplorerAssumption DEF Asks
  <1>2. size \in Nat /\ above \in Int
    BY <1>1
  <1>3. MaximumScroll(ask.first, above) \in Nat /\ MaximumScroll(lines, size) \in Nat
    BY <1>1, <1>2 DEF MaximumScroll
  <1>4. start \in Nat
    BY <1>3, LeastOfTwo
  <1>5. Window(ask.first, lines, ask.rows, ask.viewports) = (start + 1)..Min({start + size, lines})
    BY DEF Window
  <1> HIDE DEF start, size, lines
  <1>6. start + size \in Nat /\ Min({start + size, lines}) \in Nat
    BY <1>1, <1>2, <1>4, LeastOfTwo
  <1>7. Window(ask.first, lines, ask.rows, ask.viewports) \subseteq Nat
    BY <1>4, <1>5, <1>6
  <1>8. Highlighted(content, ask) =
          {[of |-> content, line |-> k] : k \in Window(ask.first, lines, ask.rows, ask.viewports)}
    BY DEF Highlighted, lines
  <1> QED BY <1>7, <1>8 DEF Styles

\* What the worker answers has the kind and the id of what it was asked.
LEMMA OutcomeAnswers ==
  ASSUME Types, job # NoJob, NEW fails \in BOOLEAN
  PROVE  LET o == Outcome(fails) IN
         /\ job \in Requests /\ o \in Answers /\ o.kind = job.kind /\ o.id = job.id
         /\ o.kind = "Paths" => o.result \in {None, Present}
         /\ o.kind = "LoadFile" /\ o.result # None =>
              /\ o.result.doc = o.id /\ o.result.path = job.path
              /\ job.path \in Present /\ o.result.content = disk[job.path]
              /\ \A s \in o.result.covered : s.of = o.result.content
         /\ o.kind = "HighlightWindow" =>
              o.doc = job.doc /\ \A s \in o.covered : s.of = job.content
  <1> DEFINE o == Outcome(fails)
  <1>1. job \in Requests
    BY DEF Types
  <1>2. job.id \in Nat /\ job.kind \in {"Paths", "LoadFile", "HighlightWindow"}
    BY <1>1, RequestTypes
  <1>3. CASE job.kind = "Paths"
    <2> DEFINE paths == IF fails THEN None ELSE Present
    <2>1. o = [kind |-> "Paths", id |-> job.id, result |-> paths]
      BY <1>3 DEF Outcome
    <2>2. paths \in (SUBSET Files) \cup {None} /\ paths \in {None, Present}
      BY DEF Present
    <2> HIDE DEF paths
    <2>3. o \in Answers
      BY <1>2, <2>1, <2>2 DEF Answers
    <2> QED BY <1>1, <1>3, <2>1, <2>2, <2>3
  <1>4. CASE job.kind = "LoadFile"
    <2> DEFINE bad == fails \/ disk[job.path] = Absent
               content == disk[job.path]
               styles == IF content \in Plain THEN {} ELSE Highlighted(content, job.ask)
               viewer == [doc |-> job.id, path |-> job.path, content |-> content,
                          covered |-> styles]
               text == IF bad THEN None ELSE viewer
    <2>1. o = [kind |-> "LoadFile", id |-> job.id, result |-> text]
      BY <1>4 DEF Outcome, Prepared
    <2>2. job.path \in Files /\ job.ask \in Asks
      BY <1>1, <1>4, RequestTypes
    <2>3. content \in Contents \cup {Absent}
      BY <2>2 DEF Types
    <2>4. ASSUME ~bad
          PROVE  /\ viewer \in Viewers /\ job.path \in Present
                 /\ \A s \in styles : s.of = content
      <3>1. content \in Contents
        BY <2>3, <2>4
      <3>2. styles \in SUBSET Styles /\ \A s \in styles : s.of = content
        BY <2>2, <3>1, HighlightedStyles
      <3>3. job.path \in Present
        BY <2>2, <2>4 DEF Present
      <3> HIDE DEF styles, content
      <3>4. viewer \in Viewers
        BY <1>2, <2>2, <3>1, <3>2 DEF Viewers
      <3> QED BY <3>2, <3>3, <3>4
    <2>5. /\ viewer.doc = job.id /\ viewer.path = job.path /\ viewer.content = content
          /\ viewer.covered = styles
      OBVIOUS
    <2> HIDE DEF bad, styles, viewer
    <2>6. text \in Viewers \cup {None}
      BY <2>4
    <2>7. text # None => ~bad /\ text = viewer
      OBVIOUS
    <2> HIDE DEF text
    <2>8. o \in Answers /\ o.kind = "LoadFile" /\ o.id = job.id /\ o.result = text
      BY <1>2, <2>1, <2>6 DEF Answers
    <2> HIDE DEF o
    <2>9. o.result # None => /\ o.result.doc = o.id /\ o.result.path = job.path
                             /\ job.path \in Present /\ o.result.content = disk[job.path]
                             /\ \A s \in o.result.covered : s.of = o.result.content
      BY <2>4, <2>5, <2>7, <2>8
    <2> QED BY <1>1, <1>4, <2>8, <2>9 DEF o
  <1>5. CASE job.kind = "HighlightWindow"
    <2> DEFINE styles == Highlighted(job.content, job.ask)
    <2>1. o = [kind |-> "HighlightWindow", id |-> job.id, doc |-> job.doc, covered |-> styles]
      BY <1>5 DEF Outcome
    <2>2. job.doc \in Nat /\ styles \in SUBSET Styles /\ \A s \in styles : s.of = job.content
      BY <1>1, <1>5, RequestTypes, HighlightedStyles
    <2> HIDE DEF styles
    <2>3. o \in Answers
      BY <1>2, <2>1, <2>2 DEF Answers
    <2> QED BY <1>1, <1>5, <2>1, <2>2, <2>3
  <1> QED BY <1>2, <1>3, <1>4, <1>5

\* An answer takes the place of the request.
LEMMA AnswerStep ==
  ASSUME IInv, job # NoJob, ~(job.kind = "LoadFile" /\ Stale(job)), NEW fails \in BOOLEAN,
         job' = NoJob, outcomes' = Append(outcomes, Outcome(fails)),
         UNCHANGED <<disk, noticed, explorer, newestLoad, newestWindow, requests, missed,
                     fullScreen, fullPending, phase>>
  PROVE  IInv'
  <1> DEFINE e == explorer
             o == Outcome(fails)
             U == Under(explorer, outcomes)
             V == Under(explorer, outcomes)'
  <1>1. Types /\ Selectable(explorer) /\ Consistent(explorer, outcomes)
        /\ UpToDate(explorer, outcomes, missed) /\ outcomes \in Seq(Answers)
    BY DEF IInv, Good, UpToDate, Types
  <1>2. /\ job \in Requests /\ o \in Answers /\ o.kind = job.kind /\ o.id = job.id
        /\ o.kind = "Paths" => o.result \in {None, Present}
        /\ o.kind = "LoadFile" /\ o.result # None =>
             /\ o.result.doc = o.id /\ o.result.path = job.path
             /\ job.path \in Present /\ o.result.content = disk[job.path]
             /\ \A s \in o.result.covered : s.of = o.result.content
        /\ o.kind = "HighlightWindow" =>
             o.doc = job.doc /\ \A s \in o.covered : s.of = job.content
    BY <1>1, OutcomeAnswers
  <1> HIDE DEF o
  <1>3. outcomes' \in Seq(Answers) /\ ToSet(outcomes') = ToSet(outcomes) \cup {o}
    BY <1>1, <1>2, AppendSet DEF o
  <1>4. /\ Running = {job} /\ Running' = {} /\ InHand = ToSet(requests) \cup {job}
        /\ InHand' = ToSet(requests)
    BY DEF Running, InHand
  <1>5. /\ V \subseteq U \cup {o} /\ U \subseteq V \cup {job} /\ o \in V /\ job \in U
    BY <1>3, <1>4 DEF Under
  <1>6. LatestComing(explorer, outcomes) => LatestComing(explorer, outcomes)'
    BY <1>2, <1>5 DEF LatestComing, Loads, Of
  <1>7. LoadsQueued(explorer)'
    BY <1>1 DEF Consistent, LoadsQueued
  <1>8. Coming(explorer, outcomes)'
    <2>1. PathsComing(explorer, outcomes)'
      <3> SUFFICES ASSUME e.paths_pending PROVE \E y \in Of(V, "Paths") : y.id = e.latest_paths
        BY DEF PathsComing
      <3>1. PICK r \in Of(U, "Paths") : r.id = e.latest_paths
        BY <1>1 DEF Consistent, Coming, PathsComing
      <3> QED BY <1>2, <1>5, <3>1 DEF Of
    <2>2. WindowComing(explorer, outcomes)'
      <3> SUFFICES ASSUME e.pending_window # None
                   PROVE  /\ \E y \in Windows(V) : y.id = e.pending_window[1]
                          /\ \A y \in Windows(V) :
                               y.id = e.pending_window[1] => y.doc = e.pending_window[2]
        BY <1>1 DEF Consistent, Coming, WindowComing
      <3>1. /\ \E r \in Windows(U) : r.id = e.pending_window[1]
            /\ \A r \in Windows(U) : r.id = e.pending_window[1] => r.doc = e.pending_window[2]
        BY <1>1 DEF Consistent, Coming, WindowComing
      <3> QED BY <1>2, <1>5, <3>1 DEF Windows, Of
    <2> QED BY <1>1, <1>6, <2>1, <2>2 DEF Consistent, Coming
  <1>9. LoadsOnce(explorer, outcomes)'
    <2>1. /\ Once(outcomes) /\ Once(requests)
          /\ Apart({job}, ToSet(requests)) /\ Apart(InHand, ToSet(outcomes))
          /\ Apart(ToSet(e.queued), InHand \cup ToSet(outcomes))
      BY <1>1, <1>4 DEF Consistent, LoadsOnce
    <2>2. Once(outcomes')
      <3>1. Apart({o}, ToSet(outcomes))
        BY <1>2, <1>4, <2>1 DEF Apart, Loads, Of
      <3> QED BY <1>1, <1>2, <2>1, <3>1, OnceAppend DEF o
    <2>3. Apart({}, ToSet(requests))
      BY DEF Apart, Loads, Of
    <2>4. Apart(ToSet(requests), ToSet(outcomes'))
      BY <1>2, <1>3, <1>4, <2>1 DEF Apart, Loads, Of
    <2>5. Apart(ToSet(e.queued), ToSet(requests) \cup ToSet(outcomes'))
      BY <1>2, <1>3, <1>4, <2>1 DEF Apart, Loads, Of
    <2> QED BY <1>4, <2>1, <2>2, <2>3, <2>4, <2>5 DEF LoadsOnce
  <1>10. Documents(explorer, outcomes)'
    <2>1. /\ \A y \in Loads(U) : /\ e.viewer # None => y.id # e.viewer.doc
                                 /\ \A x \in Windows(U) : x.doc # y.id
          /\ e.viewer # None =>
               /\ \A s \in e.viewer.covered : s.of = e.viewer.content
               /\ \A x \in Windows(ToSet(e.queued) \cup InHand) :
                    x.doc = e.viewer.doc => x.content = e.viewer.content
               /\ \A x \in Windows(ToSet(outcomes)) :
                    x.doc = e.viewer.doc => \A s \in x.covered : s.of = e.viewer.content
          /\ \A a \in Loads(ToSet(outcomes)) : a.result # None =>
               a.result.doc = a.id /\ \A s \in a.result.covered : s.of = a.result.content
      BY <1>1 DEF Consistent, Documents
    <2>2. \A y \in Loads(V) : \E r \in Loads(U) : r.id = y.id
      BY <1>2, <1>5 DEF Loads, Of
    <2>3. \A y \in Windows(V) : \E r \in Windows(U) : r.doc = y.doc
      BY <1>2, <1>5 DEF Windows, Of
    <2>4. \A y \in Loads(V) : /\ e.viewer # None => y.id # e.viewer.doc
                              /\ \A x \in Windows(V) : x.doc # y.id
      BY <2>1, <2>2, <2>3
    <2>5. ASSUME e.viewer # None
          PROVE  /\ \A x \in Windows(ToSet(e.queued) \cup InHand') :
                      x.doc = e.viewer.doc => x.content = e.viewer.content
                 /\ \A x \in Windows(ToSet(outcomes')) :
                      x.doc = e.viewer.doc => \A s \in x.covered : s.of = e.viewer.content
      BY <1>2, <1>3, <1>4, <2>1, <2>5 DEF Windows, Of
    <2>6. \A a \in Loads(ToSet(outcomes')) : a.result # None =>
            a.result.doc = a.id /\ \A s \in a.result.covered : s.of = a.result.content
      BY <1>2, <1>3, <2>1 DEF Loads, Of
    <2> QED BY <2>1, <2>4, <2>5, <2>6 DEF Documents
  <1>11. PathsCurrent(explorer, outcomes) => PathsCurrent(explorer, outcomes)'
    BY <1>2, <1>3 DEF PathsCurrent, Present, Of
  <1>12. ViewerCurrent(explorer, outcomes) => ViewerCurrent(explorer, outcomes)'
    <2> SUFFICES ASSUME ViewerCurrent(explorer, outcomes)
                 PROVE  ViewerCurrent(explorer, outcomes)'
      OBVIOUS
    <2>1. Present' = Present
      BY DEF Present
    <2>2. \A r \in Loads(ToSet(e.queued) \cup InHand') :
            r.id = e.latest_load => r.path \in e.paths \/ r.path \notin Present
      BY <1>4 DEF ViewerCurrent, Loads, Of
    <2>3. o.kind = "LoadFile" /\ o.id = e.latest_load /\ o.result # None =>
            o.result.content = disk[o.result.path] /\ o.result.path \in e.paths
      BY <1>2, <1>4 DEF ViewerCurrent, Loads, Of
    <2>4. \A a \in Loads(ToSet(outcomes')) : a.id = e.latest_load /\ a.result # None =>
            a.result.content = disk[a.result.path] /\ a.result.path \in e.paths
      BY <1>3, <2>3 DEF ViewerCurrent, Loads, Of
    <2> QED BY <1>6, <2>1, <2>2, <2>4 DEF ViewerCurrent
  <1>13. Types' /\ Selectable(explorer)'
    BY <1>1, <1>3 DEF Types, Selectable, Visible
  <1> QED BY <1>1, <1>7, <1>8, <1>9, <1>10, <1>11, <1>12, <1>13 DEF IInv, Good, Consistent, UpToDate

LEMMA SendStep ==
  ASSUME IInv, SendOutcome
  PROVE  IInv'
  <1>1. PICK fails \in BOOLEAN :
          outcomes' = IF job.kind = "LoadFile" /\ Stale(job) THEN outcomes
                      ELSE Append(outcomes, Outcome(fails))
    BY DEF SendOutcome
  <1>2. /\ UNCHANGED <<disk, noticed, explorer, newestLoad, newestWindow, requests, missed,
                       fullScreen, fullPending, phase>>
        /\ job' = NoJob /\ job # NoJob
    BY DEF SendOutcome, screenVars
  <1>3. CASE job.kind = "LoadFile" /\ Stale(job)
    <2>1. outcomes' = outcomes
      BY <1>1, <1>3
    <2>2. Types'
      BY <1>2, <2>1 DEF IInv, Types
    <2>3. /\ InHand' \subseteq InHand /\ InHand \subseteq InHand' \cup {job}
          /\ Running' = {} /\ requests' = requests
      BY <1>2 DEF InHand, Running
    <2>4. Once(requests') /\ Apart(Running', ToSet(requests'))
      BY <2>3 DEF IInv, Good, Consistent, LoadsOnce, Apart, Loads, Of
    <2> QED BY <1>2, <1>3, <2>1, <2>2, <2>3, <2>4, WorkerStep
  <1>4. CASE ~(job.kind = "LoadFile" /\ Stale(job))
    <2>1. outcomes' = Append(outcomes, Outcome(fails))
      BY <1>1, <1>4
    <2> QED BY <1>2, <1>4, <2>1, AnswerStep
  <1> QED BY <1>3, <1>4

-----------------------------------------------------------------------------
(* What holds at first, and what follows.                                   *)

LEMMA InitHolds == Init => IInv
  <1> SUFFICES ASSUME Init PROVE IInv
    OBVIOUS
  <1> DEFINE first == [kind |-> "Paths", id |-> 1]
  <1>1. /\ disk \in [Files -> Contents \cup {Absent}] /\ noticed = TRUE /\ missed = FALSE
        /\ fullScreen = FALSE /\ fullPending = FALSE /\ phase = "input"
        /\ requests = <<first>> /\ newestLoad = 0 /\ newestWindow = 0 /\ job = NoJob
        /\ outcomes = <<>>
    BY ExplorerAssumption DEF Init
  <1>2. first \in Requests /\ first.kind = "Paths" /\ first.id = 1
    BY DEF Requests
  <1>3. /\ explorer.paths = {} /\ explorer.rows = {} /\ explorer.expanded = FALSE
        /\ explorer.selected = None /\ explorer.viewer = None
        /\ explorer.pending_path = None /\ explorer.pending_window = None
        /\ explorer.paths_pending = TRUE /\ explorer.latest_paths = 1
        /\ explorer.latest_load = 0 /\ explorer.queued = <<>>
    BY DEF Init
  <1>4. explorer \in Explorers
    BY DEF Init, Explorers
  <1> HIDE DEF first
  <1>5. /\ ToSet(outcomes) = {} /\ ToSet(explorer.queued) = {} /\ ToSet(requests) = {first}
        /\ Running = {}
    BY <1>1, <1>3 DEF ToSet, Running
  <1>6. /\ InHand = {first} /\ Under(explorer, outcomes) = {first}
    BY <1>5 DEF InHand, Under
  <1>7. Loads({first}) = {} /\ Windows({first}) = {} /\ Loads({}) = {} /\ Windows({}) = {}
    BY <1>2 DEF Loads, Windows, Of
  <1>8. LoadsQueued(explorer)
    <2>1. OnePerKind(<<>>)
      BY DEF OnePerKind
    <2>2. newestLoad = explorer.latest_load
      BY <1>1, <1>3
    <2> QED BY <1>3, <1>5, <1>7, <2>1, <2>2 DEF LoadsQueued
  <1>9. Coming(explorer, outcomes)
    BY <1>2, <1>3, <1>6 DEF Coming, PathsComing, WindowComing, Of
  <1>10. LoadsOnce(explorer, outcomes)
    <2>1. Once(outcomes) /\ Once(requests)
      BY <1>1, <1>2 DEF Once
    <2> QED BY <1>5, <1>6, <1>7, <2>1 DEF LoadsOnce, Apart
  <1>11. Documents(explorer, outcomes)
    BY <1>3, <1>5, <1>6, <1>7 DEF Documents
  <1>12. PathsCurrent(explorer, outcomes)
    BY <1>5 DEF PathsCurrent, Of
  <1>13. ViewerCurrent(explorer, outcomes)
    <2>1. Loads(ToSet(explorer.queued) \cup InHand) = {} /\ Loads(ToSet(outcomes)) = {}
      BY <1>5, <1>6, <1>7
    <2> QED BY <1>3, <2>1 DEF ViewerCurrent
  <1>14. Types
    <2>1. requests \in Seq(Requests) /\ outcomes \in Seq(Answers)
      BY <1>1, <1>2
    <2>2. newestLoad \in Nat /\ newestWindow \in Nat /\ job \in Requests \cup {NoJob}
      BY <1>1
    <2> QED BY <1>1, <1>4, <2>1, <2>2 DEF Types
  <1>15. Selectable(explorer)
    BY <1>3 DEF Selectable
  <1> QED BY <1>8, <1>9, <1>10, <1>11, <1>12, <1>13, <1>14, <1>15
          DEF IInv, Good, Consistent, UpToDate

LEMMA NextHolds == IInv /\ [Next]_vars => IInv'
  <1> SUFFICES ASSUME IInv, [Next]_vars PROVE IInv'
    OBVIOUS
  <1>1. CASE UNCHANGED vars
    <2>1. /\ UNCHANGED <<disk, noticed, explorer, screenVars, phase, workerVars, missed>>
      BY <1>1 DEF vars
    <2>2. Types'
      BY <2>1 DEF IInv, Types, screenVars, workerVars
    <2>3. Selectable(explorer') /\ Consistent(explorer', outcomes')
          /\ UpToDate(explorer', outcomes', missed')
      BY <2>1 DEF IInv, Good, UpToDate, workerVars
    <2> QED BY <2>1, <2>2, <2>3, LoopStep DEF UpToDate, workerVars
  <1>2. CASE Change
    BY <1>2, ChangeStep
  <1>3. CASE EventLoop
    BY <1>3, NoticeStep, AcceptStep, SubmitStep, PrepareStep DEF EventLoop
  <1>4. CASE User
    BY <1>4, UserStep
  <1>5. CASE Worker
    BY <1>5, RecvStep, SendStep DEF Worker
  <1> QED BY <1>1, <1>2, <1>3, <1>4, <1>5 DEF Next

LEMMA FollowsFrom == IInv => ViewerFollowsDisk
  <1> SUFFICES ASSUME IInv PROVE ViewerFollowsDisk
    OBVIOUS
  <1> DEFINE e == explorer
  <1>1. Types /\ e \in Explorers /\ Selectable(e) /\ Consistent(e, outcomes)
        /\ UpToDate(e, outcomes, missed)
    BY DEF IInv, Good, Types, UpToDate
  <1>2. UnderWay = Under(e, outcomes)
    BY DEF UnderWay, Under, InHand, Running
  <1>3. TypeOK
    <2>1. /\ e.paths \subseteq Files /\ e.rows \subseteq Files
          /\ e.pending_path \in Files \cup {None} /\ e.viewer \in Viewers \cup {None}
      BY <1>1, Fields
    <2>2. e.viewer = None \/ e.viewer.path \in Files
      BY <2>1 DEF Viewers
    <2>3. OnePerKind(e.queued)
      BY <1>1 DEF Consistent, LoadsQueued
    <2>4. /\ disk \in [Files -> Contents \cup {Absent}]
          /\ {noticed, fullScreen, fullPending, missed} \subseteq BOOLEAN
          /\ phase \in {"events", "drain", "input"}
      BY <1>1 DEF Types
    <2> QED BY <1>1, <2>1, <2>2, <2>3, <2>4 DEF TypeOK, OnePerKind, Selectable
  <1>4. AnswersComing
    <2>1. e.paths_pending => Awaited("Paths", e.latest_paths)
      BY <1>1, <1>2 DEF Consistent, Coming, PathsComing, Awaited, Of
    <2>2. ASSUME e.pending_path # None
          PROVE  /\ Awaited("LoadFile", e.latest_load)
                 /\ newestLoad = e.latest_load \/ e.latest_load \in Ids(e.queued)
      <3>1. Awaited("LoadFile", e.latest_load)
        BY <1>1, <1>2, <2>2 DEF Consistent, Coming, LatestComing, Awaited, Loads, Of
      <3>2. ASSUME NEW r \in Loads(ToSet(e.queued)) PROVE e.latest_load \in Ids(e.queued)
        <4>1. r.id = e.latest_load /\ r \in ToSet(e.queued)
          BY <1>1, <3>2 DEF Consistent, LoadsQueued, Loads, Of
        <4> QED BY <4>1 DEF Ids, ToSet
      <3>3. newestLoad = e.latest_load \/ Loads(ToSet(e.queued)) # {}
        BY <1>1 DEF Consistent, LoadsQueued
      <3> QED BY <3>1, <3>2, <3>3
    <2>3. ASSUME e.pending_window # None
          PROVE  /\ Awaited("HighlightWindow", e.pending_window[1])
                 /\ newestWindow = e.pending_window[1] \/ e.pending_window[1] \in Ids(e.queued)
                 /\ e.viewer # None /\ e.viewer.doc = e.pending_window[2]
      <3>1. /\ \E r \in Windows(Under(e, outcomes)) : r.id = e.pending_window[1]
            /\ \A r \in Windows(ToSet(e.queued)) : r.id = e.pending_window[1]
            /\ Windows(ToSet(e.queued)) = {} => newestWindow = e.pending_window[1]
            /\ e.viewer # None /\ e.viewer.doc = e.pending_window[2]
        BY <1>1, <2>3 DEF Consistent, Coming, WindowComing
      <3>2. ASSUME NEW r \in Windows(ToSet(e.queued)) PROVE e.pending_window[1] \in Ids(e.queued)
        <4>1. r.id = e.pending_window[1] /\ r \in ToSet(e.queued)
          BY <3>1, <3>2 DEF Windows, Of
        <4> QED BY <4>1 DEF Ids, ToSet
      <3> QED BY <1>2, <3>1, <3>2 DEF Awaited, Windows, Of
    <2> QED BY <2>1, <2>2, <2>3 DEF AnswersComing
  <1>5. ViewerIsCurrent
    <2> SUFFICES ASSUME Settled, Displayed(e) # None, ~missed
                 PROVE  e.viewer.content = disk[Displayed(e)]
      BY DEF ViewerIsCurrent
    <2>1. e.viewer # None /\ Displayed(e) = e.viewer.path
      BY DEF Displayed
    <2>2. ~LatestComing(e, outcomes)
      BY <1>2 DEF Settled, LatestComing, Loads, Of
    <2> QED BY <1>1, <2>1, <2>2 DEF Settled, UpToDate, ViewerCurrent
  <1>6. SyntaxMatches
    BY <1>1 DEF Consistent, Documents, SyntaxMatches
  <1> QED BY <1>3, <1>4, <1>5, <1>6 DEF ViewerFollowsDisk

\* Whatever changes on disk, whatever the user does meanwhile and whichever loads
\* fail, the answer to every request the Explorer waits for is on its way and is
\* not taken for stale; with nothing on its way the selected file is shown as it
\* is on disk, unless an invalidation could not be followed; and the styles of
\* the viewer are of its text (explorer/mod.rs: accept; worker.rs: submit, run).
THEOREM ViewerFollows == Spec => []ViewerFollowsDisk
  <1>1. Init => IInv
    BY InitHolds
  <1>2. IInv /\ [Next]_vars => IInv'
    BY NextHolds
  <1>3. IInv => ViewerFollowsDisk
    BY FollowsFrom
  <1> QED BY <1>1, <1>2, <1>3, PTL DEF Spec, SafeSpec

-----------------------------------------------------------------------------
(***************************************************************************)
(* AiCommit.  Without other programs during git commit, a commit has the   *)
(* message written for exactly what it commits, for any stagings and any   *)
(* number of commits.  The inductive invariant says where the one command  *)
(* is, and that from the worker's comparison to git commit the checkout is *)
(* the state the request is bound to.                                      *)
(***************************************************************************)
USE StagingsAssumption, BoundsAssumption

(* What the command's phase says of its request and of the other actors.     *)
Guarded ==
  /\ ahead => command.phase \in {"none", "queued"}
  /\ command.phase \in {"generating", "committing"} => command.request \in States
  /\ command.phase = "committing" => command.message = command.request
  /\ worker = "head" => repo.head = command.request.head
  /\ worker = "git" => repo = command.request

CommitInv == CommitSound /\ Guarded

(* At the start there is no command.                                         *)
LEMMA CommitInvInitial == CommitInit => CommitInv
BY DEF CommitInit, CommitInv, CommitSound, CommitTypeOK, CommitsWhatWasRead, NothingLeftBehind,
       Guarded, States, NoCommand, NoChild

(* The Workbench binds the command, hands it over and ends it.               *)
LEMMA WorkbenchKeeps ==
  ASSUME CommitInv, RequestAiCommit \/ TakeAiCommit \/ CommandAnswered \/ TakeSnapshot
  PROVE  CommitInv'
<1> USE DEF CommitInv, CommitSound, CommitTypeOK, CommitsWhatWasRead, NothingLeftBehind,
            Guarded, NoCommand
<1>1. CASE RequestAiCommit
  <2>1. \/ command' = NoCommand /\ command.phase \in {"none", "queued"}
        \/ command' = command
        \/ /\ command' = [command EXCEPT !.cancelling = TRUE]
           /\ command.phase \in {"generating", "committing"}
        \/ /\ command' = [NoCommand EXCEPT !.phase = "queued"]
           /\ command.phase = "none"
    BY <1>1 DEF RequestAiCommit
  <2>2. UNCHANGED <<repo, snapshot, ahead, codex, child, outcome, worker, commits>>
    BY <1>1 DEF RequestAiCommit
  <2>3. /\ command'.phase \in {"none", "queued"} => command.phase \in {"none", "queued"}
        /\ command'.phase \in {"generating", "committing"} =>
             /\ command'.phase = command.phase /\ command'.request = command.request
             /\ command'.message = command.message
        /\ ahead => command'.phase \in {"none", "queued"}
    BY <2>1
  <2>4. command' \in [phase : {"none", "queued", "generating", "committing"},
                      request : States \cup {Nothing}, message : States \cup {Nothing},
                      cancelling : BOOLEAN]
    <3> DEFINE Commands == [phase : {"none", "queued", "generating", "committing"},
                            request : States \cup {Nothing}, message : States \cup {Nothing},
                            cancelling : BOOLEAN]
    <3>1. command \in Commands
      OBVIOUS
    <3>2. NoCommand \in Commands /\ [NoCommand EXCEPT !.phase = "queued"] \in Commands
      OBVIOUS
    <3>3. [command EXCEPT !.cancelling = TRUE] \in Commands
      BY <3>1
    <3> HIDE DEF Commands, NoCommand
    <3>4. command' \in Commands
      BY <2>1, <3>1, <3>2, <3>3
    <3> QED BY <3>4 DEF Commands
  <2>5. CommitTypeOK' /\ CommitsWhatWasRead'
    BY <2>2, <2>4
  <2>6. NothingLeftBehind'
    BY <2>2, <2>3, <2>4
  <2>7. Guarded'
    BY <2>2, <2>3, <2>4
  <2> QED BY <2>5, <2>6, <2>7
<1>2. CASE TakeAiCommit
  <2>1. command.phase = "queued" /\ ~ahead /\ codex = "off" /\ outcome = Nothing /\ worker = "idle"
        /\ UNCHANGED <<repo, snapshot, ahead, child, outcome, worker, commits>>
    BY <1>2 DEF TakeAiCommit
  <2>2. CASE command' = NoCommand /\ UNCHANGED codex
    BY <2>1, <2>2
  <2>3. CASE command' = Bound(snapshot) /\ codex' = "starting"
    <3>1. /\ command' = [phase |-> "generating", request |-> snapshot, message |-> Nothing,
                         cancelling |-> FALSE]
      BY <2>3 DEF Bound
    <3>2. snapshot \in States /\ child = NoChild
      BY <2>1
    <3>3. CommitTypeOK'
      BY ONLY CommitInv, <2>1, <2>3, <3>1, <3>2
    <3>4. command'.phase = "generating" /\ command'.request \in States
      BY <3>1, <3>2
    <3>5. NothingLeftBehind'
      BY <2>1, <2>3, <3>2, <3>4 DEF Outcomes, NoChild
    <3>6. Guarded'
      BY <2>1, <2>3, <3>4
    <3>7. CommitsWhatWasRead'
      BY <2>1
    <3> QED BY <3>3, <3>5, <3>6, <3>7
  <2> QED BY <1>2, <2>2, <2>3 DEF TakeAiCommit
<1>3. CASE CommandAnswered
  BY <1>3 DEF CommandAnswered
<1>4. CASE TakeSnapshot
  BY <1>4 DEF TakeSnapshot
<1> QED BY <1>1, <1>2, <1>3, <1>4

(* The thread's answer is drained once, and the worker is idle then.         *)
LEMMA FinishedKeeps == CommitInv /\ AiCommitFinished => CommitInv'
<1> SUFFICES ASSUME CommitInv, AiCommitFinished PROVE CommitInv'
  OBVIOUS
<1> USE DEF CommitInv, CommitSound, CommitTypeOK, CommitsWhatWasRead, NothingLeftBehind,
            Guarded, NoCommand
<1>1. /\ command.phase = "generating" /\ codex = "off" /\ outcome' = Nothing /\ worker = "idle"
      /\ UNCHANGED <<repo, snapshot, ahead, codex, child, commits>>
  BY DEF AiCommitFinished
<1>2. CASE command' = NoCommand /\ UNCHANGED worker
  BY <1>1, <1>2
<1>3. CASE /\ command' = [command EXCEPT !.phase = "committing", !.message = command.request]
           /\ worker' = "guard"
  BY <1>1, <1>3
<1> QED BY <1>2, <1>3 DEF AiCommitFinished

(* The command before it changes the index while no AI commit has a worker.  *)
LEMMA AheadKeeps ==
  ASSUME CommitInv, NEW s \in Stagings \cup {NothingStaged}, AheadEnds(s)
  PROVE  CommitInv'
<1> USE DEF CommitInv, CommitSound, CommitTypeOK, CommitsWhatWasRead, NothingLeftBehind,
            Guarded, NoCommand
<1>1. /\ command.phase \in {"none", "queued"} /\ ahead' = FALSE
      /\ UNCHANGED <<codex, child, outcome, worker, commits>>
  BY DEF AheadEnds
<1>2. repo' \in States /\ snapshot' \in States
  BY DEF AheadEnds, States
<1>3. CASE command' = command
  BY <1>1, <1>2, <1>3
<1>4. CASE command' = NoCommand
  BY <1>1, <1>2, <1>4
<1> QED BY <1>3, <1>4 DEF AheadEnds

(* The thread sends exactly one outcome, when it ends, and has reaped its    *)
(* child by then.                                                            *)
LEMMA CodexKeeps ==
  ASSUME CommitInv,
         \/ FindCodex \/ StartCodex \/ WriteContext \/ PollCodex \/ JoinOutput
         \/ CodexExits \/ PipesClose
  PROVE  CommitInv'
<1> DEFINE Children == [exit : {"none", "running", "killed"} \cup Exited, held : BOOLEAN]
<1>0. /\ codex \in {"off", "starting", "found", "writing", "polling"} \cup Outcomes
      /\ child \in Children
      /\ codex # "off" => command.phase = "generating" /\ outcome = Nothing /\ worker = "idle"
      /\ codex \in {"off", "starting", "found"} => child = NoChild
      /\ codex \in Outcomes => child.exit # "running"
      /\ NoChild \in Children /\ NoChild.exit # "running" /\ ~NoChild.held
  BY DEF CommitInv, CommitSound, CommitTypeOK, NothingLeftBehind, NoChild
<1>1. ASSUME Thread, child' \in Children,
             \/ codex = codex' /\ outcome' = outcome
             \/ codex # "off" /\ codex' # "off" /\ outcome' = outcome
             \/ codex # "off" /\ codex' = "off" /\ outcome' \in Outcomes,
             codex' \in {"off", "starting", "found", "writing", "polling"} \cup Outcomes,
             codex' \in {"off", "starting", "found"} => child' = NoChild,
             codex' \in Outcomes => child'.exit # "running"
      PROVE  CommitInv'
  BY <1>0, <1>1 DEF Thread, CommitInv, CommitSound, CommitTypeOK, CommitsWhatWasRead, NothingLeftBehind,
     Guarded, Outcomes
<1>2. ASSUME NEW o \in Outcomes, codex # "off", Send(o) PROVE CommitInv'
  BY <1>0, <1>1, <1>2 DEF Send, Outcomes
<1>3. Killed(child) \in Children /\ Killed(child).exit # "running"
  BY <1>0 DEF Killed
<1>4. CASE FindCodex
  BY <1>0, <1>1, <1>2, <1>4 DEF FindCodex, Goes, Outcomes
<1>5. CASE StartCodex
  <2>1. CASE Goes("writing", [exit |-> "running", held |-> TRUE]) /\ codex = "found"
    BY <1>0, <1>1, <2>1 DEF Goes, Outcomes
  <2> QED BY <1>2, <1>5, <2>1 DEF StartCodex, Outcomes
<1>6. CASE WriteContext
  BY <1>0, <1>1, <1>3, <1>6 DEF WriteContext, Goes, Outcomes
<1>7. CASE PollCodex
  <2>1. CASE Goes(FinishCodex(child.exit), child) /\ codex = "polling" /\ child.exit \in Exited
    BY <1>0, <1>1, <2>1 DEF Goes, FinishCodex, Outcomes, Exited
  <2>2. ASSUME NEW o \in Outcomes, Goes(o, Killed(child)), codex = "polling" PROVE CommitInv'
    BY <1>0, <1>1, <1>3, <2>2 DEF Goes, Outcomes
  <2> QED BY <1>7, <2>1, <2>2 DEF PollCodex, Outcomes
<1>8. CASE JoinOutput
  <2>1. codex # "off" /\ "Failed" \in Outcomes BY <1>8 DEF JoinOutput, Outcomes
  <2> QED BY <1>2, <1>8, <2>1 DEF JoinOutput
<1>9. CASE CodexExits
  <2>1. PICK exit \in Exited : child' = [child EXCEPT !.exit = exit] BY <1>9 DEF CodexExits
  <2>2. child' \in Children /\ child'.exit # "running" BY <1>0, <2>1 DEF Exited
  <2>3. codex \notin {"off", "starting", "found"} BY <1>0, <1>9 DEF CodexExits
  <2> QED BY <1>0, <1>1, <1>9, <2>2, <2>3 DEF CodexExits
<1>10. CASE PipesClose
  <2>1. child' \in Children /\ child'.exit # "running" BY <1>0, <1>10 DEF PipesClose
  <2>2. codex \notin {"off", "starting", "found"} BY <1>0, <1>10 DEF PipesClose
  <2> QED BY <1>0, <1>1, <1>10, <2>1, <2>2 DEF PipesClose
<1> QED BY <1>4, <1>5, <1>6, <1>7, <1>8, <1>9, <1>10

(* The comparison, and git commit on the checkout that was compared.         *)
LEMMA WorkerKeeps ==
  ASSUME CommitInv, ReadGuardHead \/ CheckGuard \/ GitCommit
  PROVE  CommitInv'
<1>1. CASE ReadGuardHead
  BY <1>1 DEF ReadGuardHead, CommitInv, CommitSound, CommitTypeOK, CommitsWhatWasRead,
     NothingLeftBehind, Guarded
<1>2. CASE CheckGuard
  <2>1. /\ repo \in States /\ command.request \in States /\ repo.head = command.request.head
        /\ worker' = "git" => repo.staged = command.request.staged
    BY <1>2 DEF CheckGuard, CommitInv, CommitSound, CommitTypeOK, NothingLeftBehind, Guarded
  <2>2. worker' = "git" => repo = command.request
    BY <2>1 DEF States
  <2> QED BY <1>2, <2>2 DEF CheckGuard, CommitInv, CommitSound, CommitTypeOK, CommitsWhatWasRead,
             NothingLeftBehind, Guarded
<1>3. CASE GitCommit
  <2>1. command.phase = "committing" /\ command.message = repo
    BY <1>3 DEF GitCommit, CommitInv, CommitSound, CommitTypeOK, NothingLeftBehind, Guarded
  <2>2. repo' \in States
    BY <1>3 DEF GitCommit, CommitInv, CommitSound, CommitTypeOK, States
  <2>3. commits' \subseteq [on : States, for : States] /\ \A c \in commits' : c.on = c.for
    BY <1>3, <2>1 DEF GitCommit, CommitInv, CommitSound, CommitTypeOK, CommitsWhatWasRead
  <2> QED BY <1>3, <2>1, <2>2, <2>3 DEF GitCommit, CommitInv, CommitSound, CommitTypeOK,
             CommitsWhatWasRead, NothingLeftBehind, Guarded
<1> QED BY <1>1, <1>2, <1>3

(* Every step keeps the invariant when others stay out of git commit.        *)
LEMMA CommitInvKept ==
  ASSUME ~RacesGit
  PROVE  CommitInv /\ [CommitNext]_taskVars => CommitInv'
<1> SUFFICES ASSUME CommitInv, [CommitNext]_taskVars PROVE CommitInv'
  OBVIOUS
<1>1. CASE OthersWrite
  BY <1>1 DEF OthersWrite, States, CommitInv, CommitSound, CommitTypeOK, CommitsWhatWasRead,
     NothingLeftBehind, Guarded
<1>2. CASE UNCHANGED taskVars
  BY <1>2 DEF taskVars, CommitInv, CommitSound, CommitTypeOK, CommitsWhatWasRead,
     NothingLeftBehind, Guarded
<1> QED BY <1>1, <1>2, WorkbenchKeeps, FinishedKeeps, AheadKeeps, CodexKeeps, WorkerKeeps
        DEF CommitNext

(* Whatever changes between the snapshot, Codex, the event loop and the      *)
(* worker: as long as others stay out of git commit itself, every commit is  *)
(* of what its message was written for, and nothing of an AI commit is left  *)
(* behind. (ai_commit.rs, codex_tasks.rs, single_command.rs.)                *)
THEOREM CommitStaysSound ==
  ASSUME ~RacesGit
  PROVE  CommitSpec => []CommitSound
<1>1. CommitInv => CommitSound
  BY DEF CommitInv
<1> QED BY <1>1, CommitInvInitial, CommitInvKept, PTL DEF CommitSpec

(* A cancellation before the hand-off stops the commit, whatever the thread  *)
(* says. (codex_tasks.rs: run_codex; ai_commit.rs: ai_commit_finished.)      *)
THEOREM CancelledIsNotCommitted ==
  ASSUME ~RacesGit
  PROVE  CommitSpec => CancelStopsCommit
<1> DEFINE Stops == /\ worker' = "guard" /\ worker = "idle" => ~command.cancelling
                    /\ commits' # commits => command.phase = "committing"
<1>1. ASSUME CommitInv, CommitNext PROVE Stops
  <2>1. CASE RequestAiCommit \/ TakeAiCommit \/ CommandAnswered \/ TakeSnapshot \/ OthersWrite
    BY <2>1 DEF RequestAiCommit, TakeAiCommit, CommandAnswered, TakeSnapshot, OthersWrite
  <2>2. CASE AiCommitFinished
    BY <2>2 DEF AiCommitFinished
  <2>3. ASSUME NEW s \in Stagings \cup {NothingStaged}, AheadEnds(s) PROVE Stops
    BY <2>3 DEF AheadEnds
  <2>4. CASE \/ FindCodex \/ StartCodex \/ WriteContext \/ PollCodex \/ JoinOutput
             \/ CodexExits \/ PipesClose
    BY <2>4 DEF FindCodex, StartCodex, WriteContext, PollCodex, JoinOutput, CodexExits, PipesClose,
       Send, Goes, Thread
  <2>5. CASE ReadGuardHead \/ CheckGuard \/ GitCommit
    BY <1>1, <2>5 DEF ReadGuardHead, CheckGuard, GitCommit, CommitInv, CommitSound, CommitTypeOK, NothingLeftBehind
  <2> QED BY <1>1, <2>1, <2>2, <2>3, <2>4, <2>5 DEF CommitNext
<1>2. CommitInv /\ [CommitNext]_taskVars => [Stops]_taskVars
  BY <1>1
<1> QED BY <1>2, CommitInvInitial, CommitInvKept, PTL DEF CommitSpec, CancelStopsCommit

-----------------------------------------------------------------------------
(***************************************************************************)
(* Askpass.  For any set of helpers an answer is printed only by the       *)
(* helper whose question the user answered.  The inductive invariant       *)
(* follows one question from the backlog over the server, the handler and  *)
(* the broker to the reply: until the user answers it nobody was told      *)
(* anything of it, and the broker's answer is the one the user gave to the *)
(* helper the server serves.                                               *)
(***************************************************************************)
USE AskpassAssumption

(* A helper that has not reached the server.                                  *)
Unasked(h) == told[h] = NoReply /\ reply[h] = NoReply /\ helper[h].printed = NoReply

Waiting(h) == \E i \in DOMAIN backlog : backlog[i] = h

BacklogInv ==
  /\ \A i, j \in DOMAIN backlog : backlog[i] = backlog[j] => i = j
  /\ \A h \in Helpers : helper[h].pc \in {"off", "connects"} => Unasked(h) /\ ~Waiting(h)
  /\ \A h \in Helpers : Waiting(h) => Unasked(h) /\ server.helper # h

(* What the server, its handler and the broker know of one question.         *)
Open == broker.open = server.id /\ broker.answer = NoReply /\ told[server.helper] = NoReply
Closed ==
  /\ broker.open = 0 /\ broker.answer \in UserAnswers
  /\ broker.answer = "Cancel" \/ told[server.helper] = broker.answer

ServerInv ==
  /\ server.pc \in {"read", "wait"} =>
       /\ server.helper \in Helpers /\ server.id > 0
       /\ helper[server.helper].pc \notin {"off", "connects"}
       /\ reply[server.helper] = NoReply /\ helper[server.helper].printed = NoReply
  /\ server.pc = "wait" <=> handler # "none"
  /\ server.pc \notin {"read", "wait"} => server.helper = NoHelper
  /\ server.pc = "read" \/ handler = "asks" => told[server.helper] = NoReply
  /\ handler # "waits" => broker.open = 0
  /\ handler = "waits" =>
       shown = [id |-> server.id, helper |-> server.helper] /\ (Open \/ Closed)
  /\ handler \in UserAnswers \ {"Cancel"} => told[server.helper] = handler

ReplyInv ==
  \A h \in Helpers :
    /\ helper[h].printed \in {NoReply, reply[h]}
    /\ reply[h] = "text" => helper[h].class = "Text" /\ told[h] = "text"
    /\ reply[h] = "yes" => helper[h].class = "Confirm" /\ told[h] = "Confirm"

(* The ids the bridge has given out and the broker's count.                   *)
IdInv ==
  /\ serial > 0
  /\ ~unread /\ ~cancelled =>
       IF server.pc = "read" \/ handler = "asks" \/ broker.open # 0
       THEN server.id = broker.expected /\ serial = broker.expected + 1
       ELSE serial = broker.expected

AskpassInv == AskpassTypeOK /\ BacklogInv /\ ServerInv /\ ReplyInv /\ IdInv

(* Changing where a helper is changes nothing else of it, or of another one.  *)
LEMMA HelperMoved ==
  ASSUME AskpassTypeOK, NEW h \in Helpers,
         NEW pc \in {"off", "connects", "connected", "sent", "exited", "gone"},
         helper' = [helper EXCEPT ![h].pc = pc]
  PROVE  /\ helper' \in [Helpers -> HelperStates]
         /\ \A g \in Helpers \ {h} : helper'[g] = helper[g]
         /\ helper'[h].pc = pc
         /\ helper'[h].class = helper[h].class /\ helper'[h].printed = helper[h].printed
<1>1. helper \in [Helpers -> HelperStates]
  BY DEF AskpassTypeOK
<1> DEFINE r == [helper[h] EXCEPT !.pc = pc]
<1>2. helper' = [helper EXCEPT ![h] = r]
  OBVIOUS
<1>3. r \in HelperStates /\ r.pc = pc /\ r.class = helper[h].class
      /\ r.printed = helper[h].printed
  BY <1>1 DEF HelperStates
<1> HIDE DEF r
<1> QED BY <1>1, <1>2, <1>3

(* At the start there is no question.                                         *)
LEMMA AskpassInvInitial == AskpassInit => AskpassInv
<1> SUFFICES ASSUME AskpassInit PROVE AskpassInv
  OBVIOUS
<1> USE DEF AskpassInit, NoPromptShown, UserAnswers, Texts
<1>1. AskpassTypeOK
  <2>1. helper \in [Helpers -> HelperStates] /\ told \in [Helpers -> UserAnswers \cup {NoReply}]
        /\ reply \in [Helpers -> {"text", "yes", "cancel", NoReply}]
    BY DEF HelperStates
  <2>2. backlog \in Seq(Helpers)
    OBVIOUS
  <2> QED BY <2>1, <2>2 DEF AskpassTypeOK
<1>2. BacklogInv
  BY DEF BacklogInv, Unasked, Waiting
<1>3. ServerInv
  BY DEF ServerInv, Unasked, Waiting
<1>4. ReplyInv /\ IdInv
  BY DEF ReplyInv, IdInv
<1> QED BY <1>1, <1>2, <1>3, <1>4 DEF AskpassInv

(* The steps of a helper that reach no other part of the bridge: only its     *)
(* own record changes, and it prints nothing but the reply written to it.     *)
LEMMA HelperKeeps ==
  ASSUME AskpassInv, NEW h \in Helpers,
         GitAsks(h) \/ WritePrompt(h) \/ ReadAnswer(h) \/ HelperDies(h)
  PROVE  AskpassInv'
<1> USE DEF AskpassInv
<1> DEFINE Same == UNCHANGED <<reply, backlog, server, serial, handler, broker, shown, told,
                              unread, git, stop, cancelled>>
<1>1. /\ Same
      /\ helper' \in [Helpers -> HelperStates]
      /\ \A g \in Helpers \ {h} : helper'[g] = helper[g]
      /\ helper'[h].class = helper[h].class \/ helper[h].pc = "off"
      /\ helper'[h].pc \in {"off", "connects"} => helper[h].pc = "off"
      /\ helper'[h].printed \in {NoReply, reply[h]}
      /\ helper'[h].printed = helper[h].printed
         \/ (helper[h].pc = "sent" /\ (reply[h] # NoReply \/ server.pc = "stopped"))
  <2>1. CASE GitAsks(h)
    <3>1. PICK form \in Forms, hint \in Hints :
            helper' = [helper EXCEPT ![h].pc = IF ParsePrompt(form, hint) = "rejected" THEN "exited" ELSE "connects",
                                     ![h].class = ParsePrompt(form, hint)]
      BY <2>1 DEF GitAsks
    <3>2. ParsePrompt(form, hint) \in {"Text", "Confirm", "rejected"}
      BY DEF ParsePrompt, ParseHostConfirmation
    <3> DEFINE r == [helper[h] EXCEPT !.pc = IF ParsePrompt(form, hint) = "rejected"
                                               THEN "exited" ELSE "connects",
                                       !.class = ParsePrompt(form, hint)]
    <3>3. helper[h] \in HelperStates /\ helper[h].pc = "off" /\ Same
          /\ helper[h].printed \in {NoReply, reply[h]}
      BY <2>1 DEF GitAsks, Elsewhere, AskpassTypeOK, ReplyInv
    <3>4. r \in HelperStates /\ r.printed = helper[h].printed
      BY <3>2, <3>3 DEF HelperStates
    <3>5. helper' = [helper EXCEPT ![h] = r]
      BY <3>1
    <3> HIDE DEF r
    <3>6. helper \in [Helpers -> HelperStates]
      BY DEF AskpassTypeOK
    <3>7. helper' \in [Helpers -> HelperStates] /\ helper'[h] = r
          /\ \A g \in Helpers \ {h} : helper'[g] = helper[g]
      BY <3>4, <3>5, <3>6
    <3> QED BY <3>3, <3>4, <3>7
  <2>2. CASE WritePrompt(h)
    <3>1. helper' = [helper EXCEPT ![h].pc = "sent"] /\ Same /\ helper[h].pc # "off"
      BY <2>2 DEF WritePrompt, Helper, Elsewhere
    <3>2. helper[h].printed \in {NoReply, reply[h]}
      BY DEF ReplyInv
    <3> HIDE DEF Same
    <3> QED BY <3>1, <3>2, HelperMoved
  <2>3. CASE ReadAnswer(h)
    <3> DEFINE r == [helper[h] EXCEPT !.pc = "exited",
                       !.printed = IF reply[h] \in {"text", "yes"} THEN reply[h] ELSE NoReply]
    <3>1. helper[h] \in HelperStates /\ helper[h].pc = "sent" /\ Same
          /\ (reply[h] # NoReply \/ server.pc = "stopped")
          /\ helper[h].printed \in {NoReply, reply[h]}
      BY <2>3 DEF ReadAnswer, Elsewhere, AskpassTypeOK, ReplyInv
    <3>2. r \in HelperStates /\ r.pc = "exited" /\ r.class = helper[h].class
          /\ r.printed \in {NoReply, reply[h]}
      BY <3>1 DEF HelperStates
    <3>3. helper' = [helper EXCEPT ![h] = r]
      BY <2>3 DEF ReadAnswer
    <3> HIDE DEF r
    <3> QED BY <3>1, <3>2, <3>3 DEF AskpassTypeOK
  <2>4. CASE HelperDies(h)
    <3>1. Same /\ helper[h].pc # "off"
      BY <2>4 DEF HelperDies, Elsewhere
    <3>2. PICK pc \in Ended : helper' = [helper EXCEPT ![h].pc = pc]
      BY <2>4 DEF HelperDies, Ended
    <3>3. helper[h].printed \in {NoReply, reply[h]}
      BY DEF ReplyInv
    <3> HIDE DEF Same
    <3> QED BY <3>1, <3>2, <3>3, HelperMoved DEF Ended
  <2> QED BY <2>1, <2>2, <2>3, <2>4
<1>2. AskpassTypeOK'
  BY <1>1 DEF AskpassTypeOK
<1>3. BacklogInv'
  BY <1>1 DEF BacklogInv, Unasked, Waiting
<1>4. ServerInv'
  BY <1>1 DEF ServerInv, Open, Closed
<1>5. ReplyInv' /\ IdInv'
  BY <1>1 DEF ReplyInv, IdInv, BacklogInv, Unasked
<1> QED BY <1>2, <1>3, <1>4, <1>5

(* A helper joins the end of the backlog, or finds the socket gone.          *)
LEMMA ConnectKeeps ==
  ASSUME AskpassInv, NEW h \in Helpers, Connect(h)
  PROVE  AskpassInv'
<1> USE DEF AskpassInv
<1>1. /\ UNCHANGED <<reply, server, serial, handler, broker, shown, told,
                     unread, git, stop, cancelled>>
      /\ helper[h].pc = "connects"
      /\ \E pc \in {"connected", "exited"} : helper' = [helper EXCEPT ![h].pc = pc]
      /\ backlog' = backlog \/ backlog' = Append(backlog, h)
  BY DEF Connect, Helper, Elsewhere
<1>2. /\ helper' \in [Helpers -> HelperStates]
      /\ \A g \in Helpers \ {h} : helper'[g] = helper[g]
      /\ helper'[h].pc \in {"connected", "exited"}
      /\ helper'[h].class = helper[h].class /\ helper'[h].printed = helper[h].printed
  BY <1>1, HelperMoved
<1>3. /\ Unasked(h) /\ ~Waiting(h)
      /\ \A g \in Helpers : Waiting(g)' => Waiting(g) \/ g = h
      /\ backlog' \in Seq(Helpers)
      /\ \A i, j \in DOMAIN backlog' : backlog'[i] = backlog'[j] => i = j
  <2>1. Unasked(h) /\ ~Waiting(h) /\ backlog \in Seq(Helpers)
    BY <1>1 DEF BacklogInv, AskpassTypeOK
  <2>2. CASE backlog' = backlog
    BY <2>1, <2>2 DEF BacklogInv, Waiting
  <2>3. CASE backlog' = Append(backlog, h)
    <3>1. /\ backlog' \in Seq(Helpers) /\ DOMAIN backlog' = DOMAIN backlog \cup {Len(backlog) + 1}
          /\ backlog'[Len(backlog) + 1] = h
          /\ \A i \in DOMAIN backlog : backlog'[i] = backlog[i]
      BY <2>1, <2>3
    <3> QED BY <2>1, <3>1 DEF BacklogInv, Waiting
  <2> QED BY <1>1, <2>1, <2>2, <2>3
<1>4. AskpassTypeOK'
  BY <1>1, <1>2, <1>3 DEF AskpassTypeOK
<1>5. server.helper # h
  BY <1>1 DEF ServerInv, AskpassTypeOK
<1>6. BacklogInv'
  BY <1>1, <1>2, <1>3, <1>5 DEF BacklogInv, Unasked
<1>7. ServerInv'
  BY <1>1, <1>2, <1>5 DEF ServerInv, Open, Closed
<1>8. ReplyInv' /\ IdInv'
  BY <1>1, <1>2 DEF ReplyInv, IdInv
<1> QED BY <1>4, <1>6, <1>7, <1>8

(* The server between two connections, and the ends of Git and the bridge.   *)
LEMMA IdleKeeps ==
  ASSUME AskpassInv, Loop \/ GitEnds \/ DropBridge
  PROVE  AskpassInv'
<1> USE DEF AskpassInv
<1>1. /\ UNCHANGED <<helper, reply, backlog, serial, handler, broker, shown, told, unread, cancelled>>
      /\ git' \in {"running", "ended"} /\ stop' \in BOOLEAN
      /\ \/ server' = server
         \/ /\ server.pc = "loop" /\ server'.pc \in {"accept", "stopped"}
            /\ server' = [server EXCEPT !.pc = server'.pc]
  BY DEF Loop, GitEnds, DropBridge, Elsewhere, AskpassTypeOK
<1>2. AskpassTypeOK'
  BY <1>1 DEF AskpassTypeOK
<1>3. BacklogInv' /\ ReplyInv'
  BY <1>1 DEF BacklogInv, ReplyInv, Unasked, Waiting, AskpassTypeOK
<1>4. server'.helper = server.helper /\ server'.id = server.id
      /\ (server'.pc \in {"read", "wait"} => server' = server)
  BY <1>1 DEF AskpassTypeOK
<1>5. ServerInv'
  BY <1>1, <1>4 DEF ServerInv, Open, Closed, AskpassTypeOK
<1>6. IdInv'
  BY <1>1, <1>4 DEF IdInv, AskpassTypeOK
<1> QED BY <1>2, <1>3, <1>5, <1>6

(* The server takes the first helper of the backlog, whom nobody was told    *)
(* anything about, and gives it the next id.                                 *)
LEMMA AcceptKeeps == AskpassInv /\ Accept => AskpassInv'
<1> SUFFICES ASSUME AskpassInv, Accept PROVE AskpassInv'
  OBVIOUS
<1> USE DEF AskpassInv
<1>1. UNCHANGED <<helper, reply, handler, broker, shown, told, unread, git, stop, cancelled>>
      /\ server.pc = "accept" /\ server.helper = NoHelper /\ handler = "none" /\ broker.open = 0
  BY DEF Accept, ServerInv, AskpassTypeOK
<1>2. CASE backlog = <<>>
  <2>1. server' = Listening /\ UNCHANGED <<backlog, serial>>
    BY <1>2 DEF Accept
  <2>2. AskpassTypeOK'
    BY <1>1, <2>1 DEF AskpassTypeOK, Listening
  <2>3. BacklogInv' /\ ReplyInv'
    BY <1>1, <2>1 DEF BacklogInv, ReplyInv, Unasked, Waiting, Listening
  <2>4. ServerInv' /\ IdInv'
    BY <1>1, <2>1 DEF ServerInv, IdInv, Listening, UserAnswers, Texts
  <2> QED BY <2>2, <2>3, <2>4
<1>3. CASE backlog # <<>>
  <2> DEFINE h == Head(backlog)
  <2>1. server' = [pc |-> "read", helper |-> h, id |-> serial]
        /\ backlog' = Tail(backlog) /\ serial' = serial + 1
    BY <1>3 DEF Accept
  <2>2. h \in Helpers /\ Tail(backlog) \in Seq(Helpers) /\ h = backlog[1] /\ 1 \in DOMAIN backlog
        /\ DOMAIN Tail(backlog) = 1 .. Len(backlog) - 1
        /\ \A i \in DOMAIN Tail(backlog) : Tail(backlog)[i] = backlog[i + 1] /\ i + 1 \in DOMAIN backlog
    BY <1>3 DEF AskpassTypeOK
  <2>3. Unasked(h) /\ helper[h].pc \notin {"off", "connects"}
    BY <2>2 DEF BacklogInv, Waiting
  <2>4. AskpassTypeOK'
    BY <1>1, <2>1, <2>2 DEF AskpassTypeOK
  <2>5. \A g \in Helpers : Waiting(g)' => Waiting(g) /\ g # h
    BY <2>1, <2>2 DEF Waiting, BacklogInv, AskpassTypeOK
  <2>6. \A i, j \in DOMAIN backlog' : backlog'[i] = backlog'[j] => i = j
    BY <2>1, <2>2 DEF BacklogInv, AskpassTypeOK
  <2>7. BacklogInv'
    BY <1>1, <2>1, <2>5, <2>6 DEF BacklogInv, Unasked
  <2>8. ServerInv'
    BY <1>1, <2>1, <2>2, <2>3 DEF ServerInv, IdInv, Unasked, UserAnswers, Texts, AskpassTypeOK
  <2>9. ReplyInv' /\ IdInv'
    BY <1>1, <2>1 DEF ReplyInv, IdInv, AskpassTypeOK
  <2> QED BY <2>4, <2>7, <2>8, <2>9
<1> QED BY <1>2, <1>3

(* The server has the question and starts its handler, or lost the helper    *)
(* and cancels it.                                                           *)
LEMMA ReadPromptKeeps == AskpassInv /\ ReadPrompt => AskpassInv'
<1> SUFFICES ASSUME AskpassInv, ReadPrompt PROVE AskpassInv'
  OBVIOUS
<1> USE DEF AskpassInv
<1> DEFINE h == server.helper
<1>1. /\ UNCHANGED <<helper, backlog, serial, broker, shown, told, git, stop, cancelled>>
      /\ server.pc = "read" /\ h \in Helpers /\ handler = "none" /\ broker.open = 0
      /\ told[h] = NoReply /\ reply[h] = NoReply /\ ~Waiting(h)
  BY DEF ReadPrompt, ServerInv, BacklogInv, AskpassTypeOK
<1>2. CASE handler' = "asks" /\ server' = [server EXCEPT !.pc = "wait"] /\ UNCHANGED <<reply, unread>>
  <2>1. AskpassTypeOK'
    BY <1>1, <1>2 DEF AskpassTypeOK
  <2>2. server'.pc = "wait" /\ server'.helper = h /\ server'.id = server.id
    BY <1>2 DEF AskpassTypeOK
  <2>3. BacklogInv' /\ ReplyInv'
    BY <1>1, <1>2, <2>2 DEF BacklogInv, ReplyInv, Unasked, Waiting
  <2>4. ServerInv'
    BY <1>1, <1>2, <2>2 DEF ServerInv, UserAnswers, Texts
  <2>5. IdInv'
    BY <1>1, <1>2, <2>2 DEF IdInv
  <2> QED BY <2>1, <2>3, <2>4, <2>5
<1>3. CASE server' = Listening /\ unread' = TRUE /\ reply' = [reply EXCEPT ![h] = "cancel"]
           /\ UNCHANGED handler
  <2>1. AskpassTypeOK'
    BY <1>1, <1>3 DEF AskpassTypeOK, Listening
  <2>2. reply'[h] = "cancel" /\ \A g \in Helpers \ {h} : reply'[g] = reply[g]
    BY <1>1, <1>3 DEF AskpassTypeOK
  <2>3. helper[h].pc \notin {"off", "connects"} /\ helper[h].printed = NoReply
    BY <1>1 DEF ServerInv
  <2>4. BacklogInv'
    BY <1>1, <1>3, <2>2, <2>3 DEF BacklogInv, Unasked, Waiting, Listening
  <2>5. ServerInv'
    BY <1>1, <1>3 DEF ServerInv, Listening, UserAnswers, Texts
  <2>6. ReplyInv' /\ IdInv'
    BY <1>1, <1>3, <2>2, <2>3 DEF ReplyInv, IdInv
  <2> QED BY <2>1, <2>4, <2>5, <2>6
<1> QED BY <1>2, <1>3 DEF ReadPrompt

(* The handler asks the broker, which opens the prompt or refuses it.        *)
LEMMA HandlerAsksKeeps == AskpassInv /\ HandlerAsks => AskpassInv'
<1> SUFFICES ASSUME AskpassInv, HandlerAsks PROVE AskpassInv'
  OBVIOUS
<1> USE DEF AskpassInv
<1>1. /\ UNCHANGED <<helper, reply, backlog, server, serial, told, unread, git, stop, cancelled>>
      /\ handler = "asks" /\ server.pc = "wait" /\ server.helper \in Helpers /\ broker.open = 0
      /\ told[server.helper] = NoReply /\ server.id > 0
  BY DEF HandlerAsks, ServerInv, AskpassTypeOK
<1>2. BacklogInv' /\ ReplyInv'
  BY <1>1 DEF BacklogInv, ReplyInv, Unasked, Waiting
<1>3. CASE handler' = "Cancel" /\ UNCHANGED <<broker, shown>>
           /\ (server.id # broker.expected \/ cancelled)
  <2>1. AskpassTypeOK'
    BY <1>1, <1>3 DEF AskpassTypeOK, UserAnswers
  <2>2. ServerInv'
    BY <1>1, <1>3 DEF ServerInv
  <2>3. IdInv'
    BY <1>1, <1>3 DEF IdInv
  <2> QED BY <1>2, <2>1, <2>2, <2>3
<1>4. CASE /\ handler' = "waits"
           /\ broker' = [broker EXCEPT !.open = server.id, !.answer = NoReply]
           /\ shown' = [id |-> server.id, helper |-> server.helper]
  <2>1. AskpassTypeOK'
    BY <1>1, <1>4 DEF AskpassTypeOK
  <2>2. broker'.open = server.id /\ broker'.answer = NoReply /\ broker'.expected = broker.expected
    BY <1>4 DEF AskpassTypeOK
  <2>3. ServerInv'
    BY <1>1, <1>4, <2>2 DEF ServerInv, Open, UserAnswers, Texts
  <2>4. IdInv'
    BY <1>1, <1>4, <2>2 DEF IdInv
  <2> QED BY <1>2, <2>1, <2>3, <2>4
<1> QED BY <1>1, <1>3, <1>4 DEF HandlerAsks

(* The handler takes the answer, or the end of the command.                  *)
LEMMA HandlerWaitsKeeps == AskpassInv /\ HandlerWaits => AskpassInv'
<1> SUFFICES ASSUME AskpassInv, HandlerWaits PROVE AskpassInv'
  OBVIOUS
<1> USE DEF AskpassInv
<1>1. /\ UNCHANGED <<helper, reply, backlog, server, serial, shown, told, unread, git, stop, cancelled>>
      /\ handler = "waits" /\ server.pc = "wait" /\ server.helper \in Helpers /\ server.id > 0
      /\ (Open \/ Closed)
  BY DEF HandlerWaits, ServerInv, AskpassTypeOK
<1>2. BacklogInv' /\ ReplyInv'
  BY <1>1 DEF BacklogInv, ReplyInv, Unasked, Waiting
<1>3. CASE broker.answer # NoReply /\ handler' = broker.answer /\ UNCHANGED broker
  <2>1. Closed
    BY <1>1, <1>3 DEF Open
  <2>2. handler' \in UserAnswers /\ handler' \notin {"none", "asks", "waits"}
    BY <1>3, <2>1 DEF Closed, UserAnswers, Texts
  <2>3. AskpassTypeOK'
    BY <1>1, <1>3, <2>2 DEF AskpassTypeOK
  <2>4. ServerInv'
    BY <1>1, <1>3, <2>1, <2>2 DEF ServerInv, Closed
  <2>5. IdInv'
    BY <1>1, <1>3, <2>1, <2>2 DEF IdInv, Closed
  <2> QED BY <1>2, <2>3, <2>4, <2>5
<1>4. CASE cancelled /\ handler' = "Cancel" /\ broker' = [broker EXCEPT !.open = 0]
  <2>1. AskpassTypeOK'
    BY <1>1, <1>4 DEF AskpassTypeOK, UserAnswers
  <2>2. broker'.open = 0
    BY <1>4 DEF AskpassTypeOK
  <2>3. ServerInv'
    BY <1>1, <1>4, <2>2 DEF ServerInv
  <2>4. IdInv'
    BY <1>1, <1>4 DEF IdInv
  <2> QED BY <1>2, <2>1, <2>3, <2>4
<1> QED BY <1>3, <1>4 DEF HandlerWaits

(* An open prompt is the one of the helper the server serves, so the answer  *)
(* is told to that helper.                                                   *)
LEMMA UserAnswersKeeps == AskpassInv /\ UserAnswersPrompt => AskpassInv'
<1> SUFFICES ASSUME AskpassInv, UserAnswersPrompt PROVE AskpassInv'
  OBVIOUS
<1> USE DEF AskpassInv
<1> DEFINE h == server.helper
<1>1. PICK answer \in UserAnswers :
        broker' = Answered(answer) /\ told' = [told EXCEPT ![shown.helper] = answer]
  BY DEF UserAnswersPrompt
<1>2. /\ UNCHANGED <<helper, reply, backlog, server, serial, handler, shown, unread, git, stop>>
      /\ cancelled' \in BOOLEAN /\ (cancelled => cancelled')
      /\ broker.open = shown.id /\ broker.open # 0
  BY DEF UserAnswersPrompt, AskpassTypeOK
<1>3. handler = "waits" /\ server.pc = "wait" /\ h \in Helpers /\ server.id > 0
      /\ shown = [id |-> server.id, helper |-> h] /\ Open
  BY <1>2 DEF ServerInv, Closed
<1>4. /\ helper[h].pc \notin {"off", "connects"} /\ reply[h] = NoReply
      /\ told \in [Helpers -> UserAnswers \cup {NoReply}] /\ broker.expected \in Nat
  BY <1>3 DEF ServerInv, AskpassTypeOK
<1>5. told' \in [Helpers -> UserAnswers \cup {NoReply}] /\ told'[h] = answer
      /\ \A g \in Helpers \ {h} : told'[g] = told[g]
  BY <1>1, <1>3, <1>4
<1>6. broker' = [expected |-> broker.expected + 1, open |-> 0, answer |-> answer]
  BY <1>1 DEF Answered
<1>7. AskpassTypeOK'
  BY <1>2, <1>4, <1>5, <1>6 DEF AskpassTypeOK
<1>8. BacklogInv'
  BY <1>2, <1>4, <1>5 DEF BacklogInv, Unasked, Waiting
<1>9. ReplyInv'
  BY <1>2, <1>4, <1>5 DEF ReplyInv
<1>10. ServerInv'
  <2>1. Closed'
    BY <1>2, <1>5, <1>6 DEF Closed
  <2> QED BY <1>2, <1>3, <1>5, <1>6, <2>1 DEF ServerInv, UserAnswers, Texts
<1>11. IdInv'
  BY <1>2, <1>3, <1>4, <1>6 DEF IdInv, Open
<1> QED BY <1>7, <1>8, <1>9, <1>10, <1>11

(* Cancelling, by the user or because the helper is gone, closes what is     *)
(* open without telling anybody an answer.                                   *)
LEMMA CancelKeeps ==
  ASSUME AskpassInv, CancelCommand \/ CancelsWhenDisconnected
  PROVE  AskpassInv'
<1> USE DEF AskpassInv
<1>1. /\ UNCHANGED <<helper, reply, backlog, server, serial, handler, shown, told, unread, git, stop>>
      /\ cancelled' = TRUE
  BY DEF CancelCommand, CancelsWhenDisconnected
<1>2. \/ broker' = broker
      \/ broker.open # 0 /\ broker' = [broker EXCEPT !.open = 0, !.answer = "Cancel"]
  BY DEF CancelCommand, CancelsWhenDisconnected
<1>3. BacklogInv' /\ ReplyInv'
  BY <1>1 DEF BacklogInv, ReplyInv, Unasked, Waiting
<1>4. AskpassTypeOK'
  <2>1. broker \in [expected : Nat, open : Nat, answer : UserAnswers \cup {NoReply}]
    BY DEF AskpassTypeOK
  <2>2. broker' \in [expected : Nat, open : Nat, answer : UserAnswers \cup {NoReply}]
    <3>1. "Cancel" \in UserAnswers
      BY DEF UserAnswers
    <3>2. CASE broker' = [broker EXCEPT !.open = 0, !.answer = "Cancel"]
      BY <2>1, <3>1, <3>2
    <3> QED BY <1>2, <2>1, <3>2
  <2> QED BY <1>1, <2>2 DEF AskpassTypeOK
<1>5. \/ broker' = broker
      \/ broker.open # 0 /\ broker'.open = 0 /\ broker'.answer = "Cancel"
  BY <1>2 DEF AskpassTypeOK
<1>6. ServerInv'
  BY <1>1, <1>5 DEF ServerInv, Open, Closed, UserAnswers
<1>7. IdInv'
  BY <1>1 DEF IdInv
<1> QED BY <1>3, <1>4, <1>6, <1>7

(* The server writes a usable answer of the right kind, or cancels.          *)
LEMMA ReplyKeeps == AskpassInv /\ Reply => AskpassInv'
<1> SUFFICES ASSUME AskpassInv, Reply PROVE AskpassInv'
  OBVIOUS
<1> USE DEF AskpassInv
<1> DEFINE h == server.helper
           r == IF cancelled THEN "cancel" ELSE AnswerFor(helper[h].class, handler)
<1>1. /\ UNCHANGED <<helper, backlog, serial, broker, shown, told, unread, git, stop, cancelled>>
      /\ server' = Listening /\ handler' = "none" /\ handler \in UserAnswers
      /\ reply' = [reply EXCEPT ![h] = r]
  BY DEF Reply
<1>2. /\ h \in Helpers /\ helper[h].pc \notin {"off", "connects"} /\ helper[h].printed = NoReply
      /\ handler \notin {"none", "asks", "waits"} /\ broker.open = 0 /\ server.pc = "wait"
      /\ handler = "Cancel" \/ told[h] = handler
      /\ reply \in [Helpers -> {"text", "yes", "cancel", NoReply}]
  BY <1>1 DEF Reply, ServerInv, UserAnswers, Texts, AskpassTypeOK
<1>3. /\ r \in {"text", "yes", "cancel"}
      /\ r = "text" => helper[h].class = "Text" /\ told[h] = "text"
      /\ r = "yes" => helper[h].class = "Confirm" /\ told[h] = "Confirm"
  BY <1>2 DEF AnswerFor
<1> HIDE DEF r
<1>4. reply' \in [Helpers -> {"text", "yes", "cancel", NoReply}] /\ reply'[h] = r
      /\ \A g \in Helpers \ {h} : reply'[g] = reply[g]
  BY <1>1, <1>2, <1>3
<1>5. AskpassTypeOK'
  BY <1>1, <1>4 DEF AskpassTypeOK, Listening
<1>6. BacklogInv'
  BY <1>1, <1>2, <1>4 DEF BacklogInv, Unasked, Waiting, Listening
<1>7. ReplyInv'
  BY <1>1, <1>2, <1>3, <1>4 DEF ReplyInv
<1>8. ServerInv'
  BY <1>1, <1>2 DEF ServerInv, Listening, UserAnswers, Texts
<1>9. IdInv'
  BY <1>1, <1>2 DEF IdInv, Listening
<1> QED BY <1>5, <1>6, <1>7, <1>8, <1>9

(* Every step of the bridge, its helpers and the user keeps the invariant.   *)
LEMMA AskpassInvKept == AskpassInv /\ [AskpassNext]_askpassVars => AskpassInv'
<1> SUFFICES ASSUME AskpassInv, [AskpassNext]_askpassVars PROVE AskpassInv'
  OBVIOUS
<1>1. CASE AskpassThreads
  BY <1>1, IdleKeeps, AcceptKeeps, ReadPromptKeeps, CancelKeeps, ReplyKeeps, HandlerAsksKeeps,
     HandlerWaitsKeeps DEF AskpassThreads
<1>2. ASSUME NEW h \in Helpers, GitAsks(h) \/ HelperMoves(h) \/ HelperDies(h) PROVE AskpassInv'
  BY <1>2, HelperKeeps, ConnectKeeps DEF HelperMoves
<1>3. CASE GitEnds \/ DropBridge \/ UserAnswersPrompt \/ CancelCommand
  BY <1>3, IdleKeeps, UserAnswersKeeps, CancelKeeps
<1>4. CASE UNCHANGED askpassVars
  BY <1>4 DEF askpassVars, AskpassInv, AskpassTypeOK, BacklogInv, ServerInv, Open, Closed,
     ReplyInv, IdInv, Unasked, Waiting
<1> QED BY <1>1, <1>2, <1>3, <1>4 DEF AskpassNext

(* Whatever helpers Git starts, in whatever order they ask, die and are      *)
(* answered or cancelled: what a helper hands to Git is the usable answer of *)
(* the right kind the user gave to its own question, and bridge and broker   *)
(* count the prompts alike. (askpass.rs: handle_connection; service.rs:      *)
(* PromptBroker.)                                                            *)
THEOREM AnswersReachTheirHelpers == AskpassSpec => []AskpassAnswers
<1>1. AskpassInv => AskpassAnswers
  <2> SUFFICES ASSUME AskpassInv PROVE AskpassAnswers
    OBVIOUS
  <2>1. AnswerReachesItsHelper
    BY DEF AskpassInv, ReplyInv, AnswerReachesItsHelper, AskpassTypeOK, HelperStates
  <2>2. PromptIdsAgree
    BY DEF AskpassInv, IdInv, ServerInv, PromptIdsAgree
  <2> QED BY <2>1, <2>2 DEF AskpassInv, AskpassAnswers
<1> QED BY <1>1, AskpassInvInitial, AskpassInvKept, PTL DEF AskpassSpec

-----------------------------------------------------------------------------
(***************************************************************************)
(* Update.  For any number of processes, releases, chunks and power        *)
(* failures, the executable is always one whole release and a process that *)
(* nobody overtook never takes it back.  The inductive invariant says of   *)
(* each process what its next step relies on: what it verified is what it  *)
(* plans, what it renames is flushed, and without a rename by another      *)
(* process the executable is still the image it runs.                      *)
(***************************************************************************)
USE UpdateAssumption

ProcessState ==
  [pc : {"off", "started", "resolved", "fetched", "planned", "reading", "verified", "flushed",
         "renamed", "done"},
   image : Releases, moved : BOOLEAN, plan : Releases, served : Releases,
   temp : Bytes \cup {NoFile}, flushed : BOOLEAN, owned : BOOLEAN,
   report : {NoReport, "failed", "current", "installed"}]

Sound ==
  {q \in ProcessState :
     /\ q.pc = "reading" => q.temp \in Bytes
     /\ q.pc \in {"verified", "flushed"} => q.temp = Whole(q.plan)
     /\ q.pc = "flushed" => q.flushed
     /\ q.pc \in {"planned", "reading", "verified", "flushed"} => q.plan > q.image}

Durable == [content : {Whole(r) : r \in Releases}, flushed : {TRUE}]

Current(q, file) ==
  q.pc \notin {"off", "done", "renamed"} /\ ~q.moved => file.content[1] = q.image

UpdateInv ==
  /\ latest \in Releases /\ outages \in 0 .. MaxOutages
  /\ process \in [Processes -> Sound]
  /\ exe \in Durable /\ before \subseteq Durable
  /\ \A p \in Processes : Current(process[p], exe)

LEMMA WholeStarts == ASSUME NEW r \in Releases PROVE Whole(r)[1] = r
BY DEF Whole, Releases

LEMMA WholeIsDurable ==
  ASSUME NEW r \in Releases
  PROVE  [content |-> Whole(r), flushed |-> TRUE] \in Durable
<1>1. Whole(r) \in {Whole(s) : s \in Releases} BY Zenon
<1>2. TRUE \in {TRUE} BY Zenon
<1> QED BY <1>1, <1>2, Zenon DEF Durable

LEMMA DurableIsWhole ==
  ASSUME NEW file \in Durable
  PROVE  /\ IsWhole(file.content) /\ file.flushed
         /\ file.content[1] \in Releases
BY WholeStarts DEF Durable, IsWhole

LEMMA IdleIsSound ==
  ASSUME Releases # {} PROVE Idle \in Sound
BY DEF Idle, Sound, ProcessState, Releases

(* A step of one process that leaves the files alone needs only its own     *)
(* next state to be sound.                                                   *)
LEMMA StepKeeps ==
  ASSUME UpdateInv, NEW p \in Processes, NEW pc, NEW next \in Sound,
         Current(next, exe), Step(p, pc, next), OnDisk, latest' = latest, outages' = outages
  PROVE  UpdateInv'
<1>1. process' = [process EXCEPT ![p] = next] BY DEF Step
<1>2. process' \in [Processes -> Sound] BY <1>1 DEF UpdateInv
<1>3. \A q \in Processes : Current(process'[q], exe)
  BY <1>1 DEF UpdateInv
<1> QED BY <1>2, <1>3 DEF UpdateInv, OnDisk, Current

LEMMA EndsIsSound ==
  ASSUME UpdateInv, NEW p \in Processes, NEW report \in {"failed", "current", "installed"}
  PROVE  Ends(p, report) \in Sound /\ Current(Ends(p, report), exe)
<1>1. Idle \in Sound BY IdleIsSound DEF UpdateInv
<1>2. [Idle EXCEPT !.pc = "done", !.report = report, !.owned = TRUE] \in Sound
  BY <1>1 DEF Idle, Sound, ProcessState
<1> QED BY <1>1, <1>2 DEF Ends, Current, Idle

LEMMA FailsKeeps ==
  ASSUME UpdateInv, NEW p \in Processes, NEW pc, Fails(p, pc)
  PROVE  UpdateInv'
BY EndsIsSound, StepKeeps DEF Fails, Dies, Quiet

LEMMA LaunchedIsSound ==
  ASSUME UpdateInv, NEW owned \in BOOLEAN
  PROVE  /\ Launched \in Sound /\ Current(Launched, exe)
         /\ [Launched EXCEPT !.owned = owned] \in Sound
         /\ Current([Launched EXCEPT !.owned = owned], exe)
<1>1. exe.content[1] \in Releases BY DurableIsWhole DEF UpdateInv
<1>2. Idle \in Sound BY IdleIsSound DEF UpdateInv
<1> QED BY <1>1, <1>2 DEF Launched, Idle, Sound, ProcessState, Current

(* The steps of a process before its rename.                                *)
LEMMA ProcessKeeps ==
  ASSUME UpdateInv, NEW p \in Processes,
         \/ Resolve(p) \/ FetchManifest(p) \/ Check(p) \/ Fetch(p) \/ Read(p) \/ Verify(p)
         \/ Flush(p)
  PROVE  UpdateInv'
<1> DEFINE q == process[p]
<1>q. q \in Sound /\ q \in ProcessState /\ Current(q, exe) BY DEF UpdateInv, Sound
<1>1. ASSUME Resolve(p) PROVE UpdateInv'
  <2>1. CASE Fails(p, "started") BY <2>1, FailsKeeps
  <2>2. CASE /\ Step(p, "started", [q EXCEPT !.pc = "resolved"]) /\ OnDisk /\ Quiet
    <3>1. [q EXCEPT !.pc = "resolved"] \in Sound /\ Current([q EXCEPT !.pc = "resolved"], exe)
      BY <1>q, <2>2 DEF Sound, ProcessState, Current, Step
    <3> QED BY <2>2, <3>1, StepKeeps DEF Quiet
  <2> QED BY <1>1, <2>1, <2>2 DEF Resolve
<1>2. ASSUME FetchManifest(p) PROVE UpdateInv'
  <2>1. CASE Fails(p, "resolved") BY <2>1, FailsKeeps
  <2>2. CASE Step(p, "resolved", [q EXCEPT !.pc = "fetched", !.plan = latest]) /\ OnDisk /\ Quiet
    <3> DEFINE next == [q EXCEPT !.pc = "fetched", !.plan = latest]
    <3>1. next \in Sound /\ Current(next, exe)
      BY <1>q, <2>2 DEF Sound, ProcessState, Current, Step, UpdateInv
    <3> QED BY <2>2, <3>1, StepKeeps DEF Quiet
  <2> QED BY <1>2, <2>1, <2>2 DEF FetchManifest
<1>3. ASSUME Check(p) PROVE UpdateInv'
  <2>1. CASE Fails(p, "fetched") BY <2>1, FailsKeeps
  <2>2. CASE q.plan <= q.image /\ Step(p, "fetched", Ends(p, "current")) /\ OnDisk /\ Quiet
    BY <2>2, EndsIsSound, StepKeeps DEF Quiet
  <2>3. CASE ~(q.plan <= q.image) /\ Step(p, "fetched", [q EXCEPT !.pc = "planned"])
               /\ OnDisk /\ Quiet
    <3> DEFINE next == [q EXCEPT !.pc = "planned"]
    <3>1. q.plan \in Nat /\ q.image \in Nat BY <1>q DEF ProcessState, Releases
    <3>2. next \in Sound /\ Current(next, exe)
      BY <1>q, <2>3, <3>1 DEF Sound, ProcessState, Current, Step
    <3> QED BY <2>3, <3>2, StepKeeps DEF Quiet
  <2> QED BY <1>3, <2>1, <2>2, <2>3 DEF Check
<1>4. ASSUME Fetch(p) PROVE UpdateInv'
  <2>1. CASE Fails(p, "planned") BY <2>1, FailsKeeps
  <2>2. CASE Step(p, "planned", [q EXCEPT !.pc = "reading", !.served = latest, !.temp = <<>>])
               /\ OnDisk /\ Quiet
    <3> DEFINE next == [q EXCEPT !.pc = "reading", !.served = latest, !.temp = <<>>]
    <3>1. <<>> \in Bytes BY DEF Bytes
    <3>2. next \in Sound /\ Current(next, exe)
      BY <1>q, <2>2, <3>1 DEF Sound, ProcessState, Current, Step, UpdateInv
    <3> QED BY <2>2, <3>2, StepKeeps DEF Quiet
  <2> QED BY <1>4, <2>1, <2>2 DEF Fetch
<1>5. ASSUME Read(p) PROVE UpdateInv'
  <2>1. CASE Fails(p, "reading") BY <2>1, FailsKeeps
  <2>2. ASSUME NEW chunk \in {q.served, Damaged},
               Step(p, "reading", [q EXCEPT !.temp = Append(@, chunk)]) /\ OnDisk /\ Quiet
        PROVE  UpdateInv'
    <3> DEFINE next == [q EXCEPT !.temp = Append(@, chunk)]
    <3>1. q.pc = "reading" /\ q.temp \in Bytes BY <1>q, <2>2 DEF Sound, Step
    <3>2. chunk \in Releases \cup {Damaged} BY <1>q DEF ProcessState
    <3>3. Append(q.temp, chunk) \in Bytes BY <3>1, <3>2 DEF Bytes
    <3>4. next \in ProcessState BY <1>q, <3>3 DEF ProcessState
    <3>5. next.pc = "reading" /\ next.temp \in Bytes /\ next.plan = q.plan
            /\ next.image = q.image /\ next.moved = q.moved
      BY <1>q, <3>1, <3>3 DEF ProcessState
    <3>6. next \in Sound BY <1>q, <3>1, <3>4, <3>5 DEF Sound
    <3>7. Current(next, exe) BY <1>q, <3>1, <3>5 DEF Current
    <3> QED BY <2>2, <3>6, <3>7, StepKeeps DEF Quiet
  <2> QED BY <1>5, <2>1, <2>2 DEF Read
<1>6. ASSUME Verify(p) PROVE UpdateInv'
  <2>1. CASE Fails(p, "reading") BY <2>1, FailsKeeps
  <2>2. CASE q.temp = Whole(q.plan) /\ Step(p, "reading", [q EXCEPT !.pc = "verified"])
               /\ OnDisk /\ Quiet
    <3> DEFINE next == [q EXCEPT !.pc = "verified"]
    <3>1. next \in Sound /\ Current(next, exe)
      BY <1>q, <2>2 DEF Sound, ProcessState, Current, Step
    <3> QED BY <2>2, <3>1, StepKeeps DEF Quiet
  <2> QED BY <1>6, <2>1, <2>2 DEF Verify
<1>7. ASSUME Flush(p) PROVE UpdateInv'
  <2>1. CASE Fails(p, "verified") BY <2>1, FailsKeeps
  <2>2. CASE Step(p, "verified", [q EXCEPT !.pc = "flushed", !.flushed = TRUE])
               /\ OnDisk /\ Quiet
    <3> DEFINE next == [q EXCEPT !.pc = "flushed", !.flushed = TRUE]
    <3>1. next \in Sound /\ Current(next, exe)
      BY <1>q, <2>2 DEF Sound, ProcessState, Current, Step
    <3> QED BY <2>2, <3>1, StepKeeps DEF Quiet
  <2> QED BY <1>7, <2>1, <2>2 DEF Flush
<1> QED BY <1>1, <1>2, <1>3, <1>4, <1>5, <1>6, <1>7

(* The rename: the new file is whole and flushed, and whoever runs the old  *)
(* one has been overtaken.                                                   *)
LEMMA RenameIsSound ==
  ASSUME UpdateInv, NEW p \in Processes, process[p].pc = "flushed",
         exe' = [content |-> process[p].temp, flushed |-> process[p].flushed],
         process' = Overtaken(p)
  PROVE  /\ exe' = [content |-> Whole(process[p].plan), flushed |-> TRUE]
         /\ exe' \in Durable /\ process' \in [Processes -> Sound]
         /\ \A q \in Processes : Current(process'[q], exe')
<1>1. /\ process[p] \in Sound /\ process[p].temp = Whole(process[p].plan)
      /\ process[p].plan \in Releases /\ process[p].flushed = TRUE
  BY DEF UpdateInv, Sound, ProcessState
<1>2. exe' = [content |-> Whole(process[p].plan), flushed |-> TRUE] BY <1>1
<1>3. exe' \in Durable BY <1>1, <1>2, WholeIsDurable
<1>4. ASSUME NEW q \in Processes PROVE process'[q] \in Sound /\ Current(process'[q], exe')
  <2>1. process[q] \in Sound /\ process[q] \in ProcessState BY DEF UpdateInv, Sound
  <2>2. CASE q = p
    <3>1. process'[q] = [process[p] EXCEPT !.pc = "renamed", !.temp = NoFile]
      BY <2>2 DEF Overtaken
    <3> QED BY <2>1, <2>2, <3>1 DEF Sound, ProcessState, Current
  <2>3. CASE q # p
    <3> DEFINE moved == process[q].moved \/ process[q].pc # "off"
    <3>1. process'[q] = [process[q] EXCEPT !.moved = moved] BY <2>3 DEF Overtaken
    <3>2. moved \in BOOLEAN OBVIOUS
    <3> HIDE DEF moved
    <3>3. process'[q] \in Sound BY <2>1, <3>1, <3>2 DEF Sound, ProcessState
    <3>4. process'[q].pc = process[q].pc /\ process'[q].moved = moved
      BY <2>1, <3>1 DEF ProcessState
    <3> QED BY <3>3, <3>4 DEF Current, moved
  <2> QED BY <2>2, <2>3
<1>5. process' \in [Processes -> Sound] BY <1>4 DEF Overtaken
<1> QED BY <1>2, <1>3, <1>4, <1>5

LEMMA ReplaceKeeps ==
  ASSUME UpdateInv, NEW p \in Processes, Replace(p)
  PROVE  UpdateInv'
<1>1. CASE Fails(p, "flushed") BY <1>1, FailsKeeps
<1>2. CASE /\ process[p].pc = "flushed"
           /\ exe' = [content |-> process[p].temp, flushed |-> process[p].flushed]
           /\ before' = before \cup {exe'} /\ process' = Overtaken(p)
           /\ UNCHANGED <<latest, outages>>
  <2>1. /\ exe' \in Durable /\ process' \in [Processes -> Sound]
        /\ \A q \in Processes : Current(process'[q], exe')
    BY <1>2, RenameIsSound
  <2> QED BY <1>2, <2>1 DEF UpdateInv, Current
<1> QED BY <1>1, <1>2 DEF Replace

(* The directory is flushed: only the executable's file is left.            *)
LEMMA FlushDirectoryKeeps ==
  ASSUME UpdateInv, NEW p \in Processes, FlushDirectory(p)
  PROVE  UpdateInv'
<1>1. CASE Fails(p, "renamed") BY <1>1, FailsKeeps
<1>2. CASE /\ Step(p, "renamed", Ends(p, "installed"))
           /\ before' = {exe} /\ UNCHANGED exe /\ Quiet
  <2>1. Ends(p, "installed") \in Sound /\ Current(Ends(p, "installed"), exe) BY EndsIsSound
  <2>2. process' \in [Processes -> Sound] BY <1>2, <2>1 DEF UpdateInv, Step
  <2>3. \A q \in Processes : Current(process'[q], exe) BY <1>2, <2>1 DEF UpdateInv, Step
  <2> QED BY <1>2, <2>2, <2>3 DEF UpdateInv, Quiet, Current
<1> QED BY <1>1, <1>2 DEF FlushDirectory

(* The application's task and the environment.                               *)
LEMMA OthersKeep ==
  ASSUME UpdateInv,
         \/ RequestCancel \/ PollUpdate \/ Relaunch \/ Publish \/ PowerFails
         \/ \E p \in Processes : Kill(p) \/ RunInShell(p) \/ StartUpdate(p)
  PROVE  UpdateInv'
<1>i. Idle \in Sound /\ Current(Idle, exe)
  BY IdleIsSound DEF UpdateInv, Current, Idle
<1>1. CASE RequestCancel BY <1>1 DEF RequestCancel, UpdateInv, OnDisk, Current
<1>2. ASSUME PollUpdate PROVE UpdateInv'
  <2>1. process' \in [Processes -> Sound] BY <1>2, <1>i DEF PollUpdate, UpdateInv
  <2>2. \A q \in Processes : process'[q] \in {process[q], Idle}
    BY <1>2 DEF PollUpdate, UpdateInv
  <2>3. \A q \in Processes : Current(process'[q], exe) BY <2>2, <1>i DEF UpdateInv
  <2> QED BY <1>2, <2>1, <2>3 DEF PollUpdate, UpdateInv, OnDisk, Current
<1>3. ASSUME Relaunch PROVE UpdateInv'
  <2>1. ASSUME NEW q \in Processes
        PROVE  process'[q] \in Sound /\ Current(process'[q], exe)
    <3>1. process[q] \in Sound /\ Current(process[q], exe) BY DEF UpdateInv
    <3>2. process'[q] = [process[q] EXCEPT !.owned = FALSE] BY <1>3 DEF Relaunch
    <3> QED BY <3>1, <3>2 DEF Sound, ProcessState, Current
  <2>2. process' \in [Processes -> Sound] BY <1>3, <2>1 DEF Relaunch
  <2> QED BY <1>3, <2>1, <2>2 DEF Relaunch, UpdateInv, OnDisk, Current
<1>4. CASE Publish
  <2>1. latest' \in Releases BY <1>4 DEF Publish, UpdateInv, Releases
  <2> QED BY <1>4, <2>1 DEF Publish, UpdateInv, OnDisk, Current
<1>5. ASSUME PowerFails PROVE UpdateInv'
  <2>1. PICK file \in before : \E content : Survives(file, content)
                                 /\ exe' = [content |-> content, flushed |-> TRUE]
    BY <1>5 DEF PowerFails
  <2>2. file \in Durable BY DEF UpdateInv
  <2>3. exe' \in Durable BY <2>1, <2>2 DEF Durable, Survives
  <2>4. outages' \in 0 .. MaxOutages BY <1>5 DEF PowerFails, UpdateInv
  <2>5. process' \in [Processes -> Sound] /\ \A q \in Processes : Current(process'[q], exe')
    BY <1>5, <1>i DEF PowerFails, Current, Idle
  <2> QED BY <1>5, <2>3, <2>4, <2>5 DEF PowerFails, UpdateInv, Current
<1>6. ASSUME NEW p \in Processes, Kill(p) PROVE UpdateInv'
  BY <1>6, <1>i, StepKeeps DEF Kill, Quiet
<1>7. ASSUME NEW p \in Processes, RunInShell(p) PROVE UpdateInv'
  <2>1. Launched \in Sound /\ Current(Launched, exe) BY LaunchedIsSound
  <2> QED BY <1>7, <2>1, StepKeeps DEF RunInShell, Quiet
<1>8. ASSUME NEW p \in Processes, StartUpdate(p) PROVE UpdateInv'
  <2>1. CASE process' = process
    BY <1>8, <2>1 DEF StartUpdate, UpdateInv, OnDisk, Current
  <2>2. CASE process' = [process EXCEPT ![p] = [Launched EXCEPT !.owned = TRUE]]
    <3>1. [Launched EXCEPT !.owned = TRUE] \in Sound
            /\ Current([Launched EXCEPT !.owned = TRUE], exe)
      BY LaunchedIsSound
    <3>2. Step(p, process[p].pc, [Launched EXCEPT !.owned = TRUE]) BY <2>2 DEF Step
    <3> QED BY <1>8, <3>1, <3>2, StepKeeps DEF StartUpdate
  <2> QED BY <1>8, <2>1, <2>2 DEF StartUpdate
<1> QED BY <1>1, <1>2, <1>3, <1>4, <1>5, <1>6, <1>7, <1>8

LEMMA UpdateInvInitial == UpdateInit => UpdateInv
<1> SUFFICES ASSUME UpdateInit PROVE UpdateInv OBVIOUS
<1>1. Idle \in Sound BY IdleIsSound DEF UpdateInit
<1>2. exe \in Durable
  <2>1. PICK r \in 1 .. latest : exe = [content |-> Whole(r), flushed |-> TRUE]
    BY DEF UpdateInit
  <2>2. latest \in Releases BY DEF UpdateInit
  <2>3. r \in Releases BY <2>1, <2>2 DEF Releases
  <2> QED BY <2>1, <2>3, WholeIsDurable
<1>3. outages \in 0 .. MaxOutages BY DEF UpdateInit
<1> QED BY <1>1, <1>2, <1>3 DEF UpdateInit, UpdateInv, Current, Idle

LEMMA UpdateInvInductive == UpdateInv /\ [UpdateNext]_updateVars => UpdateInv'
<1> SUFFICES ASSUME UpdateInv, [UpdateNext]_updateVars PROVE UpdateInv' OBVIOUS
<1>1. CASE UNCHANGED updateVars BY <1>1 DEF updateVars, UpdateInv, Current
<1>2. CASE UpdateNext
  BY <1>2, ProcessKeeps, ReplaceKeeps, FlushDirectoryKeeps, OthersKeep DEF UpdateNext
<1> QED BY <1>1, <1>2

LEMMA UpdateInvariant == UpdateSpec => []UpdateInv
BY UpdateInvInitial, UpdateInvInductive, PTL DEF UpdateSpec

(* A process the application started has ended, unless it is the one the     *)
(* task waits for.                                                           *)
Over(q) == q.owned => q.pc \in {"off", "done"}
TaskInv ==
  /\ task \in [phase : {"idle", "running"}, child : Processes \cup {NoReport}, stale : BOOLEAN,
               cancelled : BOOLEAN, told : {NoReport, "cancelled", "updated", "failed"}]
  /\ \A p \in Processes : task.phase = "idle" \/ p # task.child => Over(process[p])

LEMMA IdleIsOver == Over(Idle) /\ Over(Launched)
BY DEF Over, Idle, Launched

LEMMA EndsIsOver == ASSUME NEW p, NEW report PROVE Over(Ends(p, report))
BY DEF Over, Ends, Idle

(* A step of one process starts nothing the application owns.                *)
LEMMA StepKeepsTask ==
  ASSUME TaskInv, UpdateInv, NEW p \in Processes, NEW pc, NEW next, Step(p, pc, next), task' = task,
         Over(next) \/ (next.owned = process[p].owned /\ pc \notin {"off", "done"})
  PROVE  TaskInv'
<1>1. process' = [process EXCEPT ![p] = next] /\ process[p].pc = pc
  BY DEF Step
<1>2. \A q \in Processes : Over(process[q]) => Over(process'[q])
  BY <1>1 DEF Over, UpdateInv
<1> QED BY <1>2 DEF TaskInv, Over

LEMMA FailsKeepsTask ==
  ASSUME TaskInv, UpdateInv, NEW p \in Processes, NEW pc, Fails(p, pc)
  PROVE  TaskInv'
BY EndsIsOver, StepKeepsTask DEF Fails, Dies, Quiet

(* The steps of a process.                                                   *)
LEMMA ProcessKeepsTask ==
  ASSUME TaskInv, UpdateInv, NEW p \in Processes,
         \/ Resolve(p) \/ FetchManifest(p) \/ Check(p) \/ Fetch(p) \/ Read(p) \/ Verify(p)
         \/ Flush(p) \/ FlushDirectory(p) \/ Kill(p) \/ RunInShell(p)
  PROVE  TaskInv'
<1> DEFINE q == process[p]
<1>q. q \in ProcessState BY DEF UpdateInv, Sound
<1>1. CASE \E pc : Fails(p, pc) BY <1>1, FailsKeepsTask
<1>2. ASSUME NEW pc, NEW next, Step(p, pc, next), task' = task,
             next.owned = q.owned, pc \notin {"off", "done"}
      PROVE  TaskInv'
  BY <1>2, StepKeepsTask
<1>3. ASSUME NEW pc, NEW next, Step(p, pc, next), task' = task, Over(next)
      PROVE  TaskInv'
  BY <1>3, StepKeepsTask
<1>4. CASE Resolve(p)
  BY <1>1, <1>2, <1>4, <1>q DEF Resolve, Quiet, ProcessState
<1>5. CASE FetchManifest(p)
  <2> DEFINE next == [q EXCEPT !.pc = "fetched", !.plan = latest]
  <2>1. next.owned = q.owned BY <1>q DEF ProcessState
  <2>2. Fails(p, "resolved") \/ (Step(p, "resolved", next) /\ task' = task)
    BY <1>5 DEF FetchManifest, Quiet
  <2> HIDE DEF next
  <2> QED BY <2>1, <2>2, StepKeepsTask, FailsKeepsTask
<1>6. CASE Check(p)
  BY <1>1, <1>2, <1>3, <1>6, <1>q, EndsIsOver DEF Check, Quiet, ProcessState
<1>7. CASE Fetch(p)
  <2> DEFINE next == [q EXCEPT !.pc = "reading", !.served = latest, !.temp = <<>>]
  <2>1. next.owned = q.owned BY <1>q DEF ProcessState
  <2>2. Fails(p, "planned") \/ (Step(p, "planned", next) /\ task' = task)
    BY <1>7 DEF Fetch, Quiet
  <2> HIDE DEF next
  <2> QED BY <2>1, <2>2, StepKeepsTask, FailsKeepsTask
<1>8. CASE Read(p)
  BY <1>1, <1>2, <1>8, <1>q DEF Read, Quiet, ProcessState
<1>9. CASE Verify(p)
  BY <1>1, <1>2, <1>9, <1>q DEF Verify, Quiet, ProcessState
<1>10. CASE Flush(p)
  <2> DEFINE next == [q EXCEPT !.pc = "flushed", !.flushed = TRUE]
  <2>1. next.owned = q.owned BY <1>q DEF ProcessState
  <2>2. Fails(p, "verified") \/ (Step(p, "verified", next) /\ task' = task)
    BY <1>10 DEF Flush, Quiet
  <2> HIDE DEF next
  <2> QED BY <2>1, <2>2, StepKeepsTask, FailsKeepsTask
<1>11. CASE FlushDirectory(p)
  BY <1>1, <1>3, <1>11, EndsIsOver DEF FlushDirectory, Quiet
<1>12. CASE Kill(p) \/ RunInShell(p)
  BY <1>3, <1>12, IdleIsOver DEF Kill, RunInShell, Quiet
<1> QED BY <1>4, <1>5, <1>6, <1>7, <1>8, <1>9, <1>10, <1>11, <1>12

(* The rename leaves every process where it is, or ends it.                  *)
LEMMA ReplaceKeepsTask ==
  ASSUME TaskInv, UpdateInv, NEW p \in Processes, Replace(p)
  PROVE  TaskInv'
<1>1. CASE Fails(p, "flushed") BY <1>1, FailsKeepsTask
<1>2. CASE process[p].pc = "flushed" /\ process' = Overtaken(p) /\ task' = [task EXCEPT !.stale = TRUE]
  <2>1. ASSUME NEW q \in Processes PROVE Over(process[q]) => Over(process'[q])
    <3>1. process[q] \in ProcessState BY DEF UpdateInv, Sound
    <3>2. q # p => process'[q] = [process[q] EXCEPT !.moved = @ \/ process[q].pc # "off"]
      BY <1>2 DEF Overtaken
    <3>3. q = p => process'[q] = [process[p] EXCEPT !.pc = "renamed", !.temp = NoFile]
      BY <1>2 DEF Overtaken
    <3>4. CASE q = p BY <1>2, <3>1, <3>3, <3>4 DEF Over, ProcessState
    <3>5. CASE q # p
      <4>1. process'[q].pc = process[q].pc /\ process'[q].owned = process[q].owned
        BY <3>1, <3>2, <3>5 DEF ProcessState
      <4> QED BY <4>1 DEF Over
    <3> QED BY <3>4, <3>5
  <2>2. task' \in [phase : {"idle", "running"}, child : Processes \cup {NoReport}, stale : BOOLEAN,
                   cancelled : BOOLEAN, told : {NoReport, "cancelled", "updated", "failed"}]
        /\ task'.phase = task.phase /\ task'.child = task.child
    BY <1>2 DEF TaskInv
  <2> QED BY <2>1, <2>2 DEF TaskInv
<1> QED BY <1>1, <1>2 DEF Replace

(* The task waits for the process it starts, and tells its end only when it  *)
(* has ended or was killed.                                                  *)
LEMMA ApplicationKeepsTask ==
  ASSUME TaskInv, UpdateInv,
         \/ RequestCancel \/ PollUpdate \/ Relaunch \/ Publish \/ PowerFails
         \/ \E p \in Processes : StartUpdate(p)
  PROVE  TaskInv'
<1>t. NoTask \in [phase : {"idle", "running"}, child : Processes \cup {NoReport}, stale : BOOLEAN,
                  cancelled : BOOLEAN, told : {NoReport, "cancelled", "updated", "failed"}]
  BY DEF NoTask
<1>p. process \in [Processes -> ProcessState] BY DEF UpdateInv, Sound
<1>1. CASE RequestCancel BY <1>1 DEF RequestCancel, TaskInv
<1>2. CASE Publish BY <1>2 DEF Publish, TaskInv
<1>3. CASE PowerFails
  BY <1>3, <1>t, IdleIsOver DEF PowerFails, TaskInv
<1>4. CASE Relaunch
  <2>1. \A p \in Processes : process'[p].owned = FALSE
    BY <1>4, <1>p DEF Relaunch, ProcessState
  <2> QED BY <1>4, <1>t, <2>1 DEF Relaunch, TaskInv, Over
<1>5. CASE PollUpdate
  <2>1. /\ task' \in [phase : {"idle", "running"}, child : Processes \cup {NoReport}, stale : BOOLEAN,
                      cancelled : BOOLEAN, told : {NoReport, "cancelled", "updated", "failed"}]
        /\ task.phase = "running"
    BY <1>5 DEF PollUpdate, Tell, TaskInv
  <2>2. ASSUME NEW p \in Processes PROVE Over(process'[p])
    <3>1. CASE p # task.child
      BY <1>5, <1>p, <2>1, <3>1 DEF PollUpdate, TaskInv
    <3>2. CASE p = task.child
      BY <1>5, <1>p, <3>2, IdleIsOver DEF PollUpdate, Over
    <3> QED BY <3>1, <3>2
  <2> QED BY <2>1, <2>2 DEF TaskInv
<1>6. ASSUME NEW p \in Processes, StartUpdate(p) PROVE TaskInv'
  <2>1. CASE task.stale
    BY <1>6, <2>1 DEF StartUpdate, Tell, TaskInv
  <2>2. CASE ~task.stale
    <3>1. /\ task' = [task EXCEPT !.phase = "running", !.child = p, !.told = NoReport]
          /\ task.phase = "idle"
          /\ process' = [process EXCEPT ![p] = [Launched EXCEPT !.owned = TRUE]]
      BY <1>6, <2>2 DEF StartUpdate
    <3>2. \A q \in Processes \ {p} : process'[q] = process[q]
      BY <1>p, <3>1
    <3>3. /\ task' \in [phase : {"idle", "running"}, child : Processes \cup {NoReport}, stale : BOOLEAN,
                        cancelled : BOOLEAN, told : {NoReport, "cancelled", "updated", "failed"}]
          /\ task'.phase = "running" /\ task'.child = p
      BY <3>1 DEF TaskInv
    <3> QED BY <3>1, <3>2, <3>3 DEF TaskInv
  <2> QED BY <2>1, <2>2
<1> QED BY <1>1, <1>2, <1>3, <1>4, <1>5, <1>6

LEMMA TaskInvariant == UpdateSpec => []TaskInv
<1>1. UpdateInit => TaskInv
  BY IdleIsOver DEF UpdateInit, TaskInv, NoTask
<1>2. UpdateInv /\ TaskInv /\ [UpdateNext]_updateVars => TaskInv'
  <2> SUFFICES ASSUME UpdateInv, TaskInv, [UpdateNext]_updateVars PROVE TaskInv'
    OBVIOUS
  <2>1. CASE UNCHANGED updateVars BY <2>1 DEF updateVars, TaskInv
  <2>2. CASE UpdateNext
    BY <2>2, ProcessKeepsTask, ReplaceKeepsTask, ApplicationKeepsTask DEF UpdateNext
  <2> QED BY <2>1, <2>2
<1> QED BY <1>1, <1>2, UpdateInvariant, PTL DEF UpdateSpec

(* The executable is one whole release at every moment, however many         *)
(* processes replace it, wherever they fail or are killed, and whatever part *)
(* of an unflushed file a power failure leaves; and once the application was *)
(* told that its update ended, the process it started has ended. (install.rs,*)
(* update_tasks.rs.)                                                         *)
THEOREM UpdateStaysSafe == UpdateSpec => []UpdateSafe
<1>1. UpdateInv => UpdateTypeOK BY DEF UpdateInv, UpdateTypeOK, Sound, ProcessState
<1>2. UpdateInv => ExecutableWhole BY DurableIsWhole DEF UpdateInv, ExecutableWhole
<1>3. TaskInv => ToldIsOver BY DEF TaskInv, ToldIsOver, Over
<1>4. UpdateInv /\ TaskInv => UpdateSafe BY <1>1, <1>2, <1>3 DEF UpdateSafe
<1> QED BY <1>4, UpdateInvariant, TaskInvariant, PTL

(* A rename installs a newer release than the process runs, and one older    *)
(* than there was only after another process was faster.                     *)
THEOREM OnlyOvertakenDowngrades == UpdateSpec => NoDowngrade
<1> DEFINE Forward(p) ==
      process[p].pc # "renamed" /\ process'[p].pc = "renamed" =>
        /\ exe'.content[1] > process[p].image
        /\ exe'.content[1] <= exe.content[1] => process[p].moved
<1>1. ASSUME UpdateInv, UpdateNext, NEW p \in Processes,
             process[p].pc # "renamed", process'[p].pc = "renamed"
      PROVE  Replace(p) /\ process[p].pc = "flushed" /\ exe' = [content |-> process[p].temp,
                                                flushed |-> process[p].flushed]
                        /\ process' = Overtaken(p)
  <2>1. process \in [Processes -> Sound] /\ process[p] \in ProcessState
    BY <1>1 DEF UpdateInv, Sound
  <2>2. Idle.pc # "renamed" /\ Launched.pc # "renamed"
          /\ [Launched EXCEPT !.owned = TRUE].pc # "renamed"
    BY DEF Idle, Launched
  <2>3. \A q, r : Ends(q, r).pc # "renamed" BY DEF Ends, Idle
  <2>4. ASSUME NEW q \in Processes, NEW pc, NEW next, Step(q, pc, next), next.pc # "renamed"
        PROVE  FALSE
    BY <1>1, <2>1, <2>4 DEF Step
  <2>5. \A q \in Processes : \A pc : ~Fails(q, pc) BY <2>3, <2>4 DEF Fails, Dies
  <2>6. ASSUME NEW q \in Processes PROVE
          /\ ~Resolve(q) /\ ~FetchManifest(q) /\ ~Check(q) /\ ~Fetch(q) /\ ~Read(q)
          /\ ~Verify(q) /\ ~Flush(q) /\ ~FlushDirectory(q) /\ ~Kill(q) /\ ~RunInShell(q)
    <3>1. process[q] \in ProcessState BY <2>1 DEF Sound
    <3>2. ~Resolve(q) /\ ~FetchManifest(q)
      BY <2>4, <2>5, <3>1 DEF Resolve, FetchManifest, ProcessState
    <3>3. ~Check(q) BY <2>3, <2>4, <2>5, <3>1 DEF Check, ProcessState
    <3>4. ~Fetch(q) /\ ~Verify(q) /\ ~Flush(q)
      BY <2>4, <2>5, <3>1 DEF Fetch, Verify, Flush, ProcessState
    <3>5. ~Read(q) BY <2>4, <2>5, <3>1 DEF Read, Step, ProcessState
    <3>6. ~FlushDirectory(q) /\ ~Kill(q) /\ ~RunInShell(q)
      BY <2>2, <2>3, <2>4, <2>5 DEF FlushDirectory, Kill, RunInShell
    <3> QED BY <3>2, <3>3, <3>4, <3>5, <3>6
  <2>7. \A q \in Processes : ~StartUpdate(q) BY <1>1, <2>1, <2>2 DEF StartUpdate
  <2>8. ~RequestCancel /\ ~Publish /\ ~PowerFails
    BY <1>1, <2>2 DEF RequestCancel, Publish, PowerFails
  <2>9. ~PollUpdate BY <1>1, <2>1, <2>2 DEF PollUpdate
  <2>10. ~Relaunch BY <1>1, <2>1 DEF Relaunch, ProcessState
  <2>11. PICK q \in Processes : Replace(q)
    BY <1>1, <2>6, <2>7, <2>8, <2>9, <2>10 DEF UpdateNext
  <2>12. /\ process[q].pc = "flushed" /\ process' = Overtaken(q)
         /\ exe' = [content |-> process[q].temp, flushed |-> process[q].flushed]
    BY <2>5, <2>11 DEF Replace
  <2>13. q = p BY <1>1, <2>1, <2>12 DEF Overtaken, ProcessState
  <2> QED BY <2>11, <2>12, <2>13
<1>2. ASSUME UpdateInv, UpdateNext, NEW p \in Processes PROVE Forward(p)
  <2> SUFFICES ASSUME process[p].pc # "renamed", process'[p].pc = "renamed"
               PROVE  /\ exe'.content[1] > process[p].image
                      /\ exe'.content[1] <= exe.content[1] => process[p].moved
    OBVIOUS
  <2>1. process[p].pc = "flushed" /\ exe' = [content |-> Whole(process[p].plan), flushed |-> TRUE]
    BY <1>1, <1>2, RenameIsSound
  <2>2. /\ process[p].plan \in Releases /\ process[p].image \in Releases
        /\ process[p].plan > process[p].image /\ process[p].moved \in BOOLEAN
    BY <1>2, <2>1 DEF UpdateInv, Sound, ProcessState
  <2>3. exe'.content[1] = process[p].plan BY <2>1, <2>2, WholeStarts
  <2>4. ~process[p].moved => exe.content[1] = process[p].image
    BY <1>2, <2>1 DEF UpdateInv, Current
  <2> QED BY <2>2, <2>3, <2>4 DEF Releases
<1>3. UpdateInv /\ [UpdateNext]_updateVars
        => [\A p \in Processes : Forward(p)]_updateVars
  BY <1>2 DEF updateVars
<1> QED BY <1>3, UpdateInvariant, PTL DEF UpdateSpec, NoDowngrade
=============================================================================
