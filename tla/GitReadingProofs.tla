-------------------------- MODULE GitReadingProofs --------------------------
(***************************************************************************)
(* Reads of a repository, for every set of paths, every number of workers   *)
(* and every number of writes between two commands.                         *)
(***************************************************************************)
EXTENDS GitReading, RetainingProofs, FiniteSetTheorems

(***************************************************************************)
(* Ascending and what is mapped over it.                                    *)
(***************************************************************************)
Ascends(s, ns) ==
  /\ s \in [1..Cardinality(ns) -> ns]
  /\ \A i, j \in DOMAIN s : i < j => s[i] < s[j]
  /\ \A k \in ns : \E i \in DOMAIN s : s[i] = k

\* The least number, and then the others in their order.
LEMMA AscendsFromLeast ==
  ASSUME NEW ns, ns \subseteq Nat, IsFiniteSet(ns), NEW m \in ns, \A k \in ns : m <= k,
         NEW s, Ascends(s, ns \ {m})
  PROVE  \E t : Ascends(t, ns)
<1> DEFINE n == Cardinality(ns)
           t == [i \in 1..n |-> IF i = 1 THEN m ELSE s[i - 1]]
<1>1. n \in Nat /\ n # 0 /\ Cardinality(ns \ {m}) = n - 1
  BY FS_CardinalityType, FS_RemoveElement, FS_EmptySet
<1>2. s \in [1..(n - 1) -> ns \ {m}]
  BY <1>1 DEF Ascends
<1>3. \A i \in 1..n : i # 1 => i - 1 \in 1..(n - 1) /\ s[i - 1] \in ns /\ m < s[i - 1]
  <2> HIDE DEF n
  <2> TAKE i \in 1..n
  <2>1. i # 1 => i - 1 \in 1..(n - 1)
    BY <1>1
  <2>2. i # 1 => s[i - 1] \in ns /\ s[i - 1] # m
    BY <1>2, <2>1
  <2>3. i # 1 => m <= s[i - 1] /\ s[i - 1] \in Nat /\ m \in Nat
    BY <2>2
  <2> QED
    BY <2>1, <2>2, <2>3
<1> HIDE DEF n
<1>4. t \in [1..n -> ns]
  BY <1>3
<1>5. \A i, j \in 1..n : i < j => t[i] < t[j]
  <2> TAKE i, j \in 1..n
  <2> HAVE i < j
  <2>1. j # 1 /\ t[j] = s[j - 1]
    BY <1>1
  <2>2. CASE i = 1
    BY <1>3, <2>1, <2>2
  <2>3. CASE i # 1
    <3>1. i - 1 \in 1..(n - 1) /\ j - 1 \in 1..(n - 1) /\ i - 1 < j - 1
      BY <1>1, <2>1, <2>3
    <3>2. s[i - 1] < s[j - 1]
      BY <1>2, <3>1 DEF Ascends
    <3> QED
      BY <2>1, <2>3, <3>2
  <2> QED
    BY <2>2, <2>3
<1>6. ASSUME NEW k \in ns PROVE \E i \in 1..n : t[i] = k
  <2>1. CASE k = m
    <3>1. 1 \in 1..n
      BY <1>1
    <3> QED
      BY <2>1, <3>1
  <2>2. CASE k # m
    <3>1. PICK i \in 1..(n - 1) : s[i] = k
      BY <1>2, <2>2 DEF Ascends
    <3>2. i + 1 \in 1..n /\ i + 1 # 1 /\ (i + 1) - 1 = i
      BY <1>1
    <3> QED
      BY <3>1, <3>2
  <2> QED
    BY <2>1, <2>2
<1>7. DOMAIN t = 1..n
  OBVIOUS
<1> HIDE DEF t
<1>8. Ascends(t, ns)
  BY <1>4, <1>5, <1>6, <1>7 DEF Ascends, n
<1> QED
  BY <1>8

LEMMA AscendingExists ==
  ASSUME NEW ns, ns \subseteq Nat, IsFiniteSet(ns)
  PROVE  \E s : Ascends(s, ns)
<1> DEFINE Misses(n) == \E ms : /\ ms \subseteq Nat /\ IsFiniteSet(ms) /\ Cardinality(ms) = n
                               /\ ~\E s : Ascends(s, ms)
           T == {n \in Nat : Misses(n)}
<1>1. T = {}
  <2> SUFFICES ASSUME T # {} PROVE FALSE
    OBVIOUS
  <2>1. PICK n \in T : \A m \in T : n <= m
    <3> T \subseteq Nat
      OBVIOUS
    <3> HIDE DEF T
    <3> QED
      BY LeastNatural
  <2>2. n \in Nat /\ \A k \in Nat : k < n => ~Misses(k)
    BY <2>1
  <2>3. PICK ms : /\ ms \subseteq Nat /\ IsFiniteSet(ms) /\ Cardinality(ms) = n
                  /\ ~\E s : Ascends(s, ms)
    BY <2>1
  <2>4. ms # {}
    <3>1. Cardinality({}) = 0 /\ 1..0 = {}
      BY FS_EmptySet
    <3>2. [i \in {} |-> 0] \in [{} -> {}] /\ DOMAIN [i \in {} |-> 0] = {}
      OBVIOUS
    <3>3. Ascends([i \in {} |-> 0], {})
      BY <3>1, <3>2 DEF Ascends
    <3> QED
      BY <2>3, <3>3
  <2>5. PICK m \in ms : \A k \in ms : m <= k
    BY <2>3, <2>4, LeastNatural
  <2>6. IsFiniteSet(ms \ {m}) /\ Cardinality(ms \ {m}) = n - 1 /\ n # 0
    BY <2>3, <2>4, FS_RemoveElement, FS_EmptySet
  <2>7. n - 1 \in Nat /\ n - 1 < n
    BY <2>2, <2>6
  <2>8. \E s : Ascends(s, ms \ {m})
    BY <2>2, <2>3, <2>6, <2>7
  <2> QED
    BY <2>3, <2>5, <2>8, AscendsFromLeast
<1>2. Cardinality(ns) \in Nat
  BY FS_CardinalityType
<1> QED
  BY <1>1, <1>2

\* Ascending has every number of the set and no other.
LEMMA AscendingHasAll ==
  ASSUME NEW ns, ns \subseteq Nat, IsFiniteSet(ns)
  PROVE  /\ Ascending(ns) \in [1..Cardinality(ns) -> ns]
         /\ \A i, j \in 1..Cardinality(ns) : i < j => Ascending(ns)[i] < Ascending(ns)[j]
         /\ \A k \in ns : \E i \in 1..Cardinality(ns) : Ascending(ns)[i] = k
<1> DEFINE n == Cardinality(ns)
           s == Ascending(ns)
<1>1. n \in Nat
  BY FS_CardinalityType
<1>2. \E t \in [1..n -> ns] : \A i, j \in DOMAIN t : i < j => t[i] < t[j]
  BY AscendingExists DEF Ascends
<1>3. s \in [1..n -> ns] /\ \A i, j \in DOMAIN s : i < j => s[i] < s[j]
  BY <1>2 DEF Ascending
<1> HIDE DEF s, n
<1>4. \A i, j \in 1..n : s[i] = s[j] => i = j
  <2> TAKE i, j \in 1..n
  <2>1. s[i] \in Nat /\ s[j] \in Nat /\ i \in DOMAIN s /\ j \in DOMAIN s
    BY <1>3
  <2>2. i < j \/ j < i \/ i = j
    BY <1>1
  <2> QED
    BY <1>3, <2>1, <2>2
<1>5. s \in Injection(1..n, ns)
  BY <1>3, <1>4 DEF Injection, IsInjective
<1>6. IsFiniteSet(1..n) /\ Cardinality(1..n) = n
  BY <1>1, FS_Interval
<1>7. IsFiniteSet(ns) /\ Cardinality(1..n) = Cardinality(ns)
  BY <1>6 DEF n
<1>8. s \in Surjection(1..n, ns)
  BY <1>5, <1>7, FS_Injection
<1>9. \A k \in ns : \E i \in 1..n : s[i] = k
  BY <1>8 DEF Surjection
<1> QED
  BY <1>3, <1>9 DEF s, n

\* q is g over the numbers in their order.
Maps(q, g, ns) == q = [i \in 1..Cardinality(ns) |-> g[Ascending(ns)[i]]]

LEMMA MapsInto ==
  ASSUME NEW ns, ns \subseteq Nat, IsFiniteSet(ns), NEW g, NEW V, \A k \in ns : g[k] \in V,
         NEW q, Maps(q, g, ns)
  PROVE  q \in Seq(V)
<1>1. Cardinality(ns) \in Nat
  BY FS_CardinalityType
<1>2. q \in [1..Cardinality(ns) -> V]
  BY AscendingHasAll DEF Maps
<1> QED
  BY <1>1, <1>2

(***************************************************************************)
(* git status.                                                              *)
(***************************************************************************)
\* The three kinds of records in it.
IsRecord(r, f) ==
  \/ \E p \in Changed(r) : f = ParsedFile(r, p)
  \/ \E p \in Conflicted(r) : f = Entry(p, Nothing, "Conflicted", "U", "U")
  \/ \E p \in Untracked(r) : f = Entry(p, Nothing, "Untracked", ".", ".")

LEMMA StatusFiles ==
  ASSUME NEW r
  PROVE  LET fs == Status(r).files IN
         /\ Len(fs) \in Nat /\ DOMAIN fs = 1..Len(fs)
         /\ \A i \in DOMAIN fs : IsRecord(r, fs[i])
         /\ \A f : IsRecord(r, f) => \E i \in DOMAIN fs : fs[i] = f
<1> DEFINE A == Changed(r)
           B == Conflicted(r)
           C == Untracked(r)
           a == [p \in A |-> ParsedFile(r, p)]
           b == [p \in B |-> Entry(p, Nothing, "Conflicted", "U", "U")]
           c == [p \in C |-> Entry(p, Nothing, "Untracked", ".", ".")]
           S == {f \in {a[p] : p \in A} \cup {b[p] : p \in B} \cup {c[p] : p \in C} : TRUE}
           As == [i \in 1..Cardinality(A) |-> a[Ascending(A)[i]]]
           Bs == [i \in 1..Cardinality(B) |-> b[Ascending(B)[i]]]
           Cs == [i \in 1..Cardinality(C) |-> c[Ascending(C)[i]]]
<1>1. /\ A \subseteq Nat /\ IsFiniteSet(A) /\ B \subseteq Nat /\ IsFiniteSet(B)
      /\ C \subseteq Nat /\ IsFiniteSet(C)
  <2>1. A \subseteq Paths /\ B \subseteq Paths /\ C \subseteq Paths
    BY DEF Changed, Conflicted, Untracked
  <2> HIDE DEF A, B, C
  <2> QED
    BY <2>1, FS_Subset, ReadingAssumption
<1>2. Status(r).files = As \o Bs \o Cs
  <2>1. As = [i \in 1..Cardinality(A) |-> ParsedFile(r, Ascending(A)[i])]
    BY <1>1, AscendingHasAll
  <2>2. Bs = [i \in 1..Cardinality(B) |-> Entry(Ascending(B)[i], Nothing, "Conflicted", "U", "U")]
    BY <1>1, AscendingHasAll
  <2>3. Cs = [i \in 1..Cardinality(C) |-> Entry(Ascending(C)[i], Nothing, "Untracked", ".", ".")]
    BY <1>1, AscendingHasAll
  <2> HIDE DEF As, Bs, Cs
  <2> QED
    BY <2>1, <2>2, <2>3 DEF Status, Each
<1>3. \A f : IsRecord(r, f) <=> f \in S
  BY DEF IsRecord
<1>4. As \in Seq(S) /\ \A p \in A : \E i \in DOMAIN As : As[i] = a[p]
  <2>1. \A p \in A : a[p] \in S
    OBVIOUS
  <2> HIDE DEF a, A, S
  <2>2. Maps(As, a, A)
    BY DEF Maps
  <2> HIDE DEF As
  <2>3. A \subseteq Nat /\ IsFiniteSet(A)
    BY <1>1
  <2>4. As \in Seq(S)
    BY <2>1, <2>2, <2>3, MapsInto
  <2>5. ASSUME NEW p \in A PROVE \E i \in DOMAIN As : As[i] = a[p]
    <3>1. PICK i \in 1..Cardinality(A) : Ascending(A)[i] = p
      BY <2>3, <2>5, AscendingHasAll
    <3>2. i \in DOMAIN As /\ As[i] = a[p]
      BY <2>2, <3>1 DEF Maps
    <3> QED
      BY <3>2
  <2> QED
    BY <2>4, <2>5
<1>5. Bs \in Seq(S) /\ \A p \in B : \E i \in DOMAIN Bs : Bs[i] = b[p]
  <2>1. \A p \in B : b[p] \in S
    OBVIOUS
  <2> HIDE DEF b, B, S
  <2>2. Maps(Bs, b, B)
    BY DEF Maps
  <2> HIDE DEF Bs
  <2>3. B \subseteq Nat /\ IsFiniteSet(B)
    BY <1>1
  <2>4. Bs \in Seq(S)
    BY <2>1, <2>2, <2>3, MapsInto
  <2>5. ASSUME NEW p \in B PROVE \E i \in DOMAIN Bs : Bs[i] = b[p]
    <3>1. PICK i \in 1..Cardinality(B) : Ascending(B)[i] = p
      BY <2>3, <2>5, AscendingHasAll
    <3>2. i \in DOMAIN Bs /\ Bs[i] = b[p]
      BY <2>2, <3>1 DEF Maps
    <3> QED
      BY <3>2
  <2> QED
    BY <2>4, <2>5
<1>6. Cs \in Seq(S) /\ \A p \in C : \E i \in DOMAIN Cs : Cs[i] = c[p]
  <2>1. \A p \in C : c[p] \in S
    OBVIOUS
  <2> HIDE DEF c, C, S
  <2>2. Maps(Cs, c, C)
    BY DEF Maps
  <2> HIDE DEF Cs
  <2>3. C \subseteq Nat /\ IsFiniteSet(C)
    BY <1>1
  <2>4. Cs \in Seq(S)
    BY <2>1, <2>2, <2>3, MapsInto
  <2>5. ASSUME NEW p \in C PROVE \E i \in DOMAIN Cs : Cs[i] = c[p]
    <3>1. PICK i \in 1..Cardinality(C) : Ascending(C)[i] = p
      BY <2>3, <2>5, AscendingHasAll
    <3>2. i \in DOMAIN Cs /\ Cs[i] = c[p]
      BY <2>2, <3>1 DEF Maps
    <3> QED
      BY <3>2
  <2> QED
    BY <2>4, <2>5
<1> DEFINE fs == As \o Bs \o Cs
<1>7. /\ \A f \in S : (\E i \in DOMAIN As : As[i] = f) \/ (\E i \in DOMAIN Bs : Bs[i] = f)
                       \/ (\E i \in DOMAIN Cs : Cs[i] = f)
  <2> HIDE DEF a, b, c, A, B, C, As, Bs, Cs
  <2> QED
    BY <1>4, <1>5, <1>6
<1> HIDE DEF As, Bs, Cs, S
<1>8. fs \in Seq(S) /\ Len(fs) = Len(As) + Len(Bs) + Len(Cs)
  BY <1>4, <1>5, <1>6
<1>9. /\ \A i \in DOMAIN As : i \in DOMAIN fs /\ fs[i] = As[i]
      /\ \A i \in DOMAIN Bs : i + Len(As) \in DOMAIN fs /\ fs[i + Len(As)] = Bs[i]
      /\ \A i \in DOMAIN Cs : /\ i + Len(As) + Len(Bs) \in DOMAIN fs
                              /\ fs[i + Len(As) + Len(Bs)] = Cs[i]
  <2>1. \A i \in DOMAIN As : i \in DOMAIN fs /\ fs[i] = As[i]
    BY <1>4, <1>5, <1>6
  <2>2. \A i \in DOMAIN Bs : i + Len(As) \in DOMAIN fs /\ fs[i + Len(As)] = Bs[i]
    BY <1>4, <1>5, <1>6
  <2>3. \A i \in DOMAIN Cs : /\ i + Len(As) + Len(Bs) \in DOMAIN fs
                             /\ fs[i + Len(As) + Len(Bs)] = Cs[i]
    BY <1>4, <1>5, <1>6
  <2> QED
    BY <2>1, <2>2, <2>3
<1> HIDE DEF fs
<1>10. \A f \in S : \E i \in DOMAIN fs : fs[i] = f
  BY <1>7, <1>9
<1>11. /\ Len(fs) \in Nat /\ DOMAIN fs = 1..Len(fs) /\ \A i \in DOMAIN fs : fs[i] \in S
  BY <1>8
<1>12. Status(r).files = fs
  BY <1>2 DEF fs
<1> QED
  BY <1>3, <1>10, <1>11, <1>12

(***************************************************************************)
(* The inductive invariant.  A snapshot knows one state of the repository,   *)
(* that of its status; what a quiet read has gathered so far is what the     *)
(* repository shows.                                                         *)
(***************************************************************************)
Quiet == writes = 0 /\ seen = {repo}

Typed ==
  /\ repo \in Repositories /\ seen \subseteq Repositories /\ writes \in Nat
  /\ pc \in {"idle", "snapshot", "file", "paths"}
  /\ pc # "idle" => /\ repo \in seen
                    /\ \A r \in seen : r.upstream = NoUpstream <=> repo.upstream = NoUpstream
  /\ pc = "idle" => files = {}
  /\ result # Nothing => pc = "idle"

\* What excuses a snapshot that fails.
Excused ==
  \/ outage \/ \E r \in seen : Disturbing(r)
  \/ \E r, t \in seen : r.commit = 0 /\ t.commit # 0

Contexts == {"staged_context", "unstaged_context"}

IsTask(t, n) ==
  /\ t = [todo |-> t.todo, phase |-> t.phase, staged |-> t.staged, unstaged |-> t.unstaged,
          failed |-> t.failed]
  /\ t.todo \in Seq(1..n) /\ t.phase \in {"staged", "unstaged", "read"} \cup Contexts
  /\ t.failed \in BOOLEAN

PhaseFits(t, f) ==
  /\ t.phase = "read" => f.kind = "Untracked"
  /\ t.phase \in Contexts => f.kind = "Renamed"

WorkerFits(t) ==
  /\ IsTask(t, Len(parsed.files))
  /\ t.failed => t.todo = <<>> /\ Excused
  /\ t.todo # <<>> => PhaseFits(t, parsed.files[t.todo[1]])

CompletedFits(c) ==
  \E i \in DOMAIN parsed.files : c = <<i, Shows(parsed.files[i], c[2].staged, c[2].unstaged)>>

MetaFits(s) ==
  /\ meta = [phase |-> meta.phase, local |-> meta.local, recent |-> meta.recent,
             operation |-> meta.operation]
  /\ meta.phase \in {"local", "has_head", "log", "operation", "done", "failed"}
  /\ meta.phase = "local" => s.commit # 0 /\ s.upstream # NoUpstream
  /\ meta.phase = "log" => \E t \in seen : t.commit # 0
  /\ meta.phase = "failed" => Excused

SnapshotOf(s) ==
  /\ s \in seen /\ parsed = Status(s)
  /\ pool = [w \in DOMAIN pool |-> pool[w]]
  /\ \A w \in DOMAIN pool : WorkerFits(pool[w])
  /\ \A c \in files : CompletedFits(c)
  /\ MetaFits(s)

Snapshotting == pc = "snapshot" => \E s \in seen : SnapshotOf(s)

\* What a quiet read makes of a record f.
StagedOf(r, f) ==
  IF f.kind = "Conflicted" \/ f.index = "." THEN Nothing ELSE DiffOf(r, PathsOf(f), TRUE)
UnstagedOf(r, f) == IF f.worktree = "." THEN Nothing ELSE DiffOf(r, PathsOf(f), FALSE)
LeftOut(r, f) == f.kind = "Untracked" /\ InWork(r, f.path) = Dir
NeedsContext(r, f) ==
  f.kind = "Renamed" /\ UnstagedOf(r, f) # Nothing /\ ~HasHunk(UnstagedOf(r, f))
Readable(r, f) ==
  /\ f.kind = "Conflicted" \/ NeedsContext(r, f) => InWork(r, f.path) \in Contents
  /\ f.kind \notin {"Conflicted", "Untracked"} =>
       ~NotUtf8(StagedOf(r, f)) /\ ~NotUtf8(UnstagedOf(r, f))

TaskShows(t, f) ==
  /\ t.phase # "staged" =>
       t.staged = IF t.phase = "unstaged_context"
                    THEN WithContext(f, StagedOf(repo, f), InIndex(repo, f.path))
                    ELSE StagedOf(repo, f)
  /\ t.phase # "staged" => ~NotUtf8(StagedOf(repo, f))
  /\ t.phase \in Contexts => t.unstaged = UnstagedOf(repo, f) /\ ~NotUtf8(t.unstaged)
  /\ t.phase = "read" => InWork(repo, f.path) \in Contents

Completed(i) ==
  /\ <<i, ViewOf(repo, parsed.files[i])>> \in files
  /\ Readable(repo, parsed.files[i]) /\ ~LeftOut(repo, parsed.files[i])

Waits(w, i) == \E k \in DOMAIN pool[w].todo : pool[w].todo[k] = i

QuietWorkers ==
  /\ \A w \in DOMAIN pool :
       /\ pool[w].todo # <<>> => TaskShows(pool[w], parsed.files[pool[w].todo[1]])
       /\ pool[w].failed => \E i \in DOMAIN parsed.files : ~Readable(repo, parsed.files[i])
  /\ \A c \in files : \E i \in DOMAIN parsed.files :
       c = <<i, ViewOf(repo, parsed.files[i])>> /\ Completed(i)
  /\ \A i \in DOMAIN parsed.files :
       \/ Completed(i) \/ LeftOut(repo, parsed.files[i])
       \/ \E w \in DOMAIN pool : pool[w].failed \/ Waits(w, i)

QuietMeta ==
  LET listed == meta.phase \notin {"local", "failed"} IN
  /\ meta.phase = "local" => repo.commit # 0 /\ repo.upstream # NoUpstream
  /\ listed => meta.local = View(repo).local /\ ~UpstreamUnreadable(repo)
  /\ meta.phase = "log" => repo.commit # 0
  /\ meta.phase \in {"operation", "done"} => meta.recent = repo.commit
  /\ meta.phase = "done" => meta.operation = repo.operation
  /\ meta.phase = "failed" => UpstreamUnreadable(repo)

QuietSnapshot == pc = "snapshot" /\ Quiet => QuietWorkers /\ QuietMeta

IsExplorer ==
  pc \in {"file", "paths"} =>
    explorer = [phase |-> explorer.phase, path |-> explorer.path, content |-> explorer.content,
                paths |-> explorer.paths, left |-> explorer.left]

QuietFile ==
  pc = "file" /\ Quiet /\ explorer.phase # "failed" =>
    /\ explorer.path \in Paths /\ explorer.content \in Contents
    /\ explorer.content = InWork(repo, explorer.path)
    /\ explorer.phase = "tracked" => DiffHead(repo, explorer.path) = Nothing

QuietPaths ==
  pc = "paths" /\ Quiet =>
    explorer.paths = {p \in Paths : InWork(repo, p) \in Contents} \ explorer.left

\* A command that failed by itself has failed its read, or will.
Halted == meta.phase = "failed" \/ \E w \in DOMAIN pool : pool[w].failed
Broken ==
  outage => IF pc = "snapshot" THEN Halted ELSE pc = "idle" /\ result # Nothing /\ ~result.ok

IInv ==
  /\ Typed /\ Snapshotting /\ QuietSnapshot /\ IsExplorer /\ QuietFile /\ QuietPaths /\ Broken
  /\ QuietReadsExact /\ ChurnNeverFails /\ HeadWithItsFiles

(***************************************************************************)
(* The records of a status.                                                 *)
(***************************************************************************)
LEMMA Contained ==
  ASSUME NEW r \in Repositories, NEW p \in Paths
  PROVE  /\ InHead(r, p) \in Contents \cup {Absent}
         /\ InIndex(r, p) \in Contents \cup {Absent, Unmerged}
         /\ InWork(r, p) \in Contents \cup {Absent, Dir}
BY DEF Repositories, InHead, InIndex, InWork

LEMMA Renames ==
  ASSUME NEW r, NEW p, RenamedFrom(r, p) # Nothing
  PROVE  /\ RenamedFrom(r, p) \in Paths /\ InIndex(r, p) \in Contents
         /\ InHead(r, p) = Absent /\ InIndex(r, RenamedFrom(r, p)) = Absent
         /\ InHead(r, RenamedFrom(r, p)) = InIndex(r, p)
<1> DEFINE moved(o) == InHead(r, o) = InIndex(r, p) /\ InIndex(r, o) = Absent
<1>1. /\ InHead(r, p) = Absent /\ InIndex(r, p) \in Contents /\ \E o \in Paths : moved(o)
      /\ RenamedFrom(r, p) = CHOOSE o \in Paths : moved(o)
  BY DEF RenamedFrom
<1>2. RenamedFrom(r, p) \in Paths /\ moved(RenamedFrom(r, p))
  BY <1>1
<1> QED
  BY <1>1, <1>2

LEMMA Statuses ==
  ASSUME NEW r, NEW p
  PROVE  /\ IndexStatus(r, p) \in {"R", "A", "D", "M", "."}
         /\ IndexStatus(r, p) = "R" <=> RenamedFrom(r, p) # Nothing
         /\ WorktreeStatus(r, p) \in {".", "D", "M"}
BY DEF IndexStatus, WorktreeStatus

LEMMA ParsedFields ==
  ASSUME NEW r, NEW p \in Changed(r)
  PROVE  LET f == ParsedFile(r, p) IN
         /\ f.path = p /\ f.old = RenamedFrom(r, p)
         /\ f.index = IndexStatus(r, p) /\ f.worktree = WorktreeStatus(r, p)
         /\ f.kind \in {"Added", "Modified", "Deleted", "Renamed"}
         /\ f.kind = "Renamed" <=> RenamedFrom(r, p) # Nothing
<1> DEFINE ix == IndexStatus(r, p)
           wt == WorktreeStatus(r, p)
           kind == ChangeKind(IF ix = "." THEN wt ELSE ix)
<1>1. /\ ix \in {"R", "A", "D", "M", "."} /\ wt \in {".", "D", "M"}
      /\ ix = "R" <=> RenamedFrom(r, p) # Nothing
  BY Statuses
<1>2. ix # "." \/ wt # "."
  BY DEF Changed
<1>3. ParsedFile(r, p) = [path |-> p, old |-> RenamedFrom(r, p), kind |-> kind, index |-> ix,
                          worktree |-> wt]
  BY DEF ParsedFile, Entry
<1> HIDE DEF ix, wt
<1>4. /\ kind \in {"Added", "Modified", "Deleted", "Renamed"}
      /\ kind = "Renamed" <=> ix = "R"
  BY <1>1, <1>2 DEF ChangeKind
<1> HIDE DEF kind
<1> QED
  BY <1>1, <1>3, <1>4 DEF ix, wt

LEMMA RecordFields ==
  ASSUME NEW r, NEW f, IsRecord(r, f)
  PROVE  /\ f.path \in Paths
         /\ f.kind = "Conflicted" => f.path \in Conflicted(r)
         /\ f.kind = "Untracked" => f.path \in Untracked(r) /\ f.index = "."
         /\ f.kind \notin {"Conflicted", "Untracked"} =>
              f.path \in Changed(r) /\ f = ParsedFile(r, f.path)
         /\ f.kind = "Renamed" => RenamedFrom(r, f.path) # Nothing
<1>1. CASE \E p \in Changed(r) : f = ParsedFile(r, p)
  <2>1. PICK p \in Changed(r) : f = ParsedFile(r, p)
    BY <1>1
  <2>2. p \in Paths
    BY DEF Changed
  <2> QED
    BY <2>1, <2>2, ParsedFields
<1>2. CASE \E p \in Conflicted(r) : f = Entry(p, Nothing, "Conflicted", "U", "U")
  BY <1>2 DEF Entry, Conflicted
<1>3. CASE \E p \in Untracked(r) : f = Entry(p, Nothing, "Untracked", ".", ".")
  BY <1>3 DEF Entry, Untracked
<1> QED
  BY <1>1, <1>2, <1>3 DEF IsRecord

\* The commands that are not run would show nothing.
LEMMA UnchangedIndex ==
  ASSUME NEW r \in Repositories, NEW p \in Changed(r)
  PROVE  StagedOf(r, ParsedFile(r, p)) = DiffOf(r, PathsOf(ParsedFile(r, p)), TRUE)
<1> DEFINE f == ParsedFile(r, p)
<1>1. /\ p \in Paths /\ f.path = p /\ f.old = RenamedFrom(r, p) /\ f.index = IndexStatus(r, p)
      /\ f.kind # "Conflicted"
  BY ParsedFields DEF Changed
<1> HIDE DEF f
<1>2. ASSUME f.index = "." PROVE DiffOf(r, PathsOf(f), TRUE) = Nothing
  <2>1. RenamedFrom(r, p) = Nothing
    BY <1>1, <1>2, Statuses
  <2>2. PathsOf(f) = {p}
    BY <1>1, <2>1 DEF PathsOf
  <2>3. IndexStatus(r, p) = "." /\ WorktreeStatus(r, p) # "."
    BY <1>1, <1>2 DEF Changed
  <2>4. InIndex(r, p) # Absent
    BY <2>3 DEF WorktreeStatus
  <2>5. InHead(r, p) = InIndex(r, p)
    BY <2>1, <2>3, <2>4 DEF IndexStatus
  <2> QED
    BY <2>2, <2>5 DEF DiffOf
<1>3. StagedOf(r, f) = DiffOf(r, PathsOf(f), TRUE)
  BY <1>1, <1>2 DEF StagedOf
<1> QED
  BY <1>3 DEF f

LEMMA UnchangedWorktree ==
  ASSUME NEW r \in Repositories, NEW p \in Changed(r)
  PROVE  UnstagedOf(r, ParsedFile(r, p)) = DiffOf(r, PathsOf(ParsedFile(r, p)), FALSE)
<1> DEFINE f == ParsedFile(r, p)
<1>1. /\ p \in Paths /\ f.path = p /\ f.old = RenamedFrom(r, p)
      /\ f.worktree = WorktreeStatus(r, p) /\ InIndex(r, p) # Unmerged
  BY ParsedFields DEF Changed
<1> HIDE DEF f
<1>2. ASSUME f.worktree = "." PROVE DiffOf(r, PathsOf(f), FALSE) = Nothing
  <2>1. InIndex(r, p) = Absent \/ InWork(r, p) = InIndex(r, p)
    BY <1>1, <1>2 DEF WorktreeStatus
  <2>2. InWork(r, p) = InIndex(r, p) => InWork(r, p) # Dir
    BY <1>1, Contained, NamesAreDistinct
  <2>3. \A q \in PathsOf(f) : q # p => InIndex(r, q) = Absent
    BY <1>1, Renames DEF PathsOf
  <2> DEFINE to(q) == IF InWork(r, q) = Dir THEN Absent ELSE InWork(r, q)
  <2>4. {q \in PathsOf(f) : InIndex(r, q) # to(q) /\ InIndex(r, q) # Absent} = {}
    BY <2>1, <2>2, <2>3
  <2> QED
    BY <2>4 DEF DiffOf
<1>3. UnstagedOf(r, f) = DiffOf(r, PathsOf(f), FALSE)
  BY <1>2 DEF UnstagedOf
<1> QED
  BY <1>3 DEF f

\* What the view has of a record.
LEMMA ViewOfRecord ==
  ASSUME NEW r \in Repositories, NEW f, IsRecord(r, f)
  PROVE  ViewOf(r, f) =
           Shows(f, WithContext(f, StagedOf(r, f), InIndex(r, f.path)),
                 IF f.kind \in {"Conflicted", "Untracked"} THEN WholeFile(InWork(r, f.path))
                 ELSE WithContext(f, UnstagedOf(r, f), InWork(r, f.path)))
<1>1. CASE f.kind \in {"Conflicted", "Untracked"}
  <2>1. StagedOf(r, f) = Nothing
    BY <1>1, RecordFields DEF StagedOf
  <2>2. WithContext(f, StagedOf(r, f), InIndex(r, f.path)) = Nothing
    BY <1>1, <2>1 DEF WithContext
  <2> QED
    BY <1>1, <2>2 DEF ViewOf
<1>2. CASE f.kind \notin {"Conflicted", "Untracked"}
  <2>1. f.path \in Changed(r) /\ f = ParsedFile(r, f.path)
    BY <1>2, RecordFields
  <2>2. /\ StagedOf(r, f) = DiffOf(r, PathsOf(f), TRUE)
        /\ UnstagedOf(r, f) = DiffOf(r, PathsOf(f), FALSE)
    BY <2>1, UnchangedIndex, UnchangedWorktree
  <2> QED
    BY <1>2, <2>2 DEF ViewOf
<1> QED
  BY <1>1, <1>2

\* The worktree side of a move whose file is not there.
LEMMA MovedAndGone ==
  ASSUME NEW r \in Repositories, NEW p \in Paths, RenamedFrom(r, p) # Nothing,
         InWork(r, p) \in {Absent, Dir}
  PROVE  /\ p \in Changed(r)
         /\ UnstagedOf(r, ParsedFile(r, p)) = {<<p, InIndex(r, p), Absent>>}
<1> DEFINE o == RenamedFrom(r, p)
           f == ParsedFile(r, p)
<1>1. /\ o \in Paths /\ InIndex(r, p) \in Contents /\ InIndex(r, o) = Absent
  BY Renames
<1>2. InIndex(r, p) \notin {Absent, Dir, Unmerged}
  BY <1>1, NamesAreDistinct
<1>3. p \in Changed(r) /\ WorktreeStatus(r, p) # "."
  <2>1. IndexStatus(r, p) # "."
    BY Statuses
  <2>2. WorktreeStatus(r, p) # "."
    BY <1>2 DEF WorktreeStatus
  <2> QED
    BY <1>2, <2>1, <2>2 DEF Changed
<1>4. f.path = p /\ f.old = o /\ f.worktree # "."
  BY <1>3, ParsedFields
<1>5. PathsOf(f) = {p, o}
  BY <1>4 DEF PathsOf
<1> HIDE DEF f, o
<1> DEFINE from(q) == InIndex(r, q)
           to(q) == IF InWork(r, q) = Dir THEN Absent ELSE InWork(r, q)
           kept == {q \in PathsOf(f) : from(q) # to(q) /\ from(q) # Absent}
<1>6. kept = {p} /\ to(p) = Absent
  BY <1>1, <1>2, <1>5
<1>7. DiffOf(r, PathsOf(f), FALSE) =
        IF {<<q, from(q), to(q)>> : q \in kept} = {} THEN Nothing
        ELSE {<<q, from(q), to(q)>> : q \in kept}
  BY DEF DiffOf
<1>8. {<<q, from(q), to(q)>> : q \in kept} = {<<p, InIndex(r, p), Absent>>}
  BY <1>6
<1>9. UnstagedOf(r, f) = DiffOf(r, PathsOf(f), FALSE)
  BY <1>4 DEF UnstagedOf
<1> HIDE DEF kept
<1>10. UnstagedOf(r, f) = {<<p, InIndex(r, p), Absent>>}
  BY <1>7, <1>8, <1>9
<1> QED
  BY <1>3, <1>10 DEF f

LEMMA PathsOfRecord ==
  ASSUME NEW r, NEW f, IsRecord(r, f)
  PROVE  PathsOf(f) \subseteq Paths
<1>1. f.path \in Paths
  BY RecordFields
<1>2. f.old = Nothing \/ f.old \in Paths
  <2>1. CASE f.kind \notin {"Conflicted", "Untracked"}
    <3>1. f.path \in Changed(r) /\ f = ParsedFile(r, f.path)
      BY <2>1, RecordFields
    <3>2. f.old = RenamedFrom(r, f.path)
      BY <3>1, ParsedFields
    <3> QED
      BY <3>2, Renames
  <2>2. CASE \E p \in Changed(r) : f = ParsedFile(r, p)
    <3>1. f.kind \notin {"Conflicted", "Untracked"}
      BY <2>2, ParsedFields
    <3> QED
      BY <2>1, <3>1
  <2>3. CASE \E p : f = Entry(p, Nothing, "Conflicted", "U", "U")
                    \/ f = Entry(p, Nothing, "Untracked", ".", ".")
    BY <2>3 DEF Entry
  <2> QED
    BY <2>2, <2>3 DEF IsRecord
<1> QED
  BY <1>1, <1>2 DEF PathsOf

\* A diff that is not UTF-8 is of a changed file that is not.
LEMMA NotUtf8Disturbs ==
  ASSUME NEW r, NEW ps, ps \subseteq Paths, NEW staged \in BOOLEAN,
         NotUtf8(DiffOf(r, ps, staged))
  PROVE  Disturbing(r)
<1> DEFINE from(q) == IF staged THEN InHead(r, q) ELSE InIndex(r, q)
           to(q) == IF staged THEN InIndex(r, q)
                    ELSE IF InWork(r, q) = Dir THEN Absent ELSE InWork(r, q)
           kept == {q \in ps : from(q) # to(q) /\ (staged \/ from(q) # Absent)}
           sides == {<<q, from(q), to(q)>> : q \in kept}
<1>1. DiffOf(r, ps, staged) = IF sides = {} THEN Nothing ELSE sides
  BY DEF DiffOf
<1>2. PICK s \in DiffOf(r, ps, staged) : Latin \in {s[2], s[3]}
  BY DEF NotUtf8
<1>3. DiffOf(r, ps, staged) # Nothing
  BY DEF NotUtf8
<1>4. PICK p \in kept : s = <<p, from(p), to(p)>>
  BY <1>1, <1>2, <1>3
<1>5. p \in Paths /\ from(p) # to(p) /\ Latin \in {from(p), to(p)}
  <2> HIDE DEF from, to
  <2> QED
    BY <1>2, <1>4
<1> HIDE DEF kept, sides
<1>6. CASE staged
  BY <1>5, <1>6 DEF Disturbing
<1>7. CASE ~staged
  BY <1>5, <1>7 DEF Disturbing
<1> QED
  BY <1>6, <1>7

LEMMA UnreadableDiff ==
  ASSUME NEW r \in Repositories, NEW f, IsRecord(r, f), f.kind \notin {"Conflicted", "Untracked"}
  PROVE  (\E staged \in BOOLEAN : NotUtf8(DiffOf(r, PathsOf(f), staged))) <=>
           NotUtf8(StagedOf(r, f)) \/ NotUtf8(UnstagedOf(r, f))
<1>1. f.path \in Changed(r) /\ f = ParsedFile(r, f.path)
  BY RecordFields
<1>2. /\ StagedOf(r, f) = DiffOf(r, PathsOf(f), TRUE)
      /\ UnstagedOf(r, f) = DiffOf(r, PathsOf(f), FALSE)
  BY <1>1, UnchangedIndex, UnchangedWorktree
<1> QED
  BY <1>2

LEMMA UnreadableRecord ==
  ASSUME NEW r \in Repositories
  PROVE  FileUnreadable(r) <=> \E f : IsRecord(r, f) /\ ~Readable(r, f)
<1>1. ASSUME NEW p \in Conflicted(r), InWork(r, p) \in {Absent, Dir}
      PROVE  \E f : IsRecord(r, f) /\ ~Readable(r, f)
  <2> DEFINE f == Entry(p, Nothing, "Conflicted", "U", "U")
  <2>1. IsRecord(r, f)
    BY DEF IsRecord
  <2>2. f.path = p /\ f.kind = "Conflicted"
    BY DEF Entry
  <2> HIDE DEF f
  <2>3. ~Readable(r, f)
    BY <1>1, <2>2, NamesAreDistinct DEF Readable
  <2> QED
    BY <2>1, <2>3
<1>2. ASSUME NEW p \in Paths, RenamedFrom(r, p) # Nothing, InWork(r, p) \in {Absent, Dir},
             InIndex(r, p) = Binary
      PROVE  \E f : IsRecord(r, f) /\ ~Readable(r, f)
  <2> DEFINE f == ParsedFile(r, p)
  <2>1. p \in Changed(r) /\ UnstagedOf(r, f) = {<<p, Binary, Absent>>}
    BY <1>2, MovedAndGone
  <2>2. f.path = p /\ f.kind = "Renamed"
    BY <1>2, <2>1, ParsedFields
  <2>3. IsRecord(r, f)
    BY <2>1 DEF IsRecord
  <2> HIDE DEF f
  <2>4. UnstagedOf(r, f) # Nothing
    BY <2>1, NamesAreDistinct DEF Contents
  <2>5. ~HasHunk(UnstagedOf(r, f))
    <3>1. \A s \in UnstagedOf(r, f) : s[2] = Binary
      BY <2>1
    <3>2. \A s \in UnstagedOf(r, f) : Binary \in {s[2], s[3]} \cap {Binary, Unmerged}
      BY <3>1
    <3> QED
      BY <3>2 DEF HasHunk, Moved
  <2>6. InWork(r, p) \notin Contents
    BY <1>2, NamesAreDistinct
  <2>7. ~Readable(r, f)
    BY <2>2, <2>4, <2>5, <2>6 DEF Readable, NeedsContext
  <2> QED
    BY <2>3, <2>7
<1>4. ASSUME NEW f, IsRecord(r, f), f.kind \notin {"Conflicted", "Untracked"},
             NotUtf8(StagedOf(r, f)) \/ NotUtf8(UnstagedOf(r, f))
      PROVE  FileUnreadable(r)
  <2>1. \E staged \in BOOLEAN : NotUtf8(DiffOf(r, PathsOf(f), staged))
    BY <1>4, UnreadableDiff
  <2>2. \E i \in DOMAIN Status(r).files : Status(r).files[i] = f
    BY <1>4, StatusFiles
  <2> QED
    BY <1>4, <2>1, <2>2 DEF FileUnreadable, DiffUnreadable
<1>5. ASSUME DiffUnreadable(r) PROVE \E f : IsRecord(r, f) /\ ~Readable(r, f)
  <2>1. PICK i \in DOMAIN Status(r).files :
          /\ Status(r).files[i].kind \notin {"Conflicted", "Untracked"}
          /\ \E staged \in BOOLEAN : NotUtf8(DiffOf(r, PathsOf(Status(r).files[i]), staged))
    BY <1>5 DEF DiffUnreadable
  <2>2. IsRecord(r, Status(r).files[i])
    BY StatusFiles
  <2> QED
    BY <2>1, <2>2, UnreadableDiff DEF Readable
<1>3. ASSUME NEW f, IsRecord(r, f),
             ~(f.kind = "Conflicted" \/ NeedsContext(r, f) => InWork(r, f.path) \in Contents)
      PROVE  FileUnreadable(r)
  <2>1. f.path \in Paths /\ InWork(r, f.path) \in {Absent, Dir}
    BY <1>3, RecordFields, Contained
  <2>2. CASE f.kind = "Conflicted"
    BY <1>3, <2>1, <2>2, RecordFields DEF FileUnreadable
  <2>3. CASE NeedsContext(r, f)
    <3> DEFINE p == f.path
    <3>1. f.kind = "Renamed" /\ ~HasHunk(UnstagedOf(r, f))
      BY <2>3 DEF NeedsContext
    <3>2. f = ParsedFile(r, p) /\ RenamedFrom(r, p) # Nothing
      BY <1>3, <3>1, RecordFields
    <3>3. UnstagedOf(r, f) = {<<p, InIndex(r, p), Absent>>}
      BY <2>1, <3>2, MovedAndGone
    <3>4. InIndex(r, p) \in Contents /\ InIndex(r, p) # Unmerged /\ Absent \notin {Binary, Unmerged}
      BY <3>2, Renames, NamesAreDistinct DEF Contents
    <3> HIDE DEF p
    <3>5. InIndex(r, p) = Binary
      BY <3>1, <3>3, <3>4 DEF HasHunk, Moved
    <3> QED
      BY <2>1, <3>2, <3>5 DEF FileUnreadable, p
  <2> QED
    BY <1>3, <2>2, <2>3
<1>6. ASSUME NEW f, IsRecord(r, f), ~Readable(r, f) PROVE FileUnreadable(r)
  BY <1>3, <1>4, <1>6 DEF Readable
<1> QED
  BY <1>1, <1>2, <1>5, <1>6 DEF FileUnreadable

LEMMA UnreadableIsNotLeftOut ==
  ASSUME NEW r, NEW f, ~Readable(r, f)
  PROVE  ~LeftOut(r, f)
BY DEF Readable, NeedsContext, LeftOut

LEMMA NumbersUpTo ==
  ASSUME NEW n \in Nat, NEW ns, ns \subseteq 1..n
  PROVE  ns \subseteq Nat /\ IsFiniteSet(ns)
<1>1. IsFiniteSet(1..n) /\ 1..n \subseteq Nat
  BY FS_Interval
<1> QED
  BY <1>1, FS_Subset

(***************************************************************************)
(* What is published is what was completed.                                 *)
(***************************************************************************)
LEMMA PublishedElements ==
  ASSUME NEW F, NEW n \in Nat, \A c \in F : c[1] \in 1..n
  PROVE  \A i \in DOMAIN InStatusOrder(F) : \E c \in F : InStatusOrder(F)[i] = c[2]
<1> DEFINE ns == {c[1] : c \in F}
           at == Ascending(ns)
           pick(k) == CHOOSE c \in F : c[1] = k
<1>1. ns \subseteq 1..n
  OBVIOUS
<1>2. ns \subseteq Nat /\ IsFiniteSet(ns)
  <2> HIDE DEF ns
  <2> QED
    BY <1>1, NumbersUpTo
<1>3. at \in [1..Cardinality(ns) -> ns]
  BY <1>2, AscendingHasAll
<1>4. InStatusOrder(F) = [i \in 1..Cardinality(ns) |-> pick(at[i])[2]]
  BY DEF InStatusOrder, Each
<1>5. \A k \in ns : pick(k) \in F
  OBVIOUS
<1> HIDE DEF ns, at, pick
<1> QED
  BY <1>3, <1>4, <1>5

\* The view's files, when what was completed is a record for every file that is
\* shown.
LEMMA PublishedIsView ==
  ASSUME NEW r, NEW F,
         \A c \in F : \E i \in DOMAIN Status(r).files : c = <<i, ViewOf(r, Status(r).files[i])>>,
         \A i \in DOMAIN Status(r).files :
           LeftOut(r, Status(r).files[i]) <=> <<i, ViewOf(r, Status(r).files[i])>> \notin F
  PROVE  InStatusOrder(F) = View(r).files
<1> DEFINE fs == Status(r).files
           shown == {i \in DOMAIN fs : ~(fs[i].kind = "Untracked" /\ InWork(r, fs[i].path) = Dir)}
           ns == {c[1] : c \in F}
           at == Ascending(ns)
           pick(k) == CHOOSE c \in F : c[1] = k
<1>1. DOMAIN fs = 1..Len(fs) /\ Len(fs) \in Nat
  BY StatusFiles
<1>2. View(r).files = Each(shown, LAMBDA i : ViewOf(r, fs[i]))
  BY DEF View
<1>3. InStatusOrder(F) = [i \in 1..Cardinality(ns) |-> pick(at[i])[2]]
  BY DEF InStatusOrder, Each
<1>4. /\ \A c \in F : \E i \in DOMAIN fs : c = <<i, ViewOf(r, fs[i])>>
      /\ \A i \in DOMAIN fs : i \in shown <=> <<i, ViewOf(r, fs[i])>> \in F
  BY DEF LeftOut
<1>5. View(r).files = [i \in 1..Cardinality(shown) |-> ViewOf(r, fs[Ascending(shown)[i]])]
  BY <1>2 DEF Each
<1>6. shown \subseteq 1..Len(fs)
  BY <1>1
<1> HIDE DEF fs, shown
<1>7. ns = shown
  <2>1. ASSUME NEW c \in F PROVE c[1] \in shown
    <3>1. PICK i \in DOMAIN fs : c = <<i, ViewOf(r, fs[i])>>
      BY <1>4
    <3> QED
      BY <1>4, <3>1
  <2>2. ASSUME NEW i \in shown PROVE i \in ns
    <3>1. <<i, ViewOf(r, fs[i])>> \in F
      BY <1>1, <1>4, <1>6
    <3>2. <<i, ViewOf(r, fs[i])>>[1] = i
      OBVIOUS
    <3> QED
      BY <3>1, <3>2
  <2> HIDE DEF ns
  <2>3. \A k \in ns : k \in shown
    BY <2>1 DEF ns
  <2> QED
    BY <2>2, <2>3
<1>8. \A k \in ns : pick(k)[2] = ViewOf(r, fs[k])
  <2> TAKE k \in ns
  <2>1. pick(k) \in F /\ pick(k)[1] = k
    OBVIOUS
  <2> HIDE DEF pick
  <2> QED
    BY <1>4, <2>1
<1>9. ns \subseteq Nat /\ IsFiniteSet(ns)
  BY <1>1, <1>6, <1>7, NumbersUpTo
<1>10. at \in [1..Cardinality(ns) -> ns]
  BY <1>9, AscendingHasAll
<1>11. View(r).files = [i \in 1..Cardinality(ns) |-> ViewOf(r, fs[at[i]])]
  BY <1>5, <1>7
<1> HIDE DEF ns, at, pick
<1>12. \A i \in 1..Cardinality(ns) : pick(at[i])[2] = ViewOf(r, fs[at[i]])
  BY <1>8, <1>10
<1> QED
  BY <1>3, <1>11, <1>12

(***************************************************************************)
(* The worker w at a record f of the status of s.                           *)
(***************************************************************************)
Working(s, w) ==
  /\ Typed /\ pc = "snapshot" /\ s \in Repositories /\ SnapshotOf(s)
  /\ w \in DOMAIN pool /\ pool[w].todo # <<>>

LEMMA FirstAndRest ==
  ASSUME NEW S, NEW q \in Seq(S), q # <<>>
  PROVE  q[1] \in S /\ Tail(q) \in Seq(S)
OBVIOUS

LEMMA TodoIsRecord ==
  ASSUME NEW s, NEW w, Working(s, w)
  PROVE  /\ pool[w].todo[1] \in DOMAIN parsed.files
         /\ FileAt(w) = parsed.files[pool[w].todo[1]] /\ IsRecord(s, FileAt(w))
         /\ ~pool[w].failed /\ PhaseFits(pool[w], FileAt(w))
         /\ Tail(pool[w].todo) \in Seq(1..Len(parsed.files))
         /\ \A i : Waits(w, i) =>
              \/ i = pool[w].todo[1]
              \/ \E k \in DOMAIN Tail(pool[w].todo) : Tail(pool[w].todo)[k] = i
<1> DEFINE t == pool[w]
           n == Len(parsed.files)
<1>1. /\ WorkerFits(t) /\ t.todo # <<>> /\ parsed = Status(s)
  BY DEF Working, SnapshotOf
<1>2. n \in Nat /\ DOMAIN parsed.files = 1..n /\ \A i \in 1..n : IsRecord(s, parsed.files[i])
  BY <1>1, StatusFiles
<1>3. t.todo \in Seq(1..n) /\ ~t.failed /\ PhaseFits(t, parsed.files[t.todo[1]])
  BY <1>1 DEF WorkerFits, IsTask
<1> HIDE DEF n
<1>4. t.todo[1] \in 1..n /\ Tail(t.todo) \in Seq(1..n)
  <2> DEFINE q == t.todo
  <2>1. q \in Seq(1..n) /\ q # <<>>
    BY <1>1, <1>3
  <2> HIDE DEF q
  <2> QED
    BY <2>1, FirstAndRest DEF q
<1>5. \A i : Waits(w, i) =>
        i = t.todo[1] \/ \E k \in DOMAIN Tail(t.todo) : Tail(t.todo)[k] = i
  <2> DEFINE q == t.todo
  <2>1. q \in Seq(1..n) /\ q # <<>>
    BY <1>1, <1>3
  <2> HIDE DEF q
  <2>2. \A k \in DOMAIN q : k # 1 => k - 1 \in DOMAIN Tail(q) /\ Tail(q)[k - 1] = q[k]
    BY <2>1
  <2>3. \A k \in DOMAIN q : q[k] = q[1] \/ \E j \in DOMAIN Tail(q) : Tail(q)[j] = q[k]
    BY <2>2
  <2> QED
    BY <2>3 DEF Waits, q
<1>6. IsRecord(s, parsed.files[t.todo[1]])
  BY <1>2, <1>4
<1> QED
  BY <1>2, <1>3, <1>4, <1>5, <1>6 DEF FileAt, n

LEMMA AdvanceFits ==
  ASSUME NEW s, NEW w, Working(s, w), NEW next, Advance(w, next), WorkerFits(next),
         UNCHANGED <<seen, outage, pc, parsed, meta>>, \A c \in files' : CompletedFits(c)
  PROVE  SnapshotOf(s)'
<1>1. /\ s \in seen /\ parsed = Status(s) /\ pool = [v \in DOMAIN pool |-> pool[v]]
      /\ \A v \in DOMAIN pool : WorkerFits(pool[v])
      /\ MetaFits(s) /\ w \in DOMAIN pool
  BY DEF Working, SnapshotOf
<1>2. pool' = [pool EXCEPT ![w] = next]
  BY DEF Advance
<1>3. /\ DOMAIN pool' = DOMAIN pool /\ pool' = [v \in DOMAIN pool' |-> pool'[v]]
      /\ \A v \in DOMAIN pool' : pool'[v] = next \/ pool'[v] = pool[v]
  BY <1>1, <1>2
<1>4. Excused' <=> Excused
  BY DEF Excused
<1>5. \A v \in DOMAIN pool' : WorkerFits(pool'[v])
  BY <1>1, <1>3
<1>6. (\A v \in DOMAIN pool : WorkerFits(pool[v]))'
  BY <1>4, <1>5 DEF WorkerFits, IsTask, PhaseFits
<1>7. (\A c \in files : CompletedFits(c))'
  BY DEF CompletedFits
<1>8. MetaFits(s)'
  BY <1>1, <1>4 DEF MetaFits
<1> QED
  BY <1>1, <1>3, <1>6, <1>7, <1>8 DEF SnapshotOf

LEMMA TodoSet ==
  ASSUME NEW todo, NEW old, NEW phase, NEW staged, NEW unstaged, NEW failed
  PROVE  [[todo |-> old, phase |-> phase, staged |-> staged, unstaged |-> unstaged,
           failed |-> failed] EXCEPT !.todo = todo] =
           [todo |-> todo, phase |-> phase, staged |-> staged, unstaged |-> unstaged,
            failed |-> failed]
OBVIOUS

LEMMA IdleFields ==
  ASSUME NEW todo, NEW failed
  PROVE  /\ [Idle EXCEPT !.todo = todo] =
              [todo |-> todo, phase |-> "staged", staged |-> Nothing, unstaged |-> Nothing,
               failed |-> FALSE]
         /\ [Idle EXCEPT !.failed = failed] =
              [todo |-> <<>>, phase |-> "staged", staged |-> Nothing, unstaged |-> Nothing,
               failed |-> failed]
<1>1. [Idle EXCEPT !.todo = todo] =
        [todo |-> todo, phase |-> "staged", staged |-> Nothing, unstaged |-> Nothing,
         failed |-> FALSE]
  <2> DEFINE no == FALSE
  <2>1. Idle = [todo |-> <<>>, phase |-> "staged", staged |-> Nothing, unstaged |-> Nothing,
                failed |-> no]
    BY DEF Idle
  <2> HIDE DEF no
  <2>2. [Idle EXCEPT !.todo = todo] =
          [todo |-> todo, phase |-> "staged", staged |-> Nothing, unstaged |-> Nothing,
           failed |-> no]
    BY <2>1, TodoSet
  <2> QED
    BY <2>2 DEF no
<1>2. [Idle EXCEPT !.failed = failed] =
        [todo |-> <<>>, phase |-> "staged", staged |-> Nothing, unstaged |-> Nothing,
         failed |-> failed]
  BY DEF Idle
<1> QED
  BY <1>1, <1>2, Zenon

LEMMA FinishedFits ==
  ASSUME NEW s, NEW w, Working(s, w)
  PROVE  /\ WorkerFits(Finished(w)) /\ Finished(w).todo = Tail(pool[w].todo)
         /\ Finished(w).phase = "staged" /\ ~Finished(w).failed
<1>1. Tail(pool[w].todo) \in Seq(1..Len(parsed.files))
  BY TodoIsRecord
<1>2. Finished(w) = [todo |-> Tail(pool[w].todo), phase |-> "staged", staged |-> Nothing,
                     unstaged |-> Nothing, failed |-> FALSE]
  BY IdleFields DEF Finished
<1> DEFINE t == Finished(w)
<1>3. /\ t = [todo |-> t.todo, phase |-> t.phase, staged |-> t.staged, unstaged |-> t.unstaged,
              failed |-> t.failed]
      /\ t.todo = Tail(pool[w].todo) /\ t.phase = "staged" /\ t.failed = FALSE
  BY <1>2
<1> HIDE DEF t
<1>4. IsTask(t, Len(parsed.files)) /\ PhaseFits(t, parsed.files[t.todo[1]])
  BY <1>1, <1>3 DEF IsTask, PhaseFits, Contexts
<1>5. WorkerFits(t)
  BY <1>3, <1>4 DEF WorkerFits
<1> QED
  BY <1>3, <1>5 DEF t

LEMMA FailedFits ==
  ASSUME Excused
  PROVE  LET t == [Idle EXCEPT !.failed = TRUE] IN
         WorkerFits(t) /\ t.failed /\ t.todo = <<>>
<1> DEFINE t == [Idle EXCEPT !.failed = TRUE]
<1>1. t = [todo |-> <<>>, phase |-> "staged", staged |-> Nothing, unstaged |-> Nothing,
           failed |-> TRUE]
  BY IdleFields
<1>2. /\ t = [todo |-> t.todo, phase |-> t.phase, staged |-> t.staged, unstaged |-> t.unstaged,
              failed |-> t.failed]
      /\ t.todo = <<>> /\ t.phase = "staged" /\ t.failed = TRUE
  BY <1>1
<1> HIDE DEF t
<1>3. <<>> \in Seq(1..Len(parsed.files))
  OBVIOUS
<1>4. WorkerFits(t)
  BY <1>2, <1>3 DEF WorkerFits, IsTask
<1> QED
  BY <1>2, <1>4 DEF t

\* A quiet step of w: what it completes is as the repository shows it, and its
\* record stays in its hands until it is completed, left out or the read fails.
LEMMA AdvanceQuiet ==
  ASSUME NEW w, Working(repo, w), QuietWorkers, UNCHANGED <<repo, parsed>>,
         NEW next, Advance(w, next), files \subseteq files',
         \A c \in files' : c \in files \/ \E i \in DOMAIN parsed.files :
           /\ c = <<i, ViewOf(repo, parsed.files[i])>>
           /\ Readable(repo, parsed.files[i]) /\ ~LeftOut(repo, parsed.files[i]),
         next.todo # <<>> => TaskShows(next, parsed.files[next.todo[1]]),
         next.failed => \E i \in DOMAIN parsed.files : ~Readable(repo, parsed.files[i]),
         \A i \in DOMAIN parsed.files : Waits(w, i) =>
           \/ next.failed \/ \E k \in DOMAIN next.todo : next.todo[k] = i
           \/ LeftOut(repo, parsed.files[i]) \/ <<i, ViewOf(repo, parsed.files[i])>> \in files'
  PROVE  QuietWorkers'
<1> DEFINE fs == parsed.files
           Shown(i) == Readable(repo, fs[i]) /\ ~LeftOut(repo, fs[i])
           Done(i) == <<i, ViewOf(repo, fs[i])>> \in files' /\ Shown(i)
<1>1. /\ pool' = [v \in DOMAIN pool |-> IF v = w THEN next ELSE pool[v]]
      /\ DOMAIN pool' = DOMAIN pool /\ w \in DOMAIN pool
      /\ \A v \in DOMAIN pool : pool'[v] = IF v = w THEN next ELSE pool[v]
  <2>1. w \in DOMAIN pool /\ pool = [v \in DOMAIN pool |-> pool[v]]
    BY DEF Working, SnapshotOf
  <2> QED
    BY <2>1 DEF Advance
<1>2. repo' = repo /\ parsed' = parsed
  OBVIOUS
<1>3. ~pool[w].failed
  BY TodoIsRecord
<1>4. \A i : Completed(i)' <=> Done(i)
  BY <1>2 DEF Completed, ViewOf, Readable, NeedsContext, StagedOf, UnstagedOf, LeftOut
<1>5. \A c \in files' : \E i \in DOMAIN fs : c = <<i, ViewOf(repo, fs[i])>> /\ Shown(i)
  BY DEF QuietWorkers, Completed
<1>6. ASSUME NEW v \in DOMAIN pool'
      PROVE  /\ pool'[v].todo # <<>> => TaskShows(pool'[v], fs[pool'[v].todo[1]])
             /\ pool'[v].failed => \E i \in DOMAIN fs : ~Readable(repo, fs[i])
  <2>1. CASE v = w
    BY <1>1, <2>1
  <2>2. CASE v # w
    BY <1>1, <1>6, <2>2 DEF QuietWorkers
  <2> QED
    BY <2>1, <2>2
<1>7. ASSUME NEW i \in DOMAIN fs
      PROVE  \/ Done(i) \/ LeftOut(repo, fs[i])
             \/ \E v \in DOMAIN pool' : pool'[v].failed \/ \E k \in DOMAIN pool'[v].todo :
                                                            pool'[v].todo[k] = i
  <2>1. CASE Completed(i)
    BY <2>1 DEF Completed
  <2>2. CASE LeftOut(repo, fs[i])
    BY <2>2
  <2>3. CASE \E v \in DOMAIN pool : pool[v].failed \/ Waits(v, i)
    <3>1. PICK v \in DOMAIN pool : pool[v].failed \/ Waits(v, i)
      BY <2>3
    <3>2. CASE v # w
      BY <1>1, <3>1, <3>2 DEF Waits
    <3>3. CASE v = w
      <4>1. \/ next.failed \/ \E k \in DOMAIN next.todo : next.todo[k] = i
            \/ LeftOut(repo, fs[i]) \/ <<i, ViewOf(repo, fs[i])>> \in files'
        BY <1>3, <3>1, <3>3
      <4>2. CASE <<i, ViewOf(repo, fs[i])>> \in files'
        <5>1. PICK j \in DOMAIN fs :
                <<i, ViewOf(repo, fs[i])>> = <<j, ViewOf(repo, fs[j])>> /\ Shown(j)
          BY <1>5, <4>2
        <5>2. Shown(i)
          BY <5>1
        <5> QED
          BY <4>2, <5>2
      <4> QED
        BY <1>1, <4>1, <4>2
    <3> QED
      BY <3>2, <3>3
  <2> QED
    BY <2>1, <2>2, <2>3 DEF QuietWorkers
<1> HIDE DEF Done, Shown
<1>8. (\A v \in DOMAIN pool :
         /\ pool[v].todo # <<>> => TaskShows(pool[v], parsed.files[pool[v].todo[1]])
         /\ pool[v].failed => \E i \in DOMAIN parsed.files : ~Readable(repo, parsed.files[i]))'
  BY <1>2, <1>6 DEF TaskShows, StagedOf, UnstagedOf, Readable, NeedsContext
<1>9. (\A c \in files : \E i \in DOMAIN parsed.files :
         c = <<i, ViewOf(repo, parsed.files[i])>> /\ Completed(i))'
  <2>1. ASSUME NEW c \in files'
        PROVE  \E i \in DOMAIN fs : c = <<i, ViewOf(repo, fs[i])>> /\ Completed(i)'
    <3>1. PICK i \in DOMAIN fs : c = <<i, ViewOf(repo, fs[i])>> /\ Shown(i)
      BY <1>5
    <3>2. Done(i)
      BY <3>1 DEF Done
    <3> QED
      BY <1>4, <3>1, <3>2
  <2> QED
    BY <1>2, <2>1
<1>10. (\A i \in DOMAIN parsed.files :
          \/ Completed(i) \/ LeftOut(repo, parsed.files[i])
          \/ \E v \in DOMAIN pool : pool[v].failed \/ Waits(v, i))'
  BY <1>2, <1>4, <1>7 DEF Waits, LeftOut
<1> QED
  BY <1>8, <1>9, <1>10 DEF QuietWorkers

(***************************************************************************)
(* The four ways a worker goes on.                                          *)
(***************************************************************************)
Beside == UNCHANGED <<repo, seen, outage, pc, parsed, meta>>

\* To the next phase of the same record.
LEMMA Stepped ==
  ASSUME NEW s, NEW w, Working(s, w), Beside, UNCHANGED files, NEW next, Advance(w, next),
         next = [todo |-> pool[w].todo, phase |-> next.phase, staged |-> next.staged,
                 unstaged |-> next.unstaged, failed |-> pool[w].failed],
         next.phase \in {"staged", "unstaged", "read"} \cup Contexts,
         PhaseFits(next, FileAt(w))
  PROVE  /\ SnapshotOf(s)'
         /\ s = repo /\ QuietWorkers /\ TaskShows(next, FileAt(w)) => QuietWorkers'
<1>1. next.todo = pool[w].todo /\ next.failed = pool[w].failed
  <2> DEFINE todo == pool[w].todo
             failed == pool[w].failed
             phase == next.phase
             staged == next.staged
             unstaged == next.unstaged
  <2>1. next = [todo |-> todo, phase |-> phase, staged |-> staged, unstaged |-> unstaged,
                failed |-> failed]
    OBVIOUS
  <2> HIDE DEF todo, failed, phase, staged, unstaged
  <2>2. next.todo = todo /\ next.failed = failed
    BY <2>1
  <2> QED
    BY <2>2 DEF todo, failed
<1>2. /\ ~pool[w].failed /\ FileAt(w) = parsed.files[pool[w].todo[1]]
      /\ WorkerFits(pool[w])
  BY TodoIsRecord DEF Working, SnapshotOf
<1>3. WorkerFits(next)
  BY <1>1, <1>2 DEF WorkerFits, IsTask
<1>4. \A c \in files' : CompletedFits(c)
  BY DEF Working, SnapshotOf
<1>5. SnapshotOf(s)'
  BY <1>3, <1>4, AdvanceFits DEF Beside
<1>6. ASSUME s = repo, QuietWorkers, TaskShows(next, FileAt(w)) PROVE QuietWorkers'
  <2>1. next.todo # <<>> => TaskShows(next, parsed.files[next.todo[1]])
    BY <1>1, <1>2, <1>6
  <2>2. next.failed => \E i \in DOMAIN parsed.files : ~Readable(repo, parsed.files[i])
    BY <1>1, <1>2
  <2>3. \A i : Waits(w, i) => \E k \in DOMAIN next.todo : next.todo[k] = i
    BY <1>1 DEF Waits
  <2>4. Working(repo, w) /\ UNCHANGED <<repo, parsed>> /\ files' = files
    BY <1>6 DEF Beside
  <2> QED
    BY <1>6, <2>1, <2>2, <2>3, <2>4, AdvanceQuiet
<1> QED
  BY <1>5, <1>6

\* To the next record, without this one.
LEMMA Skipped ==
  ASSUME NEW s, NEW w, Working(s, w), Beside, Skip(w)
  PROVE  /\ SnapshotOf(s)'
         /\ s = repo /\ QuietWorkers /\ LeftOut(repo, FileAt(w)) => QuietWorkers'
<1> DEFINE next == Finished(w)
<1>1. /\ WorkerFits(next) /\ next.todo = Tail(pool[w].todo) /\ next.phase = "staged"
      /\ ~next.failed
  BY FinishedFits
<1>2. Advance(w, next) /\ files' = files
  BY DEF Skip
<1> HIDE DEF next
<1>3. SnapshotOf(s)'
  <2>1. \A c \in files' : CompletedFits(c)
    BY <1>2 DEF Working, SnapshotOf
  <2> QED
    BY <1>1, <1>2, <2>1, AdvanceFits DEF Beside
<1>4. ASSUME s = repo, QuietWorkers, LeftOut(repo, FileAt(w)) PROVE QuietWorkers'
  <2>1. next.todo # <<>> => TaskShows(next, parsed.files[next.todo[1]])
    BY <1>1 DEF TaskShows, Contexts
  <2>2. \A i : Waits(w, i) =>
          (\E k \in DOMAIN next.todo : next.todo[k] = i) \/ LeftOut(repo, parsed.files[i])
    BY <1>1, <1>4, TodoIsRecord
  <2>3. Working(repo, w) /\ UNCHANGED <<repo, parsed>>
    BY <1>4 DEF Beside
  <2> QED
    BY <1>1, <1>2, <1>4, <2>1, <2>2, <2>3, AdvanceQuiet
<1> QED
  BY <1>3, <1>4

\* To the next record, with what this one shows.
LEMMA Completes ==
  ASSUME NEW s, NEW w, Working(s, w), Beside, NEW staged, NEW unstaged,
         Complete(w, staged, unstaged)
  PROVE  /\ SnapshotOf(s)'
         /\ (/\ s = repo /\ QuietWorkers
             /\ Shows(FileAt(w), staged, unstaged) = ViewOf(repo, FileAt(w))
             /\ Readable(repo, FileAt(w)) /\ ~LeftOut(repo, FileAt(w))) => QuietWorkers'
<1> DEFINE next == Finished(w)
           j == pool[w].todo[1]
           new == <<j, Shows(FileAt(w), staged, unstaged)>>
<1>1. /\ WorkerFits(next) /\ next.todo = Tail(pool[w].todo) /\ next.phase = "staged"
      /\ ~next.failed
  BY FinishedFits
<1>2. Advance(w, next) /\ files' = files \cup {new}
  BY DEF Complete
<1>3. j \in DOMAIN parsed.files /\ FileAt(w) = parsed.files[j]
  BY TodoIsRecord
<1> HIDE DEF next
<1>4. SnapshotOf(s)'
  <2>1. CompletedFits(new)
    <3>1. new[2].staged = staged /\ new[2].unstaged = unstaged
      BY DEF Shows
    <3> QED
      BY <1>3, <3>1 DEF CompletedFits
  <2>2. \A c \in files : CompletedFits(c)
    BY DEF Working, SnapshotOf
  <2> HIDE DEF new
  <2>3. \A c \in files' : CompletedFits(c)
    BY <1>2, <2>1, <2>2
  <2> QED
    BY <1>1, <1>2, <2>3, AdvanceFits DEF Beside
<1>5. ASSUME s = repo, QuietWorkers, Readable(repo, FileAt(w)), ~LeftOut(repo, FileAt(w)),
             Shows(FileAt(w), staged, unstaged) = ViewOf(repo, FileAt(w))
      PROVE  QuietWorkers'
  <2>1. next.todo # <<>> => TaskShows(next, parsed.files[next.todo[1]])
    BY <1>1 DEF TaskShows, Contexts
  <2>2. new = <<j, ViewOf(repo, parsed.files[j])>>
    BY <1>3, <1>5
  <2>3. \A i : Waits(w, i) => i = j \/ \E k \in DOMAIN next.todo : next.todo[k] = i
    BY <1>1, TodoIsRecord
  <2>4. Working(repo, w) /\ UNCHANGED <<repo, parsed>>
    BY <1>5 DEF Beside
  <2> HIDE DEF new, j
  <2>5. files \subseteq files' /\ new \in files'
    BY <1>2
  <2>6. \A c \in files' : c \in files \/ \E i \in DOMAIN parsed.files :
          /\ c = <<i, ViewOf(repo, parsed.files[i])>>
          /\ Readable(repo, parsed.files[i]) /\ ~LeftOut(repo, parsed.files[i])
    BY <1>2, <1>3, <1>5, <2>2
  <2>7. \A i \in DOMAIN parsed.files : Waits(w, i) =>
           \/ \E k \in DOMAIN next.todo : next.todo[k] = i
           \/ <<i, ViewOf(repo, parsed.files[i])>> \in files'
    BY <2>2, <2>3, <2>5
  <2> QED
    BY <1>1, <1>2, <1>5, <2>1, <2>4, <2>5, <2>6, <2>7, AdvanceQuiet
<1> QED
  BY <1>4, <1>5

\* To nothing: the read fails.
LEMMA FailsExcused ==
  ASSUME NEW s, NEW w, Working(s, w), Beside, UNCHANGED files, Fail(w), Excused
  PROVE  /\ SnapshotOf(s)'
         /\ s = repo /\ QuietWorkers /\ ~Readable(repo, FileAt(w)) => QuietWorkers'
<1> DEFINE next == [Idle EXCEPT !.failed = TRUE]
<1>1. WorkerFits(next) /\ next.failed /\ next.todo = <<>>
  BY FailedFits
<1>2. Advance(w, next)
  BY DEF Fail
<1>3. \A c \in files' : CompletedFits(c)
  BY DEF Working, SnapshotOf
<1> HIDE DEF next
<1>4. SnapshotOf(s)'
  BY <1>1, <1>2, <1>3, AdvanceFits DEF Beside
<1>5. ASSUME s = repo, QuietWorkers, ~Readable(repo, FileAt(w)) PROVE QuietWorkers'
  <2>1. \E i \in DOMAIN parsed.files : ~Readable(repo, parsed.files[i])
    BY <1>5, TodoIsRecord
  <2>2. Working(repo, w) /\ UNCHANGED <<repo, parsed>> /\ files' = files
    BY <1>5 DEF Beside
  <2> QED
    BY <1>1, <1>2, <1>5, <2>1, <2>2, AdvanceQuiet
<1> QED
  BY <1>4, <1>5

(***************************************************************************)
(* The steps of a worker.                                                   *)
(***************************************************************************)
WorkHeld(s) == SnapshotOf(s)' /\ (s = repo /\ QuietWorkers => QuietWorkers')

LEMMA MovesExcuse ==
  ASSUME NEW s, NEW w, Working(s, w), FileAt(w).kind \in {"Conflicted", "Renamed"}
  PROVE  Excused
<1>1. s \in seen /\ IsRecord(s, FileAt(w))
  BY TodoIsRecord DEF Working, SnapshotOf
<1>2. Disturbing(s)
  BY <1>1, RecordFields DEF Disturbing
<1> QED
  BY <1>1, <1>2 DEF Excused

\* A task with other fields.
LEMMA TaskPhase ==
  ASSUME NEW t, NEW n, IsTask(t, n), NEW phase
  PROVE  [t EXCEPT !.phase = phase] =
           [todo |-> t.todo, phase |-> phase, staged |-> t.staged, unstaged |-> t.unstaged,
            failed |-> t.failed]
<1> DEFINE todo == t.todo
           was == t.phase
           index == t.staged
           work == t.unstaged
           failed == t.failed
<1>1. t = [todo |-> todo, phase |-> was, staged |-> index, unstaged |-> work, failed |-> failed]
  BY DEF IsTask
<1> HIDE DEF todo, was, index, work, failed
<1>2. [t EXCEPT !.phase = phase] =
        [todo |-> todo, phase |-> phase, staged |-> index, unstaged |-> work, failed |-> failed]
  BY <1>1
<1> QED
  BY <1>2 DEF todo, index, work, failed

LEMMA TaskStaged ==
  ASSUME NEW t, NEW n, IsTask(t, n), NEW phase, NEW staged
  PROVE  LET u == [todo |-> t.todo, phase |-> phase, staged |-> staged,
                   unstaged |-> t.unstaged, failed |-> t.failed] IN
         /\ [t EXCEPT !.phase = phase, !.staged = staged] = u
         /\ [[t EXCEPT !.phase = phase] EXCEPT !.staged = staged] = u
<1> DEFINE todo == t.todo
           index == t.staged
           work == t.unstaged
           failed == t.failed
           u == [todo |-> todo, phase |-> phase, staged |-> index, unstaged |-> work,
                 failed |-> failed]
<1>1. [t EXCEPT !.phase = phase] = u
  BY TaskPhase
<1> HIDE DEF todo, index, work, failed
<1>2. [u EXCEPT !.staged = staged] =
        [todo |-> todo, phase |-> phase, staged |-> staged, unstaged |-> work, failed |-> failed]
  OBVIOUS
<1>3. [t EXCEPT !.phase = phase, !.staged = staged] =
        [[t EXCEPT !.phase = phase] EXCEPT !.staged = staged]
  OBVIOUS
<1> QED
  BY <1>1, <1>2, <1>3 DEF u, todo, work, failed

LEMMA TaskUnstaged ==
  ASSUME NEW t, NEW n, IsTask(t, n), NEW phase, NEW unstaged
  PROVE  [t EXCEPT !.phase = phase, !.unstaged = unstaged] =
           [todo |-> t.todo, phase |-> phase, staged |-> t.staged, unstaged |-> unstaged,
            failed |-> t.failed]
<1> DEFINE todo == t.todo
           index == t.staged
           work == t.unstaged
           failed == t.failed
           u == [todo |-> todo, phase |-> phase, staged |-> index, unstaged |-> work,
                 failed |-> failed]
<1>1. [t EXCEPT !.phase = phase] = u
  BY TaskPhase
<1> HIDE DEF todo, index, work, failed
<1>2. [u EXCEPT !.unstaged = unstaged] =
        [todo |-> todo, phase |-> phase, staged |-> index, unstaged |-> unstaged,
         failed |-> failed]
  OBVIOUS
<1>3. [t EXCEPT !.phase = phase, !.unstaged = unstaged] =
        [[t EXCEPT !.phase = phase] EXCEPT !.unstaged = unstaged]
  OBVIOUS
<1> QED
  BY <1>1, <1>2, <1>3 DEF u, todo, index, failed

\* A task that goes to another phase with other diffs.
LEMMA NextPhase ==
  ASSUME NEW s, NEW w, Working(s, w), Beside, UNCHANGED files,
         NEW phase \in {"unstaged", "read"} \cup Contexts, NEW staged, NEW unstaged,
         Advance(w, [todo |-> pool[w].todo, phase |-> phase, staged |-> staged,
                     unstaged |-> unstaged, failed |-> pool[w].failed]),
         phase = "read" => FileAt(w).kind = "Untracked",
         phase \in Contexts => FileAt(w).kind = "Renamed"
  PROVE  /\ SnapshotOf(s)'
         /\ (/\ s = repo /\ QuietWorkers
             /\ staged = IF phase = "unstaged_context"
                           THEN WithContext(FileAt(w), StagedOf(repo, FileAt(w)),
                                            InIndex(repo, FileAt(w).path))
                           ELSE StagedOf(repo, FileAt(w))
             /\ ~NotUtf8(StagedOf(repo, FileAt(w)))
             /\ phase \in Contexts => unstaged = UnstagedOf(repo, FileAt(w)) /\ ~NotUtf8(unstaged)
             /\ phase = "read" => InWork(repo, FileAt(w).path) \in Contents) => QuietWorkers'
<1> DEFINE todo == pool[w].todo
           failed == pool[w].failed
           next == [todo |-> todo, phase |-> phase, staged |-> staged, unstaged |-> unstaged,
                    failed |-> failed]
<1> HIDE DEF todo, failed
<1>1. /\ next.phase = phase /\ next.staged = staged /\ next.unstaged = unstaged
      /\ next.todo = todo /\ next.failed = failed
  OBVIOUS
<1>2. next = [todo |-> pool[w].todo, phase |-> next.phase, staged |-> next.staged,
              unstaged |-> next.unstaged, failed |-> pool[w].failed]
  BY <1>1 DEF todo, failed
<1>3. Advance(w, next)
  BY DEF todo, failed
<1> HIDE DEF next
<1>4. PhaseFits(next, FileAt(w))
  BY <1>1 DEF PhaseFits
<1>5. /\ SnapshotOf(s)'
      /\ s = repo /\ QuietWorkers /\ TaskShows(next, FileAt(w)) => QuietWorkers'
  BY <1>1, <1>2, <1>3, <1>4, Stepped
<1> QED
  BY <1>1, <1>5 DEF TaskShows

LEMMA AtShows ==
  ASSUME NEW w, Working(repo, w), QuietWorkers
  PROVE  TaskShows(pool[w], FileAt(w)) /\ IsRecord(repo, FileAt(w))
BY TodoIsRecord DEF Working, QuietWorkers

LEMMA StagedRead ==
  ASSUME NEW s, NEW w, Working(s, w), ReadStaged(w)
  PROVE  WorkHeld(s)
<1> DEFINE f == FileAt(w)
           staged == StagedOf(repo, f)
           unstaged == pool[w].unstaged
<1>1. Beside /\ UNCHANGED files
  BY DEF ReadStaged, Reads, Beside
<1>2. IsTask(pool[w], Len(parsed.files))
  BY DEF Working, SnapshotOf, WorkerFits
<1>3. IF NotUtf8(staged) THEN Fail(w)
      ELSE Advance(w, [pool[w] EXCEPT !.phase = "unstaged", !.staged = staged])
  BY DEF ReadStaged, StagedOf
<1>4. CASE NotUtf8(staged)
  <2>1. IsRecord(s, f) /\ repo \in seen
    BY TodoIsRecord DEF Working, Typed
  <2>2. staged # Nothing
    BY <1>4 DEF NotUtf8
  <2>3. f.kind # "Conflicted" /\ f.index # "." /\ staged = DiffOf(repo, PathsOf(f), TRUE)
    BY <2>2 DEF StagedOf
  <2>4. f.kind # "Untracked"
    BY <2>1, <2>3, RecordFields
  <2>5. Disturbing(repo)
    BY <1>4, <2>1, <2>3, PathsOfRecord, NotUtf8Disturbs
  <2>6. Excused
    BY <2>1, <2>5 DEF Excused
  <2>7. ~Readable(repo, f)
    BY <1>4, <2>3, <2>4 DEF Readable
  <2> HIDE DEF f, staged
  <2>8. Fail(w)
    BY <1>3, <1>4
  <2> QED
    BY <1>1, <2>6, <2>7, <2>8, FailsExcused DEF WorkHeld, f
<1>5. CASE ~NotUtf8(staged)
  <2> HIDE DEF staged
  <2>1. [pool[w] EXCEPT !.phase = "unstaged", !.staged = staged] =
          [todo |-> pool[w].todo, phase |-> "unstaged", staged |-> staged,
           unstaged |-> pool[w].unstaged, failed |-> pool[w].failed]
    BY <1>2, TaskStaged
  <2>2. Advance(w, [todo |-> pool[w].todo, phase |-> "unstaged", staged |-> staged,
                    unstaged |-> unstaged, failed |-> pool[w].failed])
    BY <1>3, <1>5, <2>1
  <2> HIDE DEF unstaged
  <2>3. /\ SnapshotOf(s)'
        /\ s = repo /\ QuietWorkers => QuietWorkers'
    BY <1>1, <1>5, <2>2, NextPhase DEF Contexts, staged
  <2> QED
    BY <2>3 DEF WorkHeld
<1> QED
  BY <1>4, <1>5

LEMMA Inspected ==
  ASSUME NEW s, NEW w, Working(s, w), Inspect(w)
  PROVE  WorkHeld(s)
<1> DEFINE f == FileAt(w)
           staged == pool[w].staged
           unstaged == pool[w].unstaged
<1>1. Beside /\ f.kind = "Untracked" /\ pool[w].phase = "unstaged"
  BY DEF Inspect, Reads, Beside, At
<1>2. IsRecord(s, f)
  BY TodoIsRecord
<1>3. repo \in Repositories
  BY DEF Working, Typed
<1>4. CASE InWork(repo, f.path) \in {Absent, Dir}
  <2>1. Skip(w)
    BY <1>4 DEF Inspect
  <2>2. s = repo => LeftOut(repo, f)
    BY <1>1, <1>2, <1>4, RecordFields DEF Untracked, LeftOut
  <2> QED
    BY <1>1, <2>1, <2>2, Skipped DEF WorkHeld
<1>5. CASE InWork(repo, f.path) \notin {Absent, Dir}
  <2>1. Advance(w, [pool[w] EXCEPT !.phase = "read"]) /\ UNCHANGED files
    BY <1>5 DEF Inspect
  <2>2. IsTask(pool[w], Len(parsed.files))
    BY DEF Working, SnapshotOf, WorkerFits
  <2>3. Advance(w, [todo |-> pool[w].todo, phase |-> "read", staged |-> staged,
                    unstaged |-> unstaged, failed |-> pool[w].failed])
    BY <2>1, <2>2, TaskPhase
  <2>4. ASSUME s = repo, QuietWorkers
        PROVE  staged = StagedOf(repo, f) /\ ~NotUtf8(StagedOf(repo, f))
    BY <1>1, <2>4, AtShows DEF TaskShows
  <2>5. s = repo => InWork(repo, f.path) \in Contents
    BY <1>2, <1>3, <1>5, RecordFields, Contained
  <2> HIDE DEF f, staged, unstaged
  <2>6. /\ SnapshotOf(s)'
        /\ s = repo /\ QuietWorkers => QuietWorkers'
    BY <1>1, <2>1, <2>3, <2>4, <2>5, NextPhase DEF Contexts, f
  <2> QED
    BY <2>6 DEF WorkHeld
<1> QED
  BY <1>4, <1>5

LEMMA WholeRead ==
  ASSUME NEW s, NEW w, Working(s, w), ReadWhole(w)
  PROVE  WorkHeld(s)
<1> DEFINE f == FileAt(w)
           work == InWork(repo, f.path)
<1>1. /\ Beside /\ f.kind \in {"Untracked", "Conflicted"}
      /\ pool[w].phase \in {"read", "unstaged"}
  BY TodoIsRecord DEF ReadWhole, Reads, Beside, At, PhaseFits
<1>2. IsRecord(s, f) /\ repo \in Repositories
  BY TodoIsRecord DEF Working, Typed
<1>3. ASSUME s = repo, QuietWorkers
      PROVE  /\ pool[w].staged = StagedOf(repo, f)
             /\ f.kind = "Untracked" => work \in Contents
  <2>1. TaskShows(pool[w], f)
    BY <1>3, AtShows
  <2>2. pool[w].phase = "unstaged" => f.kind = "Conflicted"
    BY DEF ReadWhole, At
  <2> QED
    BY <1>1, <2>1, <2>2 DEF TaskShows
<1>4. CASE work \in Contents
  <2>1. Complete(w, pool[w].staged, WholeFile(work))
    <3>1. work # Absent
      BY <1>4, NamesAreDistinct
    <3> QED
      BY <1>4, <3>1 DEF ReadWhole
  <2>2. ASSUME s = repo, QuietWorkers
        PROVE  Shows(f, pool[w].staged, WholeFile(work)) = ViewOf(repo, f)
    <3>1. WithContext(f, pool[w].staged, InIndex(repo, f.path)) = pool[w].staged
      BY <1>1 DEF WithContext
    <3> QED
      BY <1>1, <1>2, <1>3, <2>2, <3>1, ViewOfRecord
  <2>3. Readable(repo, f) /\ ~LeftOut(repo, f)
    BY <1>1, <1>4, NamesAreDistinct DEF Readable, LeftOut
  <2> QED
    BY <1>1, <2>1, <2>2, <2>3, Completes DEF WorkHeld
<1>5. CASE work = Absent /\ f.kind = "Untracked"
  <2>1. work \notin Contents
    BY <1>5, NamesAreDistinct
  <2>3. Skip(w)
    BY <1>5, <2>1 DEF ReadWhole
  <2>2. ~(s = repo /\ QuietWorkers)
    BY <1>3, <1>5, NamesAreDistinct
  <2> QED
    BY <1>1, <2>3, <2>2, Skipped DEF WorkHeld
<1>6. CASE ~(work \in Contents) /\ ~(work = Absent /\ f.kind = "Untracked")
  <2>1. Fail(w) /\ UNCHANGED files
    BY <1>6 DEF ReadWhole
  <2>2. Excused
    <3>1. CASE f.kind = "Conflicted"
      BY <3>1, MovesExcuse
    <3>2. CASE f.kind = "Untracked"
      <4>1. work = Dir /\ f.path \in Paths
        BY <1>2, <1>6, <3>2, RecordFields, Contained
      <4>2. Disturbing(repo) /\ repo \in seen
        BY <4>1 DEF Disturbing, Working, Typed
      <4> QED
        BY <4>2 DEF Excused
    <3> QED
      BY <1>1, <3>1, <3>2
  <2>3. s = repo /\ QuietWorkers => ~Readable(repo, f)
    BY <1>1, <1>3, <1>6 DEF Readable
  <2> QED
    BY <1>1, <2>1, <2>2, <2>3, FailsExcused DEF WorkHeld
<1> QED
  BY <1>4, <1>5, <1>6

LEMMA UnstagedRead ==
  ASSUME NEW s, NEW w, Working(s, w), ReadUnstaged(w)
  PROVE  WorkHeld(s)
<1> DEFINE f == FileAt(w)
           staged == pool[w].staged
           unstaged == UnstagedOf(repo, f)
<1>1. Beside /\ f.kind \notin {"Untracked", "Conflicted"} /\ pool[w].phase = "unstaged"
  BY DEF ReadUnstaged, Reads, Beside, At
<1>2. IsRecord(s, f) /\ repo \in Repositories
  BY TodoIsRecord DEF Working, Typed
<1>3. ASSUME s = repo, QuietWorkers
      PROVE  staged = StagedOf(repo, f) /\ ~NotUtf8(StagedOf(repo, f))
  BY <1>1, <1>3, AtShows DEF TaskShows
<1>6. CASE NotUtf8(unstaged)
  <2>1. Fail(w) /\ UNCHANGED files
    BY <1>6 DEF ReadUnstaged, UnstagedOf
  <2>2. unstaged = DiffOf(repo, PathsOf(f), FALSE)
    BY <1>6 DEF UnstagedOf, NotUtf8
  <2>3. Disturbing(repo) /\ repo \in seen
    BY <1>2, <1>6, <2>2, PathsOfRecord, NotUtf8Disturbs DEF Working, Typed
  <2>4. Excused
    BY <2>3 DEF Excused
  <2>5. ~Readable(repo, f)
    BY <1>1, <1>6 DEF Readable
  <2> HIDE DEF f
  <2> QED
    BY <1>1, <2>1, <2>4, <2>5, FailsExcused DEF WorkHeld, f
<1>4. CASE f.kind = "Renamed" /\ ~NotUtf8(unstaged)
  <2>1. /\ Advance(w, [pool[w] EXCEPT !.phase = "staged_context", !.unstaged = unstaged])
        /\ UNCHANGED files
    BY <1>4 DEF ReadUnstaged, UnstagedOf
  <2>2. IsTask(pool[w], Len(parsed.files))
    BY DEF Working, SnapshotOf, WorkerFits
  <2> HIDE DEF unstaged
  <2>3. Advance(w, [todo |-> pool[w].todo, phase |-> "staged_context", staged |-> staged,
                    unstaged |-> unstaged, failed |-> pool[w].failed])
    BY <2>1, <2>2, TaskUnstaged
  <2> HIDE DEF f, staged
  <2>4. /\ SnapshotOf(s)'
        /\ s = repo /\ QuietWorkers => QuietWorkers'
    BY <1>1, <1>3, <1>4, <2>1, <2>3, NextPhase DEF Contexts, unstaged, f
  <2> QED
    BY <2>4 DEF WorkHeld
<1>5. CASE f.kind # "Renamed" /\ ~NotUtf8(unstaged)
  <2>1. Complete(w, staged, unstaged)
    BY <1>5 DEF ReadUnstaged, UnstagedOf
  <2>2. ASSUME s = repo, QuietWorkers PROVE Shows(f, staged, unstaged) = ViewOf(repo, f)
    <3>1. /\ WithContext(f, StagedOf(repo, f), InIndex(repo, f.path)) = StagedOf(repo, f)
          /\ WithContext(f, unstaged, InWork(repo, f.path)) = unstaged
      BY <1>5 DEF WithContext
    <3> HIDE DEF unstaged
    <3> QED
      BY <1>1, <1>2, <1>3, <2>2, <3>1, ViewOfRecord DEF unstaged
  <2>3. s = repo /\ QuietWorkers => Readable(repo, f) /\ ~LeftOut(repo, f)
    BY <1>1, <1>3, <1>5 DEF Readable, NeedsContext, LeftOut
  <2> QED
    BY <1>1, <2>1, <2>2, <2>3, Completes DEF WorkHeld
<1> QED
  BY <1>4, <1>5, <1>6

LEMMA StagedContextRead ==
  ASSUME NEW s, NEW w, Working(s, w), StagedContext(w)
  PROVE  WorkHeld(s)
<1> DEFINE f == FileAt(w)
           diff == pool[w].staged
           unstaged == pool[w].unstaged
           index == InIndex(repo, f.path)
           next == [pool[w] EXCEPT !.phase = "unstaged_context"]
<1>1. Beside /\ UNCHANGED files /\ pool[w].phase = "staged_context"
  BY DEF StagedContext, Reads, Beside, At
<1>2. IsRecord(s, f) /\ repo \in Repositories /\ f.kind = "Renamed"
  BY <1>1, TodoIsRecord DEF Working, Typed, PhaseFits, Contexts
<1>3. IsTask(pool[w], Len(parsed.files))
  BY DEF Working, SnapshotOf, WorkerFits
<1>4. ASSUME s = repo, QuietWorkers
      PROVE  /\ diff = StagedOf(repo, f) /\ unstaged = UnstagedOf(repo, f) /\ index \in Contents
             /\ ~NotUtf8(StagedOf(repo, f)) /\ ~NotUtf8(unstaged)
  <2>1. TaskShows(pool[w], f)
    BY <1>4, AtShows
  <2>2. /\ diff = StagedOf(repo, f) /\ unstaged = UnstagedOf(repo, f)
        /\ ~NotUtf8(StagedOf(repo, f)) /\ ~NotUtf8(unstaged)
    BY <1>1, <2>1 DEF TaskShows, Contexts
  <2>3. index \in Contents
    BY <1>2, <1>4, RecordFields, Renames
  <2> QED
    BY <2>2, <2>3
<1>5. CASE diff = Nothing \/ HasHunk(diff)
  <2>1. Advance(w, next)
    BY <1>5 DEF StagedContext
  <2>2. Advance(w, [todo |-> pool[w].todo, phase |-> "unstaged_context", staged |-> diff,
                    unstaged |-> unstaged, failed |-> pool[w].failed])
    BY <1>3, <2>1, TaskPhase
  <2>3. ASSUME s = repo, QuietWorkers
        PROVE  diff = WithContext(f, StagedOf(repo, f), index)
    BY <1>4, <1>5, <2>3 DEF WithContext
  <2> HIDE DEF f, diff, unstaged, index
  <2>4. /\ SnapshotOf(s)'
        /\ s = repo /\ QuietWorkers => QuietWorkers'
    BY <1>1, <1>2, <1>4, <2>2, <2>3, NextPhase DEF Contexts, f, index
  <2> QED
    BY <2>4 DEF WorkHeld
<1>6. CASE diff # Nothing /\ ~HasHunk(diff) /\ index \in Contents
  <2> DEFINE staged == diff \cup {Context(index)}
  <2>1. Advance(w, [next EXCEPT !.staged = staged])
    BY <1>6 DEF StagedContext
  <2> HIDE DEF staged
  <2>5. [next EXCEPT !.staged = staged] =
          [todo |-> pool[w].todo, phase |-> "unstaged_context", staged |-> staged,
           unstaged |-> pool[w].unstaged, failed |-> pool[w].failed]
    BY <1>3, TaskStaged
  <2>2. Advance(w, [todo |-> pool[w].todo, phase |-> "unstaged_context", staged |-> staged,
                    unstaged |-> unstaged, failed |-> pool[w].failed])
    BY <2>1, <2>5
  <2>3. ASSUME s = repo, QuietWorkers
        PROVE  staged = WithContext(f, StagedOf(repo, f), index)
    BY <1>2, <1>4, <1>6, <2>3 DEF WithContext, staged
  <2> HIDE DEF f, diff, unstaged, index
  <2>4. /\ SnapshotOf(s)'
        /\ s = repo /\ QuietWorkers => QuietWorkers'
    BY <1>1, <1>2, <1>4, <2>2, <2>3, NextPhase DEF Contexts, f, index
  <2> QED
    BY <2>4 DEF WorkHeld
<1>7. CASE diff # Nothing /\ ~HasHunk(diff) /\ index \notin Contents
  <2>1. Fail(w)
    BY <1>7 DEF StagedContext
  <2>2. Excused
    BY <1>2, MovesExcuse
  <2>3. ~(s = repo /\ QuietWorkers)
    BY <1>4, <1>7
  <2> QED
    BY <1>1, <2>1, <2>2, <2>3, FailsExcused DEF WorkHeld
<1> QED
  BY <1>5, <1>6, <1>7

LEMMA UnstagedContextRead ==
  ASSUME NEW s, NEW w, Working(s, w), UnstagedContext(w)
  PROVE  WorkHeld(s)
<1> DEFINE f == FileAt(w)
           staged == pool[w].staged
           diff == pool[w].unstaged
           work == InWork(repo, f.path)
<1>1. Beside /\ pool[w].phase = "unstaged_context"
  BY DEF UnstagedContext, Reads, Beside, At
<1>2. IsRecord(s, f) /\ repo \in Repositories /\ f.kind = "Renamed"
  BY <1>1, TodoIsRecord DEF Working, Typed, PhaseFits, Contexts
<1>3. ASSUME s = repo, QuietWorkers
      PROVE  /\ staged = WithContext(f, StagedOf(repo, f), InIndex(repo, f.path))
             /\ diff = UnstagedOf(repo, f)
             /\ ~NotUtf8(StagedOf(repo, f)) /\ ~NotUtf8(diff)
  BY <1>1, <1>3, AtShows DEF TaskShows, Contexts
<1>4. ASSUME NEW unstaged, Complete(w, staged, unstaged),
             diff # Nothing /\ ~HasHunk(diff) => work \in Contents,
             unstaged = WithContext(f, diff, work)
      PROVE  WorkHeld(s)
  <2>1. ASSUME s = repo, QuietWorkers
        PROVE  Shows(f, staged, unstaged) = ViewOf(repo, f) /\ Readable(repo, f)
    <3>1. Shows(f, staged, unstaged) = ViewOf(repo, f)
      BY <1>2, <1>3, <1>4, <2>1, ViewOfRecord
    <3>2. Readable(repo, f)
      BY <1>2, <1>3, <1>4, <2>1 DEF Readable, NeedsContext
    <3> QED
      BY <3>1, <3>2
  <2>2. ~LeftOut(repo, f)
    BY <1>2 DEF LeftOut
  <2> QED
    BY <1>1, <1>4, <2>1, <2>2, Completes DEF WorkHeld
<1>5. CASE diff = Nothing \/ HasHunk(diff)
  <2>1. Complete(w, staged, diff)
    BY <1>5 DEF UnstagedContext
  <2>2. diff = WithContext(f, diff, work)
    BY <1>5 DEF WithContext
  <2> QED
    BY <1>4, <1>5, <2>1, <2>2
<1>6. CASE diff # Nothing /\ ~HasHunk(diff) /\ work \in Contents
  <2>1. Complete(w, staged, diff \cup {Context(work)})
    BY <1>6 DEF UnstagedContext
  <2>2. diff \cup {Context(work)} = WithContext(f, diff, work)
    BY <1>2, <1>6 DEF WithContext
  <2> QED
    BY <1>4, <1>6, <2>1, <2>2
<1>7. CASE diff # Nothing /\ ~HasHunk(diff) /\ work \notin Contents
  <2>1. Fail(w) /\ UNCHANGED files
    BY <1>7 DEF UnstagedContext
  <2>2. Excused
    BY <1>2, MovesExcuse
  <2>3. s = repo /\ QuietWorkers => ~Readable(repo, f)
    BY <1>2, <1>3, <1>7 DEF Readable, NeedsContext
  <2> QED
    BY <1>1, <2>1, <2>2, <2>3, FailsExcused DEF WorkHeld
<1> QED
  BY <1>5, <1>6, <1>7

LEMMA WorkerHolds ==
  ASSUME NEW s, NEW w \in DOMAIN pool, Typed, s \in seen, SnapshotOf(s), WorkOn(w)
  PROVE  Working(s, w) /\ WorkHeld(s) /\ UNCHANGED <<writes, result, explorer>> /\ Beside
<1>1. /\ pc = "snapshot" /\ pool[w].todo # <<>> /\ Beside
      /\ UNCHANGED <<writes, result, explorer>>
  BY DEF WorkOn, ReadStaged, Inspect, ReadWhole, ReadUnstaged, StagedContext,
         UnstagedContext, At, Reads, Beside
<1>2. Working(s, w)
  BY <1>1 DEF Working, Typed
<1>3. WorkHeld(s)
  BY <1>2, StagedRead, Inspected, WholeRead, UnstagedRead, StagedContextRead,
     UnstagedContextRead DEF WorkOn
<1> QED
  BY <1>1, <1>2, <1>3

(***************************************************************************)
(* The snapshot begins.                                                     *)
(***************************************************************************)
LEMMA Remainder ==
  ASSUME NEW a \in Nat, NEW c \in Nat \ {0}
  PROVE  (a % c) + 1 \in 1..c /\ ((a % c) + 1) - 1 = a % c
<1> DEFINE m == a % c
<1>1. m \in 0..(c - 1)
  OBVIOUS
<1> HIDE DEF m
<1>2. m + 1 \in 1..c /\ (m + 1) - 1 = m
  BY <1>1
<1> QED
  BY <1>2 DEF m

LEMMA ViewFields ==
  ASSUME NEW r
  PROVE  /\ View(r) = [commit |-> r.commit, upstream |-> r.upstream, counts |-> Status(r).counts,
                       files |-> View(r).files, local |-> View(r).local, recent |-> r.commit,
                       operation |-> r.operation]
         /\ View(r).local = IF r.commit = 0 \/ r.upstream = NoUpstream THEN Nothing
                            ELSE <<r.commit, r.upstream>>
         /\ Status(r).commit = r.commit /\ Status(r).upstream = r.upstream
<1> DEFINE listed == Status(r).files
           shown == {i \in DOMAIN listed :
                       ~(listed[i].kind = "Untracked" /\ InWork(r, listed[i].path) = Dir)}
           fs == Each(shown, LAMBDA i : ViewOf(r, listed[i]))
           ahead == IF r.commit = 0 \/ r.upstream = NoUpstream THEN Nothing
                    ELSE <<r.commit, r.upstream>>
           counts == Status(r).counts
<1>1. View(r) = [commit |-> r.commit, upstream |-> r.upstream, counts |-> counts,
                 files |-> fs, local |-> ahead, recent |-> r.commit,
                 operation |-> r.operation]
  BY DEF View
<1> HIDE DEF fs, ahead, counts
<1>2. View(r).files = fs /\ View(r).local = ahead
  BY <1>1
<1>3. Status(r).commit = r.commit /\ Status(r).upstream = r.upstream
  BY DEF Status
<1> QED
  BY <1>1, <1>2, <1>3 DEF ahead, counts

LEMMA MetaSet ==
  ASSUME NEW m, NEW phase, NEW here, NEW recent, NEW operation,
         m = [phase |-> m.phase, local |-> m.local, recent |-> m.recent,
              operation |-> m.operation]
  PROVE  /\ [m EXCEPT !.phase = phase] =
              [phase |-> phase, local |-> m.local, recent |-> m.recent,
               operation |-> m.operation]
         /\ [m EXCEPT !.phase = phase, !.local = here] =
              [phase |-> phase, local |-> here, recent |-> m.recent, operation |-> m.operation]
         /\ [m EXCEPT !.phase = phase, !.recent = recent] =
              [phase |-> phase, local |-> m.local, recent |-> recent,
               operation |-> m.operation]
         /\ [m EXCEPT !.phase = phase, !.operation = operation] =
              [phase |-> phase, local |-> m.local, recent |-> m.recent,
               operation |-> operation]
<1> DEFINE was == m.phase
           l == m.local
           c == m.recent
           o == m.operation
           u == [phase |-> phase, local |-> l, recent |-> c, operation |-> o]
<1>1. m = [phase |-> was, local |-> l, recent |-> c, operation |-> o]
  OBVIOUS
<1> HIDE DEF was, l, c, o
<1>2. [m EXCEPT !.phase = phase] = u
  BY <1>1
<1>3. /\ [u EXCEPT !.local = here] =
           [phase |-> phase, local |-> here, recent |-> c, operation |-> o]
      /\ [u EXCEPT !.recent = recent] =
           [phase |-> phase, local |-> l, recent |-> recent, operation |-> o]
      /\ [u EXCEPT !.operation = operation] =
           [phase |-> phase, local |-> l, recent |-> c, operation |-> operation]
  OBVIOUS
<1>4. /\ [m EXCEPT !.phase = phase, !.local = here] =
           [[m EXCEPT !.phase = phase] EXCEPT !.local = here]
      /\ [m EXCEPT !.phase = phase, !.recent = recent] =
           [[m EXCEPT !.phase = phase] EXCEPT !.recent = recent]
      /\ [m EXCEPT !.phase = phase, !.operation = operation] =
           [[m EXCEPT !.phase = phase] EXCEPT !.operation = operation]
  OBVIOUS
<1> QED
  BY <1>2, <1>3, <1>4 DEF u, l, c, o

\* Every record is given to a worker, and the workers get nothing else.
LEMMA Dealt ==
  ASSUME NEW n \in Nat
  PROVE  LET count == IF n < Workers THEN n ELSE Workers
             dealt(w) == {i \in 1..n : (i - 1) % count = w - 1} IN
         /\ \A w \in 1..count : Ascending(dealt(w)) \in Seq(1..n)
         /\ \A i \in 1..n : \E w \in 1..count : \E k \in DOMAIN Ascending(dealt(w)) :
              Ascending(dealt(w))[k] = i
<1> DEFINE count == IF n < Workers THEN n ELSE Workers
           dealt(w) == {i \in 1..n : (i - 1) % count = w - 1}
<1>1. \A w \in 1..count : dealt(w) \subseteq 1..n
  OBVIOUS
<1>2. ASSUME NEW i \in 1..n
      PROVE  ((i - 1) % count) + 1 \in 1..count /\ i \in dealt(((i - 1) % count) + 1)
  <2>1. count \in Nat \ {0} /\ i - 1 \in Nat
    BY ReadingAssumption
  <2> DEFINE m == (i - 1) % count
  <2>3. m + 1 \in 1..count /\ (m + 1) - 1 = m
    BY <2>1, Remainder
  <2>4. i \in dealt(m + 1)
    BY <2>3
  <2> QED
    BY <2>3, <2>4
<1> HIDE DEF dealt
<1>3. ASSUME NEW w \in 1..count
      PROVE  /\ Ascending(dealt(w)) \in Seq(1..n)
             /\ \A i \in dealt(w) : \E k \in DOMAIN Ascending(dealt(w)) : Ascending(dealt(w))[k] = i
  <2> DEFINE ns == dealt(w)
  <2> HIDE DEF ns
  <2>1. ns \subseteq 1..n
    BY <1>1 DEF ns
  <2>2. ns \subseteq Nat /\ IsFiniteSet(ns)
    BY <2>1, NumbersUpTo
  <2>3. Cardinality(ns) \in Nat
    BY <2>2, FS_CardinalityType
  <2>4. /\ Ascending(ns) \in [1..Cardinality(ns) -> ns]
        /\ \A k \in ns : \E i \in 1..Cardinality(ns) : Ascending(ns)[i] = k
    BY <2>2, AscendingHasAll
  <2>5. Ascending(ns) \in [1..Cardinality(ns) -> 1..n]
    BY <2>1, <2>4
  <2>6. Ascending(ns) \in Seq(1..n)
    BY <2>3, <2>5
  <2> QED
    BY <2>4, <2>6 DEF ns
<1>4. \A i \in 1..n : \E w \in 1..count : \E k \in DOMAIN Ascending(dealt(w)) :
        Ascending(dealt(w))[k] = i
  BY <1>2, <1>3
<1> QED
  BY <1>3, <1>4 DEF dealt

LEMMA NoMetaPhase ==
  ASSUME NEW phase
  PROVE  [NoMeta EXCEPT !.phase = phase] =
           [phase |-> phase, local |-> Nothing, recent |-> Nothing, operation |-> Nothing]
BY DEF NoMeta

LEMMA TakenSnapshot ==
  ASSUME Typed, TakeStatus
  PROVE  SnapshotOf(repo)'
<1> DEFINE n == Len(Status(repo).files)
           count == IF n < Workers THEN n ELSE Workers
           dealt(w) == {i \in 1..n : (i - 1) % count = w - 1}
           phase == IF repo.commit # 0 /\ repo.upstream # NoUpstream THEN "local" ELSE "has_head"
<1>1. /\ repo' = repo /\ seen' = {repo} /\ parsed' = Status(repo) /\ files' = {}
      /\ n \in Nat
  BY StatusFiles DEF TakeStatus, Begins, Typed
<1>2. pool' = [w \in 1..count |-> [Idle EXCEPT !.todo = Ascending(dealt(w))]]
  BY DEF TakeStatus
<1>3. \A w \in 1..count : Ascending(dealt(w)) \in Seq(1..n)
  BY <1>1, Dealt
<1>4. meta' = [phase |-> phase, local |-> Nothing, recent |-> Nothing, operation |-> Nothing]
  BY NoMetaPhase DEF TakeStatus
<1> HIDE DEF count
<1>5. /\ DOMAIN pool' = 1..count /\ pool' = [w \in DOMAIN pool' |-> pool'[w]]
      /\ \A w \in 1..count : pool'[w] = [Idle EXCEPT !.todo = Ascending(dealt(w))]
  BY <1>2
<1>6. Len(parsed'.files) = n
  BY <1>1
<1>7. ASSUME NEW w \in DOMAIN pool'
      PROVE  /\ IsTask(pool'[w], n) /\ ~pool'[w].failed /\ pool'[w].phase = "staged"
  <2> DEFINE t == pool'[w]
             todo == Ascending(dealt(w))
  <2> HIDE DEF todo
  <2>5. w \in 1..count /\ pool'[w] = [Idle EXCEPT !.todo = Ascending(dealt(w))]
    BY <1>5, <1>7
  <2>1. t = [todo |-> todo, phase |-> "staged", staged |-> Nothing, unstaged |-> Nothing,
             failed |-> FALSE]
    BY <2>5, IdleFields DEF todo
  <2>2. /\ t = [todo |-> t.todo, phase |-> t.phase, staged |-> t.staged,
                unstaged |-> t.unstaged, failed |-> t.failed]
        /\ t.todo = todo /\ t.phase = "staged" /\ t.failed = FALSE
    BY <2>1
  <2>3. todo \in Seq(1..n)
    BY <1>3, <1>5, <1>7 DEF todo
  <2> HIDE DEF t, n
  <2>4. IsTask(t, n)
    BY <2>2, <2>3 DEF IsTask
  <2> QED
    BY <2>2, <2>4 DEF t
<1> HIDE DEF n, phase
<1>8. (\A w \in DOMAIN pool : WorkerFits(pool[w]))'
  BY <1>6, <1>7 DEF WorkerFits, IsTask, PhaseFits, Contexts
<1>9. MetaFits(repo)'
  <2>1. /\ meta'.phase = phase /\ meta' = [phase |-> meta'.phase, local |-> meta'.local,
                                           recent |-> meta'.recent,
                                           operation |-> meta'.operation]
    BY <1>4
  <2>2. /\ phase \in {"local", "has_head"}
        /\ phase = "local" => repo.commit # 0 /\ repo.upstream # NoUpstream
    BY DEF phase
  <2> QED
    BY <1>1, <2>1, <2>2 DEF MetaFits
<1>10. (\A c \in files : CompletedFits(c))'
  BY <1>1
<1>11. repo' \in seen' /\ parsed' = Status(repo')
  BY <1>1
<1> QED
  BY <1>5, <1>8, <1>9, <1>10, <1>11 DEF SnapshotOf

LEMMA TakenQuiet ==
  ASSUME Typed, TakeStatus
  PROVE  QuietWorkers' /\ QuietMeta'
<1> DEFINE n == Len(Status(repo).files)
           count == IF n < Workers THEN n ELSE Workers
           dealt(w) == {i \in 1..n : (i - 1) % count = w - 1}
           phase == IF repo.commit # 0 /\ repo.upstream # NoUpstream THEN "local" ELSE "has_head"
<1>1. /\ repo' = repo /\ seen' = {repo} /\ parsed' = Status(repo) /\ files' = {}
      /\ n \in Nat /\ DOMAIN parsed'.files = 1..n
  BY StatusFiles DEF TakeStatus, Begins, Typed
<1>2. pool' = [w \in 1..count |-> [Idle EXCEPT !.todo = Ascending(dealt(w))]]
  BY DEF TakeStatus
<1>3. \A i \in 1..n : \E w \in 1..count : \E k \in DOMAIN Ascending(dealt(w)) :
        Ascending(dealt(w))[k] = i
  BY <1>1, Dealt
<1>4. meta' = [phase |-> phase, local |-> Nothing, recent |-> Nothing, operation |-> Nothing]
  BY NoMetaPhase DEF TakeStatus
<1> HIDE DEF count
<1>5. /\ DOMAIN pool' = 1..count
      /\ \A w \in 1..count : pool'[w] = [Idle EXCEPT !.todo = Ascending(dealt(w))]
  BY <1>2
<1>6. ASSUME NEW w \in 1..count
      PROVE  /\ pool'[w].todo = Ascending(dealt(w)) /\ ~pool'[w].failed
             /\ pool'[w].phase = "staged"
  <2> DEFINE todo == Ascending(dealt(w))
  <2> HIDE DEF todo
  <2>1. pool'[w] = [todo |-> todo, phase |-> "staged", staged |-> Nothing, unstaged |-> Nothing,
                    failed |-> FALSE]
    BY <1>5, IdleFields DEF todo
  <2> QED
    BY <2>1 DEF todo
<1> HIDE DEF n, phase, dealt
<1>7. (\A w \in DOMAIN pool :
         /\ pool[w].todo # <<>> => TaskShows(pool[w], parsed.files[pool[w].todo[1]])
         /\ pool[w].failed => \E i \in DOMAIN parsed.files : ~Readable(repo, parsed.files[i]))'
  BY <1>5, <1>6 DEF TaskShows, Contexts
<1>8. (\A i \in DOMAIN parsed.files : \E w \in DOMAIN pool : Waits(w, i))'
  BY <1>1, <1>3, <1>5, <1>6 DEF Waits
<1>9. QuietWorkers'
  BY <1>1, <1>7, <1>8 DEF QuietWorkers
<1>10. QuietMeta'
  <2>1. meta'.phase = phase /\ meta'.local = Nothing
    BY <1>4
  <2>2. /\ phase \in {"local", "has_head"}
        /\ phase = "local" => repo.commit # 0 /\ repo.upstream # NoUpstream
        /\ phase = "has_head" => View(repo).local = Nothing /\ ~UpstreamUnreadable(repo)
    BY ViewFields, NamesAreDistinct DEF phase, UpstreamUnreadable
  <2> QED
    BY <1>1, <2>1, <2>2 DEF QuietMeta
<1> QED
  BY <1>9, <1>10

(***************************************************************************)
(* The metadata thread.                                                     *)
(***************************************************************************)
MetaHeld(s) == SnapshotOf(s)' /\ (s = repo /\ QuietWorkers /\ QuietMeta => QuietWorkers' /\ QuietMeta')

\* A step of this thread leaves the workers alone.
LEMMA MetaMoves ==
  ASSUME NEW s, Typed, s \in seen, SnapshotOf(s), NEW next, MetaGoes(next), MetaFits(s)',
         s = repo /\ QuietMeta => QuietMeta'
  PROVE  MetaHeld(s)
<1>1. UNCHANGED <<repo, seen, outage, parsed, pool, files>>
  BY DEF MetaGoes, Reads
<1>2. Excused' <=> Excused
  BY <1>1 DEF Excused
<1>3. (\A w \in DOMAIN pool : WorkerFits(pool[w]))'
  BY <1>1, <1>2 DEF SnapshotOf, WorkerFits, IsTask, PhaseFits
<1>4. (\A c \in files : CompletedFits(c))'
  BY <1>1 DEF SnapshotOf, CompletedFits
<1>5. SnapshotOf(s)'
  BY <1>1, <1>3, <1>4 DEF SnapshotOf
<1>6. QuietWorkers => QuietWorkers'
  <2>1. \A t, f : TaskShows(t, f)' <=> TaskShows(t, f)
    BY <1>1 DEF TaskShows, StagedOf, UnstagedOf
  <2>2. \A i : Completed(i)' <=> Completed(i)
    BY <1>1 DEF Completed, ViewOf, Readable, NeedsContext, StagedOf, UnstagedOf, LeftOut
  <2>3. \A f : Readable(repo, f)' <=> Readable(repo, f)
    BY <1>1 DEF Readable, NeedsContext, StagedOf, UnstagedOf
  <2>4. /\ repo' = repo /\ parsed' = parsed /\ pool' = pool /\ files' = files
        /\ \A w, i : Waits(w, i)' <=> Waits(w, i)
    BY <1>1 DEF Waits
  <2> QED
    BY <2>1, <2>2, <2>3, <2>4 DEF QuietWorkers, LeftOut
<1> QED
  BY <1>5, <1>6 DEF MetaHeld

LEMMA LocalCommitsRead ==
  ASSUME NEW s, Typed, s \in seen, SnapshotOf(s), ReadLocalCommits
  PROVE  MetaHeld(s)
<1> DEFINE m == meta
           lost == repo.commit = 0 \/ repo.upstream \in {NoUpstream, Gone}
           here == <<repo.commit, repo.upstream>>
           next == IF lost THEN [meta EXCEPT !.phase = "failed"]
                   ELSE [meta EXCEPT !.phase = "has_head", !.local = here]
<1>1. MetaGoes(next) /\ meta.phase = "local" /\ pc = "snapshot"
  BY DEF ReadLocalCommits, MetaAt
<1>2. /\ meta = [phase |-> meta.phase, local |-> meta.local, recent |-> meta.recent,
                 operation |-> meta.operation]
      /\ s.commit # 0 /\ s.upstream # NoUpstream
  BY <1>1 DEF SnapshotOf, MetaFits
<1>3. meta' = next /\ UNCHANGED <<repo, seen>> /\ (Excused' <=> Excused)
  BY <1>1 DEF MetaGoes, Reads, Excused
<1>4. CASE lost
  <2>1. meta' = [phase |-> "failed", local |-> m.local, recent |-> m.recent,
                 operation |-> m.operation]
    BY <1>2, <1>3, <1>4, MetaSet
  <2>2. repo \in seen /\ (s.upstream = NoUpstream <=> repo.upstream = NoUpstream)
    BY <1>1 DEF Typed
  <2>3. repo.commit = 0 \/ UpstreamUnreadable(repo)
    BY <1>2, <1>4, <2>2 DEF UpstreamUnreadable
  <2>4. Excused
    BY <1>2, <2>2, <2>3 DEF Excused, Disturbing
  <2>5. MetaFits(s)'
    BY <1>3, <2>1, <2>4 DEF MetaFits
  <2>6. s = repo => QuietMeta'
    <3>1. meta'.phase = "failed"
      BY <2>1
    <3>2. s = repo => UpstreamUnreadable(repo')
      BY <1>2, <1>3, <2>3
    <3> QED
      BY <3>1, <3>2 DEF QuietMeta
  <2> HIDE DEF next
  <2> QED
    BY <1>1, <2>5, <2>6, MetaMoves
<1>5. CASE ~lost
  <2>1. meta' = [phase |-> "has_head", local |-> here, recent |-> m.recent,
                 operation |-> m.operation]
    BY <1>2, <1>3, <1>5, MetaSet
  <2>2. here = View(repo).local /\ ~UpstreamUnreadable(repo)
    BY <1>5, ViewFields DEF UpstreamUnreadable
  <2> HIDE DEF here
  <2>3. MetaFits(s)'
    BY <2>1 DEF MetaFits
  <2>4. QuietMeta'
    BY <1>3, <2>1, <2>2 DEF QuietMeta
  <2> HIDE DEF next
  <2> QED
    BY <1>1, <2>3, <2>4, MetaMoves
<1> QED
  BY <1>4, <1>5

LEMMA HasHeadRead ==
  ASSUME NEW s, Typed, s \in seen, SnapshotOf(s), ReadHasHead
  PROVE  MetaHeld(s)
<1> DEFINE m == meta
           next == IF repo.commit = 0 THEN [meta EXCEPT !.phase = "operation", !.recent = 0]
                   ELSE [meta EXCEPT !.phase = "log"]
<1>1. MetaGoes(next) /\ meta.phase = "has_head" /\ pc = "snapshot" /\ repo \in seen
  BY DEF ReadHasHead, MetaAt, Typed
<1>2. meta = [phase |-> meta.phase, local |-> meta.local, recent |-> meta.recent,
              operation |-> meta.operation]
  BY DEF SnapshotOf, MetaFits
<1>3. meta' = next /\ UNCHANGED <<repo, seen>>
  BY <1>1 DEF MetaGoes, Reads
<1>4. CASE repo.commit = 0
  <2>1. meta' = [phase |-> "operation", local |-> m.local, recent |-> 0,
                 operation |-> m.operation]
    BY <1>2, <1>3, <1>4, MetaSet
  <2>2. MetaFits(s)' /\ (QuietMeta => QuietMeta')
    BY <1>1, <1>3, <1>4, <2>1 DEF MetaFits, QuietMeta
  <2> HIDE DEF next
  <2> QED
    BY <1>1, <2>2, MetaMoves
<1>5. CASE repo.commit # 0
  <2>1. meta' = [phase |-> "log", local |-> m.local, recent |-> m.recent,
                 operation |-> m.operation]
    BY <1>2, <1>3, <1>5, MetaSet
  <2>2. MetaFits(s)' /\ (QuietMeta => QuietMeta')
    BY <1>1, <1>3, <1>5, <2>1 DEF MetaFits, QuietMeta
  <2> HIDE DEF next
  <2> QED
    BY <1>1, <2>2, MetaMoves
<1> QED
  BY <1>4, <1>5

LEMMA LogRead ==
  ASSUME NEW s, Typed, s \in seen, SnapshotOf(s), ReadLog
  PROVE  MetaHeld(s)
<1> DEFINE m == meta
           next == IF repo.commit = 0 THEN [meta EXCEPT !.phase = "failed"]
                   ELSE [meta EXCEPT !.phase = "operation", !.recent = repo.commit]
<1>1. MetaGoes(next) /\ meta.phase = "log" /\ pc = "snapshot" /\ repo \in seen
  BY DEF ReadLog, MetaAt, Typed
<1>2. /\ meta = [phase |-> meta.phase, local |-> meta.local, recent |-> meta.recent,
                 operation |-> meta.operation]
      /\ \E t \in seen : t.commit # 0
  BY <1>1 DEF SnapshotOf, MetaFits
<1>3. meta' = next /\ UNCHANGED <<repo, seen>> /\ (Excused' <=> Excused)
  BY <1>1 DEF MetaGoes, Reads, Excused
<1>4. CASE repo.commit = 0
  <2>1. meta' = [phase |-> "failed", local |-> m.local, recent |-> m.recent,
                 operation |-> m.operation]
    BY <1>2, <1>3, <1>4, MetaSet
  <2>2. Excused
    BY <1>1, <1>2, <1>4 DEF Excused
  <2>3. MetaFits(s)'
    BY <1>3, <2>1, <2>2 DEF MetaFits
  <2>4. ~QuietMeta
    BY <1>1, <1>4 DEF QuietMeta
  <2> HIDE DEF next
  <2> QED
    BY <1>1, <2>3, <2>4, MetaMoves
<1>5. CASE repo.commit # 0
  <2> DEFINE commit == repo.commit
  <2>1. meta' = [phase |-> "operation", local |-> m.local, recent |-> commit,
                 operation |-> m.operation]
    BY <1>2, <1>3, <1>5, MetaSet
  <2>2. MetaFits(s)' /\ (QuietMeta => QuietMeta')
    BY <1>1, <1>3, <2>1 DEF MetaFits, QuietMeta
  <2> HIDE DEF next
  <2> QED
    BY <1>1, <2>2, MetaMoves
<1> QED
  BY <1>4, <1>5

LEMMA OperationRead ==
  ASSUME NEW s, Typed, s \in seen, SnapshotOf(s), ReadOperation
  PROVE  MetaHeld(s)
<1> DEFINE m == meta
           operation == repo.operation
           next == [meta EXCEPT !.phase = "done", !.operation = operation]
<1>1. MetaGoes(next) /\ meta.phase = "operation"
  BY DEF ReadOperation, MetaAt
<1>2. meta = [phase |-> meta.phase, local |-> meta.local, recent |-> meta.recent,
              operation |-> meta.operation]
  BY DEF SnapshotOf, MetaFits
<1>3. meta' = next /\ UNCHANGED <<repo, seen>>
  BY <1>1 DEF MetaGoes, Reads
<1>4. meta' = [phase |-> "done", local |-> m.local, recent |-> m.recent,
               operation |-> operation]
  BY <1>2, <1>3, MetaSet
<1>5. MetaFits(s)' /\ (QuietMeta => QuietMeta')
  BY <1>1, <1>3, <1>4 DEF MetaFits, QuietMeta
<1> HIDE DEF next
<1> QED
  BY <1>1, <1>5, MetaMoves

(***************************************************************************)
(* The results.                                                             *)
(***************************************************************************)
Sound == QuietReadsExact /\ ChurnNeverFails /\ HeadWithItsFiles

LEMMA NoResult ==
  ASSUME result' = Nothing
  PROVE  Sound'
BY DEF Sound, QuietReadsExact, Undisturbed, ChurnNeverFails, HeadWithItsFiles

LEMMA ResultFields ==
  ASSUME NEW read, NEW ok, NEW value
  PROVE  /\ [read |-> read, ok |-> ok, value |-> value].read = read
         /\ [read |-> read, ok |-> ok, value |-> value].ok = ok
         /\ [read |-> read, ok |-> ok, value |-> value].value = value
         /\ [read |-> read, ok |-> ok].read = read
         /\ [read |-> read, ok |-> ok].ok = ok
OBVIOUS

LEMMA Ended ==
  ASSUME NEW value, Ends(value)
  PROVE  /\ result'.read = pc /\ result'.ok /\ result'.value = value
         /\ UNCHANGED <<repo, seen, writes, outage>> /\ pc' = "idle" /\ files' = {}
<1>1. result' = [read |-> pc, ok |-> TRUE, value |-> value]
  BY DEF Ends, Finishes
<1>2. /\ [read |-> pc, ok |-> TRUE, value |-> value].read = pc
      /\ [read |-> pc, ok |-> TRUE, value |-> value].ok = TRUE
      /\ [read |-> pc, ok |-> TRUE, value |-> value].value = value
  BY ResultFields
<1>3. result'.read = pc /\ result'.ok = TRUE /\ result'.value = value
  BY <1>1, <1>2, Zenon
<1> QED
  BY <1>3 DEF Ends, Finishes

LEMMA Failed ==
  ASSUME Fails
  PROVE  /\ result'.read = pc /\ ~result'.ok
         /\ UNCHANGED <<repo, seen, writes, outage>> /\ pc' = "idle" /\ files' = {}
<1>1. result' = [read |-> pc, ok |-> FALSE]
  BY DEF Fails, Finishes, Failure
<1>2. [read |-> pc, ok |-> FALSE].read = pc /\ [read |-> pc, ok |-> FALSE].ok = FALSE
  BY ResultFields
<1>3. result'.read = pc /\ result'.ok = FALSE
  BY <1>1, <1>2, Zenon
<1> QED
  BY <1>3 DEF Fails, Finishes

\* A read that ended with a failure is no partial result.
LEMMA FailureIsKnown ==
  ASSUME NEW read \in {"snapshot", "file", "paths"}, result' = Failure(read)
  PROVE  result' # Nothing /\ result'.read = read /\ ~result'.ok
<1>1. result' = [read |-> read, ok |-> FALSE]
  BY DEF Failure
<1>2. [read |-> read, ok |-> FALSE].read = read /\ [read |-> read, ok |-> FALSE].ok = FALSE
  BY ResultFields
<1>3. result'.read = read /\ result'.ok = FALSE
  BY <1>1, <1>2, Zenon
<1>4. result' # Nothing
  BY <1>1, NamesAreDistinct
<1> QED
  BY <1>3, <1>4

\* The snapshot that fails.
LEMMA JoinFails ==
  ASSUME NEW s, Typed, s \in seen, SnapshotOf(s), pc = "snapshot", Fails,
         meta.phase = "failed" \/ \E w \in DOMAIN pool : pool[w].failed,
         Quiet => QuietWorkers /\ QuietMeta
  PROVE  Sound'
<1>1. /\ result'.read = "snapshot" /\ ~result'.ok /\ UNCHANGED <<repo, seen, writes, outage>>
  BY Failed
<1>2. Excused'
  <2>1. Excused
    BY DEF SnapshotOf, MetaFits, WorkerFits
  <2> QED
    BY <1>1, <2>1 DEF Excused
<1>3. ChurnNeverFails'
  BY <1>2 DEF ChurnNeverFails, Excused
<1>4. HeadWithItsFiles'
  BY <1>1 DEF HeadWithItsFiles
<1>5. ASSUME Quiet PROVE FileUnreadable(repo) \/ UpstreamUnreadable(repo)
  <2>1. s = repo /\ parsed = Status(repo) /\ repo \in Repositories
    BY <1>5 DEF Quiet, SnapshotOf, Typed
  <2>2. CASE meta.phase = "failed"
    BY <1>5, <2>2 DEF QuietMeta
  <2>3. CASE \E w \in DOMAIN pool : pool[w].failed
    <3>1. PICK i \in DOMAIN parsed.files : ~Readable(repo, parsed.files[i])
      BY <1>5, <2>3 DEF QuietWorkers
    <3>2. IsRecord(repo, parsed.files[i])
      BY <2>1, StatusFiles
    <3> QED
      BY <2>1, <3>1, <3>2, UnreadableRecord
  <2> QED
    BY <2>2, <2>3
<1>6. QuietReadsExact'
  <2>1. Undisturbed("snapshot")' => Quiet
    BY <1>1 DEF Undisturbed, Quiet
  <2>2. ~Undisturbed("file")' /\ ~Undisturbed("paths")'
    BY <1>1 DEF Undisturbed
  <2>3. Undisturbed("snapshot")' => FileUnreadable(repo') \/ UpstreamUnreadable(repo')
    BY <1>1, <1>5, <2>1
  <2> QED
    BY <1>1, <2>2, <2>3 DEF QuietReadsExact
<1> QED
  BY <1>3, <1>4, <1>6 DEF Sound

\* All that a quiet snapshot has gathered is the view.
LEMMA GatheredIsView ==
  ASSUME Typed, SnapshotOf(repo), QuietWorkers, QuietMeta, meta.phase = "done",
         \A w \in DOMAIN pool : pool[w].todo = <<>> /\ ~pool[w].failed
  PROVE  /\ Published = View(repo)
         /\ ~FileUnreadable(repo) /\ ~UpstreamUnreadable(repo)
<1> DEFINE fs == Status(repo).files
<1>1. parsed = Status(repo) /\ repo \in Repositories
  BY DEF SnapshotOf, Typed
<1>2. \A i \in DOMAIN fs : Completed(i) \/ LeftOut(repo, fs[i])
  BY <1>1 DEF QuietWorkers, Waits
<1>3. ~FileUnreadable(repo)
  <2>1. SUFFICES ASSUME FileUnreadable(repo) PROVE FALSE
    OBVIOUS
  <2>2. PICK f : IsRecord(repo, f) /\ ~Readable(repo, f)
    BY <1>1, <2>1, UnreadableRecord
  <2>3. PICK i \in DOMAIN fs : fs[i] = f
    BY <2>2, StatusFiles
  <2>4. ~LeftOut(repo, f)
    BY <2>2, UnreadableIsNotLeftOut
  <2> QED
    BY <1>1, <1>2, <2>2, <2>3, <2>4 DEF Completed
<1>4. /\ ~UpstreamUnreadable(repo) /\ meta.local = View(repo).local
      /\ meta.recent = repo.commit /\ meta.operation = repo.operation
  BY DEF QuietMeta
<1>5. InStatusOrder(files) = View(repo).files
  <2>1. ASSUME NEW c \in files PROVE \E i \in DOMAIN fs : c = <<i, ViewOf(repo, fs[i])>>
    BY <1>1 DEF QuietWorkers
  <2>2. ASSUME NEW i \in DOMAIN fs
        PROVE  LeftOut(repo, fs[i]) <=> <<i, ViewOf(repo, fs[i])>> \notin files
    <3>1. ASSUME <<i, ViewOf(repo, fs[i])>> \in files PROVE ~LeftOut(repo, fs[i])
      <4>1. PICK j \in DOMAIN fs :
              <<i, ViewOf(repo, fs[i])>> = <<j, ViewOf(repo, fs[j])>> /\ Completed(j)
        BY <1>1, <3>1 DEF QuietWorkers
      <4>2. i = j
        BY <4>1
      <4> QED
        BY <1>1, <4>1, <4>2 DEF Completed
    <3> QED
      BY <1>1, <1>2, <3>1 DEF Completed
  <2> QED
    BY <2>1, <2>2, PublishedIsView
<1>6. /\ parsed.commit = repo.commit /\ parsed.upstream = repo.upstream
      /\ parsed.counts = Status(repo).counts
  BY <1>1, ViewFields
<1>7. Published = View(repo)
  <2>1. View(repo) = [commit |-> repo.commit, upstream |-> repo.upstream,
                      counts |-> Status(repo).counts, files |-> View(repo).files,
                      local |-> View(repo).local, recent |-> repo.commit,
                      operation |-> repo.operation]
    BY ViewFields
  <2>2. Published = [commit |-> repo.commit, upstream |-> repo.upstream,
                     counts |-> Status(repo).counts, files |-> View(repo).files,
                     local |-> View(repo).local, recent |-> repo.commit,
                     operation |-> repo.operation]
    BY <1>4, <1>5, <1>6 DEF Published
  <2> QED
    BY <2>1, <2>2
<1> QED
  BY <1>3, <1>4, <1>7

\* A snapshot has its head's own files.
LEMMA GatheredIsOfStatus ==
  ASSUME NEW s, Typed, SnapshotOf(s)
  PROVE  /\ Published.commit = s.commit /\ Published.upstream = s.upstream
         /\ Published.counts = Status(s).counts
         /\ \A i \in DOMAIN Published.files : \E f \in ToSet(Status(s).files) :
              /\ Published.files[i].path = f.path /\ Published.files[i].old = f.old
              /\ Published.files[i].kind = f.kind
<1> DEFINE fs == Status(s).files
<1>1. parsed = Status(s) /\ \A c \in files : CompletedFits(c)
  BY DEF SnapshotOf
<1>2. DOMAIN fs = 1..Len(fs) /\ Len(fs) \in Nat
  BY StatusFiles
<1>3. /\ Published.commit = s.commit /\ Published.upstream = s.upstream
      /\ Published.counts = Status(s).counts /\ Published.files = InStatusOrder(files)
  BY <1>1, ViewFields DEF Published
<1>4. ASSUME NEW c \in files
      PROVE  /\ c[1] \in 1..Len(fs)
             /\ \E f \in ToSet(fs) : c[2].path = f.path /\ c[2].old = f.old /\ c[2].kind = f.kind
  <2>1. PICK i \in DOMAIN fs : c = <<i, Shows(fs[i], c[2].staged, c[2].unstaged)>>
    BY <1>1 DEF CompletedFits
  <2>2. c[1] = i /\ c[2].path = fs[i].path /\ c[2].old = fs[i].old /\ c[2].kind = fs[i].kind
    <3> DEFINE staged == c[2].staged
               unstaged == c[2].unstaged
               f == fs[i]
    <3>1. c = <<i, [path |-> f.path, old |-> f.old, kind |-> f.kind, staged |-> staged,
                    unstaged |-> unstaged]>>
      BY <2>1 DEF Shows
    <3> HIDE DEF staged, unstaged, f
    <3>2. c[1] = i /\ c[2].path = f.path /\ c[2].old = f.old /\ c[2].kind = f.kind
      BY <3>1
    <3> QED
      BY <3>2 DEF f
  <2>3. fs[i] \in ToSet(fs)
    BY DEF ToSet
  <2> HIDE DEF fs
  <2> QED
    BY <1>2, <2>1, <2>2, <2>3
<1> HIDE DEF fs
<1>5. \A i \in DOMAIN InStatusOrder(files) : \E c \in files : InStatusOrder(files)[i] = c[2]
  BY <1>2, <1>4, PublishedElements
<1>6. \A i \in DOMAIN InStatusOrder(files) : \E f \in ToSet(fs) :
        /\ InStatusOrder(files)[i].path = f.path /\ InStatusOrder(files)[i].old = f.old
        /\ InStatusOrder(files)[i].kind = f.kind
  BY <1>4, <1>5
<1> QED
  BY <1>3, <1>6 DEF fs

LEMMA JoinEnds ==
  ASSUME NEW s, Typed, s \in seen, SnapshotOf(s), pc = "snapshot", Ends(Published),
         meta.phase = "done", \A w \in DOMAIN pool : pool[w].todo = <<>> /\ ~pool[w].failed,
         Quiet => QuietWorkers /\ QuietMeta
  PROVE  Sound'
<1>1. /\ result'.read = "snapshot" /\ result'.ok /\ UNCHANGED <<repo, seen, writes, outage>>
      /\ result'.value = Published
  BY Ended
<1>2. ChurnNeverFails'
  BY <1>1 DEF ChurnNeverFails
<1>3. HeadWithItsFiles'
  <2> DEFINE v == result'.value
  <2>1. /\ v.commit = s.commit /\ v.upstream = s.upstream /\ v.counts = Status(s).counts
        /\ \A i \in DOMAIN v.files : \E f \in ToSet(Status(s).files) :
             v.files[i].path = f.path /\ v.files[i].old = f.old /\ v.files[i].kind = f.kind
    BY <1>1, GatheredIsOfStatus
  <2> HIDE DEF v
  <2>2. s \in seen'
    BY <1>1
  <2> QED
    BY <2>1, <2>2 DEF HeadWithItsFiles, v
<1>4. QuietReadsExact'
  <2>1. Undisturbed("snapshot")' => Quiet
    BY <1>1 DEF Undisturbed, Quiet
  <2>2. ~Undisturbed("file")' /\ ~Undisturbed("paths")'
    BY <1>1 DEF Undisturbed
  <2>3. Quiet => s = repo
    BY DEF Quiet
  <2>4. Quiet => /\ Published = View(repo) /\ ~FileUnreadable(repo)
                 /\ ~UpstreamUnreadable(repo)
    BY <2>3, GatheredIsView
  <2> QED
    BY <1>1, <2>1, <2>2, <2>4 DEF QuietReadsExact
<1> QED
  BY <1>2, <1>3, <1>4 DEF Sound

LEMMA Joined ==
  ASSUME NEW s, Typed, s \in seen, SnapshotOf(s), Join, Quiet => QuietWorkers /\ QuietMeta
  PROVE  Sound'
<1>1. /\ pc = "snapshot" /\ meta.phase \in {"done", "failed"}
      /\ \A w \in DOMAIN pool : pool[w].todo = <<>>
  BY DEF Join
<1>2. CASE meta.phase = "failed" \/ \E w \in DOMAIN pool : pool[w].failed
  BY <1>1, <1>2, JoinFails DEF Join
<1>3. CASE ~(meta.phase = "failed" \/ \E w \in DOMAIN pool : pool[w].failed)
  BY <1>1, <1>3, JoinEnds DEF Join
<1> QED
  BY <1>2, <1>3

(***************************************************************************)
(* The Explorer's reads.                                                    *)
(***************************************************************************)
Exploring == IsExplorer /\ QuietFile /\ QuietPaths

LEMMA ExplorerSet ==
  ASSUME NEW e, NEW phase, NEW path, NEW content, NEW paths, NEW left,
         e = [phase |-> e.phase, path |-> e.path, content |-> e.content, paths |-> e.paths,
              left |-> e.left]
  PROVE  /\ [e EXCEPT !.phase = phase] =
              [phase |-> phase, path |-> e.path, content |-> e.content, paths |-> e.paths,
               left |-> e.left]
         /\ [e EXCEPT !.left = left, !.paths = paths] =
              [phase |-> e.phase, path |-> e.path, content |-> e.content, paths |-> paths,
               left |-> left]
         /\ [NoRead EXCEPT !.phase = phase, !.path = path, !.content = content] =
              [phase |-> phase, path |-> path, content |-> content, paths |-> {}, left |-> {}]
         /\ [NoRead EXCEPT !.phase = phase] =
              [phase |-> phase, path |-> Nothing, content |-> Nothing, paths |-> {},
               left |-> {}]
         /\ [NoRead EXCEPT !.phase = phase, !.left = left] =
              [phase |-> phase, path |-> Nothing, content |-> Nothing, paths |-> {},
               left |-> left]
<1> DEFINE was == e.phase
           at == e.path
           has == e.content
           ps == e.paths
           ls == e.left
           none == {}
           u == [phase |-> was, path |-> at, content |-> has, paths |-> ps, left |-> left]
           v == [phase |-> phase, path |-> Nothing, content |-> Nothing, paths |-> none,
                 left |-> none]
           x == [phase |-> phase, path |-> path, content |-> Nothing, paths |-> none,
                 left |-> none]
<1>1. e = [phase |-> was, path |-> at, content |-> has, paths |-> ps, left |-> ls]
  OBVIOUS
<1>2. NoRead = [phase |-> "off", path |-> Nothing, content |-> Nothing, paths |-> none,
                left |-> none]
  BY DEF NoRead
<1> HIDE DEF was, at, has, ps, ls, none
<1>3. /\ [e EXCEPT !.phase = phase] =
           [phase |-> phase, path |-> at, content |-> has, paths |-> ps, left |-> ls]
      /\ [e EXCEPT !.left = left] = u
  BY <1>1
<1>4. [u EXCEPT !.paths = paths] =
        [phase |-> was, path |-> at, content |-> has, paths |-> paths, left |-> left]
  OBVIOUS
<1>5. [e EXCEPT !.left = left, !.paths = paths] = [[e EXCEPT !.left = left] EXCEPT !.paths = paths]
  OBVIOUS
<1>6. [NoRead EXCEPT !.phase = phase] = v
  BY <1>2
<1>7. /\ [v EXCEPT !.path = path] = x
      /\ [v EXCEPT !.left = left] =
           [phase |-> phase, path |-> Nothing, content |-> Nothing, paths |-> none,
            left |-> left]
      /\ [x EXCEPT !.content = content] =
           [phase |-> phase, path |-> path, content |-> content, paths |-> none,
            left |-> none]
  OBVIOUS
<1>8. /\ [NoRead EXCEPT !.phase = phase, !.left = left] =
           [[NoRead EXCEPT !.phase = phase] EXCEPT !.left = left]
      /\ [NoRead EXCEPT !.phase = phase, !.path = path, !.content = content] =
           [[[NoRead EXCEPT !.phase = phase] EXCEPT !.path = path] EXCEPT !.content = content]
  OBVIOUS
<1> HIDE DEF u, v, x
<1>9. /\ [NoRead EXCEPT !.phase = phase, !.left = left] = [v EXCEPT !.left = left]
      /\ [NoRead EXCEPT !.phase = phase, !.path = path, !.content = content] =
           [x EXCEPT !.content = content]
      /\ [e EXCEPT !.left = left, !.paths = paths] = [u EXCEPT !.paths = paths]
  BY <1>3, <1>5, <1>6, <1>7, <1>8
<1> QED
  BY <1>3, <1>4, <1>6, <1>7, <1>9 DEF was, at, has, ps, ls, none, v

LEMMA FileOpened ==
  ASSUME Typed, NEW p \in Paths, ReadContents(p)
  PROVE  Exploring'
<1> DEFINE work == InWork(repo, p)
<1>1. pc' = "file" /\ repo' = repo
  BY DEF ReadContents, Begins
<1>2. CASE work \in Contents
  <2>1. explorer' = [NoRead EXCEPT !.phase = "has_head", !.path = p, !.content = work]
    BY <1>2 DEF ReadContents
  <2>2. explorer' = [phase |-> "has_head", path |-> p, content |-> work, paths |-> {},
                     left |-> {}]
    <3> HIDE DEF work
    <3> DEFINE none == [phase |-> 0, path |-> 0, content |-> 0, paths |-> {}, left |-> {}]
    <3>1. none = [phase |-> none.phase, path |-> none.path, content |-> none.content,
                  paths |-> none.paths, left |-> none.left]
      OBVIOUS
    <3> HIDE DEF none
    <3> QED
      BY <2>1, <3>1, ExplorerSet
  <2> QED
    BY <1>1, <1>2, <2>2 DEF Exploring, IsExplorer, QuietFile, QuietPaths
<1>3. CASE work \notin Contents
  <2>1. explorer' = [NoRead EXCEPT !.phase = "failed"]
    BY <1>3 DEF ReadContents
  <2>2. explorer' = [phase |-> "failed", path |-> Nothing, content |-> Nothing, paths |-> {},
                     left |-> {}]
    BY <2>1 DEF NoRead
  <2> QED
    BY <1>1, <2>2 DEF Exploring, IsExplorer, QuietFile, QuietPaths
<1> QED
  BY <1>2, <1>3

\* The steps that only ask the next question.
LEMMA FileGoesOn ==
  ASSUME Typed, Exploring, pc = "file", explorer.phase # "failed", NEW phase,
         ExplorerGoes([explorer EXCEPT !.phase = phase]),
         phase = "tracked" => DiffHead(repo, explorer.path) = Nothing
  PROVE  Exploring'
<1> DEFINE path == explorer.path
           content == explorer.content
           paths == explorer.paths
           left == explorer.left
<1>1. pc' = "file" /\ repo' = repo /\ (Quiet' <=> Quiet)
  BY DEF ExplorerGoes, Reads, Quiet
<1>2. explorer = [phase |-> explorer.phase, path |-> explorer.path,
                  content |-> explorer.content, paths |-> explorer.paths,
                  left |-> explorer.left]
  BY DEF Exploring, IsExplorer
<1>3. explorer' = [phase |-> phase, path |-> path, content |-> content, paths |-> paths,
                   left |-> left]
  BY <1>2, ExplorerSet DEF ExplorerGoes
<1>4. Quiet => path \in Paths /\ content \in Contents /\ content = InWork(repo, path)
  BY DEF Exploring, QuietFile
<1>5. phase = "tracked" => DiffHead(repo, path) = Nothing
  OBVIOUS
<1> HIDE DEF path, content, paths, left
<1> QED
  BY <1>1, <1>3, <1>4, <1>5 DEF Exploring, IsExplorer, QuietFile, QuietPaths

\* A patch that fits ends the read soundly.
LEMMA FileEnded ==
  ASSUME Typed, pc = "file", NEW patch, FileEnds(patch),
         Quiet => Fits(repo, [path |-> explorer.path, content |-> explorer.content,
                              patch |-> patch])
  PROVE  Sound'
<1>1. /\ result'.read = "file" /\ result'.ok /\ UNCHANGED <<repo, seen, writes, outage>>
      /\ result'.value = [path |-> explorer.path, content |-> explorer.content, patch |-> patch]
  BY Ended DEF FileEnds
<1>2. ChurnNeverFails' /\ HeadWithItsFiles'
  BY <1>1 DEF ChurnNeverFails, HeadWithItsFiles
<1>3. Undisturbed("file")' => Quiet
  BY <1>1 DEF Undisturbed, Quiet
<1>4. ~Undisturbed("snapshot")' /\ ~Undisturbed("paths")'
  BY <1>1 DEF Undisturbed
<1>5. QuietReadsExact'
  BY <1>1, <1>3, <1>4 DEF QuietReadsExact
<1> QED
  BY <1>2, <1>5 DEF Sound

LEMMA FileFailed ==
  ASSUME Typed, pc = "file", Fails
  PROVE  Sound'
<1>1. result'.read = "file" /\ ~result'.ok
  BY Failed
<1> QED
  BY <1>1 DEF Sound, QuietReadsExact, Undisturbed, ChurnNeverFails, HeadWithItsFiles

LEMMA PatchFields ==
  ASSUME NEW r, NEW path, NEW content, NEW patch
  PROVE  Fits(r, [path |-> path, content |-> content, patch |-> patch]) <=>
           /\ content = InWork(r, path)
           /\ \/ InIndex(r, path) = Absent /\ InHead(r, path) # Absent
              \/ IF patch = Nothing THEN content = InHead(r, path) \/ path \in Ignored
                 ELSE \A side \in patch : side[Len(side)] = content
<1> DEFINE v == [path |-> path, content |-> content, patch |-> patch]
<1>1. v.path = path /\ v.content = content /\ v.patch = patch
  OBVIOUS
<1> HIDE DEF v
<1>2. Fits(r, v) <=>
           /\ content = InWork(r, path)
           /\ \/ InIndex(r, path) = Absent /\ InHead(r, path) # Absent
              \/ IF patch = Nothing THEN content = InHead(r, path) \/ path \in Ignored
                 ELSE \A side \in patch : side[Len(side)] = content
  BY <1>1 DEF Fits
<1> QED
  BY <1>2 DEF v

LEMMA PatchesFit ==
  ASSUME Typed, Exploring, pc = "file", explorer.phase # "failed", Quiet
  PROVE  LET p == explorer.path
             v(patch) == [path |-> p, content |-> explorer.content, patch |-> patch]
         IN /\ DiffHead(repo, p) # Nothing => Fits(repo, v(DiffHead(repo, p)))
            /\ explorer.phase = "tracked" /\ InIndex(repo, p) # Absent => Fits(repo, v(Nothing))
            /\ p \in Ignored => Fits(repo, v(Nothing))
            /\ Fits(repo, v(WholeFile(InWork(repo, p))))
<1> DEFINE p == explorer.path
           content == explorer.content
           to == IF InIndex(repo, p) = Absent THEN Absent ELSE InWork(repo, p)
           v(patch) == [path |-> p, content |-> content, patch |-> patch]
<1>1. /\ p \in Paths /\ content \in Contents /\ content = InWork(repo, p)
      /\ explorer.phase = "tracked" => DiffHead(repo, p) = Nothing
      /\ repo \in Repositories
  BY DEF Exploring, QuietFile, Typed
<1>2. DiffHead(repo, p) = IF InHead(repo, p) = to THEN Nothing ELSE {<<p, InHead(repo, p), to>>}
  BY DEF DiffHead
<1>3. {<<p, InHead(repo, p), to>>} # Nothing
  <2>1. InHead(repo, p) \in Contents \cup {Absent} /\ to \in Contents \cup {Absent, Dir}
    BY <1>1, Contained
  <2> HIDE DEF to, p
  <2>2. InHead(repo, p) \in Contents \cup {Absent, Dir, Unmerged}
        /\ to \in Contents \cup {Absent, Dir, Unmerged}
    BY <2>1
  <2> QED
    BY <1>1, <2>2, NamesAreDistinct
<1>4. <<p, InHead(repo, p), to>>[Len(<<p, InHead(repo, p), to>>)] = to
  <2> HIDE DEF to, p
  <2> QED
    OBVIOUS
<1>5. <<"whole", content>>[Len(<<"whole", content>>)] = content
  <2> HIDE DEF content
  <2> QED
    OBVIOUS
<1>6. {<<"whole", content>>} # Nothing /\ WholeFile(InWork(repo, p)) = {<<"whole", content>>}
  BY <1>1, NamesAreDistinct DEF WholeFile
<1>7. ASSUME DiffHead(repo, p) # Nothing PROVE Fits(repo, v(DiffHead(repo, p)))
  <2>1. InHead(repo, p) # to /\ DiffHead(repo, p) = {<<p, InHead(repo, p), to>>}
    BY <1>2, <1>7
  <2>2. \A side \in DiffHead(repo, p) : side[Len(side)] = to
    BY <1>4, <2>1
  <2>3. (InIndex(repo, p) = Absent /\ InHead(repo, p) # Absent) \/ to = content
    BY <1>1, <2>1
  <2> QED
    BY <1>1, <1>7, <2>2, <2>3, PatchFields
<1>8. ASSUME explorer.phase = "tracked", InIndex(repo, p) # Absent PROVE Fits(repo, v(Nothing))
  <2>1. InHead(repo, p) = content
    BY <1>1, <1>2, <1>3, <1>8
  <2> QED
    BY <1>1, <2>1, PatchFields
<1>9. p \in Ignored => Fits(repo, v(Nothing))
  BY <1>1, PatchFields
<1>10. Fits(repo, v(WholeFile(InWork(repo, p))))
  <2>1. \A side \in {<<"whole", content>>} : side[Len(side)] = content
    BY <1>5
  <2> QED
    BY <1>1, <1>6, <2>1, PatchFields
<1> QED
  BY <1>7, <1>8, <1>9, <1>10

(***************************************************************************)
(* Every step keeps the invariant.                                          *)
(***************************************************************************)
\* A read that ends.
LEMMA Idled ==
  ASSUME Typed, pc' = "idle", UNCHANGED <<repo, seen, writes>>, files' = {}, Sound', Broken'
  PROVE  IInv'
BY DEF Typed, Sound, IInv, Snapshotting, QuietSnapshot, IsExplorer, QuietFile, QuietPaths

\* A read that goes on.
LEMMA GoesOn ==
  ASSUME Typed, pc # "idle", Reads
  PROVE  Typed' /\ Sound' /\ (Quiet' <=> Quiet)
<1>1. result' = Nothing
  BY DEF Typed, Reads
<1>2. Typed'
  BY DEF Typed, Reads
<1>3. Quiet' <=> Quiet
  BY DEF Quiet, Reads
<1> QED
  BY <1>1, <1>2, <1>3, NoResult

\* A read that begins.
LEMMA Begun ==
  ASSUME Typed, NEW read \in {"snapshot", "file", "paths"}, Begins(read)
  PROVE  Typed' /\ Sound' /\ pc' = read
<1>1. result' = Nothing /\ pc' = read
  BY DEF Begins
<1>2. Typed'
  BY DEF Typed, Begins
<1> QED
  BY <1>1, <1>2, NoResult

\* A step of a worker keeps what has failed.
LEMMA HaltedStays ==
  ASSUME NEW s, NEW w, Working(s, w), UNCHANGED <<outage, pc, meta>>, Broken, NEW next,
         Advance(w, next)
  PROVE  Broken'
<1>1. /\ pc = "snapshot" /\ w \in DOMAIN pool /\ ~pool[w].failed
      /\ pool = [v \in DOMAIN pool |-> pool[v]]
  BY TodoIsRecord DEF Working, SnapshotOf
<1>2. DOMAIN pool' = DOMAIN pool /\ \A v \in DOMAIN pool : v # w => pool'[v] = pool[v]
  BY <1>1 DEF Advance
<1>3. Halted => Halted'
  BY <1>1, <1>2 DEF Halted
<1> QED
  BY <1>1, <1>3 DEF Broken

LEMMA WorkerAdvances ==
  ASSUME NEW w, WorkOn(w)
  PROVE  \E next : Advance(w, next)
BY DEF WorkOn, ReadStaged, Inspect, ReadWhole, ReadUnstaged, StagedContext, UnstagedContext,
       Fail, Skip, Complete

LEMMA NotExploring ==
  ASSUME pc' = "snapshot"
  PROVE  Exploring'
BY DEF Exploring, IsExplorer, QuietFile, QuietPaths

LEMMA NotSnapshotting ==
  ASSUME pc' \in {"file", "paths"}
  PROVE  Snapshotting' /\ QuietSnapshot'
BY DEF Snapshotting, QuietSnapshot

\* Nothing has failed when a read begins.
LEMMA BegunWhole ==
  ASSUME IInv, NEW read, Begins(read)
  PROVE  Broken'
BY DEF IInv, Broken, Begins

\* Nothing has failed while the Explorer reads.
LEMMA ExplorerWhole ==
  ASSUME IInv, pc \in {"file", "paths"}, UNCHANGED outage
  PROVE  Broken'
BY DEF IInv, Broken

LEMMA SnapshotTaken ==
  ASSUME IInv, TakeStatus
  PROVE  IInv'
<1>1. Typed' /\ Sound' /\ pc' = "snapshot"
  BY Begun DEF IInv, TakeStatus
<1>2. SnapshotOf(repo)' /\ QuietWorkers' /\ QuietMeta'
  BY TakenSnapshot, TakenQuiet DEF IInv
<1>3. repo' \in seen'
  BY DEF TakeStatus, Begins
<1>4. Snapshotting' /\ QuietSnapshot'
  BY <1>2, <1>3 DEF Snapshotting, QuietSnapshot
<1> QED
  BY <1>1, <1>4, NotExploring, BegunWhole DEF IInv, Sound, Exploring, TakeStatus

\* In a quiet snapshot the status is the repository's.
LEMMA SnapshotKnown ==
  ASSUME IInv, pc = "snapshot"
  PROVE  /\ \E s \in seen : SnapshotOf(s)
         /\ Quiet => seen = {repo} /\ QuietWorkers /\ QuietMeta
BY DEF IInv, Snapshotting, QuietSnapshot, Quiet

LEMMA WorkerStep ==
  ASSUME IInv, NEW w \in DOMAIN pool, WorkOn(w)
  PROVE  IInv'
<1>1. pc = "snapshot" /\ Reads
  BY DEF WorkOn, ReadStaged, Inspect, ReadWhole, ReadUnstaged, StagedContext,
         UnstagedContext, At
<1>2. PICK s \in seen : SnapshotOf(s)
  BY <1>1, SnapshotKnown
<1>3. WorkHeld(s) /\ Beside
  BY <1>2, WorkerHolds DEF IInv
<1>4. Typed' /\ Sound' /\ (Quiet' <=> Quiet)
  BY <1>1, GoesOn DEF IInv
<1>5. Snapshotting'
  BY <1>2, <1>3 DEF Snapshotting, WorkHeld, Beside
<1>6. QuietSnapshot'
  <2>1. Quiet => s = repo /\ QuietWorkers /\ QuietMeta
    BY <1>1, <1>2, SnapshotKnown
  <2>2. Quiet => QuietWorkers'
    BY <1>3, <2>1 DEF WorkHeld
  <2>3. QuietMeta => QuietMeta'
    BY <1>3 DEF QuietMeta, Beside
  <2> QED
    BY <1>4, <2>1, <2>2, <2>3 DEF QuietSnapshot
<1>7. pc' = "snapshot"
  BY <1>1 DEF Reads
<1>8. Broken'
  <2>1. PICK next : Advance(w, next)
    BY WorkerAdvances
  <2>2. Working(s, w)
    BY <1>2, WorkerHolds DEF IInv
  <2> QED
    BY <1>3, <2>1, <2>2, HaltedStays DEF IInv, Beside
<1> QED
  BY <1>4, <1>5, <1>6, <1>7, <1>8, NotExploring DEF IInv, Sound, Exploring

LEMMA MetaStep ==
  ASSUME IInv, ReadLocalCommits \/ ReadHasHead \/ ReadLog \/ ReadOperation
  PROVE  IInv'
<1>1. pc = "snapshot" /\ Reads
  BY DEF ReadLocalCommits, ReadHasHead, ReadLog, ReadOperation, MetaAt, MetaGoes
<1>2. PICK s \in seen : SnapshotOf(s)
  BY <1>1, SnapshotKnown
<1>3. MetaHeld(s)
  BY <1>2, LocalCommitsRead, HasHeadRead, LogRead, OperationRead DEF IInv
<1>4. Typed' /\ Sound' /\ (Quiet' <=> Quiet)
  BY <1>1, GoesOn DEF IInv
<1>5. Snapshotting'
  BY <1>1, <1>2, <1>3 DEF Snapshotting, MetaHeld, Reads
<1>6. QuietSnapshot'
  <2>1. Quiet => s = repo /\ QuietWorkers /\ QuietMeta
    BY <1>1, <1>2, SnapshotKnown
  <2> QED
    BY <1>3, <1>4, <2>1 DEF QuietSnapshot, MetaHeld
<1>7. pc' = "snapshot"
  BY <1>1 DEF Reads
<1>8. Broken'
  <2>1. pool' = pool /\ outage' = outage /\ meta.phase # "failed"
    BY DEF ReadLocalCommits, ReadHasHead, ReadLog, ReadOperation, MetaAt, MetaGoes, Reads
  <2> QED
    BY <1>1, <1>7, <2>1 DEF IInv, Broken, Halted
<1> QED
  BY <1>4, <1>5, <1>6, <1>7, <1>8, NotExploring DEF IInv, Sound, Exploring

LEMMA JoinStep ==
  ASSUME IInv, Join
  PROVE  IInv'
<1>1. /\ pc = "snapshot" /\ pc' = "idle" /\ UNCHANGED <<repo, seen, writes, outage>> /\ files' = {}
  BY DEF Join, Ends, Fails, Finishes
<1>2. PICK s \in seen : SnapshotOf(s)
  BY <1>1, SnapshotKnown
<1>3. Sound'
  BY <1>1, <1>2, SnapshotKnown, Joined DEF IInv
<1>4. Broken'
  <2>1. CASE outage
    <3>1. Fails
      BY <1>1, <2>1 DEF Join, IInv, Broken, Halted
    <3>2. result' # Nothing /\ ~result'.ok
      BY <1>1, <3>1, FailureIsKnown DEF Fails, Finishes
    <3> QED
      BY <1>1, <3>2 DEF Broken
  <2>2. CASE ~outage
    BY <1>1, <2>2 DEF Broken
  <2> QED
    BY <2>1, <2>2
<1> QED
  BY <1>1, <1>3, <1>4, Idled DEF IInv

LEMMA FileStep ==
  ASSUME IInv, \/ FileFails \/ PatchHasHead \/ PatchDiff \/ PatchTracked \/ PatchIgnored
               \/ PatchWhole
  PROVE  IInv'
<1> DEFINE p == explorer.path
           v(patch) == [path |-> p, content |-> explorer.content, patch |-> patch]
<1>1. Typed /\ Exploring /\ pc = "file"
  BY DEF IInv, Exploring, FileFails, PatchHasHead, PatchDiff, PatchTracked, PatchIgnored,
         PatchWhole, FileAtPhase
<1>2. ASSUME Fails PROVE IInv'
  BY <1>1, <1>2, Failed, FileFailed, ExplorerWhole, Idled
<1>3. ASSUME NEW patch, FileEnds(patch), Quiet => Fits(repo, v(patch)) PROVE IInv'
  <2>1. Sound'
    BY <1>1, <1>3, FileEnded
  <2>2. pc' = "idle" /\ UNCHANGED <<repo, seen, writes, outage>> /\ files' = {}
    BY <1>3, Ended DEF FileEnds
  <2> QED
    BY <1>1, <2>1, <2>2, ExplorerWhole, Idled
<1>4. ASSUME NEW phase, explorer.phase # "failed",
             ExplorerGoes([explorer EXCEPT !.phase = phase]),
             phase = "tracked" => DiffHead(repo, p) = Nothing
      PROVE  IInv'
  <2>1. Exploring'
    BY <1>1, <1>4, FileGoesOn
  <2>2. Reads /\ pc' = "file"
    BY <1>1, <1>4 DEF ExplorerGoes, Reads
  <2>3. Typed' /\ Sound'
    BY <1>1, <2>2, GoesOn
  <2>4. Broken'
    BY <1>1, <2>2, ExplorerWhole DEF Reads
  <2> QED
    BY <2>1, <2>2, <2>3, <2>4, NotSnapshotting DEF IInv, Sound, Exploring
<1>5. ASSUME explorer.phase # "failed", Quiet
      PROVE  /\ DiffHead(repo, p) # Nothing => Fits(repo, v(DiffHead(repo, p)))
             /\ explorer.phase = "tracked" /\ InIndex(repo, p) # Absent => Fits(repo, v(Nothing))
             /\ p \in Ignored => Fits(repo, v(Nothing))
             /\ Fits(repo, v(WholeFile(InWork(repo, p))))
  BY <1>1, <1>5, PatchesFit
<1>6. CASE FileFails
  BY <1>2, <1>6 DEF FileFails
<1>7. CASE PatchHasHead
  BY <1>4, <1>7 DEF PatchHasHead, FileAtPhase
<1>8. CASE PatchDiff
  <2>1. explorer.phase = "diff"
    BY <1>8 DEF PatchDiff, FileAtPhase
  <2>2. CASE repo.commit = 0
    BY <1>2, <1>8, <2>2 DEF PatchDiff
  <2>5. CASE repo.commit # 0 /\ NotUtf8(DiffHead(repo, p))
    BY <1>2, <1>8, <2>5 DEF PatchDiff
  <2>3. CASE repo.commit # 0 /\ DiffHead(repo, p) # Nothing /\ ~NotUtf8(DiffHead(repo, p))
    BY <1>3, <1>5, <1>8, <2>1, <2>3 DEF PatchDiff
  <2>4. CASE repo.commit # 0 /\ DiffHead(repo, p) = Nothing /\ ~NotUtf8(DiffHead(repo, p))
    BY <1>4, <1>8, <2>1, <2>4 DEF PatchDiff
  <2> QED
    BY <2>2, <2>3, <2>4, <2>5
<1>9. CASE PatchTracked
  <2>1. explorer.phase = "tracked"
    BY <1>9 DEF PatchTracked, FileAtPhase
  <2>2. CASE InIndex(repo, p) # Absent
    BY <1>3, <1>5, <1>9, <2>1, <2>2 DEF PatchTracked
  <2>3. CASE InIndex(repo, p) = Absent
    BY <1>4, <1>9, <2>1, <2>3 DEF PatchTracked
  <2> QED
    BY <2>2, <2>3
<1>10. CASE PatchIgnored
  <2>1. explorer.phase = "ignored"
    BY <1>10 DEF PatchIgnored, FileAtPhase
  <2>2. CASE p \in Ignored /\ InIndex(repo, p) = Absent
    BY <1>3, <1>5, <1>10, <2>1, <2>2 DEF PatchIgnored
  <2>3. CASE ~(p \in Ignored /\ InIndex(repo, p) = Absent)
    BY <1>4, <1>10, <2>1, <2>3 DEF PatchIgnored
  <2> QED
    BY <2>2, <2>3
<1>11. CASE PatchWhole
  <2>1. explorer.phase = "whole"
    BY <1>11 DEF PatchWhole, FileAtPhase
  <2>2. CASE InWork(repo, p) \in Contents
    BY <1>3, <1>5, <1>11, <2>1, <2>2 DEF PatchWhole
  <2>3. CASE InWork(repo, p) \notin Contents
    BY <1>2, <1>11, <2>3 DEF PatchWhole
  <2> QED
    BY <2>2, <2>3
<1> QED
  BY <1>6, <1>7, <1>8, <1>9, <1>10, <1>11

LEMMA FileOpenStep ==
  ASSUME IInv, NEW p \in Paths, ReadContents(p)
  PROVE  IInv'
<1>1. Typed' /\ Sound' /\ pc' = "file"
  BY Begun DEF IInv, ReadContents
<1>2. Exploring'
  BY FileOpened DEF IInv
<1> QED
  BY <1>1, <1>2, NotSnapshotting, BegunWhole DEF IInv, Sound, Exploring, ReadContents

LEMMA ListStep ==
  ASSUME IInv, ListDirectory
  PROVE  IInv'
<1> DEFINE there == {p \in Paths : InWork(repo, p) # Absent}
<1>1. Typed' /\ Sound' /\ pc' = "paths" /\ repo' = repo
  BY Begun DEF IInv, ListDirectory, Begins
<1>2. explorer' = [NoRead EXCEPT !.phase = "walk", !.left = there]
  BY DEF ListDirectory
<1>3. explorer' = [phase |-> "walk", path |-> Nothing, content |-> Nothing, paths |-> {},
                   left |-> there]
  <2> HIDE DEF there
  <2>1. [NoRead EXCEPT !.phase = "walk", !.left = there] =
          [[NoRead EXCEPT !.phase = "walk"] EXCEPT !.left = there]
    OBVIOUS
  <2>2. [NoRead EXCEPT !.phase = "walk"] =
          [phase |-> "walk", path |-> Nothing, content |-> Nothing, paths |-> {}, left |-> {}]
    BY DEF NoRead
  <2> QED
    BY <1>2, <2>1, <2>2
<1>4. {} = {p \in Paths : InWork(repo, p) \in Contents} \ there
  BY NamesAreDistinct
<1> HIDE DEF there
<1>5. explorer'.paths = {} /\ explorer'.left = there
  BY <1>3
<1>6. Exploring'
  <2>1. IsExplorer'
    BY <1>3 DEF IsExplorer
  <2>2. QuietFile'
    BY <1>1 DEF QuietFile
  <2>3. QuietPaths'
    BY <1>1, <1>4, <1>5 DEF QuietPaths
  <2> QED
    BY <2>1, <2>2, <2>3 DEF Exploring
<1> QED
  BY <1>1, <1>6, NotSnapshotting, BegunWhole DEF IInv, Sound, Exploring, ListDirectory

LEMMA InspectStep ==
  ASSUME IInv, NEW p \in Paths, InspectEntry(p)
  PROVE  IInv'
<1> DEFINE left == explorer.left \ {p}
           paths == IF InWork(repo, p) \in Contents THEN explorer.paths \cup {p}
                    ELSE explorer.paths
           phase == explorer.phase
           path == explorer.path
           content == explorer.content
<1>1. pc = "paths" /\ p \in explorer.left /\ Reads
  BY DEF InspectEntry, ExplorerGoes
<1>2. explorer = [phase |-> explorer.phase, path |-> explorer.path,
                  content |-> explorer.content, paths |-> explorer.paths,
                  left |-> explorer.left]
  BY <1>1 DEF IInv, IsExplorer
<1>3. explorer' = [explorer EXCEPT !.left = left, !.paths = paths]
  BY DEF InspectEntry, ExplorerGoes
<1>4. Quiet => explorer.paths = {q \in Paths : InWork(repo, q) \in Contents} \ explorer.left
  BY <1>1 DEF IInv, QuietPaths
<1>5. Quiet => paths = {q \in Paths : InWork(repo, q) \in Contents} \ left
  BY <1>1, <1>4
<1> HIDE DEF left, paths
<1>6. explorer' = [phase |-> phase, path |-> path, content |-> content, paths |-> paths,
                   left |-> left]
  BY <1>2, <1>3, ExplorerSet
<1> HIDE DEF phase, path, content
<1>7. explorer'.paths = paths /\ explorer'.left = left
  BY <1>6
<1>8. Typed' /\ Sound' /\ (Quiet' <=> Quiet) /\ pc' = "paths" /\ repo' = repo
  BY <1>1, GoesOn DEF IInv, Reads
<1>9. Exploring'
  <2>1. IsExplorer'
    BY <1>6 DEF IsExplorer
  <2>2. QuietFile'
    BY <1>8 DEF QuietFile
  <2>3. QuietPaths'
    BY <1>5, <1>7, <1>8 DEF QuietPaths
  <2> QED
    BY <2>1, <2>2, <2>3 DEF Exploring
<1>10. Broken'
  BY <1>1, ExplorerWhole DEF Reads
<1> QED
  BY <1>8, <1>9, <1>10, NotSnapshotting DEF IInv, Sound, Exploring

LEMMA PathsStep ==
  ASSUME IInv, QuickOpenPaths
  PROVE  IInv'
<1>1. pc = "paths" /\ explorer.left = {} /\ Ends(explorer.paths \cap Unignored)
  BY DEF QuickOpenPaths
<1>2. /\ result'.read = "paths" /\ result'.ok /\ result'.value = explorer.paths \cap Unignored
      /\ UNCHANGED <<repo, seen, writes, outage>> /\ pc' = "idle" /\ files' = {}
  BY <1>1, Ended
<1>3. Undisturbed("paths")' => Quiet
  BY <1>2 DEF Undisturbed, Quiet
<1>4. Quiet => explorer.paths \cap Unignored = {p \in Unignored : InWork(repo, p) \in Contents}
  BY <1>1 DEF IInv, QuietPaths, Unignored
<1>5. ~Undisturbed("snapshot")' /\ ~Undisturbed("file")'
  BY <1>2 DEF Undisturbed
<1>6. QuietReadsExact'
  <2>1. Undisturbed("paths")' =>
          result'.value = {p \in Unignored' : InWork(repo', p) \in Contents}
    BY <1>2, <1>3, <1>4 DEF Unignored
  <2> QED
    BY <1>5, <2>1 DEF QuietReadsExact
<1>7. ChurnNeverFails' /\ HeadWithItsFiles'
  BY <1>2 DEF ChurnNeverFails, HeadWithItsFiles
<1>8. Broken'
  BY <1>1, <1>2, ExplorerWhole
<1> QED
  BY <1>2, <1>6, <1>7, <1>8, Idled DEF IInv, Sound

(***************************************************************************)
(* The other programs.                                                      *)
(***************************************************************************)
\* A write ends the quiet, and excuses nothing less than before.
LEMMA WriteStep ==
  ASSUME IInv, NEW next \in Repositories, Writes(next),
         next.upstream = NoUpstream <=> repo.upstream = NoUpstream
  PROVE  IInv'
<1>1. /\ pc # "idle" /\ repo' = next /\ seen' = seen \cup {next}
      /\ UNCHANGED <<outage, pc, parsed, pool, files, meta, explorer, result>>
      /\ result = Nothing /\ Typed
  BY DEF Writes, local, IInv, Typed
<1>2. ~Quiet' /\ writes' \in Nat
  BY DEF Writes, Quiet, IInv, Typed
<1>3. Typed'
  BY <1>1, <1>2 DEF Typed
<1>4. Sound'
  BY <1>1, NoResult
<1>5. Excused => Excused'
  BY <1>1 DEF Excused
<1>6. Snapshotting'
  <2>1. SUFFICES ASSUME pc = "snapshot" PROVE \E s \in seen' : SnapshotOf(s)'
    BY <1>1 DEF Snapshotting
  <2>2. PICK s \in seen : SnapshotOf(s)
    BY <2>1, SnapshotKnown
  <2>3. (\A w \in DOMAIN pool : WorkerFits(pool[w]))'
    BY <1>1, <1>5, <2>2 DEF SnapshotOf, WorkerFits, IsTask, PhaseFits
  <2>4. (\A c \in files : CompletedFits(c))'
    BY <1>1, <2>2 DEF SnapshotOf, CompletedFits
  <2>5. MetaFits(s)'
    BY <1>1, <1>5, <2>2 DEF SnapshotOf, MetaFits
  <2>6. SnapshotOf(s)'
    BY <1>1, <2>2, <2>3, <2>4, <2>5 DEF SnapshotOf
  <2> QED
    BY <1>1, <2>6
<1>7. QuietSnapshot' /\ QuietFile' /\ QuietPaths'
  BY <1>2 DEF QuietSnapshot, QuietFile, QuietPaths
<1>8. IsExplorer' /\ Broken'
  BY <1>1 DEF IInv, IsExplorer, Broken, Halted
<1> QED
  BY <1>3, <1>4, <1>6, <1>7, <1>8 DEF IInv, Sound

FileStates == [head : Contents \cup {Absent}, index : Contents \cup {Absent, Unmerged},
               work : Contents \cup {Absent, Dir}]

LEMMA FieldSet ==
  ASSUME NEW r \in Repositories, NEW fs \in [Paths -> FileStates], NEW commit \in Nat,
         NEW upstream \in Nat \cup {NoUpstream, Gone}, NEW operation \in {"None", "Merge"}
  PROVE  /\ [r EXCEPT !.files = fs] \in Repositories
         /\ [r EXCEPT !.files = fs].upstream = r.upstream
         /\ [r EXCEPT !.commit = commit] \in Repositories
         /\ [r EXCEPT !.commit = commit].upstream = r.upstream
         /\ [r EXCEPT !.operation = operation] \in Repositories
         /\ [r EXCEPT !.operation = operation].upstream = r.upstream
         /\ [r EXCEPT !.upstream = upstream] \in Repositories
         /\ [r EXCEPT !.upstream = upstream].upstream = upstream
BY DEF Repositories, FileStates

LEMMA FileSet ==
  ASSUME NEW r \in Repositories, NEW p \in Paths, NEW f \in FileStates
  PROVE  LET t == [r EXCEPT !.files[p] = f]
         IN t \in Repositories /\ t.upstream = r.upstream
BY DEF Repositories, FileStates

LEMMA FileStateSet ==
  ASSUME NEW f \in FileStates, NEW head \in Contents \cup {Absent},
         NEW index \in Contents \cup {Absent, Unmerged}, NEW work \in Contents \cup {Absent, Dir}
  PROVE  /\ [f EXCEPT !.head = head] \in FileStates
         /\ [f EXCEPT !.index = index] \in FileStates
         /\ [f EXCEPT !.work = work] \in FileStates
BY DEF FileStates

\* HEAD moves: every file gets another head.
LEMMA HeadMoved ==
  ASSUME NEW r \in Repositories, NEW commit \in Nat, NEW operation \in {"None", "Merge"},
         NEW fs \in [Paths -> FileStates]
  PROVE  LET t == [r EXCEPT !.commit = commit, !.operation = operation, !.files = fs]
         IN t \in Repositories /\ t.upstream = r.upstream
<1> DEFINE a == [r EXCEPT !.commit = commit]
           b == [a EXCEPT !.operation = operation]
           c == [b EXCEPT !.files = fs]
<1>1. r.upstream \in Nat \cup {NoUpstream, Gone}
  BY DEF Repositories
<1>2. a \in Repositories /\ a.upstream = r.upstream
  BY <1>1, FieldSet
<1>3. [r EXCEPT !.commit = commit, !.operation = operation, !.files = fs] = c
  OBVIOUS
<1> HIDE DEF a
<1>4. b \in Repositories /\ b.upstream = r.upstream
  BY <1>1, <1>2, FieldSet
<1> HIDE DEF b
<1>5. c \in Repositories /\ c.upstream = r.upstream
  BY <1>1, <1>4, FieldSet
<1> QED
  BY <1>3, <1>5

LEMMA FileChanged ==
  ASSUME IInv, NEW p \in Paths, NEW f \in FileStates, Writes(WithFile(p, f))
  PROVE  IInv'
<1>1. repo \in Repositories
  BY DEF IInv, Typed
<1>2. WithFile(p, f) \in Repositories /\ WithFile(p, f).upstream = repo.upstream
  BY <1>1, FileSet DEF WithFile
<1> QED
  BY <1>2, WriteStep

LEMMA FileWritten ==
  ASSUME IInv, NEW p \in Paths,
         \/ \E to \in Contents \cup {Absent, Dir} : Edit(p, to)
         \/ Stage(p) \/ Unstage(p)
  PROVE  IInv'
<1> DEFINE f == repo.files[p]
<1>1. /\ repo \in Repositories /\ f \in FileStates
      /\ InHead(repo, p) = f.head /\ InWork(repo, p) = f.work
      /\ f.head \in Contents \cup {Absent} /\ f.work \in Contents \cup {Absent, Dir}
      /\ f.index \in Contents \cup {Absent, Unmerged}
  BY DEF IInv, Typed, Repositories, FileStates, InHead, InWork
<1> HIDE DEF f
<1>2. ASSUME NEW to \in Contents \cup {Absent, Dir}, Edit(p, to) PROVE IInv'
  <2>1. [f EXCEPT !.work = to] \in FileStates
    BY <1>1, FileStateSet
  <2> QED
    BY <1>2, <2>1, FileChanged DEF Edit, f
<1>3. ASSUME NEW index \in Contents \cup {Absent, Unmerged},
             Writes(WithFile(p, [f EXCEPT !.index = index]))
      PROVE  IInv'
  <2>1. [f EXCEPT !.index = index] \in FileStates
    BY <1>1, FileStateSet
  <2> QED
    BY <1>3, <2>1, FileChanged
<1>4. CASE Stage(p)
  <2>1. f.work \in Contents \cup {Absent, Unmerged}
    BY <1>1, <1>4 DEF Stage
  <2> QED
    BY <1>1, <1>3, <1>4, <2>1 DEF Stage, f
<1>5. CASE Unstage(p)
  BY <1>1, <1>3, <1>5 DEF Unstage, f
<1> QED
  BY <1>2, <1>4, <1>5

LEMMA Conflicts ==
  ASSUME IInv, NEW p \in Paths, Conflict(p)
  PROVE  IInv'
<1> DEFINE f == repo.files[p]
           t == WithFile(p, [f EXCEPT !.index = Unmerged])
           next == [t EXCEPT !.operation = "Merge"]
<1>1. /\ repo \in Repositories /\ f \in FileStates
      /\ f.head \in Contents \cup {Absent} /\ f.work \in Contents \cup {Absent, Dir}
      /\ repo.upstream \in Nat \cup {NoUpstream, Gone} /\ repo.files \in [Paths -> FileStates]
      /\ repo.commit \in Nat
  BY DEF IInv, Typed, Repositories, FileStates
<1>2. Writes(next)
  BY DEF Conflict
<1>3. [f EXCEPT !.index = Unmerged] \in FileStates
  <2> HIDE DEF f
  <2> QED
    BY <1>1, FileStateSet
<1>4. t \in Repositories /\ t.upstream = repo.upstream
  BY <1>1, <1>3, FileSet DEF WithFile
<1> HIDE DEF t
<1>5. next \in Repositories /\ next.upstream = t.upstream
  BY <1>1, <1>4, FieldSet
<1> HIDE DEF next
<1> QED
  BY <1>2, <1>4, <1>5, WriteStep

LEMMA HeadWritten ==
  ASSUME IInv, Commit \/ Orphan
  PROVE  IInv'
<1>1. repo \in Repositories /\ repo.commit \in Nat /\ repo.files \in [Paths -> FileStates]
  BY DEF IInv, Typed, Repositories, FileStates
<1>2. \A p \in Paths : /\ repo.files[p] \in FileStates
                       /\ InIndex(repo, p) \in Contents \cup {Absent, Unmerged}
                       /\ InWork(repo, p) \in Contents \cup {Absent, Dir}
  BY <1>1, Contained
<1>3. CASE Commit
  <2> DEFINE fs == [p \in Paths |-> [repo.files[p] EXCEPT !.head = InIndex(repo, p)]]
             commit == repo.commit + 1
             next == [repo EXCEPT !.commit = commit, !.operation = "None", !.files = fs]
  <2>1. Writes(next)
    BY <1>3 DEF Commit
  <2>2. ASSUME NEW p \in Paths PROVE [repo.files[p] EXCEPT !.head = InIndex(repo, p)] \in FileStates
    <3>1. InIndex(repo, p) \in Contents \cup {Absent}
      BY <1>2, <1>3 DEF Commit, Conflicted
    <3> QED
      BY <1>2, <3>1, FileStateSet
  <2>3. fs \in [Paths -> FileStates] /\ commit \in Nat
    BY <1>1, <2>2
  <2> HIDE DEF fs, commit
  <2>4. next \in Repositories /\ next.upstream = repo.upstream
    BY <1>1, <2>3, HeadMoved
  <2> HIDE DEF next
  <2> QED
    BY <2>1, <2>4, WriteStep
<1>4. CASE Orphan
  <2> DEFINE fs == [p \in Paths |-> [repo.files[p] EXCEPT !.head = Absent]]
             next == [repo EXCEPT !.commit = 0, !.operation = "None", !.files = fs]
  <2>1. Writes(next)
    BY <1>4 DEF Orphan
  <2>2. ASSUME NEW p \in Paths PROVE [repo.files[p] EXCEPT !.head = Absent] \in FileStates
    BY <1>2, FileStateSet
  <2>3. fs \in [Paths -> FileStates]
    BY <2>2
  <2> HIDE DEF fs
  <2>4. next \in Repositories /\ next.upstream = repo.upstream
    BY <1>1, <2>3, HeadMoved
  <2> HIDE DEF next
  <2> QED
    BY <2>1, <2>4, WriteStep
<1> QED
  BY <1>3, <1>4

LEMMA UpstreamWritten ==
  ASSUME IInv, Prune \/ Publish
  PROVE  IInv'
<1>1. /\ repo \in Repositories /\ repo.commit \in Nat /\ repo.files \in [Paths -> FileStates]
      /\ repo.operation \in {"None", "Merge"}
  BY DEF IInv, Typed, Repositories, FileStates
<1>2. ASSUME NEW upstream \in Nat \cup {Gone}, repo.upstream # NoUpstream,
             Writes([repo EXCEPT !.upstream = upstream])
      PROVE  IInv'
  <2> DEFINE next == [repo EXCEPT !.upstream = upstream]
  <2>1. next \in Repositories /\ next.upstream = upstream
    BY <1>1, FieldSet
  <2>2. upstream # NoUpstream
    BY NamesAreDistinct
  <2> HIDE DEF next
  <2> QED
    BY <1>2, <2>1, <2>2, WriteStep DEF next
<1> QED
  BY <1>1, <1>2 DEF Prune, Publish

(***************************************************************************)
(* The failures.                                                            *)
(***************************************************************************)
LEMMA Unquiet ==
  ASSUME Typed, BreaksDown
  PROVE  writes' \in Nat /\ ~Quiet' /\ outage' /\ (\A read : ~Undisturbed(read)')
BY DEF BreaksDown, Quiet, Typed, Undisturbed

\* A read that fails at once.
LEMMA FailureHolds ==
  ASSUME Typed, repo' = repo, seen' \subseteq Repositories, BreaksDown, pc' = "idle", files' = {},
         NEW read \in {"snapshot", "file", "paths"}, result' = Failure(read)
  PROVE  IInv'
<1>1. writes' \in Nat /\ outage' /\ \A kind : ~Undisturbed(kind)'
  BY Unquiet
<1>2. result' # Nothing /\ result'.read = read /\ ~result'.ok
  BY FailureIsKnown
<1>3. Typed' /\ Broken'
  BY <1>1, <1>2 DEF Typed, Broken
<1>4. Snapshotting' /\ QuietSnapshot' /\ IsExplorer' /\ QuietFile' /\ QuietPaths'
  BY DEF Snapshotting, QuietSnapshot, IsExplorer, QuietFile, QuietPaths
<1>5. QuietReadsExact' /\ ChurnNeverFails' /\ HeadWithItsFiles'
  BY <1>1, <1>2 DEF QuietReadsExact, ChurnNeverFails, HeadWithItsFiles
<1> QED
  BY <1>3, <1>4, <1>5 DEF IInv

LEMMA OpeningFailure ==
  ASSUME IInv, NEW read \in {"snapshot", "file", "paths"}, OpeningFails(read)
  PROVE  IInv'
<1>1. repo \in Repositories /\ files = {} /\ pc = "idle"
  BY DEF IInv, Typed, OpeningFails
<1> QED
  BY <1>1, FailureHolds DEF IInv, OpeningFails, local

LEMMA ExplorerFailure ==
  ASSUME IInv, ExplorerFails
  PROVE  IInv'
<1>1. pc \in {"snapshot", "file", "paths"} /\ seen \subseteq Repositories
  BY DEF IInv, Typed, ExplorerFails
<1> QED
  BY <1>1, FailureHolds DEF IInv, ExplorerFails, Finishes

\* A snapshot one of whose threads fails.
LEMMA SnapshotFailure ==
  ASSUME IInv, pc = "snapshot", UNCHANGED <<repo, seen, pc, files, result>>, BreaksDown,
         Snapshotting', Halted'
  PROVE  IInv'
<1>1. writes' \in Nat /\ ~Quiet' /\ result' = Nothing
  BY Unquiet DEF IInv, Typed
<1>2. Typed'
  BY <1>1 DEF IInv, Typed
<1>3. QuietSnapshot' /\ Broken'
  BY <1>1 DEF QuietSnapshot, Broken
<1> QED
  BY <1>1, <1>2, <1>3, NotExploring, NoResult DEF IInv, Sound, Exploring

LEMMA FileReadFailure ==
  ASSUME IInv, NEW w \in DOMAIN pool, FileReadFails(w)
  PROVE  IInv'
<1> DEFINE t == [Idle EXCEPT !.failed = TRUE]
<1>1. /\ pc = "snapshot" /\ UNCHANGED <<repo, seen, pc, parsed, files, meta, result>>
      /\ BreaksDown /\ pool' = [pool EXCEPT ![w] = t]
  BY DEF FileReadFails, Fail, Advance
<1>2. PICK s \in seen : SnapshotOf(s)
  BY <1>1, SnapshotKnown
<1>3. Excused'
  BY <1>1 DEF BreaksDown, Excused
<1>4. t = [todo |-> <<>>, phase |-> "staged", staged |-> Nothing, unstaged |-> Nothing,
           failed |-> TRUE]
  BY IdleFields
<1>5. /\ t = [todo |-> t.todo, phase |-> t.phase, staged |-> t.staged, unstaged |-> t.unstaged,
              failed |-> t.failed]
      /\ t.todo = <<>> /\ t.phase = "staged" /\ t.failed = TRUE
  BY <1>4
<1> HIDE DEF t
<1>6. <<>> \in Seq(1..Len(parsed'.files))
  OBVIOUS
<1>7. /\ DOMAIN pool' = DOMAIN pool /\ pool' = [v \in DOMAIN pool' |-> pool'[v]]
      /\ pool'[w] = t /\ \A v \in DOMAIN pool' : pool'[v] = t \/ pool'[v] = pool[v]
  BY <1>1, <1>2 DEF SnapshotOf
<1>8. (\A v \in DOMAIN pool : WorkerFits(pool[v]))'
  <2>1. ASSUME NEW v \in DOMAIN pool' PROVE WorkerFits(pool[v])'
    <3>1. CASE pool'[v] = t
      BY <1>3, <1>5, <1>6, <3>1 DEF WorkerFits, IsTask
    <3>2. CASE pool'[v] = pool[v]
      BY <1>1, <1>2, <1>3, <1>7, <3>2 DEF SnapshotOf, WorkerFits, IsTask, PhaseFits
    <3> QED
      BY <1>7, <3>1, <3>2
  <2> QED
    BY <2>1
<1>9. (\A c \in files : CompletedFits(c))' /\ MetaFits(s)'
  BY <1>1, <1>2, <1>3 DEF SnapshotOf, CompletedFits, MetaFits
<1>10. SnapshotOf(s)'
  BY <1>1, <1>2, <1>7, <1>8, <1>9 DEF SnapshotOf
<1>11. Snapshotting' /\ Halted'
  BY <1>1, <1>2, <1>5, <1>7, <1>10 DEF Snapshotting, Halted
<1> QED
  BY <1>1, <1>11, SnapshotFailure

LEMMA MetadataFailure ==
  ASSUME IInv, MetadataFails
  PROVE  IInv'
<1> DEFINE m == meta
<1>1. /\ pc = "snapshot" /\ UNCHANGED <<repo, seen, pc, parsed, pool, files, result>>
      /\ BreaksDown /\ meta' = [meta EXCEPT !.phase = "failed"]
  BY DEF MetadataFails
<1>2. PICK s \in seen : SnapshotOf(s)
  BY <1>1, SnapshotKnown
<1>3. Excused'
  BY <1>1 DEF BreaksDown, Excused
<1>4. meta' = [phase |-> "failed", local |-> m.local, recent |-> m.recent,
               operation |-> m.operation]
  BY <1>1, <1>2, MetaSet DEF SnapshotOf, MetaFits
<1>5. (\A w \in DOMAIN pool : WorkerFits(pool[w]))'
  BY <1>1, <1>2, <1>3 DEF SnapshotOf, WorkerFits, IsTask, PhaseFits
<1>6. (\A c \in files : CompletedFits(c))'
  BY <1>1, <1>2 DEF SnapshotOf, CompletedFits
<1>7. MetaFits(s)' /\ Halted'
  BY <1>3, <1>4 DEF MetaFits, Halted
<1>8. SnapshotOf(s)'
  BY <1>1, <1>2, <1>5, <1>6, <1>7 DEF SnapshotOf
<1>9. Snapshotting'
  BY <1>1, <1>2, <1>8 DEF Snapshotting
<1> QED
  BY <1>1, <1>7, <1>9, SnapshotFailure

(***************************************************************************)
(* The theorems.                                                            *)
(***************************************************************************)
LEMMA InitHolds ==
  ASSUME Init
  PROVE  IInv
<1>1. repo \in Repositories
  BY ReadingAssumption DEF Init
<1> QED
  BY <1>1 DEF Init, IInv, Typed, Snapshotting, QuietSnapshot, IsExplorer, QuietFile,
              QuietPaths, Broken, QuietReadsExact, Undisturbed, ChurnNeverFails,
              HeadWithItsFiles

LEMMA OthersHold ==
  ASSUME IInv, Others
  PROVE  IInv'
BY FileWritten, Conflicts, HeadWritten, UpstreamWritten DEF Others

LEMMA OutagesHold ==
  ASSUME IInv, Outages
  PROVE  IInv'
BY OpeningFailure, FileReadFailure, MetadataFailure, ExplorerFailure DEF Outages

LEMMA NextHolds ==
  ASSUME IInv, [Next]_vars
  PROVE  IInv'
<1>1. CASE TakeStatus
  BY <1>1, SnapshotTaken
<1>2. CASE \E w \in DOMAIN pool : WorkOn(w)
  BY <1>2, WorkerStep
<1>3. CASE ReadLocalCommits \/ ReadHasHead \/ ReadLog \/ ReadOperation
  BY <1>3, MetaStep
<1>4. CASE Join
  BY <1>4, JoinStep
<1>5. CASE \E p \in Paths : ReadContents(p) \/ InspectEntry(p)
  BY <1>5, FileOpenStep, InspectStep
<1>6. CASE FileFails \/ PatchHasHead \/ PatchDiff \/ PatchTracked \/ PatchIgnored \/ PatchWhole
  BY <1>6, FileStep
<1>7. CASE ListDirectory \/ QuickOpenPaths
  BY <1>7, ListStep, PathsStep
<1>8. CASE Others
  BY <1>8, OthersHold
<1>10. CASE Outages
  BY <1>10, OutagesHold
<1>9. CASE UNCHANGED vars
  <2>1. /\ UNCHANGED <<repo, seen, writes, outage, pc, parsed, pool, files, meta, explorer, result>>
    BY <1>9 DEF vars, local
  <2>2. Typed' /\ IsExplorer' /\ Broken' /\ Sound'
    <3>1. Typed' /\ IsExplorer' /\ Broken'
      BY <2>1 DEF IInv, Typed, IsExplorer, Broken, Halted
    <3>2. QuietReadsExact'
      BY <2>1 DEF IInv, QuietReadsExact, Undisturbed, Unignored
    <3>3. ChurnNeverFails' /\ HeadWithItsFiles'
      BY <2>1 DEF IInv, ChurnNeverFails, HeadWithItsFiles
    <3> QED
      BY <3>1, <3>2, <3>3 DEF Sound
  <2>3. Quiet' <=> Quiet
    BY <2>1 DEF Quiet
  <2>4. ASSUME NEW s PROVE SnapshotOf(s) => SnapshotOf(s)'
    <3>1. Excused' <=> Excused
      BY <2>1 DEF Excused
    <3>2. \A c : CompletedFits(c)' <=> CompletedFits(c)
      BY <2>1 DEF CompletedFits
    <3>3. \A t : WorkerFits(t)' <=> WorkerFits(t)
      BY <2>1, <3>1 DEF WorkerFits, IsTask, PhaseFits
    <3>4. MetaFits(s)' <=> MetaFits(s)
      BY <2>1, <3>1 DEF MetaFits
    <3> QED
      BY <2>1, <3>2, <3>3, <3>4 DEF SnapshotOf
  <2>5. Snapshotting'
    BY <2>1, <2>4 DEF IInv, Snapshotting
  <2>6. QuietWorkers => QuietWorkers'
    <3>1. \A t, f : TaskShows(t, f)' <=> TaskShows(t, f)
      BY <2>1 DEF TaskShows, StagedOf, UnstagedOf
    <3>2. \A i : Completed(i)' <=> Completed(i)
      BY <2>1 DEF Completed, ViewOf, Readable, NeedsContext, StagedOf, UnstagedOf, LeftOut
    <3>3. \A f : Readable(repo, f)' <=> Readable(repo, f)
      BY <2>1 DEF Readable, NeedsContext, StagedOf, UnstagedOf
    <3>4. /\ repo' = repo /\ parsed' = parsed /\ pool' = pool /\ files' = files
          /\ \A w, i : Waits(w, i)' <=> Waits(w, i)
      BY <2>1 DEF Waits
    <3> QED
      BY <3>1, <3>2, <3>3, <3>4 DEF QuietWorkers, LeftOut
  <2>7. QuietMeta => QuietMeta'
    BY <2>1 DEF QuietMeta
  <2>8. QuietSnapshot'
    BY <2>1, <2>3, <2>6, <2>7 DEF IInv, QuietSnapshot
  <2>9. QuietFile' /\ QuietPaths'
    BY <2>1, <2>3 DEF IInv, QuietFile, QuietPaths
  <2> QED
    BY <2>2, <2>5, <2>8, <2>9 DEF IInv, Sound
<1> QED
  BY <1>1, <1>2, <1>3, <1>4, <1>5, <1>6, <1>7, <1>8, <1>9, <1>10 DEF Next

LEMMA InvariantHolds == Spec => []IInv
<1>1. Init => IInv
  BY InitHolds
<1>2. IInv /\ [Next]_vars => IInv'
  BY NextHolds
<1> QED
  BY <1>1, <1>2, PTL DEF Spec

\* A read that nobody disturbed is exact: a snapshot is the view of the
\* repository, complete and in Git's order however its records were dealt to the
\* workers, and fails exactly when a file, a diff (which has to be UTF-8) or the
\* log of the upstream cannot be read; a patch leads to the contents beside it;
\* the paths are those of the worktree (read_snapshot, explorer_file,
\* quick_open_paths).
THEOREM ReadsAreExact == Spec => []QuietReadsExact
<1>1. IInv => QuietReadsExact
  BY DEF IInv
<1> QED
  BY <1>1, InvariantHolds, PTL

\* However many writes come between two commands of a snapshot, and however many
\* of its commands fail by themselves: it fails only for such a command or for
\* what can disturb a snapshot, a failed command leaves no partial result, and
\* what is published is a head with the files and the counts of that head,
\* though its log is read beside it (join_snapshot_work).
THEOREM ReadsSurviveWrites == Spec => []ChurnReadsSound
<1>1. IInv => NoPartialResult
  BY DEF IInv, Typed, Broken, NoPartialResult
<1>2. IInv => ChurnReadsSound
  BY <1>1 DEF IInv, ChurnReadsSound
<1> QED
  BY <1>2, InvariantHolds, PTL
=============================================================================
