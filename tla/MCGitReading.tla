---------------------------- MODULE MCGitReading ----------------------------
(* Two paths, every state of the first, the second in the states that pair   *)
(* with it: a move, a conflict, an untracked or an ignored file, and so three*)
(* records for two workers. What is not UTF-8 is changed, added, removed or  *)
(* moved on one side, or written by another program meanwhile.               *)
EXTENDS GitReading

Sides(head, index, work) == [head |-> head, index |-> index, work |-> work]

First == [head : {Absent, Binary} \cup Texts, index : {Absent, Unmerged} \cup Texts,
          work : {Absent, Dir, Binary} \cup Texts]
NotUtf8Sides == {Sides(t, t, Latin) : t \in Texts}
  \cup {Sides(Latin, i, w) : i \in {Absent, Latin} \cup Texts, w \in {Absent, Latin}}
  \cup {Sides(Absent, Latin, w) : w \in {Absent, Binary, Latin}}
Second == {Sides(Absent, Binary, Binary), Sides(Absent, Binary, Absent),
           Sides(Absent, Absent, Binary), Sides(Binary, Binary, Binary)}
Moves == {[files |-> (1 :> Sides(Latin, Absent, Absent) @@ 2 :> Sides(Absent, Latin, w)),
           commit |-> 1, upstream |-> NoUpstream, operation |-> "None"] : w \in {Latin, Absent}}

AllStarts ==
  {[files |-> (1 :> f @@ 2 :> s), commit |-> c, upstream |-> u, operation |-> "None"] :
     f \in First \cup NotUtf8Sides, s \in Second, c \in {1}, u \in {NoUpstream}}
  \cup {[files |-> (1 :> f @@ 2 :> s), commit |-> c, upstream |-> u, operation |-> "Merge"] :
     f \in First, s \in {Sides(Absent, Binary, Absent)}, c \in {0, 1}, u \in {Gone, 0}}

MCStarts == Moves \cup {r \in AllStarts : r.commit = 0 => \A p \in Paths : r.files[p].head = Absent}
=============================================================================
