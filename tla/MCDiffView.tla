----------------------------- MODULE MCDiffView -----------------------------
(* Two files; a has a short patch, b one the worker prepares.  Each has a     *)
(* refreshed patch whose rows moved, b also one Git prints for a conflict.    *)
(* The edits of MCDiffText are explored by themselves, in a lane of their own.*)
EXTENDS MCDiffText

CONSTANTS small, smaller, big, bigger, conflict

VARIABLE lane

Changed(texts, first) ==
  <<HunkHeader(first, first)>> \o [i \in DOMAIN texts |-> Line(texts[i][1], texts[i][2])]

BigLines ==
  <<<<"-", "p">>, <<"+", "q">>, <<" ", "r">>, <<" ", "s">>, <<" ", "t">>, <<"+", "u">>>>

MCText ==
  (small :> (<<Line("meta", "a")>> \o Changed(<<<<" ", "x">>, <<"+", "y">>>>, 1)))
    @@ (smaller :> (<<Line("meta", "a")>> \o Changed(<<<<"+", "w">>, <<" ", "x">>, <<"+", "y">>>>, 1)))
    @@ (big :> (<<Line("meta", "b")>> \o Changed(BigLines, 1)))
    @@ (bigger :> (<<Line("meta", "b")>> \o Changed(<<<<"+", "o">>, <<" ", "n">>>> \o BigLines, 1)))
    @@ (conflict :> <<Line("meta", "b"), Line("diff --cc", "b")>>)

MCTwoFiles == {<<File("a", small, None, FALSE), File("b", None, big, FALSE)>>}

MCSnapshots ==
  MCTwoFiles \cup
  {<<File("a", None, small, FALSE), File("b", None, bigger, FALSE)>>,
   <<File("a", None, smaller, FALSE), File("b", big, None, FALSE)>>,
   <<File("b", None, conflict, FALSE)>>,
   << >>}

DiffInit ==
  /\ Init /\ ScriptInit /\ view.height = 2
  /\ lane \in {"edit", "view"} /\ (lane = "edit" => model.snapshot = << >>)
DiffNext ==
  \/ lane = "edit" /\ ScriptNext /\ UNCHANGED <<vars, lane>>
  \/ lane = "view" /\ Next /\ UNCHANGED <<script, lane>>
DiffSpec == DiffInit /\ [][DiffNext]_<<vars, script, lane>> /\ Fairness

-----------------------------------------------------------------------------
(* Properties: those of MCDiffText and of DiffView, by what they are about.  *)

(* Each projection of a diff has every line once with its number, and the    *)
(* compact one is a patch again. (projection.rs, hunk.rs.)                   *)
ProjectionsAgree == EveryLineOnce /\ CompactIsAPatch

(* Jumps show a change they say is there, and a request for syntax asks for  *)
(* what the viewport needs. (geometry.rs, syntax.rs.)                        *)
ViewportAims == JumpsShowTheChange /\ SyntaxAnswersRequest

(* The selected file is in the list, its cursor on it, and the colors are    *)
(* those of the document shown. (state/repository.rs, prepare/mod.rs.)       *)
ReviewConsistent == SelectionListed /\ ColorsOfDocument

(* The pane goes only to the document that is asked for, and opens it at its *)
(* first change or keeps its top row. (prepare/mod.rs, prepare/anchor.rs.)   *)
OpensWhereAsked == OnlyRequested /\ OpensAtChange /\ TopRowKept

(* When input and snapshots stop, the selected file is shown, every scroll   *)
(* committed and the rows in view colored. (prepare/mod.rs: prepare_diff.)   *)
ViewSettles == ShowsSelection /\ ScrollSettles
=============================================================================
