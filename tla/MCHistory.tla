----------------------------- MODULE MCHistory -----------------------------
(* Instances of History: the checkout starts at two commits that share a    *)
(* file; it moves on, is rewound, is amended to a commit without changes, or *)
(* to an orphan branch without any commit.                                   *)
(* The file pickers of the panes are explored by themselves, over two trees, *)
(* one of them with a folder in a folder, a list and nothing to show.        *)
EXTENDS History, FilePicker, TLC

VARIABLE lane

MCCommits == {"one", "two", "three", "amended"}
MCLog == "one" :> <<"one">> @@ "two" :> <<"two", "one">> @@ "three" :> <<"three", "two", "one">>
         @@ "amended" :> <<"amended", "one">> @@ Unborn :> <<>>
MCFilesOf == "one" :> <<"a", "b">> @@ "two" :> <<"a">> @@ "three" :> <<"b", "a">>
             @@ "amended" :> <<>>

Leaf(id) == [id |-> id, label |-> <<1, 1>>, branch |-> FALSE, menu |-> TRUE, children |-> <<>>]
Folder(id, children) ==
  [id |-> id, label |-> <<1>>, branch |-> TRUE, menu |-> FALSE, children |-> children]

MCForests ==
  {<<Folder("src", <<Folder("src/ui", <<Leaf("list")>>), Leaf("main")>>), Leaf("readme")>>,
   <<Leaf("src"), Leaf("readme")>>}
MCLists == {<<>>, [i \in 1 .. 3 |-> [id |-> <<"main", "list", "readme">>[i],
                                     label |-> <<2, 1, 2, 1>>]]}

MCAction == <<1, 1>>

PanesInit == Init /\ PickerInit /\ lane \in {"history", "picker"}
PanesNext ==
  \/ lane = "history" /\ Next /\ UNCHANGED <<picker, lane>>
  \/ lane = "picker" /\ PickerNext /\ UNCHANGED <<vars, lane>>
PanesSpec == PanesInit /\ [][PanesNext]_<<vars, picker, lane>>

-----------------------------------------------------------------------------
(* A property that FilePicker states in parts.                               *)

\* Through new rows, folds and sizes a file list keeps its selection on a row it
\* shows, brings a new one into view, and draws thumb and action where it takes
\* clicks. (file_picker.rs: prepare, repair_hidden_selection, list_item.)
PickerSelectionShown ==
  [](SelectionIsShown /\ ThumbShowsOffset /\ ActionIsWhereItIsDrawn) /\ SelectionComesIntoView
=============================================================================
