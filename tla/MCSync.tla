------------------------------- MODULE MCSync -------------------------------
(* Sync on small instances.  Change 1 is the root all histories share but the *)
(* unrelated one of change 7; change 5 is a merge commit; the other changes   *)
(* are commits of one side.                                                   *)
EXTENDS Sync

MCLocalStarts == {<<1>>, <<1, 2>>, <<1, 2, 5>>}
MCRemoteStarts ==
  [r \in Remotes |-> IF r = "origin" THEN {Absent, <<1>>, <<1, 3>>, <<7>>} ELSE {Absent, <<1>>}]
=============================================================================
