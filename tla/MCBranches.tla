----------------------------- MODULE MCBranches -----------------------------
(* Instances of Branches: main and topic have diverged, main is checked out *)
(* and origin/topic is ahead of topic or not; a tag marks the first commit. *)
EXTENDS Branches, TLC

MCRefNames == <<"main", "new", "origin/topic", "topic", "v1">>
MCKind == [r \in ToSet(MCRefNames) |->
             CASE r = "v1" -> "Tag" [] r = "origin/topic" -> "Remote" [] OTHER -> "Local"]
MCShort == [r \in ToSet(MCRefNames) |-> IF r = "origin/topic" THEN "topic" ELSE r]
MCCommits == {"base", "left", "right", "merge"}
MCTime == "base" :> 1 @@ "left" :> 2 @@ "right" :> 2 @@ "merge" :> 3
MCAncestors == [c \in MCCommits |->
                  CASE c = "merge" -> MCCommits [] c = "base" -> {c} [] OTHER -> {c, "base"}]
\* A filter leaves the tags or everything.
MCScores(text, item) == text = "" \/ item.identity \in OfKind("Tag")
MCMergeOf == [s \in SUBSET MCCommits |-> "merge"]

Start(topic, remote, up) ==
  [refs |-> "main" :> "left" @@ "topic" :> topic @@ "new" :> Gone
            @@ "origin/topic" :> remote @@ "v1" :> "base",
   branch |-> "main", at |-> "base", op |-> None,
   tracks |-> [b \in {"main", "new", "topic"} |-> IF b = "topic" THEN up ELSE None]]
MCStartRepos == {Start("right", "base", "origin/topic")}
=============================================================================
