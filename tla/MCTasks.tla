------------------------------ MODULE MCTasks ------------------------------
(* The two tasks that run outside the repository worker, in one run. The     *)
(* command queue runs one command at a time and the tasks share no state, so *)
(* each is explored by itself: lane says which one it is. A third lane       *)
(* stages one file after another and builds what the AI commit tells Codex.  *)
EXTENDS AiCommit, Update, PromptContext, Askpass

CONSTANTS Diffs, Headers, Subjects, MaxFiles

VARIABLES lane, request

NoRequest == [files |-> <<>>, subjects |-> <<>>]

MCDiffs == {<<>>, <<"ascii", "<">>, <<"&", "ascii", "quote">>,
            <<"ascii", "ascii", "emoji", "ascii", "ascii", "ascii", "apostrophe", "ascii">>}
MCSubjects == {<<>>, <<2, 4>>}

TasksInit ==
  /\ CommitInit /\ UpdateInit /\ AskpassInit
  /\ lane \in {"commit", "update", "prompt", "askpass"}
  /\ lane # "commit" => ~ahead /\ repo.staged = NothingStaged
  /\ lane # "update" => latest = 1
  /\ request \in IF lane = "prompt" THEN {[NoRequest EXCEPT !.subjects = s] : s \in Subjects}
                  ELSE {NoRequest}

StageFile ==
  /\ Len(request.files) < MaxFiles
  /\ \E header \in Headers, diff \in Diffs :
       request' = [request EXCEPT !.files = Append(@, [header |-> header, diff |-> diff])]

TasksNext ==
  \/ /\ lane = "commit" /\ CommitNext
     /\ UNCHANGED <<updateVars, askpassVars, lane, request>>
  \/ /\ lane = "update" /\ UpdateNext
     /\ UNCHANGED <<taskVars, askpassVars, lane, request>>
  \/ /\ lane = "prompt" /\ StageFile
     /\ UNCHANGED <<taskVars, updateVars, askpassVars, lane>>
  \/ /\ lane = "askpass" /\ AskpassNext
     /\ UNCHANGED <<taskVars, updateVars, lane, request>>

\* The bridge's threads and the helpers run; the user may leave a prompt open.
AskpassFairness ==
  /\ WF_askpassVars(lane = "askpass" /\ Loop) /\ WF_askpassVars(lane = "askpass" /\ Accept)
  /\ WF_askpassVars(lane = "askpass" /\ ReadPrompt)
  /\ WF_askpassVars(lane = "askpass" /\ CancelsWhenDisconnected)
  /\ WF_askpassVars(lane = "askpass" /\ Reply)
  /\ WF_askpassVars(lane = "askpass" /\ HandlerAsks) /\ WF_askpassVars(lane = "askpass" /\ HandlerWaits)
  /\ \A h \in Helpers : WF_askpassVars(lane = "askpass" /\ HelperMoves(h))

TasksSpec ==
  /\ TasksInit /\ [][TasksNext]_<<taskVars, updateVars, askpassVars, lane, request>>
  /\ CommitFairness /\ AskpassFairness

-----------------------------------------------------------------------------
(* What Codex is told never takes more than its budget, with few files or   *)
(* with too many of them. (prompt_context; the debug_assert of              *)
(* render_context and manifest_context.)                                    *)
ContextFits == PromptContext(request).length <= Budget

(* Cut diffs use all the bytes there are and share them fairly: no diff     *)
(* gets more than one byte over what a cut one gets. The two ends a cut     *)
(* diff shows never overlap. (fair_allocations, sample_escaped.)            *)
DiffsShareTheContext ==
  LET lengths == [i \in DOMAIN request.files |-> EscapedLen(request.files[i].diff)]
      headers == [i \in DOMAIN request.files |-> request.files[i].header]
      fixed == CompleteContextLen(ContextPrelude(request, FALSE), headers,
                                  [i \in DOMAIN headers |-> 0])
      shares == FairAllocations(lengths, Budget - fixed)
      samples == PromptContext(request).samples
  IN  /\ fixed <= Budget =>
           /\ Total(shares) = Min({Total(lengths), Budget - fixed})
           /\ \A i, j \in DOMAIN shares :
                shares[i] < lengths[i] => shares[j] <= shares[i] + 1
      /\ \A i \in DOMAIN samples :
           samples[i].prefix + samples[i].suffix <= Len(request.files[i].diff)

\* Cancelling an AI commit keeps it from being committed, and ends it.
\* (codex_tasks.rs: run_codex; ai_commit.rs: ai_commit_finished.)
CancelWorks == CancelStopsCommit /\ CancelEnds

\* The context for Codex fits, and is shared fairly. (ai_commit.rs:
\* prompt_context, fair_allocations, sample_escaped.)
ContextShared == ContextFits /\ DiffsShareTheContext

\* Ending Git ends the bridge, and no helper waits for an answer for ever.
\* (askpass.rs: drop, helper_disconnected.)
HelpersServed == BridgeEnds /\ HelpersEnd
=============================================================================
