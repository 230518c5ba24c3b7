----------------------------- MODULE Workbench -----------------------------
(***************************************************************************)
(* The workbench: the queue of command intents, the one active command, the *)
(* single modal with the errors waiting behind it, and the marks the diff   *)
(* model keeps while something is under way (pending_operation,             *)
(* pending_file_action, ai_commit_pending).                                 *)
(*                                                                          *)
(* One iteration of the event loop drains what the service and the tasks    *)
(* report, handles the batch of terminal input that was read, and then      *)
(* takes commands off the queue.  The runners (the repository worker, the   *)
(* Codex thread and the update thread) are abstracted to the command they   *)
(* run and the result they report; RepositoryService has the worker itself. *)
(* A snapshot is abstracted to what the preparation of a command asks of it. *)
(***************************************************************************)
EXTENDS Integers, Sequences, SequencesExt

CONSTANTS
  MaxCommands,     \* commands the user enters
  MaxPrompts,      \* prompts one Git command asks
  RefusesDeletes,  \* whether Git refuses to delete a branch that is not merged
  BatchedClicks    \* whether a click can reach the row of a command entered
                   \* in the same batch of input, before it was ever drawn

ASSUME WorkbenchAssumption ==
  /\ MaxCommands \in Nat /\ MaxPrompts \in Nat
  /\ RefusesDeletes \in BOOLEAN /\ BatchedClicks \in BOOLEAN

VARIABLES
  queued,    \* CommandQueue.queued
  active,    \* CommandQueue.active
  nextId,    \* CommandQueue.next_id
  snap,      \* the snapshot of the diff model
  model,     \* its marks: op, file and ai
  dialog,    \* the modal on top and the pending errors
  lastPrompt,
  tasks,     \* the runners at work or with a result to report
  phase      \* "drain", or "input" once the batch of input is being handled

queueVars == <<queued, active, nextId>>
vars == <<queueVars, snap, model, dialog, lastPrompt, tasks, phase>>

NoId == 0
None == "None"

Kinds == {"Stage", "Commit", "Sync", "Delete", "ForceDelete", "AiCommit", "Update"}
ActionKinds == Kinds \cup {"GuardedCommit"}
Errors == {"Refresh", "Command", "Stopped", "Ai", "Update"}
Outcomes == {"Completed", "Failed", "Cancelled"}

\* What a snapshot shows: nothing changed, an unstaged change, a staged one.
Snapshots == {"clean", "edited", "staged"}
Staged(s) == s = "staged"

\* handle: the cancellation handle of the command is cancelled.
NoCommand == [id |-> NoId, action |-> None, state |-> None, handle |-> FALSE,
              request |-> "clean"]
NoModal == [kind |-> None, of |-> None, id |-> NoId]
ErrorModal(e) == [kind |-> "Error", of |-> e, id |-> NoId]
PromptModal(c) == [kind |-> "Prompt", of |-> None, id |-> c]
Product(k) == [kind |-> k, of |-> None, id |-> NoId]

HasWork == active # NoCommand \/ queued # <<>>
\* Mutant: the next command is taken without waiting for the active one.
CanTakeAnyTime == queued # <<>>

CanTake == active = NoCommand /\ queued # <<>>

\* CommandQueue::ai_commit_id: the AI commit under way, or the first queued.
AiQueued == {i \in DOMAIN queued : queued[i].kind = "AiCommit"}
AiCommitId ==
  CASE active.action \in {"AiCommit", "GuardedCommit"} -> active.id
    [] active.action \notin {"AiCommit", "GuardedCommit"} /\ AiQueued # {} ->
         queued[CHOOSE i \in AiQueued : \A j \in AiQueued : i <= j].id
    [] OTHER -> NoId

HasSync == active.action = "Sync" \/ \E i \in DOMAIN queued : queued[i].kind = "Sync"

Init ==
  /\ queued = <<>> /\ active = NoCommand /\ nextId = 1
  /\ snap \in Snapshots
  /\ model = [op |-> None, file |-> FALSE, ai |-> FALSE]
  /\ dialog = [top |-> NoModal, waiting |-> <<>>]
  /\ lastPrompt = 0 /\ tasks = {} /\ phase = "drain"

-----------------------------------------------------------------------------
(* The one modal and the errors behind it.                                 *)

SetModal(d, m) == [d EXCEPT !.top = m]
CloseModal(d) == [d EXCEPT !.top = NoModal]

\* Mutant: nothing brings the next error up.
ShowNoError(d) == d

\* show_next_error: only when nothing is on top.
ShowNextError(d) ==
  IF d.top = NoModal /\ d.waiting # <<>>
    THEN [top |-> ErrorModal(Head(d.waiting)), waiting |-> Tail(d.waiting)]
    ELSE d

\* show_error: behind a prompt or another error it waits, identical errors
\* once; any other modal gives way to it.
ShowError(d, e) ==
  IF d.top.kind \notin {"Prompt", "Error"} THEN SetModal(d, ErrorModal(e))
  ELSE IF d.top = ErrorModal(e) \/ Contains(d.waiting, e) THEN d
  ELSE [d EXCEPT !.waiting = Append(@, e)]

\* Mutant: the prompt replaces the visible error.
OpenPromptOver(d, c) == SetModal(d, PromptModal(c))

\* open_prompt: a visible error goes back to the front of the queue.
OpenPrompt(d, c) ==
  [top |-> PromptModal(c),
   waiting |-> IF d.top.kind = "Error" THEN <<d.top.of>> \o d.waiting ELSE d.waiting]

ClosePrompt(d, c) ==
  IF d.top = PromptModal(c) THEN ShowNextError(CloseModal(d)) ELSE d

\* The errors the user has not acknowledged.
Unacknowledged ==
  ToSet(dialog.waiting) \cup {e \in Errors : dialog.top = ErrorModal(e)}

-----------------------------------------------------------------------------
(* The marks of the diff model.                                            *)

FinishAi(m) == [m EXCEPT !.ai = FALSE]

CompleteOperation(m, a) ==
  [op   |-> IF m.op = a THEN None ELSE m.op,
   file |-> m.file /\ a # "Stage",
   ai   |-> m.ai /\ ~(m.op = a /\ a \in {"Commit", "GuardedCommit"})]

CancelOperation(m, a) ==
  [op   |-> IF m.op = a THEN None ELSE m.op,
   file |-> m.file /\ a # "Stage",
   ai   |-> m.ai /\ ~(m.op = a /\ a = "GuardedCommit")]

SameOperation(a, b) == a = b \/ {a, b} = {"Delete", "ForceDelete"}
AcceptsFailure(m, a) == m.op = None \/ SameOperation(m.op, a)

\* Mutant: the failed operation stays pending.
FailOperationKeepsPending(m, a) ==
  IF AcceptsFailure(m, a)
    THEN [m EXCEPT !.file = @ /\ a # "Stage", !.ai = @ /\ a # "GuardedCommit"]
    ELSE m

FailOperation(m, a) ==
  IF AcceptsFailure(m, a)
    THEN [op |-> None, file |-> m.file /\ a # "Stage",
          ai |-> m.ai /\ a # "GuardedCommit"]
    ELSE m

-----------------------------------------------------------------------------
(* Entering commands.                                                      *)

Input ==
  /\ phase' = "input"
  /\ UNCHANGED <<snap, tasks>>

Enter(kind, bound) ==
  /\ nextId <= MaxCommands
  /\ queued' = Append(queued, [id |-> nextId, kind |-> kind, bound |-> bound])
  /\ nextId' = nextId + 1
  /\ UNCHANGED active

\* enqueue_followup_intent: with work under way a key press is remembered as an
\* intent, to be bound to an action when its turn comes.
EnterFollowup(kind) == HasWork /\ Enter(kind, FALSE) /\ UNCHANGED model

\* toggle_stage_selected.
PressStage ==
  /\ Input
  /\ dialog.top = NoModal
  /\ snap # "clean"
  /\ \/ EnterFollowup("Stage")
     \/ /\ ~HasWork /\ ~model.ai /\ ~model.file
        /\ Enter("Stage", TRUE)
        /\ model' = [model EXCEPT !.file = TRUE]
  /\ UNCHANGED <<dialog, lastPrompt>>

\* ExecuteCommit, from the composer or the commit control: execute_commit when
\* idle.  A draft was typed, or a message is suggested for what is staged.
PressCommit(typed) ==
  /\ Input
  /\ dialog.top \in {NoModal, Product("Composer")}
  /\ \/ EnterFollowup("Commit")
     \/ /\ ~HasWork /\ ~model.ai /\ model.op = None
        /\ typed \/ Staged(snap)
        /\ Enter("Commit", TRUE)
        /\ model' = [model EXCEPT !.op = "Commit"]
  /\ dialog' = CloseModal(dialog)
  /\ UNCHANGED lastPrompt

\* execute_sync, on a branch that has an upstream.
PressSync ==
  /\ Input
  /\ dialog.top = NoModal
  /\ ~HasSync
  /\ \/ HasWork /\ Enter("Sync", TRUE) /\ UNCHANGED model
     \/ /\ ~HasWork /\ ~model.ai /\ model.op = None
        /\ Enter("Sync", TRUE)
        /\ model' = [model EXCEPT !.op = "Sync"]
  /\ UNCHANGED <<dialog, lastPrompt>>

\* Palette commands enter their action as it is; Update stands for itself and
\* Delete for every action of the palette and its pickers.
Choose(kind) ==
  /\ Input
  /\ dialog.top = NoModal
  /\ Enter(kind, TRUE)
  /\ UNCHANGED <<model, dialog, lastPrompt>>

-----------------------------------------------------------------------------
(* Cancelling.                                                             *)

\* CommandQueue::cancel: the active command is asked to stop and loses its
\* tail; a waiting command goes with everything behind it.
Cancel(c) ==
  IF c = active.id
    THEN /\ active' = [active EXCEPT !.state = "Cancelling", !.handle = TRUE]
         /\ queued' = <<>>
    ELSE \E i \in DOMAIN queued :
         /\ queued[i].id = c
         /\ queued' = SubSeq(queued, 1, i - 1)
         /\ UNCHANGED active

\* cancel_clicked_command: a row of the queue panel, above any modal.
CancelRow(c) ==
  /\ Input
  /\ c # NoId
  /\ c = active.id \/ \E i \in DOMAIN queued : queued[i].id = c
  /\ phase = "input" /\ CanTake => BatchedClicks
  /\ Cancel(c)
  /\ model' = IF AiCommitId' = NoId THEN FinishAi(model) ELSE model
  /\ UNCHANGED <<nextId, dialog, lastPrompt>>

\* request_ai_commit: the key starts an AI commit, or stops the one there is.
PressAi ==
  /\ Input
  /\ dialog.top = NoModal
  /\ IF AiCommitId # NoId
       THEN /\ Cancel(AiCommitId)
            /\ model' = IF AiCommitId = active.id THEN model ELSE FinishAi(model)
            /\ UNCHANGED nextId
       ELSE /\ HasWork \/ Staged(snap)
            /\ Enter("AiCommit", FALSE)
            /\ model' = [model EXCEPT !.ai = TRUE]
  /\ UNCHANGED <<dialog, lastPrompt>>

-----------------------------------------------------------------------------
(* The modals.                                                             *)

OpenComposer ==
  /\ Input
  /\ dialog.top = NoModal
  /\ ~model.ai
  /\ dialog' = SetModal(dialog, Product("Composer"))
  /\ UNCHANGED <<queueVars, model, lastPrompt>>

CloseComposer ==
  /\ Input
  /\ dialog.top = Product("Composer")
  /\ dialog' = CloseModal(dialog)
  /\ UNCHANGED <<queueVars, model, lastPrompt>>

\* dismiss_error: the next pending error comes up.
DismissError ==
  /\ Input
  /\ dialog.top.kind = "Error"
  /\ dialog' = ShowNextError(CloseModal(dialog))
  /\ UNCHANGED <<queueVars, model, lastPrompt>>

\* The confirmation of an unmerged deletion: Delete enters the forced one.
ConfirmDelete ==
  /\ Input
  /\ dialog.top = Product("Confirm")
  /\ dialog' = CloseModal(dialog)
  /\ Enter("ForceDelete", TRUE)
  /\ UNCHANGED <<model, lastPrompt>>

DeclineDelete ==
  /\ Input
  /\ dialog.top = Product("Confirm")
  /\ dialog' = CloseModal(dialog)
  /\ UNCHANGED <<queueVars, model, lastPrompt>>

\* A command cancelled while it waits for an answer can no longer complete.
Answered(t, accepted) == [t EXCEPT !.asking = IF accepted THEN "no" ELSE "stopped"]

\* handle_prompt_event, and the answer it sends to the broker.
AnswerPrompt(a) ==
  LET c == dialog.top.id IN
  /\ phase' = "input"
  /\ dialog.top.kind = "Prompt"
  /\ dialog' = ShowNextError(CloseModal(dialog))
  /\ \E t \in tasks :
       /\ t.id = c
       /\ lastPrompt' = t.prompts
       /\ tasks' = (tasks \ {t}) \cup {Answered(t, a = "Text" /\ ~active.handle)}
  /\ IF a = "Cancel" THEN Cancel(c) ELSE UNCHANGED <<active, queued>>
  /\ UNCHANGED <<nextId, snap, model>>

User ==
  \/ PressStage \/ PressSync \/ PressAi
  \/ (\E typed \in BOOLEAN : PressCommit(typed))
  \/ (\E k \in {"Delete", "Update"} : Choose(k))
  \/ (\E c \in 1..MaxCommands : CancelRow(c))
  \/ OpenComposer \/ CloseComposer \/ DismissError \/ ConfirmDelete \/ DeclineDelete
  \/ (\E a \in {"Text", "Cancel"} : AnswerPrompt(a))

-----------------------------------------------------------------------------
(* take_application_command and the dispatch to a runner.                  *)

Runner(action) == CASE action = "AiCommit" -> "codex"
                    [] action = "Update"   -> "update"
                    [] OTHER               -> "git"

Task(c, action) ==
  [id |-> c, runner |-> Runner(action), action |-> action, asking |-> "no",
   prompts |-> 0, outcome |-> "running", snap |-> "clean"]

\* prepare_command_intent: what a waiting intent needs of the snapshot left by
\* the command before it.
Prepares(q, typed) ==
  ~q.bound => /\ q.kind = "Stage" => snap # "clean"
              /\ q.kind = "Commit" => typed \/ Staged(snap)
              /\ q.kind = "AiCommit" => Staged(snap)

\* The marks once the intent is prepared.
Prepared(q) == [model EXCEPT !.file = @ \/ (q.kind = "Stage" /\ ~q.bound)]

\* activate_repository_action.
Activates(q) == q.kind \in {"AiCommit", "Update"} \/ model.op \in {None, q.kind}

TakeCommand(typed) ==
  LET q == Head(queued) IN
  /\ CanTake /\ Prepares(q, typed) /\ Activates(q)
  /\ active' = [id |-> q.id, action |-> q.kind, state |-> "Running", handle |-> FALSE,
                request |-> IF q.kind = "AiCommit" THEN snap ELSE "clean"]
  /\ queued' = Tail(queued)
  /\ model' = IF q.kind \in {"AiCommit", "Update"} THEN Prepared(q)
                 ELSE [Prepared(q) EXCEPT !.op = q.kind]
  /\ lastPrompt' = 0
  /\ tasks' = tasks \cup {Task(q.id, q.kind)}
  /\ phase' = "drain"
  /\ UNCHANGED <<nextId, snap, dialog>>

\* Preparation or activation fails: the queue stops.
TakeStops(typed) ==
  LET q == Head(queued)
      m == IF Prepares(q, typed) THEN CancelOperation(Prepared(q), q.kind) ELSE model IN
  /\ CanTake /\ ~(Prepares(q, typed) /\ Activates(q))
  /\ queued' = <<>>
  /\ model' = FinishAi(m)
  /\ dialog' = ShowError(dialog, "Stopped")
  /\ phase' = "drain"
  /\ UNCHANGED <<active, nextId, snap, lastPrompt, tasks>>

Take == \E typed \in BOOLEAN : TakeCommand(typed) \/ TakeStops(typed)

-----------------------------------------------------------------------------
(* The runners.                                                            *)

Becomes(t, u) ==
  /\ tasks' = (tasks \ {t}) \cup {u}
  /\ UNCHANGED <<queueVars, snap, model, dialog, lastPrompt, phase>>

Running(t) == t.outcome = "running"
Stopped(t) == active.id = t.id /\ active.handle

\* Git ends and a final snapshot is read; an unanswered prompt keeps it
\* waiting unless its command is cancelled.  A cancellation that comes after
\* Git's last look at the handle changes nothing, and the final snapshot may
\* fail.  Refused is the failure of a deletion whose branch is not merged.
GitOutcomes(t) ==
  {"Failed"}
    \cup (IF t.asking = "no" THEN {"Completed"} ELSE {})
    \cup (IF Stopped(t) THEN {"Cancelled"} ELSE {})
    \cup (IF RefusesDeletes /\ t.action = "Delete" THEN {"Refused"} ELSE {})

GitEnds(t, o, s) ==
  /\ t.runner = "git" /\ Running(t)
  /\ t.asking = "no" \/ Stopped(t)
  /\ o \in GitOutcomes(t)
  /\ Becomes(t, [t EXCEPT !.outcome = o, !.snap = s])

\* run_codex: a cancelled run may still have generated its message.
CodexEnds(t, o) ==
  /\ t.runner = "codex" /\ Running(t)
  /\ o = "Cancelled" => Stopped(t)
  /\ Becomes(t, [t EXCEPT !.outcome = o])

\* run_update_process: a cancelled update reports a failure.
UpdateEnds(t, o) ==
  /\ t.runner = "update" /\ Running(t)
  /\ o \in {"Completed", "Failed"}
  /\ Becomes(t, [t EXCEPT !.outcome = o])

\* Git asks for a credential; the service sends the prompt.
GitAsks(t) ==
  /\ t.action = "Sync" /\ Running(t)
  /\ t.asking = "no" /\ t.prompts < MaxPrompts /\ ~Stopped(t)
  /\ Becomes(t, [t EXCEPT !.asking = "sent", !.prompts = @ + 1])

\* The helper that asked goes away: the broker cancels the command.
HelperDisconnects(t) ==
  /\ Running(t) /\ t.asking = "open" /\ ~Stopped(t)
  /\ active.id = t.id
  /\ active' = [active EXCEPT !.handle = TRUE]
  /\ UNCHANGED <<queued, nextId, snap, model, dialog, lastPrompt, tasks, phase>>

Runners == \E t \in tasks :
  \/ \E o \in Outcomes \cup {"Refused"}, s \in Snapshots : GitEnds(t, o, s)
  \/ \E o \in Outcomes : CodexEnds(t, o) \/ UpdateEnds(t, o)
  \/ GitAsks(t) \/ HelperDisconnects(t)

-----------------------------------------------------------------------------
(* drain_repository_events and drain_tasks.                                *)

\* A batch of input is followed by the queue before anything else is drained.
Drain ==
  /\ ~(phase = "input" /\ CanTake)
  /\ phase' = "drain"
  /\ UNCHANGED nextId

\* Mutant: any cancellation keeps the queue.
AcknowledgeKeepsOnCancel(result) ==
  /\ active' = NoCommand
  /\ queued' = IF result # "Failed" THEN queued ELSE <<>>

\* CommandQueue::acknowledge: success keeps the queue, and so does the
\* cancellation the user asked for, whose tail is already gone.
Acknowledge(result) ==
  LET keeps == \/ result = "Completed"
               \/ result = "Cancelled" /\ active.state = "Cancelling" IN
  /\ active' = NoCommand
  /\ queued' = IF keeps THEN queued ELSE <<>>

Reports(t, runner) ==
  /\ t.runner = runner
  /\ ~Running(t)
  /\ t.asking # "sent"
  /\ active.id = t.id
  /\ tasks' = tasks \ {t}

\* operation_completed.
ReceiveCompleted(t) ==
  /\ Drain
  /\ Reports(t, "git") /\ t.outcome = "Completed"
  /\ Acknowledge("Completed")
  /\ dialog' = ClosePrompt(dialog, t.id) /\ lastPrompt' = 0
  /\ model' = CompleteOperation(model, t.action)
  /\ snap' = t.snap

\* operation_cancelled.
ReceiveCancelled(t) ==
  /\ Drain
  /\ Reports(t, "git") /\ t.outcome = "Cancelled"
  /\ Acknowledge("Cancelled")
  /\ dialog' = ClosePrompt(dialog, t.id) /\ lastPrompt' = 0
  /\ model' = CancelOperation(FinishAi(model), t.action)
  /\ snap' = t.snap

\* action_failed_with_snapshot: the error is shown if fail_operation took it.
ReceiveFailed(t) ==
  /\ Drain
  /\ Reports(t, "git") /\ t.outcome = "Failed"
  /\ Acknowledge("Failed")
  /\ LET d == ClosePrompt(dialog, t.id) IN
       dialog' = IF AcceptsFailure(FinishAi(model), t.action)
                   THEN ShowError(d, "Command") ELSE d
  /\ lastPrompt' = 0
  /\ model' = FailOperation(FinishAi(model), t.action)
  /\ snap' \in {snap, t.snap}

\* handle_delete_branch_failure: the confirmation takes the place of whatever
\* modal is open, and the snapshot is not installed.
ReceiveRefused(t) ==
  /\ Drain
  /\ Reports(t, "git") /\ t.outcome = "Refused"
  /\ Acknowledge("Failed")
  /\ dialog' = SetModal(ClosePrompt(dialog, t.id), Product("Confirm"))
  /\ lastPrompt' = 0
  /\ model' = CancelOperation(FinishAi(model), t.action)
  /\ UNCHANGED snap

\* ai_commit_finished without a message, or after the user asked to stop.
ReceiveAiStopped(t) ==
  /\ Drain
  /\ Reports(t, "codex")
  /\ active.state = "Cancelling" \/ t.outcome # "Completed"
  /\ LET result == IF active.state = "Cancelling" THEN "Cancelled" ELSE t.outcome IN
       /\ Acknowledge(result)
       /\ dialog' = IF result = "Failed" THEN ShowError(dialog, "Ai") ELSE dialog
  /\ model' = FinishAi(model)
  /\ UNCHANGED <<snap, lastPrompt>>

\* The staged changes are no longer those the message was generated for.
ReceiveAiStale(t) ==
  /\ Drain
  /\ Reports(t, "codex") /\ t.outcome = "Completed"
  /\ active.state = "Running" /\ active.request # snap
  /\ Acknowledge("Failed")
  /\ dialog' = ShowError(dialog, "Ai")
  /\ model' = FinishAi(model)
  /\ UNCHANGED <<snap, lastPrompt>>

\* The generated message becomes a guarded commit under the same id and handle,
\* handed to the service at once.
ReceiveAiMessage(t) ==
  /\ Drain
  /\ t.runner = "codex" /\ t.outcome = "Completed" /\ active.id = t.id
  /\ active.state = "Running" /\ active.request = snap
  /\ active' = [active EXCEPT !.action = "GuardedCommit"]
  /\ model' = IF model.op = None THEN [model EXCEPT !.op = "GuardedCommit"] ELSE model
  /\ tasks' = (tasks \ {t}) \cup {Task(t.id, "GuardedCommit")}
  /\ UNCHANGED <<queued, snap, dialog, lastPrompt>>

\* update_finished.
ReceiveUpdate(t) ==
  /\ Drain
  /\ Reports(t, "update")
  /\ Acknowledge(t.outcome)
  /\ model' = IF t.outcome = "Completed" THEN model ELSE FinishAi(model)
  /\ dialog' = IF t.outcome = "Completed" THEN dialog ELSE ShowError(dialog, "Update")
  /\ UNCHANGED <<snap, lastPrompt>>

\* open_prompt; a prompt it refuses cancels the command.
ReceivePrompt(t) ==
  /\ Drain
  /\ t.asking = "sent"
  /\ LET opens == dialog.top.kind # "Prompt" /\ active.id = t.id /\ t.prompts > lastPrompt IN
       /\ dialog' = IF opens THEN OpenPrompt(dialog, t.id) ELSE dialog
       /\ active' = IF opens THEN active ELSE [active EXCEPT !.handle = TRUE]
       /\ tasks' = (tasks \ {t})
            \cup {[t EXCEPT !.asking = IF opens THEN "open" ELSE "stopped"]}
  /\ UNCHANGED <<queued, snap, model, lastPrompt>>

\* A watcher refresh: the worker sends none between a command and its report.
GitReported == \A t \in tasks : t.runner = "git" => Running(t)

ReceiveSnapshot(s) ==
  /\ Drain
  /\ GitReported
  /\ s # snap /\ snap' = s
  /\ UNCHANGED <<active, queued, model, dialog, lastPrompt, tasks>>

ReceiveRefreshFailed ==
  /\ Drain
  /\ GitReported
  /\ dialog' = ShowError(dialog, "Refresh")
  /\ UNCHANGED <<active, queued, snap, model, lastPrompt, tasks>>

Report == \E t \in tasks :
  \/ ReceiveCompleted(t) \/ ReceiveCancelled(t) \/ ReceiveFailed(t) \/ ReceiveRefused(t)
  \/ ReceiveAiStopped(t) \/ ReceiveAiStale(t) \/ ReceiveAiMessage(t)
  \/ ReceiveUpdate(t) \/ ReceivePrompt(t)

Refresh == ReceiveRefreshFailed \/ \E s \in Snapshots : ReceiveSnapshot(s)

Next == User \/ Take \/ Runners \/ Report \/ Refresh

Spec == Init /\ [][Next]_vars

-----------------------------------------------------------------------------
(* Safety.                                                                 *)

QueuedCommand == [id : 1..MaxCommands, kind : Kinds, bound : BOOLEAN]

ActiveCommand == [id : 0..MaxCommands, action : ActionKinds \cup {None},
                  state : {None, "Running", "Cancelling"}, handle : BOOLEAN,
                  request : Snapshots]
Marks == [op : ActionKinds \cup {None}, file : BOOLEAN, ai : BOOLEAN]
Modals == {NoModal, Product("Composer"), Product("Confirm")}
  \cup {ErrorModal(e) : e \in Errors} \cup {PromptModal(c) : c \in 1..MaxCommands}
Dialogs == [top : Modals, waiting : Seq(Errors)]
TaskStates == [id : 1..MaxCommands, runner : {"git", "codex", "update"},
               action : ActionKinds, asking : {"no", "sent", "open", "stopped"},
               prompts : 0..MaxPrompts,
               outcome : Outcomes \cup {"running", "Refused"}, snap : Snapshots]

TypeOK ==
  /\ queued \in Seq(QueuedCommand) /\ active \in ActiveCommand
  /\ nextId \in 1..(MaxCommands + 1)
  /\ snap \in Snapshots /\ model \in Marks /\ dialog \in Dialogs
  /\ lastPrompt \in 0..MaxPrompts /\ tasks \subseteq TaskStates
  /\ phase \in {"drain", "input"}

\* One runner at a time, and it runs the active command in the phase the queue
\* panel shows: the conversion of an AI commit keeps the two together.
RunnerMatchesActive ==
  IF active = NoCommand THEN tasks = {}
  ELSE \E t \in tasks : tasks = {t} /\ t.id = active.id /\ t.action = active.action

\* An idle workbench has no mark left of a command: no operation, file action or
\* AI commit that would block the next key press.
IdleIsClean == ~HasWork => model = [op |-> None, file |-> FALSE, ai |-> FALSE]

\* The composer is never locked for an AI commit that is gone, but for one whose
\* queue goes with the command being cancelled.
LockHasAiCommit == model.ai => AiCommitId # NoId \/ active.state = "Cancelling"

\* take_application_command never refuses a command because "The previous
\* repository command has not finished": nothing runs when it takes one.
NeverRefusedWhileIdle == CanTake => Activates(Head(queued))

\* A prompt on screen is that of the running command.
PromptOfRunning ==
  dialog.top.kind = "Prompt" =>
    /\ dialog.top.id = active.id
    /\ \E t \in tasks : t.id = active.id /\ t.asking = "open"

\* A pending error is behind a prompt or another error, never stranded behind
\* nothing or behind a modal whose closing does not bring it up.
ErrorsComeUp == dialog.waiting # <<>> => dialog.top.kind \in {"Prompt", "Error"}

\* There is one runner, that of the active command, and a prompt on screen is
\* its prompt. (command_queue.rs: activate; prompt.rs: open_prompt.)
RunnerServesActive == RunnerMatchesActive /\ PromptOfRunning

\* Nothing is left over of a command that is gone: no mark that refuses the next
\* one, no lock on the composer, no error behind nothing. (state/repository.rs,
\* state/commit.rs, modal.rs: show_next_error.)
NothingLeftOver == TypeOK /\ IdleIsClean /\ LockHasAiCommit /\ NeverRefusedWhileIdle /\ ErrorsComeUp

-----------------------------------------------------------------------------
(* What a step may never do.                                               *)

\* "If any command fails, cancel everything still waiting in the queue ... Do the
\* same when the active command is cancelled" (ADR 0110): nothing that was
\* entered to follow a command is left once it is being cancelled, has failed or
\* was given up by someone other than the user.
DependentsDropped ==
  [][/\ active.state = "Running"
     /\ \/ active'.state = "Cancelling"
        \/ active' = NoCommand /\ \E t \in tasks : t.outcome # "Completed"
     => queued' = <<>>]_vars

\* What is entered after a cancellation belongs to the next queue: it stays when
\* the cancelled command completed after all or ended as cancelled, and always
\* when that was an AI commit.  (A cancelled Git command that fails, or whose final
\* snapshot fails, and a cancelled update report a failure and clear it, against ADR 0110.)
CancellationKeepsFreshQueue ==
  [][/\ active.state = "Cancelling" /\ active' = NoCommand
     /\ \A t \in tasks : t.runner = "codex" \/ t.outcome \in {"Completed", "Cancelled"}
     => queued' = queued]_vars

\* A failed command is never silent: its error waits for the user, or the
\* confirmation of the deletion is open.
FailureTold ==
  [][active.state = "Running" /\ active' = NoCommand
       /\ (\E t \in tasks : t.outcome \in {"Failed", "Refused"})
       => Unacknowledged' # {} \/ dialog'.top = Product("Confirm")]_vars

\* The waiting commands go with the command they were entered to follow; those
\* entered after a cancellation stay, unless the cancelled command reports a
\* failure. (command_queue.rs: acknowledge, cancel; ADR 0110.)
QueueFollowsOutcome == DependentsDropped /\ CancellationKeepsFreshQueue

\* An error stays until the user dismisses it or the confirmation of an unmerged
\* deletion replaces it, which is the code's exception to ADR 0084.
\* (modal.rs: set_modal; delete_branch.rs: handle_delete_branch_failure.)
ErrorsLeaveByTheUser ==
  [][\/ Unacknowledged \subseteq Unacknowledged' \/ DismissError
     \/ dialog'.top = Product("Confirm") /\ dialog.top # dialog'.top]_vars

\* A failed command is told, and the telling is not lost. (modal.rs: show_error;
\* ADR 0084.)
FailuresKept == FailureTold /\ ErrorsLeaveByTheUser

-----------------------------------------------------------------------------
(* Liveness.                                                               *)

\* The event loop drains and takes in every iteration; the runners end, and the
\* user answers prompts and dismisses errors (assumptions about the world).
Fairness ==
  /\ WF_vars(Take) /\ WF_vars(Report)
  /\ WF_vars(\E t \in tasks :
       \/ \E o \in Outcomes, s \in Snapshots : GitEnds(t, o, s)
       \/ \E o \in Outcomes : CodexEnds(t, o) \/ UpdateEnds(t, o))
  /\ WF_vars(DismissError) /\ WF_vars(\E a \in {"Text", "Cancel"} : AnswerPrompt(a))

FairSpec == Spec /\ Fairness

Waiting(c) == \E i \in DOMAIN queued : queued[i].id = c

\* Every command that is entered leaves the queue, and every command that is
\* taken off it is acknowledged, so that the next one can start.
QueueMoves ==
  \A c \in 1..MaxCommands : Waiting(c) \/ active.id = c ~> ~Waiting(c) /\ active.id # c

\* Every error that waits behind a prompt or another error comes up.
EveryErrorShown ==
  \A e \in Errors : Contains(dialog.waiting, e) ~> dialog.top = ErrorModal(e)

=============================================================================
