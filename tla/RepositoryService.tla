------------------------- MODULE RepositoryService -------------------------
(***************************************************************************)
(* The repository service of diffo: one worker thread that serializes      *)
(* every Git read and write, the filesystem watcher whose callback asks it *)
(* for refreshes, the broker that carries Git's prompts to the user, and   *)
(* the event loop that is its only client.                                 *)
(*                                                                         *)
(* Three threads meet here: the notify callback, the worker (with the      *)
(* askpass thread it blocks on) and the event loop.  A snapshot is         *)
(* abstracted to the version of the disk it shows: every change of the     *)
(* repository, by Diffo or by anyone else, makes a new version.            *)
(***************************************************************************)
EXTENDS Integers, Sequences

CONSTANTS
  MaxDisk,         \* versions the disk goes through (bounds the changes)
  MaxEarly,        \* changes that land after the startup snapshot is read
                   \* and before the watcher is established
  MaxCommands,     \* repository commands the user starts
  MaxLoads,        \* picker and history queries the user causes
  MaxPrompts,      \* prompt ids one command draws from its askpass bridge
  MaxWatchErrors,  \* errors the notify backend reports
  UnmergedDeletes  \* the commands that are branch deletions Git refuses
                   \* because the branch is not fully merged

ASSUME ConstantsAssumption ==
  /\ MaxDisk \in Nat /\ MaxEarly \in Nat /\ MaxCommands \in Nat
  /\ MaxLoads \in Nat /\ MaxPrompts \in Nat /\ MaxWatchErrors \in Nat
  /\ UnmergedDeletes \subseteq Nat

VARIABLES
  \* The repository on disk and the notify backend.
  disk,             \* version of the repository
  worktreeDisk,     \* version the last change to a worktree file made
  commandDisk,      \* version the last change by one of Diffo's commands made
  watching,         \* "starting", "on" or "off"
  undelivered,      \* kinds of change notify has yet to hand to the callback
  watchErrors,      \* errors notify has reported
  \* The watcher callback and the two flags it shares with the worker.
  watcher,          \* "idle", "swap" or "send"
  refreshPending,
  worktreePending,
  \* The worker.
  requests,         \* the channel into the worker
  pc,               \* where the worker is
  job,              \* the request it is serving
  base,             \* disk version when the running snapshot began
  outcome,          \* what apply_with_context returned
  ready,            \* the command's terminal event, built but not sent
  generation,
  promptSerial,     \* next id of the askpass bridge
  \* The prompt broker and the cancellation handles.
  operation,        \* the command the broker is registered for, or NoId
  nextPrompt,       \* the prompt id the broker will accept
  openPrompt,       \* the prompt whose sender the broker holds, or NoId
  answer,           \* the channel of the prompt the worker waits on
  cancelled,        \* commands whose handle is cancelled
  \* The event loop and the part of the workbench it drives.
  events,           \* the channel out of the service
  active,           \* the workbench's active command, or NoId
  nextId,           \* id the workbench gives its next command
  uiPrompt,         \* the prompt modal
  lastPrompt,       \* the last prompt id answered
  uiGeneration,
  seen,             \* version of the snapshot on screen
  notice,           \* the last update reported a failure and no snapshot
  failures,         \* watch failures the user was told of
  worktreeSeen,     \* version when the Explorer was last invalidated
  loads             \* queries not yet answered

diskVars   == <<disk, worktreeDisk, commandDisk, watching, undelivered, watchErrors>>
watchVars  == <<watcher, refreshPending, worktreePending>>
workerVars == <<pc, job, base, outcome, ready, generation, promptSerial>>
brokerVars == <<operation, nextPrompt, openPrompt, answer, cancelled>>
viewVars   == <<uiGeneration, seen, notice, failures, worktreeSeen, loads>>
uiVars     == <<active, nextId, uiPrompt, lastPrompt, viewVars>>
vars == <<diskVars, watchVars, requests, workerVars, brokerVars, events, uiVars>>

NoId == 0
NoSnapshot == -1
NoAnswer == "none"

ChangeKinds == {"worktree", "metadata"}
RequestKinds == {"Refresh", "Execute", "Load", "WatchFailed", "Shutdown"}
Request == [kind : RequestKinds, id : Nat]
Req(kind, id) == [kind |-> kind, id |-> id]
NoJob == Req("Refresh", NoId)

CommandKinds == {"CommandCompleted", "CommandCancelled", "CommandFailed"}
UpdateKinds == CommandKinds \cup {"Snapshot", "RefreshFailed", "WatchFailed"}
EventKinds == UpdateKinds \cup {"Prompt", "WorktreeChanged", "Loaded"}
Event == [kind : EventKinds, gen : Nat, id : Nat, prompt : Nat,
          snap : Nat \cup {NoSnapshot}]

\* RepositoryEvent::Update: snap is the version its snapshot shows, or
\* NoSnapshot when it carries none.
Update(kind, gen, id, snap) ==
  [kind |-> kind, gen |-> gen, id |-> id, prompt |-> NoId, snap |-> snap]
Message(kind, id, prompt) ==
  [kind |-> kind, gen |-> 0, id |-> id, prompt |-> prompt, snap |-> NoSnapshot]
IsUpdate(e) == e.kind \in UpdateKinds

NoPrompt == [id |-> NoId, prompt |-> NoId]
NoEvent == Message("Loaded", NoId, NoId)

PCs == {"recv", "clear", "debounce", "worktree", "query", "queryRefresh",
        "collect", "apply", "git", "prompting", "final", "send", "stopped"}

Init ==
  /\ disk = 0 /\ worktreeDisk = 0 /\ commandDisk = 0 /\ watching = "starting"
  /\ undelivered = {} /\ watchErrors = 0
  /\ watcher = "idle" /\ refreshPending = FALSE /\ worktreePending = FALSE
  /\ requests = <<>> /\ pc = "recv" /\ job = NoJob
  /\ base = 0 /\ outcome = "Completed" /\ ready = NoEvent
  /\ generation = 0 /\ promptSerial = 1
  /\ operation = NoId /\ nextPrompt = 1 /\ openPrompt = NoId
  /\ answer = NoAnswer /\ cancelled = {}
  /\ events = <<>> /\ active = NoId /\ nextId = 1
  /\ uiPrompt = NoPrompt /\ lastPrompt = 0 /\ uiGeneration = 0
  /\ seen = 0 /\ notice = FALSE /\ failures = 0 /\ worktreeSeen = 0
  /\ loads = {}

-----------------------------------------------------------------------------
(* The disk.  Any change makes a new version; an established watch records *)
(* that notify owes the callback an event of that kind.                    *)

Touch(k) ==
  /\ disk < MaxDisk
  /\ disk' = disk + 1
  /\ worktreeDisk' = IF k = "worktree" THEN disk + 1 ELSE worktreeDisk
  /\ undelivered' = IF watching = "on" THEN undelivered \cup {k} ELSE undelivered

\* Another program changes the worktree or the Git metadata.
ExternalChange(k) ==
  /\ watching = "starting" => disk < MaxEarly
  /\ Touch(k)
  /\ UNCHANGED <<commandDisk, watching, watchErrors, watchVars, requests,
                 workerVars, brokerVars, events, uiVars>>

\* RepositoryService::start establishes the watch and spawns the worker,
\* after main has read the snapshot the workbench opens with.
StartService ==
  /\ watching = "starting"
  /\ watching' = "on"
  /\ UNCHANGED <<disk, worktreeDisk, commandDisk, undelivered, watchErrors, watchVars,
                 requests, workerVars, brokerVars, events, uiVars>>

-----------------------------------------------------------------------------
(* The notify callback: store, swap and send are separate accesses to what *)
(* the worker shares.                                                      *)

WatcherNotice(k) ==
  /\ watcher = "idle"
  /\ k \in undelivered
  /\ undelivered' = undelivered \ {k}
  /\ worktreePending' = (worktreePending \/ k = "worktree")
  /\ watcher' = "swap"
  /\ UNCHANGED <<disk, worktreeDisk, commandDisk, watching, watchErrors, refreshPending,
                 requests, workerVars, brokerVars, events, uiVars>>

WatcherSwap ==
  /\ watcher = "swap"
  /\ watcher' = IF refreshPending THEN "idle" ELSE "send"
  /\ refreshPending' = TRUE
  /\ UNCHANGED <<diskVars, worktreePending, requests, workerVars, brokerVars,
                 events, uiVars>>

WatcherSend ==
  /\ watcher = "send"
  /\ watcher' = "idle"
  /\ requests' = Append(requests, Req("Refresh", NoId))
  /\ UNCHANGED <<diskVars, refreshPending, worktreePending, workerVars,
                 brokerVars, events, uiVars>>

\* notify hands the callback an error instead of an event.
WatcherError ==
  /\ watcher = "idle" /\ watching = "on"
  /\ watchErrors < MaxWatchErrors
  /\ watchErrors' = watchErrors + 1
  /\ requests' = Append(requests, Req("WatchFailed", NoId))
  /\ UNCHANGED <<disk, worktreeDisk, commandDisk, watching, undelivered, watchVars,
                 workerVars, brokerVars, events, uiVars>>

Watcher == WatcherSwap \/ WatcherSend \/ \E k \in ChangeKinds : WatcherNotice(k)

-----------------------------------------------------------------------------
(* The worker: worker_loop, debounce and collect_after_debounce.           *)

Send(e) == events' = Append(events, e)

\* The worker goes back to recv(); the locals of the request are gone.
Served == pc' = "recv" /\ job' = NoJob /\ base' = 0 /\ outcome' = "Completed"

Received(from, kinds) ==
  /\ pc = from
  /\ requests # <<>>
  /\ Head(requests).kind \in kinds
  /\ requests' = Tail(requests)

\* Mutant: the snapshot is served from a cache filled at startup.
BeginCachedSnapshot == base' = 0

\* A snapshot is several Git reads: it shows some version between the one
\* it starts from and the one it ends at.
BeginSnapshot == base' = disk

\* recv() returns RefreshRequested; the flag is cleared by the next step.
RecvRefresh ==
  /\ Received("recv", {"Refresh"})
  /\ pc' = "clear"
  /\ UNCHANGED <<diskVars, watchVars, job, base, outcome, ready, generation,
                 promptSerial, brokerVars, events, uiVars>>

\* Mutant: the flag stays set, and the callback never asks again.
ForgetToClearPending ==
  /\ pc = "clear"
  /\ pc' = "debounce"
  /\ UNCHANGED <<diskVars, watchVars, requests, job, base, outcome, ready,
                 generation, promptSerial, brokerVars, events, uiVars>>

ClearPending ==
  /\ pc = "clear"
  /\ refreshPending' = FALSE
  /\ pc' = "debounce"
  /\ UNCHANGED <<diskVars, watcher, worktreePending, requests, job, base,
                 outcome, ready, generation, promptSerial, brokerVars, events,
                 uiVars>>

\* A further RefreshRequested within the debounce clears the flag again and
\* restarts the 100 ms.
DebounceRefresh ==
  /\ Received("debounce", {"Refresh"})
  /\ pc' = "clear"
  /\ UNCHANGED <<diskVars, watchVars, job, base, outcome, ready, generation,
                 promptSerial, brokerVars, events, uiVars>>

\* A command, a query or the shutdown ends the debounce and is served.
DebounceRequest ==
  /\ Received("debounce", {"Execute", "Load", "Shutdown"})
  /\ job' = Head(requests)
  /\ pc' = "worktree"
  /\ UNCHANGED <<diskVars, watchVars, base, outcome, ready, generation,
                 promptSerial, brokerVars, events, uiVars>>

\* Mutant: the catch-all arm of the debounce drops queries as well.
DebounceDropsLoads ==
  /\ Received("debounce", {"WatchFailed", "Load"})
  /\ UNCHANGED <<diskVars, watchVars, workerVars, brokerVars, events, uiVars>>

\* A watch failure within the debounce is received and dropped.
DebounceWatchFailed ==
  /\ Received("debounce", {"WatchFailed"})
  /\ UNCHANGED <<diskVars, watchVars, workerVars, brokerVars, events, uiVars>>

\* recv_timeout(DEBOUNCE) expires with the channel empty.
DebounceTimeout ==
  /\ pc = "debounce"
  /\ requests = <<>>
  /\ job' = NoJob
  /\ pc' = "worktree"
  /\ UNCHANGED <<diskVars, watchVars, requests, base, outcome, ready,
                 generation, promptSerial, brokerVars, events, uiVars>>

\* execute and refresh both take a new generation as they begin.
NextStage(kind) == CASE kind = "Refresh"  -> "collect"
                     [] kind = "Execute"  -> "apply"
                     [] kind = "Load"     -> "queryRefresh"
                     [] kind = "Shutdown" -> "stopped"

TakeWorktree ==
  /\ pc = "worktree"
  /\ worktreePending' = FALSE
  /\ events' = IF worktreePending
               THEN Append(events, Message("WorktreeChanged", NoId, NoId))
               ELSE events
  /\ pc' = NextStage(job.kind)
  /\ generation' = IF job.kind \in {"Refresh", "Execute"}
                   THEN generation + 1 ELSE generation
  /\ base' = IF job.kind = "Refresh" THEN disk ELSE base
  /\ promptSerial' = 1
  /\ UNCHANGED <<diskVars, watcher, refreshPending, requests, job, outcome,
                 ready, brokerVars, uiVars>>

RecvLoad ==
  /\ Received("recv", {"Load"})
  /\ job' = Head(requests)
  /\ pc' = "query"
  /\ UNCHANGED <<diskVars, watchVars, base, outcome, ready, generation,
                 promptSerial, brokerVars, events, uiVars>>

\* The query's result or its failure is sent under the query's id.
Query ==
  /\ pc = "query"
  /\ Send(Message("Loaded", job.id, NoId))
  /\ Served
  /\ UNCHANGED <<diskVars, watchVars, requests, ready,
                 generation, promptSerial, brokerVars, uiVars>>

\* A query that ended a debounce is followed by the refresh it interrupted.
QueryThenRefresh ==
  /\ pc = "queryRefresh"
  /\ Send(Message("Loaded", job.id, NoId))
  /\ generation' = generation + 1
  /\ BeginSnapshot
  /\ pc' = "collect"
  /\ UNCHANGED <<diskVars, watchVars, requests, job, outcome, ready,
                 promptSerial, brokerVars, uiVars>>

CollectSnapshot(v) ==
  /\ pc = "collect"
  /\ Send(Update("Snapshot", generation, NoId, v))
  /\ Served
  /\ UNCHANGED <<diskVars, watchVars, requests, ready,
                 generation, promptSerial, brokerVars, uiVars>>

\* Mutant: a refresh that fails is not reported.
CollectFailsSilently ==
  /\ pc = "collect"
  /\ Served
  /\ UNCHANGED <<diskVars, watchVars, requests, ready,
                 generation, promptSerial, brokerVars, events, uiVars>>

CollectFails ==
  /\ pc = "collect"
  /\ Send(Update("RefreshFailed", generation, NoId, NoSnapshot))
  /\ Served
  /\ UNCHANGED <<diskVars, watchVars, requests, ready,
                 generation, promptSerial, brokerVars, uiVars>>

\* Mutant: the failure reuses the generation of the last update.
RecvWatchFailedSameGeneration ==
  /\ Received("recv", {"WatchFailed"})
  /\ Send(Update("WatchFailed", generation, NoId, NoSnapshot))
  /\ UNCHANGED <<diskVars, watchVars, pc, job, base, outcome, ready, generation,
                 promptSerial, brokerVars, uiVars>>

RecvWatchFailed ==
  /\ Received("recv", {"WatchFailed"})
  /\ generation' = generation + 1
  /\ Send(Update("WatchFailed", generation + 1, NoId, NoSnapshot))
  /\ UNCHANGED <<diskVars, watchVars, pc, job, base, outcome, ready,
                 promptSerial, brokerVars, uiVars>>

RecvShutdown ==
  /\ Received("recv", {"Shutdown"})
  /\ pc' = "stopped"
  /\ UNCHANGED <<diskVars, watchVars, job, base, outcome, ready, generation,
                 promptSerial, brokerVars, events, uiVars>>

-----------------------------------------------------------------------------
(* A command: execute() runs apply_with_context, reads a snapshot, frees    *)
(* the broker and only then sends the terminal event.                      *)

RecvExecute ==
  /\ Received("recv", {"Execute"})
  /\ job' = Head(requests)
  /\ generation' = generation + 1
  /\ promptSerial' = 1
  /\ pc' = "apply"
  /\ UNCHANGED <<diskVars, watchVars, base, outcome, ready, brokerVars, events,
                 uiVars>>

\* apply_operation returns Cancelled at once for a cancelled handle.
ApplyBegins ==
  /\ pc = "apply"
  /\ IF job.id \in cancelled
       THEN outcome' = "Cancelled" /\ BeginSnapshot /\ pc' = "final"
       ELSE pc' = "git" /\ UNCHANGED <<outcome, base>>
  /\ UNCHANGED <<diskVars, watchVars, requests, job, ready, generation,
                 promptSerial, brokerVars, events, uiVars>>

\* The Git child changes the repository.
GitChanges(k) ==
  /\ pc = "git"
  /\ Touch(k)
  /\ commandDisk' = disk + 1
  /\ UNCHANGED <<watching, watchErrors, watchVars, requests, workerVars,
                 brokerVars, events, uiVars>>

\* Git ends; run_cancellable reports Cancelled only for a cancelled handle.
GitEnds(o) ==
  /\ pc = "git"
  /\ o = "Cancelled" => job.id \in cancelled
  /\ outcome' = o
  /\ BeginSnapshot
  /\ pc' = "final"
  /\ UNCHANGED <<diskVars, watchVars, requests, job, ready, generation,
                 promptSerial, brokerVars, events, uiVars>>

TerminalKind == CASE outcome = "Completed" -> "CommandCompleted"
                  [] outcome = "Cancelled" -> "CommandCancelled"
                  [] outcome = "Failed"    -> "CommandFailed"

\* Mutant: a cancelled command leaves the broker registered.
FreesBrokerUnlessCancelled(c) ==
  IF operation = c /\ outcome # "Cancelled"
    THEN operation' = NoId /\ openPrompt' = NoId
    ELSE UNCHANGED <<operation, openPrompt>>

FreesBroker(c) ==
  IF operation = c
    THEN operation' = NoId /\ openPrompt' = NoId
    ELSE UNCHANGED <<operation, openPrompt>>

\* The final snapshot, and finish_operation before the event is sent.
CommandEnds(v) ==
  /\ pc = "final"
  /\ ready' = Update(TerminalKind, generation, job.id, v)
  /\ FreesBroker(job.id)
  /\ pc' = "send"
  /\ UNCHANGED <<diskVars, watchVars, requests, job, base, outcome, generation,
                 promptSerial, nextPrompt, answer, cancelled, events, uiVars>>

\* The final snapshot cannot be read: the command fails, whatever it did.
CommandEndsBlind ==
  /\ pc = "final"
  /\ ready' = Update("CommandFailed", generation, job.id, NoSnapshot)
  /\ FreesBroker(job.id)
  /\ pc' = "send"
  /\ UNCHANGED <<diskVars, watchVars, requests, job, base, outcome, generation,
                 promptSerial, nextPrompt, answer, cancelled, events, uiVars>>

SendTerminal ==
  /\ pc = "send"
  /\ Send(ready)
  /\ ready' = NoEvent
  /\ Served
  /\ UNCHANGED <<diskVars, watchVars, requests, generation,
                 promptSerial, brokerVars, uiVars>>

-----------------------------------------------------------------------------
(* Prompts: the askpass bridge draws an id, PromptBroker::prompt registers *)
(* it and waits for the answer or the cancellation.                        *)

BrokerAccepts(p) ==
  /\ operation # NoId
  /\ openPrompt = NoId
  /\ p = nextPrompt
  /\ operation \notin cancelled

\* A prompt the broker refuses answers Cancel and Git goes on without it.
PromptBegins ==
  /\ pc = "git" /\ promptSerial <= MaxPrompts
  /\ promptSerial' = promptSerial + 1
  /\ IF BrokerAccepts(promptSerial)
       THEN /\ openPrompt' = promptSerial
            /\ answer' = NoAnswer
            /\ Send(Message("Prompt", operation, promptSerial))
            /\ pc' = "prompting"
       ELSE UNCHANGED <<openPrompt, answer, events, pc>>
  /\ UNCHANGED <<diskVars, watchVars, requests, job, base, outcome, ready,
                 generation, operation, nextPrompt, cancelled, uiVars>>

\* A helper connects and dies before its prompt is read: the bridge has drawn
\* an id that the broker never sees.
AskpassReadFails ==
  /\ pc = "git" /\ promptSerial <= MaxPrompts
  /\ promptSerial' = promptSerial + 1
  /\ UNCHANGED <<diskVars, watchVars, requests, pc, job, base, outcome, ready,
                 generation, brokerVars, events, uiVars>>

\* Mutant: the prompt is discarded but its wait goes on.
PromptDiscardedStillWaits ==
  /\ pc = "prompting"
  /\ job.id \in cancelled
  /\ openPrompt' = NoId
  /\ UNCHANGED <<diskVars, watchVars, requests, workerVars, operation, nextPrompt,
                 answer, cancelled, events, uiVars>>

\* PromptBroker::discard, for the prompt the worker waits on.
PromptDiscarded ==
  /\ pc = "prompting"
  /\ job.id \in cancelled
  /\ openPrompt' = NoId
  /\ answer' = NoAnswer
  /\ pc' = "git"
  /\ UNCHANGED <<diskVars, watchVars, requests, job, base, outcome, ready,
                 generation, promptSerial, operation, nextPrompt, cancelled,
                 events, uiVars>>

PromptAnswered ==
  /\ pc = "prompting"
  /\ answer # NoAnswer
  /\ answer' = NoAnswer
  /\ pc' = "git"
  /\ UNCHANGED <<diskVars, watchVars, requests, job, base, outcome, ready,
                 generation, promptSerial, operation, nextPrompt, openPrompt,
                 cancelled, events, uiVars>>

\* The askpass helper goes away while its prompt is open.
HelperDisconnects ==
  /\ pc = "prompting"
  /\ answer = NoAnswer
  /\ job.id \notin cancelled
  /\ cancelled' = cancelled \cup {job.id}
  /\ UNCHANGED <<diskVars, watchVars, requests, workerVars, operation,
                 nextPrompt, openPrompt, answer, events, uiVars>>

Worker ==
  \/ RecvRefresh \/ ClearPending \/ DebounceRefresh \/ DebounceRequest
  \/ DebounceWatchFailed \/ DebounceTimeout \/ TakeWorktree
  \/ RecvLoad \/ Query \/ QueryThenRefresh
  \/ (\E v \in base..disk : CollectSnapshot(v)) \/ CollectFails
  \/ RecvWatchFailed \/ RecvShutdown
  \/ RecvExecute \/ ApplyBegins
  \/ (\E v \in base..disk : CommandEnds(v)) \/ CommandEndsBlind \/ SendTerminal
  \/ PromptDiscarded \/ PromptAnswered

Git ==
  \/ \E k \in ChangeKinds : GitChanges(k)
  \/ \E o \in {"Completed", "Cancelled", "Failed"} : GitEnds(o)
  \/ PromptBegins \/ AskpassReadFails \/ HelperDisconnects
-----------------------------------------------------------------------------
(* The event loop's side of the broker: answer, cancel_command.            *)

Registered(c) == c # NoId /\ operation = c
Answerable(c, p) == Registered(c) /\ p # NoId /\ openPrompt = p

\* Mutant: a dismissed prompt is removed but neither answered nor cancelled.
AnswersTextOnly(c, a) ==
  /\ openPrompt' = NoId
  /\ nextPrompt' = nextPrompt + 1
  /\ answer' = IF a = "Text" THEN a ELSE answer
  /\ cancelled' = cancelled

\* PromptBroker::answer finds the prompt.
Answers(c, a) ==
  /\ openPrompt' = NoId
  /\ nextPrompt' = nextPrompt + 1
  /\ answer' = a
  /\ cancelled' = IF a = "Cancel" THEN cancelled \cup {c} ELSE cancelled

\* PromptBroker::cancel_command; also cancels the workbench's own handle of
\* the same command when the workbench gave it up.
CancelsCommand(c, gaveUp) ==
  /\ nextPrompt' = nextPrompt
  /\ cancelled' = IF gaveUp \/ Registered(c) THEN cancelled \cup {c} ELSE cancelled
  /\ openPrompt' = IF Registered(c) THEN NoId ELSE openPrompt
  /\ answer' = IF Registered(c) /\ openPrompt # NoId THEN "Cancel" ELSE answer

-----------------------------------------------------------------------------
(* The event loop.                                                         *)

\* take_application_command activates a repository command and the loop
\* hands it to RepositoryService::execute, which registers it with the broker
\* and sends it; a refusal is acknowledged as a failure on the spot.
Execute ==
  /\ watching = "on"
  /\ active = NoId /\ nextId <= MaxCommands
  /\ nextId' = nextId + 1
  /\ lastPrompt' = 0
  /\ IF operation = NoId
       THEN /\ operation' = nextId /\ nextPrompt' = 1 /\ openPrompt' = NoId
            /\ requests' = Append(requests, Req("Execute", nextId))
            /\ active' = nextId
       ELSE UNCHANGED <<operation, nextPrompt, openPrompt, requests, active>>
  /\ UNCHANGED <<diskVars, watchVars, workerVars, answer, cancelled, events,
                 uiPrompt, viewVars>>

\* load_branches, load_history, load_commit_patch, load_commit_file,
\* load_merge_refs, load_stashes and load_remotes.
LoadQuery(q) ==
  /\ watching = "on"
  /\ q \notin loads /\ \A r \in loads : r < q
  /\ loads' = loads \cup {q}
  /\ requests' = Append(requests, Req("Load", q))
  /\ UNCHANGED <<diskVars, watchVars, workerVars, brokerVars, events, active,
                 nextId, uiPrompt, lastPrompt, uiGeneration, seen, notice,
                 failures, worktreeSeen>>

\* The click on the active row of the queue panel.
CancelActive ==
  /\ watching = "on"
  /\ active # NoId
  /\ active \notin cancelled
  /\ cancelled' = cancelled \cup {active}
  /\ UNCHANGED <<diskVars, watchVars, requests, workerVars, operation,
                 nextPrompt, openPrompt, answer, events, uiVars>>

\* The user submits or dismisses the prompt modal.
AnswerPrompt(a) ==
  /\ watching = "on"
  /\ uiPrompt # NoPrompt
  /\ uiPrompt' = NoPrompt
  /\ lastPrompt' = uiPrompt.prompt
  /\ IF Answerable(uiPrompt.id, uiPrompt.prompt)
       THEN Answers(uiPrompt.id, a)
       ELSE CancelsCommand(uiPrompt.id, a = "Cancel" /\ active = uiPrompt.id)
  /\ UNCHANGED <<diskVars, watchVars, requests, workerVars, operation, events,
                 active, nextId, viewVars>>

\* The loop ends: the active command is cancelled, then the service drops its
\* watcher, cancels whatever is registered and sends Shutdown.
Quit ==
  /\ watching = "on"
  /\ watching' = "off"
  /\ CancelsCommand(IF operation = NoId THEN active ELSE operation, active # NoId)
  /\ requests' = Append(requests, Req("Shutdown", NoId))
  /\ UNCHANGED <<disk, worktreeDisk, commandDisk, undelivered, watchErrors, watchVars,
                 workerVars, operation, events, uiVars>>

\* drain_repository_events takes one event.
Receives(kinds) ==
  /\ watching = "on"
  /\ events # <<>>
  /\ Head(events).kind \in kinds
  /\ events' = Tail(events)

\* open_prompt: a modal, or a refusal that cancels the command.
ReceivePrompt ==
  LET e == Head(events) IN
  /\ Receives({"Prompt"})
  /\ IF uiPrompt = NoPrompt /\ active = e.id /\ e.prompt > lastPrompt
       THEN /\ uiPrompt' = [id |-> e.id, prompt |-> e.prompt]
            /\ UNCHANGED <<nextPrompt, openPrompt, answer, cancelled>>
       ELSE /\ UNCHANGED uiPrompt
            /\ IF Answerable(e.id, e.prompt) THEN Answers(e.id, "Cancel")
                                             ELSE CancelsCommand(e.id, FALSE)
  /\ UNCHANGED <<diskVars, watchVars, requests, workerVars, operation, active,
                 nextId, lastPrompt, viewVars>>

ReceiveWorktreeChanged ==
  /\ Receives({"WorktreeChanged"})
  /\ worktreeSeen' = disk
  /\ UNCHANGED <<diskVars, watchVars, requests, workerVars, brokerVars, active,
                 nextId, uiPrompt, lastPrompt, uiGeneration, seen, notice,
                 failures, loads>>

ReceiveLoaded ==
  /\ Receives({"Loaded"})
  /\ loads' = loads \ {Head(events).id}
  /\ UNCHANGED <<diskVars, watchVars, requests, workerVars, brokerVars, active,
                 nextId, uiPrompt, lastPrompt, uiGeneration, seen, notice,
                 failures, worktreeSeen>>

\* The workbench installs the snapshot an update carries, or tells the user
\* that there is none.
Install(e) ==
  /\ seen' = IF e.snap # NoSnapshot THEN e.snap ELSE seen
  /\ notice' = (e.snap = NoSnapshot)

\* The workbench acknowledges its active command and closes its prompt.
Acknowledge ==
  /\ active' = NoId
  /\ lastPrompt' = 0
  /\ uiPrompt' = IF uiPrompt.id = active THEN NoPrompt ELSE uiPrompt

NotAcknowledged == UNCHANGED <<active, lastPrompt, uiPrompt>>

\* accept_repository_update for a refresh, and for one that failed.
AcceptRefresh(e) == Install(e) /\ NotAcknowledged /\ UNCHANGED failures

AcceptWatchFailed(e) ==
  /\ failures' = failures + 1
  /\ NotAcknowledged /\ UNCHANGED <<seen, notice>>

\* Mutant: the snapshot of a failed command is not installed.
AcceptCommandWithoutFailure(e) ==
  /\ IF active = e.id THEN Acknowledge ELSE NotAcknowledged
  /\ IF e.kind # "CommandFailed" THEN Install(e) ELSE UNCHANGED <<seen, notice>>
  /\ UNCHANGED failures

\* A completion the workbench does not know still installs its snapshot; a
\* failure or a cancellation it does not know is ignored.  The failure of an
\* unmerged deletion opens the confirmation and returns before the install.
AcceptCommand(e) ==
  /\ IF active = e.id THEN Acknowledge ELSE NotAcknowledged
  /\ IF \/ e.kind = "CommandCompleted"
        \/ /\ active = e.id
           /\ ~(e.kind = "CommandFailed" /\ e.id \in UnmergedDeletes
                /\ e.snap # NoSnapshot)
       THEN Install(e)
       ELSE UNCHANGED <<seen, notice>>
  /\ UNCHANGED failures

AcceptUpdate(e) ==
  /\ uiGeneration' = e.gen
  /\ \/ e.kind \in {"Snapshot", "RefreshFailed"} /\ AcceptRefresh(e)
     \/ e.kind = "WatchFailed" /\ AcceptWatchFailed(e)
     \/ e.kind \in CommandKinds /\ AcceptCommand(e)

ReceiveUpdate ==
  /\ Receives(UpdateKinds)
  /\ IF Head(events).gen > uiGeneration
       THEN AcceptUpdate(Head(events))
       ELSE UNCHANGED <<uiGeneration, seen, notice, failures, active,
                        lastPrompt, uiPrompt>>
  /\ UNCHANGED <<diskVars, watchVars, requests, workerVars, brokerVars,
                 nextId, worktreeSeen, loads>>

Receive ==
  ReceivePrompt \/ ReceiveWorktreeChanged \/ ReceiveLoaded \/ ReceiveUpdate

User ==
  \/ Execute \/ CancelActive \/ Quit
  \/ (\E q \in 1..MaxLoads : LoadQuery(q))
  \/ \E a \in {"Text", "Cancel"} : AnswerPrompt(a)

Environment ==
  \/ StartService \/ WatcherError
  \/ \E k \in ChangeKinds : ExternalChange(k)

\* The worker has joined and the terminal is restored.
Stopped == pc = "stopped" /\ UNCHANGED vars

Next == Environment \/ Watcher \/ Worker \/ Git \/ User \/ Receive \/ Stopped

Spec == Init /\ [][Next]_vars

-----------------------------------------------------------------------------
(* Type correctness.                                                       *)

TypeOK ==
  /\ disk \in Nat /\ worktreeDisk \in Nat /\ commandDisk \in Nat
  /\ watching \in {"starting", "on", "off"}
  /\ undelivered \subseteq ChangeKinds /\ watchErrors \in Nat
  /\ watcher \in {"idle", "swap", "send"}
  /\ refreshPending \in BOOLEAN /\ worktreePending \in BOOLEAN
  /\ requests \in Seq(Request) /\ pc \in PCs
  /\ job \in Request /\ job.kind # "WatchFailed"
  /\ base \in Nat /\ outcome \in {"Completed", "Cancelled", "Failed"}
  /\ ready \in Event /\ generation \in Nat /\ promptSerial \in Nat
  /\ operation \in Nat /\ nextPrompt \in Nat /\ openPrompt \in Nat
  /\ answer \in {NoAnswer, "Text", "Cancel"} /\ cancelled \subseteq Nat
  /\ events \in Seq(Event) /\ active \in Nat /\ nextId \in Nat
  /\ uiPrompt \in [id : Nat, prompt : Nat] /\ lastPrompt \in Nat
  /\ uiGeneration \in Nat /\ seen \in Nat /\ notice \in BOOLEAN
  /\ failures \in Nat /\ worktreeSeen \in Nat /\ loads \subseteq Nat

-----------------------------------------------------------------------------
(* Safety.                                                                 *)

Quiet ==
  /\ watching = "on" /\ undelivered = {} /\ watcher = "idle"
  /\ requests = <<>> /\ pc = "recv" /\ events = <<>>

\* No refresh is lost between the callback, the two flags, the debounce and
\* the command that absorbs it: once everything has come to rest, the screen
\* shows the repository as it is, or the user was told that it could not be
\* read.
RefreshNotLost == Quiet => seen = disk \/ notice

\* Once everything has come to rest, the Explorer has been invalidated after
\* the last change to a worktree file, whichever request ended the debounce.
WorktreeNotLost == Quiet => worktreeSeen >= worktreeDisk

\* The updates on their way to the workbench carry increasing generations, all
\* newer than the one installed: the stale-generation check of
\* accept_repository_update never drops an update of this worker.
GenerationsIncrease ==
  \A i \in DOMAIN events : IsUpdate(events[i]) =>
     /\ uiGeneration < events[i].gen
     /\ \A j \in DOMAIN events : j < i /\ IsUpdate(events[j]) =>
          events[j].gen < events[i].gen

\* When the workbench has no active command the broker is free: the next
\* execute is never refused, since the broker is freed before the terminal
\* event is sent.
ExecuteNeverRefused == active = NoId => operation = NoId

\* A query the user waits for is in the channel, at the worker, or answered:
\* neither the debounce nor a refresh swallows it.
QueryNotLost ==
  watching = "on" => \A q \in loads :
    \/ \E i \in DOMAIN requests : requests[i] = Req("Load", q)
    \/ job = Req("Load", q) /\ pc \in {"worktree", "query", "queryRefresh"}
    \/ \E i \in DOMAIN events : events[i] = Message("Loaded", q, NoId)

\* Git never waits for a prompt that nobody will answer: while its command is
\* not cancelled, an unanswered prompt is on screen or on its way there.
PromptVisible ==
  pc = "prompting" /\ answer = NoAnswer /\ job.id \notin cancelled =>
    \/ uiPrompt = [id |-> job.id, prompt |-> openPrompt]
    \/ \E i \in DOMAIN events : events[i] = Message("Prompt", job.id, openPrompt)

\* A prompt modal belongs to the active command and never outlives it.
PromptOfActive == uiPrompt # NoPrompt => uiPrompt.id = active

\* The debounce forgets nothing: the Explorer is invalidated after the last
\* change to a file, and a query the user waits for is on its way or answered.
\* (worker.rs: debounce, collect_after_debounce.)
ChangesAndQueriesKept == TypeOK /\ WorktreeNotLost /\ QueryNotLost

\* Git never waits for a prompt nobody can answer, and a prompt on screen is one
\* of the active command. (service.rs: PromptBroker; prompt.rs: open_prompt.)
PromptsAnswerable == PromptVisible /\ PromptOfActive

-----------------------------------------------------------------------------
(* What a step may never do.                                               *)

\* The screen never goes back to an older version of the repository.
SeenNeverGoesBack == [][seen' >= seen]_seen

-----------------------------------------------------------------------------
(* Implementation of the lane, fairness and liveness.                      *)

Lane == INSTANCE CommandLane WITH
  running <- active, version <- disk, work <- commandDisk,
  shown <- seen, told <- notice

\* One command at a time, over only when its work is on screen.
ImplementsLane == Lane!LaneSpec

\* The threads of the service and the event loop are scheduled; notify
\* delivers what it saw; run_cancellable kills a cancelled Git child.
Fairness ==
  /\ WF_vars(Worker) /\ WF_vars(Watcher) /\ WF_vars(Receive)
  /\ WF_vars(GitEnds("Cancelled")) /\ WF_vars(StartService)

FairSpec == Spec /\ Fairness

\* Git children that are not killed end on their own, and the user answers
\* the prompts: an assumption about the world, not about the code.
Patience ==
  /\ WF_vars(\E o \in {"Completed", "Failed"} : GitEnds(o))
  /\ WF_vars(\E a \in {"Text", "Cancel"} : AnswerPrompt(a))

\* A cancelled command is acknowledged even if Git hangs and nobody answers
\* its prompt.
CancelledCommandEnds ==
  \A c \in 1..MaxCommands :
    (active = c /\ c \in cancelled) ~> (active # c \/ watching = "off")

\* Quitting joins the worker, whatever it was doing.
QuitJoinsWorker == (watching = "off") ~> (pc = "stopped")

\* With a patient world, every change reaches the screen or the user is told.
ChangeReachesScreen ==
  Patience => \A d \in 1..MaxDisk :
    (disk = d /\ watching = "on") ~> (seen >= d \/ notice \/ watching = "off")

\* With a patient world, every command is acknowledged.
CommandAcknowledged ==
  Patience => \A c \in 1..MaxCommands : (active = c) ~> (active # c \/ watching = "off")

=============================================================================
