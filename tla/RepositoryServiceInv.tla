------------------------ MODULE RepositoryServiceInv ------------------------
(***************************************************************************)
(* The inductive invariant of RepositoryService, in layers: who owns the   *)
(* running command, how generations grow, how snapshots grow, and where a  *)
(* refresh, an invalidation of the Explorer, a query's answer and a prompt *)
(* wait while they are owed.  RepositoryServiceProofs proves it.           *)
(***************************************************************************)
EXTENDS RepositoryService

-----------------------------------------------------------------------------
(* The running command is in exactly one place: in the channel, at the     *)
(* worker, in its unsent terminal event or in the sent one.                *)

Serving ==
  \/ pc \in {"apply", "git", "prompting", "final"}
  \/ pc = "worktree" /\ job.kind = "Execute"

IsTerminal(e) == e.kind \in CommandKinds


CommandInv ==
  /\ nextId > 0
  /\ operation # NoId => operation = active
  /\ \A i \in DOMAIN requests : requests[i].kind = "Execute" =>
       /\ operation # NoId /\ requests[i].id = operation /\ ~Serving
       /\ \A j \in DOMAIN requests : requests[j].kind = "Execute" => i = j
  /\ Serving => operation # NoId /\ job.id = operation
  /\ pc = "send" =>
       /\ IsTerminal(ready) /\ ready.id = active
       /\ active # NoId /\ operation = NoId
  /\ \A i \in DOMAIN events : IsTerminal(events[i]) =>
       /\ events[i].id = active
       /\ active # NoId /\ operation = NoId /\ pc # "send"
       /\ \A j \in DOMAIN events : IsTerminal(events[j]) => i = j

-----------------------------------------------------------------------------
(* Generations: the one the worker holds is newer than all it has sent.    *)

Holding == pc \in {"collect", "apply", "git", "prompting", "final", "send"}

GenerationInv ==
  /\ uiGeneration <= generation
  /\ Holding => uiGeneration < generation
  /\ pc = "send" => ready.gen = generation
  /\ \A i \in DOMAIN events : IsUpdate(events[i]) =>
       /\ uiGeneration < events[i].gen
       /\ events[i].gen <= generation
       /\ Holding => events[i].gen < generation
       /\ \A j \in DOMAIN events : j < i /\ IsUpdate(events[j]) =>
            events[j].gen < events[i].gen

-----------------------------------------------------------------------------
(* Snapshots: each shows at least what the ones before it showed, and a    *)
(* terminal one all of its command's work.                                 *)

Snapshotting == pc \in {"collect", "final"}

Carries(e) == e.snap # NoSnapshot

SnapshotInv ==
  /\ seen <= disk /\ commandDisk <= disk
  /\ Snapshotting => base <= disk /\ seen <= base
  /\ pc = "final" => commandDisk <= base
  /\ ready.snap <= disk
  /\ pc = "send" /\ Carries(ready) => seen <= ready.snap /\ commandDisk <= ready.snap
  /\ \A i \in DOMAIN events : Carries(events[i]) =>
       /\ IsUpdate(events[i])
       /\ seen <= events[i].snap /\ events[i].snap <= disk
       /\ Snapshotting => events[i].snap <= base
       /\ pc = "send" /\ Carries(ready) => events[i].snap <= ready.snap
       /\ IsTerminal(events[i]) => commandDisk <= events[i].snap
       /\ \A j \in DOMAIN events : j < i /\ Carries(events[j]) =>
            events[j].snap <= events[i].snap

-----------------------------------------------------------------------------
(* A refresh is owed until a snapshot that began after the last change is  *)
(* on its way: to send, to receive, or on screen.                          *)

RefreshQueued == \E i \in DOMAIN requests : requests[i].kind = "Refresh"
ShutdownQueued == \E i \in DOMAIN requests : requests[i].kind = "Shutdown"

\* The worker will still begin a snapshot before it is back at recv().
Refreshing ==
  pc \in {"clear", "debounce", "worktree", "queryRefresh",
          "apply", "git", "prompting"}

Owed ==
  \/ undelivered # {} \/ watcher # "idle" \/ RefreshQueued
  \/ Refreshing

\* An update that decides what the screen shows.
Shows(e) == IsUpdate(e) /\ e.kind # "WatchFailed"

\* A snapshot of the newest version, or the admission that there is none.
Current(v) == v = disk \/ v = NoSnapshot

Delivered ==
  /\ \A i \in DOMAIN events :
       Shows(events[i]) /\ (\A j \in DOMAIN events : j > i => ~Shows(events[j]))
         => Current(events[i].snap)
  /\ (\A i \in DOMAIN events : ~Shows(events[i])) => seen = disk \/ notice

\* What the worker reads, holds or has sent last is the newest version.
Fresh ==
  /\ Snapshotting => base = disk
  /\ pc = "send" => Current(ready.snap)
  /\ ~Snapshotting /\ pc # "send" => Delivered

\* The pending flag is only set while someone is going to clear it.
PendingInv == refreshPending => watcher = "send" \/ RefreshQueued \/ pc = "clear"

RunningInv ==
  watching # "off" => pc # "stopped" /\ job.kind # "Shutdown" /\ ~ShutdownQueued

StartingInv ==
  watching = "starting" =>
    undelivered = {} /\ requests = <<>> /\ watcher = "idle" /\ pc = "recv"

ScreenInv == watching # "off" => Owed \/ Fresh

RefreshInv == PendingInv /\ RunningInv /\ StartingInv /\ ScreenInv

-----------------------------------------------------------------------------
(* The Explorer is owed an invalidation until one that follows the last    *)
(* change to a file is in its channel or has been received.                *)

Sent(e) == \E i \in DOMAIN events : events[i] = e
Asked(r) == \E i \in DOMAIN requests : requests[i] = r

Invalidation == Message("WorktreeChanged", NoId, NoId)

InvalidationOwed ==
  "worktree" \in undelivered \/ worktreePending \/ Sent(Invalidation)

\* The worktree flag is only set while someone is going to take it.
FlagTaken ==
  worktreePending => \/ watcher # "idle" \/ RefreshQueued
                     \/ pc \in {"clear", "debounce", "worktree"}

WorktreeInv ==
  /\ PendingInv /\ StartingInv /\ FlagTaken
  /\ worktreeDisk <= disk
  /\ watching # "off" => InvalidationOwed \/ worktreeSeen >= worktreeDisk

\* Nobody asks before the service has started.
LoadInv == QueryNotLost /\ (watching = "starting" => loads = {})

-----------------------------------------------------------------------------
(* A prompt on screen, or on its way there, is one of a command.           *)

PromptInv ==
  /\ PromptVisible
  /\ uiPrompt # NoPrompt => uiPrompt.id = active /\ active # NoId
  /\ \A i \in DOMAIN events : events[i].kind = "Prompt" => events[i].id # NoId

IInv == TypeOK /\ CommandInv /\ GenerationInv /\ SnapshotInv

=============================================================================
