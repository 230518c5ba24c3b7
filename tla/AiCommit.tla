------------------------------ MODULE AiCommit ------------------------------
(* The task behind "i": a commit whose message Codex writes. One command id  *)
(* goes through three actors, each with a channel back to the event loop:    *)
(* the Workbench, which binds the request to the HEAD and the staged files   *)
(* of its snapshot; a thread that runs Codex on that request; and the        *)
(* repository worker, which compares HEAD and the staged files once more and *)
(* runs git commit. The repository can change at any point of this, the      *)
(* snapshot follows late, and "i" pressed again cancels.                     *)
(* A HEAD is the number of commits made, a set of staged files a member of   *)
(* Stagings, a message the state of the repository it was written for.       *)
EXTENDS Naturals

CONSTANTS
  Stagings,    \* the sets of staged files, NothingStaged not among them
  NothingStaged,
  Nothing,      \* no request, message or outcome
  RacesGit,    \* whether another program may commit or stage between the guard's
               \* first read and the end of git commit
  MaxHead      \* bound: commits made in all

ASSUME StagingsAssumption ==
  NothingStaged \notin Stagings /\ Nothing \notin {"Generated", "Failed", "Cancelled"}
ASSUME BoundsAssumption == RacesGit \in BOOLEAN /\ MaxHead \in Nat

VARIABLES
  repo,        \* [head, staged]: the checkout
  snapshot,    \* what the Workbench last read of it
  command,     \* the command: its phase, its request, whether it is cancelling
  ahead,       \* whether another command runs before it
  codex,       \* where the thread is: an outcome once it joins the readers of
               \* its child's output, after which it sends that outcome
  child,       \* its child process: how it ended, and whether it or one of its
               \* descendants holds the output pipes
  outcome,     \* what the thread has sent and the event loop has not drained
  worker,      \* where the repository worker is with the guarded commit
  commits      \* the commits diffo made: [on |-> what was committed, for |-> message]

taskVars == <<repo, snapshot, command, ahead, codex, child, outcome, worker, commits>>

States == [head : 0 .. MaxHead, staged : Stagings \cup {NothingStaged}]
NoCommand == [phase |-> "none", request |-> Nothing, message |-> Nothing, cancelling |-> FALSE]
Outcomes == {"Generated", "Failed", "Cancelled"}
Exited == {"subject", "unusable", "error"}
NoChild == [exit |-> "none", held |-> FALSE]

CommitTypeOK ==
  /\ repo \in States /\ snapshot \in States /\ ahead \in BOOLEAN
  /\ command \in [phase : {"none", "queued", "generating", "committing"},
                  request : States \cup {Nothing}, message : States \cup {Nothing},
                  cancelling : BOOLEAN]
  /\ codex \in {"off", "starting", "found", "writing", "polling"} \cup Outcomes
  /\ child \in [exit : {"none", "running", "killed"} \cup Exited, held : BOOLEAN]
  /\ outcome \in Outcomes \cup {Nothing}
  /\ worker \in {"idle", "guard", "head", "git", "Completed", "Failed", "Cancelled"}
  /\ commits \subseteq [on : States, for : States]

CommitInit ==
  /\ repo \in {r \in States : r.head = 0} /\ snapshot = repo
  /\ command = NoCommand /\ ahead \in BOOLEAN
  /\ codex = "off" /\ child = NoChild
  /\ outcome = Nothing /\ worker = "idle" /\ commits = {}

(* --- The Workbench ------------------------------------------------------ *)

(* i: cancel the AI commit there is, or queue one. With nothing before it in *)
(* the queue the staged files are looked at now.                             *)
RequestAiCommit ==
  /\ command' =
       CASE command.phase = "queued" -> NoCommand
         [] command.phase \in {"generating", "committing"} ->
              [command EXCEPT !.cancelling = TRUE]
         [] command.phase = "none" /\ (ahead \/ snapshot.staged # NothingStaged) ->
              [NoCommand EXCEPT !.phase = "queued"]
         [] OTHER -> command
  /\ UNCHANGED <<repo, snapshot, ahead, codex, child, outcome, worker, commits>>

(* The command before it ends: with success and a new snapshot, or without,  *)
(* which empties the queue.                                                  *)
AheadEnds(staged) ==
  /\ ahead /\ ahead' = FALSE
  /\ \/ /\ repo' = [repo EXCEPT !.staged = staged]
        /\ snapshot' = repo' /\ UNCHANGED command
     \/ /\ command' = NoCommand
        /\ UNCHANGED <<repo, snapshot>>
  /\ UNCHANGED <<codex, child, outcome, worker, commits>>

Bound(s) == [NoCommand EXCEPT !.phase = "generating", !.request = s]

(* The queue hands the command out: the request is bound to the snapshot,    *)
(* and the Codex thread is started on it.                                    *)
TakeAiCommit ==
  /\ command.phase = "queued" /\ ~ahead
  /\ IF snapshot.staged = NothingStaged
       THEN command' = NoCommand /\ UNCHANGED codex
       ELSE command' = Bound(snapshot) /\ codex' = "starting"
  /\ UNCHANGED <<repo, snapshot, ahead, child, outcome, worker, commits>>

StillMatches(request) == request = snapshot

\* Mutant: a message that is there is committed, cancelled or not.
FinishedAnyway ==
  LET hands == outcome = "Generated" /\ StillMatches(command.request)
  IN /\ outcome # Nothing /\ outcome' = Nothing
     /\ command' = IF hands
                     THEN [command EXCEPT !.phase = "committing",
                                          !.message = command.request]
                     ELSE NoCommand
     /\ worker' = IF hands THEN "guard" ELSE worker
     /\ UNCHANGED <<repo, snapshot, ahead, codex, child, commits>>

(* The event loop drains the thread's channel. A cancelling command is       *)
(* cancelled whatever the thread says; a message for another HEAD or other   *)
(* staged files is dropped; else the command becomes a guarded commit, which *)
(* the worker takes over.                                                    *)
AiCommitFinished ==
  LET said == IF command.cancelling THEN "Cancelled" ELSE outcome
      hands == said = "Generated" /\ StillMatches(command.request)
  IN /\ outcome # Nothing /\ outcome' = Nothing
     /\ command' = IF hands
                     THEN [command EXCEPT !.phase = "committing",
                                          !.message = command.request]
                     ELSE NoCommand
     /\ worker' = IF hands THEN "guard" ELSE worker
     /\ UNCHANGED <<repo, snapshot, ahead, codex, child, commits>>

(* The worker's answer, which brings the snapshot it read afterwards.        *)
CommandAnswered ==
  /\ worker \in {"Completed", "Failed", "Cancelled"}
  /\ worker' = "idle" /\ command' = NoCommand /\ snapshot' = repo
  /\ UNCHANGED <<repo, ahead, codex, child, outcome, commits>>

(* A refresh: the watcher's or a completed query's snapshot.                 *)
TakeSnapshot ==
  /\ snapshot' = repo
  /\ UNCHANGED <<repo, command, ahead, codex, child, outcome, worker, commits>>

(* --- The Codex thread --------------------------------------------------- *)

Thread == UNCHANGED <<repo, snapshot, command, ahead, worker, commits>>

Send(o) == codex' = "off" /\ outcome' = o /\ child' = NoChild /\ Thread
Goes(stage, c) == codex' = stage /\ child' = c /\ UNCHANGED outcome /\ Thread

(* The thread looks for the executable, in the PATH and in the login shell's *)
(* PATH, whether the command is cancelled or not.                            *)
FindCodex ==
  /\ codex = "starting"
  /\ (Send("Failed") \/ Goes("found", child))

(* Before the child: cancelled, no schema file, no child.                    *)
StartCodex ==
  /\ codex = "found"
  /\ \/ command.cancelling /\ Send("Cancelled")
     \/ ~command.cancelling /\ Send("Failed")
     \/ ~command.cancelling /\ Goes("writing", [exit |-> "running", held |-> TRUE])

Killed(c) == [c EXCEPT !.exit = IF @ = "running" THEN "killed" ELSE @]

(* The staged changes are written to the child: more than a pipe holds, so   *)
(* the write returns when Codex has taken them or has closed its input. The  *)
(* cancellation is not looked at.                                            *)
WriteContext ==
  /\ codex = "writing"
  /\ (Goes("polling", child) \/ Goes("Failed", Killed(child)))

(* The child exits: with a subject, something else or too much, or an error. *)
CodexExits ==
  /\ child.exit = "running"
  /\ \E exit \in Exited : child' = [child EXCEPT !.exit = exit]
  /\ UNCHANGED <<codex, outcome>> /\ Thread

(* The last process that holds the output pipes lets go of them.             *)
PipesClose ==
  /\ child.exit # "running" /\ child.held
  /\ child' = [child EXCEPT !.held = FALSE]
  /\ UNCHANGED <<codex, outcome>> /\ Thread

FinishCodex(exit) == IF exit = "subject" THEN "Generated" ELSE "Failed"

(* One turn of the polling loop that ends it: a cancelled child is killed    *)
(* and reaped even when it has exited; an exited one is read; one that       *)
(* cannot be waited for is killed.                                           *)
PollCodex ==
  /\ codex = "polling"
  /\ \/ command.cancelling /\ Goes("Cancelled", Killed(child))
     \/ ~command.cancelling /\ child.exit \in Exited /\ Goes(FinishCodex(child.exit), child)
     \/ ~command.cancelling /\ child.exit = "running" /\ Goes("Failed", Killed(child))

(* The output is read to its end, which is when nobody holds the pipes any   *)
(* more; or reading it fails.                                                *)
JoinOutput ==
  /\ codex \in Outcomes /\ ~child.held
  /\ \/ Send(codex)
     \/ codex = "Generated" /\ Send("Failed")

(* --- The repository worker ---------------------------------------------- *)

\* Mutant: the worker trusts the comparison of the event loop.
UncheckedGuard ==
  /\ worker = "head"
  /\ worker' \in IF command.cancelling THEN {"Cancelled"} ELSE {"git", "Failed"}
  /\ UNCHANGED <<repo, snapshot, command, ahead, codex, child, outcome, commits>>

(* single_command::configure reads the repository once more, in processes of *)
(* their own: git status for HEAD ...                                        *)
ReadGuardHead ==
  /\ worker = "guard"
  /\ worker' = IF repo.head = command.request.head THEN "head" ELSE "Failed"
  /\ UNCHANGED <<repo, snapshot, command, ahead, codex, child, outcome, commits>>

(* ... and git diff for the staged files; any of them may fail. After it     *)
(* run_cancellable looks at the cancellation before it spawns git commit.    *)
CheckGuard ==
  /\ worker = "head"
  /\ worker' \in IF repo.staged # command.request.staged THEN {"Failed"}
                 ELSE IF command.cancelling THEN {"Cancelled", "Failed"} ELSE {"git", "Failed"}
  /\ UNCHANGED <<repo, snapshot, command, ahead, codex, child, outcome, commits>>

(* git commit takes HEAD and the index as they are now. The child exits, is  *)
(* signalled before it has committed, or after: then the answer says         *)
(* cancelled all the same.                                                   *)
GitCommit ==
  /\ worker = "git"
  /\ \/ /\ repo.head < MaxHead /\ repo.staged # NothingStaged
        /\ repo' = [head |-> repo.head + 1, staged |-> NothingStaged]
        /\ commits' = commits \cup {[on |-> repo, for |-> command.message]}
        /\ worker' = IF command.cancelling THEN "Cancelled" ELSE "Completed"
     \/ /\ worker' = IF command.cancelling THEN "Cancelled" ELSE "Failed"
        /\ UNCHANGED <<repo, commits>>
  /\ UNCHANGED <<snapshot, command, ahead, codex, child, outcome>>

(* --- The environment ---------------------------------------------------- *)

(* Another program stages, unstages or commits.                              *)
OthersWrite ==
  /\ RacesGit \/ worker \notin {"head", "git"}
  /\ \/ repo' \in {[repo EXCEPT !.staged = s] : s \in Stagings \cup {NothingStaged}}
     \/ repo.head < MaxHead /\ repo' = [head |-> repo.head + 1, staged |-> NothingStaged]
  /\ UNCHANGED <<snapshot, command, ahead, codex, child, outcome, worker, commits>>

CommitNext ==
  \/ RequestAiCommit \/ TakeAiCommit \/ AiCommitFinished \/ CommandAnswered \/ TakeSnapshot
  \/ \E s \in Stagings \cup {NothingStaged} : AheadEnds(s)
  \/ FindCodex \/ StartCodex \/ WriteContext \/ PollCodex \/ JoinOutput
  \/ CodexExits \/ PipesClose
  \/ ReadGuardHead \/ CheckGuard \/ GitCommit
  \/ OthersWrite

CommitSpec == CommitInit /\ [][CommitNext]_taskVars

(* The threads are scheduled and the event loop turns. Codex need not read   *)
(* what it is given, exit or let go of its pipes, and nobody need press a    *)
(* key.                                                                      *)
CommitFairness ==
  /\ WF_taskVars(FindCodex) /\ WF_taskVars(StartCodex)
  /\ WF_taskVars(PollCodex /\ command.cancelling) /\ WF_taskVars(JoinOutput)
  /\ WF_taskVars(AiCommitFinished)
  /\ WF_taskVars(ReadGuardHead) /\ WF_taskVars(CheckGuard) /\ WF_taskVars(GitCommit)
  /\ WF_taskVars(CommandAnswered)

-----------------------------------------------------------------------------
(* Every commit has the message written for exactly what it committed, on    *)
(* the HEAD it was written for: between the snapshot, Codex, the event loop  *)
(* and the worker, each of which can be overtaken by another program.        *)
CommitsWhatWasRead == \A c \in commits : c.on = c.for

(* A cancellation that comes before the hand-off stops the commit, also when *)
(* the message is already in the channel: what reaches the worker was not    *)
(* cancelled, and a commit is made only for a command that is still there.   *)
CancelStopsCommit ==
  [][/\ worker' = "guard" /\ worker = "idle" => ~command.cancelling
     /\ commits' # commits => command.phase = "committing"]_taskVars

(* One command at a time has actors: no thread, child process, outcome or    *)
(* worker is left behind that the next AI commit could take for its own, and *)
(* the child has ended before the thread says how.                           *)
NothingLeftBehind ==
  /\ command.phase \in {"none", "queued"} => codex = "off" /\ outcome = Nothing /\ worker = "idle"
  /\ command.phase = "generating" => worker = "idle" /\ (codex = "off") = (outcome # Nothing)
  /\ command.phase = "committing" => codex = "off" /\ outcome = Nothing /\ worker # "idle"
  /\ codex \in {"off", "starting", "found"} => child = NoChild
  /\ codex \in Outcomes => child.exit # "running"

(* An AI commit commits what Codex read, and leaves no thread or worker      *)
(* behind. (codex_tasks.rs, ai_commit.rs, single_command.rs.)                *)
CommitSound == CommitTypeOK /\ CommitsWhatWasRead /\ NothingLeftBehind

(* Where the thread waits for Codex without looking at the cancellation: it  *)
(* writes to a child that does not read, or reads from one that is gone but  *)
(* whose descendants hold its pipes.                                         *)
WaitsForCodex == codex = "writing" \/ (codex \in Outcomes /\ child.held)

(* A cancelled AI commit ends, in whatever state the cancellation found it   *)
(* and though Codex never exits by itself, unless the thread is left waiting *)
(* for Codex to take its input or for its descendants to end.                *)
CancelEnds == <>[]WaitsForCodex \/ (command.cancelling ~> command.phase = "none")
=============================================================================
