------------------------------- MODULE Update -------------------------------
(* The updater: any number of `diffo update` processes, started by the       *)
(* update command of the application or from a shell, replace the one        *)
(* executable with the release a server offers. A process can be killed at   *)
(* any point, every step on the file system can fail, and the power can go:  *)
(* then a file whose data was not flushed may have any part of it, and the   *)
(* executable's name may still mean the file it meant before the rename.     *)
(* A release is its number; the content of a file is a sequence of chunks,   *)
(* each marked with the release it belongs to, or Damaged.                   *)
EXTENDS Naturals, Sequences

CONSTANTS
  Processes,     \* the processes that can run at a time
  Newest,        \* the last release ever published
  Chunks,        \* the length of an asset
  Damaged,       \* a chunk of no release
  NoFile,        \* the content of a file that is not there
  NoReport,          \* no report
  MaxOutages     \* bound: power failures

ASSUME UpdateAssumption ==
  /\ Newest \in Nat /\ Chunks \in Nat /\ Chunks > 0 /\ MaxOutages \in Nat
  /\ Damaged \notin 1 .. Newest
  /\ NoFile \notin Seq((1 .. Newest) \cup {Damaged})

VARIABLES
  latest,        \* the release the server offers
  exe,           \* the file at the executable's path: [content, flushed]
  before,        \* the files its name may mean after a power failure
  process,       \* the update processes
  task,          \* the application's update task: [phase, child, stale, cancelled, told]
  outages

updateVars == <<latest, exe, before, process, task, outages>>

Releases == 1 .. Newest
Bytes == Seq(Releases \cup {Damaged})
Whole(r) == [i \in 1 .. Chunks |-> r]
IsWhole(content) == \E r \in Releases : content = Whole(r)
StoredFiles == [content : Bytes, flushed : BOOLEAN]

Idle == [pc |-> "off", image |-> 1, moved |-> FALSE, plan |-> 1, served |-> 1,
         temp |-> NoFile, flushed |-> FALSE, report |-> NoReport, owned |-> FALSE]
NoTask == [phase |-> "idle", child |-> NoReport, stale |-> FALSE, cancelled |-> FALSE,
           told |-> NoReport]

UpdateInit ==
  /\ latest \in Releases
  /\ exe \in {[content |-> Whole(r), flushed |-> TRUE] : r \in 1 .. latest}
  /\ before = {exe}
  /\ process = [p \in Processes |-> Idle]
  /\ task = NoTask /\ outages = 0

Step(p, pc, next) == process[p].pc = pc /\ process' = [process EXCEPT ![p] = next]
Quiet == UNCHANGED <<latest, task, outages>>
OnDisk == UNCHANGED <<exe, before>>

(* --- One `diffo update` process ----------------------------------------- *)

(* The process ends by itself, and its temporary file is removed when        *)
(* dropped. The application's child is not reaped before it is polled.       *)
Ends(p, report) ==
  IF process[p].owned THEN [Idle EXCEPT !.pc = "done", !.report = report, !.owned = TRUE]
                      ELSE Idle
Dies(p) == Ends(p, "failed")
Fails(p, pc) == Step(p, pc, Dies(p)) /\ OnDisk /\ Quiet

Launched == [Idle EXCEPT !.pc = "started", !.image = exe.content[1]]

(* resolved_executable: /proc/self/exe leads nowhere once another process    *)
(* has replaced the file.                                                    *)
Resolves(p) == ~process[p].moved

(* The client is set up and the executable's path is resolved.               *)
Resolve(p) ==
  \/ Fails(p, "started")
  \/ /\ Resolves(p)
     /\ Step(p, "started", [process[p] EXCEPT !.pc = "resolved"]) /\ OnDisk /\ Quiet

(* fetch_limited: the manifest of the release that is the latest now.        *)
FetchManifest(p) ==
  \/ Fails(p, "resolved")
  \/ /\ Step(p, "resolved", [process[p] EXCEPT !.pc = "fetched", !.plan = latest])
     /\ OnDisk /\ Quiet

\* Mutant: the release that runs is installed again.
CheckSame(p) ==
  \/ Fails(p, "fetched")
  \/ /\ Step(p, "fetched", IF process[p].plan < process[p].image
                          THEN Ends(p, "current")
                          ELSE [process[p] EXCEPT !.pc = "planned"])
     /\ OnDisk /\ Quiet

(* parse_manifest: a valid manifest names a release, and the length and the  *)
(* digest of its asset. One that is not newer than this image ends the       *)
(* process well.                                                             *)
Check(p) ==
  \/ Fails(p, "fetched")
  \/ /\ Step(p, "fetched", IF process[p].plan <= process[p].image
                          THEN Ends(p, "current")
                          ELSE [process[p] EXCEPT !.pc = "planned"])
     /\ OnDisk /\ Quiet

(* get and create_temporary: the asset may be of a later release than the    *)
(* manifest.                                                                 *)
Fetch(p) ==
  \/ Fails(p, "planned")
  \/ /\ Step(p, "planned", [process[p] EXCEPT !.pc = "reading", !.served = latest,
                                              !.temp = <<>>])
     /\ OnDisk /\ Quiet

(* One chunk of the body: what was sent, damaged, or one too many. Reading   *)
(* and writing can fail.                                                     *)
Read(p) ==
  \/ Fails(p, "reading")
  \/ \E chunk \in {process[p].served, Damaged} :
       /\ process[p].pc = "reading" /\ Len(process[p].temp) < Chunks
       /\ Step(p, "reading", [process[p] EXCEPT !.temp = Append(@, chunk)])
       /\ OnDisk /\ Quiet

\* Mutant: only the length is verified.
VerifyLength(p) ==
  \/ Fails(p, "reading")
  \/ /\ process[p].pc = "reading" /\ Len(process[p].temp) = Chunks
     /\ Step(p, "reading", [process[p] EXCEPT !.pc = "verified"])
     /\ OnDisk /\ Quiet

(* The body ends, early or not: the length and the digest must be those the  *)
(* manifest named, and the file is made executable.                          *)
Verify(p) ==
  \/ Fails(p, "reading")
  \/ /\ process[p].temp = Whole(process[p].plan)
     /\ Step(p, "reading", [process[p] EXCEPT !.pc = "verified"])
     /\ OnDisk /\ Quiet

(* sync_file.                                                                *)
Flush(p) ==
  \/ Fails(p, "verified")
  \/ Step(p, "verified", [process[p] EXCEPT !.pc = "flushed", !.flushed = TRUE])
     /\ OnDisk /\ Quiet

(* The other processes and the application that run the file that was there. *)
Overtaken(p) ==
  [q \in Processes |->
     IF q = p THEN [process[p] EXCEPT !.pc = "renamed", !.temp = NoFile]
              ELSE [process[q] EXCEPT !.moved = @ \/ process[q].pc # "off"]]

(* rename: the executable's name means the new file; until the directory is  *)
(* flushed a power failure may undo it.                                      *)
Replace(p) ==
  \/ Fails(p, "flushed")
  \/ /\ process[p].pc = "flushed"
     /\ exe' = [content |-> process[p].temp, flushed |-> process[p].flushed]
     /\ before' = before \cup {exe'}
     /\ process' = Overtaken(p)
     /\ task' = [task EXCEPT !.stale = TRUE]
     /\ UNCHANGED <<latest, outages>>

(* sync_directory: afterwards the name means the file it means now.          *)
FlushDirectory(p) ==
  \/ Fails(p, "renamed")
  \/ /\ Step(p, "renamed", Ends(p, "installed"))
     /\ before' = {exe} /\ UNCHANGED exe /\ Quiet

(* Killed, it leaves its temporary file, which nothing reads again.          *)
Kill(p) ==
  /\ process[p].pc \notin {"off", "done"}
  /\ Step(p, process[p].pc, Idle) /\ OnDisk /\ Quiet

(* diffo update in a shell.                                                  *)
RunInShell(p) ==
  /\ task.child # p
  /\ process[p].pc \in {"off", "done"} /\ Step(p, process[p].pc, Launched) /\ OnDisk /\ Quiet

(* --- The application's task --------------------------------------------- *)

Tell(outcome) == task' = [task EXCEPT !.phase = "idle", !.child = NoReport, !.cancelled = FALSE,
                                      !.told = outcome]

(* The update command gets its turn in the queue, and the thread starts the  *)
(* executable it runs itself, which is gone once it was replaced.            *)
StartUpdate(p) ==
  /\ task.phase = "idle" /\ process[p].pc \in {"off", "done"}
  /\ IF task.stale
       THEN Tell("failed") /\ UNCHANGED process
       ELSE /\ task' = [task EXCEPT !.phase = "running", !.child = p, !.told = NoReport]
            /\ process' = [process EXCEPT ![p] = [Launched EXCEPT !.owned = TRUE]]
  /\ OnDisk /\ UNCHANGED <<latest, outages>>

RequestCancel ==
  /\ task.phase = "running" /\ task' = [task EXCEPT !.cancelled = TRUE]
  /\ OnDisk /\ UNCHANGED <<latest, process, outages>>

(* One turn of the polling loop that ends it, and the outcome drained by the *)
(* event loop. The cancellation is looked at first: a child that has just    *)
(* ended is reported as cancelled, whatever it did.                          *)
PollUpdate ==
  /\ task.phase = "running"
  /\ \/ /\ task.cancelled /\ Tell("cancelled")
        /\ process' = [process EXCEPT ![task.child] = IF @.pc = "done" THEN @ ELSE Idle]
     \/ /\ ~task.cancelled /\ process[task.child].pc \in {"off", "done"}
        /\ Tell(IF process[task.child].report \in {"installed", "current"}
                  THEN "updated" ELSE "failed")
        /\ UNCHANGED process
  /\ OnDisk /\ UNCHANGED <<latest, outages>>

(* The application is quit and launched again; its child goes on.            *)
Relaunch ==
  /\ task # NoTask /\ task' = NoTask
  /\ process' = [p \in Processes |-> [process[p] EXCEPT !.owned = FALSE]]
  /\ OnDisk /\ UNCHANGED <<latest, outages>>

(* --- The environment ---------------------------------------------------- *)

Publish ==
  /\ latest < Newest /\ latest' = latest + 1
  /\ OnDisk /\ UNCHANGED <<process, task, outages>>

(* What a power failure can leave of a file.                                 *)
Survives(file, content) ==
  IF file.flushed THEN content = file.content
                  ELSE \E n \in 0 .. Len(file.content) : content = SubSeq(file.content, 1, n)

PowerFails ==
  /\ outages < MaxOutages /\ outages' = outages + 1
  /\ \E file \in before :
       \E content \in {file.content} \cup {SubSeq(file.content, 1, n) : n \in 0 .. Chunks} :
         /\ Survives(file, content)
         /\ exe' = [content |-> content, flushed |-> TRUE]
  /\ before' = {exe'}
  /\ process' = [p \in Processes |-> Idle] /\ task' = NoTask
  /\ UNCHANGED latest

UpdateNext ==
  \/ \E p \in Processes : \/ Resolve(p) \/ FetchManifest(p) \/ Check(p) \/ Fetch(p) \/ Read(p) \/ Verify(p)
                          \/ Flush(p) \/ Replace(p) \/ FlushDirectory(p) \/ Kill(p)
                          \/ RunInShell(p) \/ StartUpdate(p)
  \/ RequestCancel \/ PollUpdate \/ Relaunch \/ Publish \/ PowerFails

UpdateSpec == UpdateInit /\ [][UpdateNext]_updateVars

-----------------------------------------------------------------------------
(* The executable is at every moment, and after a power failure at any       *)
(* moment, one whole release: never part of one, never parts of two.         *)
ExecutableWhole == IsWhole(exe.content)

(* The executable goes to a newer release than the one the process runs, and *)
(* never to an older one than there was, unless another process was faster   *)
(* between this one's manifest and its rename.                               *)
NoDowngrade ==
  [][\A p \in Processes :
       process[p].pc # "renamed" /\ process'[p].pc = "renamed" =>
         /\ exe'.content[1] > process[p].image
         /\ exe'.content[1] <= exe.content[1] => process[p].moved]_updateVars

(* When the application has told how its update ended, no process of it is    *)
(* left that could still replace the executable: a cancelled child is dead,  *)
(* not abandoned.                                                            *)
ToldIsOver ==
  task.phase = "idle" =>
    \A p \in Processes : process[p].owned => process[p].pc \in {"off", "done"}

UpdateTypeOK ==
  /\ latest \in Releases /\ outages \in 0 .. MaxOutages
  /\ process \in [Processes -> [pc : {"off", "started", "resolved", "fetched", "planned", "reading",
                                      "verified", "flushed", "renamed", "done"},
                                image : Releases, moved : BOOLEAN, plan : Releases,
                                served : Releases, temp : Bytes \cup {NoFile},
                                flushed : BOOLEAN, owned : BOOLEAN,
                                report : {NoReport, "failed", "current", "installed"}]]

(* Whatever fails, is killed or is cancelled: the executable stays whole and  *)
(* an update that was told as ended has no process left. (install.rs,        *)
(* update_tasks.rs.)                                                          *)
UpdateSafe == UpdateTypeOK /\ ExecutableWhole /\ ToldIsOver
=============================================================================
