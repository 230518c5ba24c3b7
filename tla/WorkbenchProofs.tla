--------------------------- MODULE WorkbenchProofs ---------------------------
(***************************************************************************)
(* For any number of commands and prompts: one runner runs the active      *)
(* command, a prompt on screen is its prompt, and a command that is gone   *)
(* leaves no mark, no lock and no stranded error; what follows a command   *)
(* goes with it, and a failure is told.  The inductive invariant says      *)
(* which command every mark belongs to, and what keeps a cancelled command *)
(* whose prompt was dismissed from completing.                             *)
(***************************************************************************)
EXTENDS Workbench, SequenceTheorems, WellFoundedInduction, TLAPS

USE WorkbenchAssumption

(* The commands are numbered in the order they were entered.                 *)
Ordered ==
  /\ active.id < nextId
  /\ \A i \in DOMAIN queued : active.id < queued[i].id /\ queued[i].id < nextId
  /\ \A i, j \in DOMAIN queued : i < j => queued[i].id < queued[j].id

(* The one runner of the active command; only Sync asks, a prompt that was   *)
(* asked keeps its command from completing, only a deletion is refused, and  *)
(* a cancelled update reports a failure.                                     *)
ActiveInv ==
  \/ active = NoCommand /\ tasks = {}
  \/ /\ active.id > 0 /\ active.action # None /\ active.state # None
     /\ \E t \in tasks :
          /\ tasks = {t} /\ t.id = active.id /\ t.action = active.action
          /\ t.runner = Runner(t.action)
          /\ t.asking # "no" => t.action = "Sync" /\ t.outcome # "Completed"
          /\ t.outcome = "Refused" => t.action = "Delete"
          /\ t.outcome = "Cancelled" => t.action # "Update"

PromptInv ==
  dialog.top.kind = "Prompt" =>
    /\ active # NoCommand /\ dialog.top = PromptModal(active.id)
    /\ \E t \in tasks : t.asking = "open"

(* The marks are those of the active command, or of the first one of a queue *)
(* that the same batch of input started.                                     *)
MarkInv ==
  /\ active # NoCommand =>
       /\ model.op = IF active.action \in {"AiCommit", "Update"} THEN None ELSE active.action
       /\ model.file => active.action = "Stage"
  /\ active = NoCommand /\ model.op # None =>
       /\ queued # <<>> /\ Head(queued).kind = model.op /\ Head(queued).bound
       /\ model.op \in {"Commit", "Sync"} /\ phase = "input"
  /\ active = NoCommand /\ model.file =>
       /\ queued # <<>> /\ Head(queued).kind = "Stage" /\ Head(queued).bound
       /\ phase = "input"

QueuedKind(k) == \E i \in DOMAIN queued : queued[i].kind = k
HasAi == active.action \in {"AiCommit", "GuardedCommit"} \/ QueuedKind("AiCommit")

(* The composer is locked for an AI commit, or for one that went with the    *)
(* command whose prompt was dismissed, which cannot complete any more.       *)
LockInv ==
  model.ai => \/ HasAi
              \/ /\ active # NoCommand /\ active.state = "Cancelling"
                 /\ \E t \in tasks : t.asking = "stopped"

(* A deletion is entered where no error is, so until its refusal opens the   *)
(* confirmation only a failed refresh can have been shown.                   *)
HasDelete == active.action = "Delete" \/ QueuedKind("Delete")
OnlyRefresh(d) ==
  \/ d.waiting = <<>> /\ (d.top.kind = "Error" => d.top.of = "Refresh")
  \/ Len(d.waiting) = 1 /\ Head(d.waiting) = "Refresh" /\ d.top.kind = "Prompt"
ErrorInv == ErrorsComeUp /\ (HasDelete => OnlyRefresh(dialog))

(* The marks are accounted for unless a click in the batch of input that     *)
(* enters a command can cancel it again.                                     *)
MarksInv == ~BatchedClicks => MarkInv /\ LockInv

WorkbenchInv == TypeOK /\ Ordered /\ ActiveInv /\ PromptInv /\ ErrorInv /\ MarksInv

(***************************************************************************)
(* The queue.                                                              *)
(***************************************************************************)

(* A set of numbers has a least one.                                         *)
LEMMA Least ==
  ASSUME NEW T \in SUBSET Nat, T # {}
  PROVE  \E x \in T : \A y \in T : x <= y
<1> DEFINE R == OpToRel(<, Nat)
<1>1. IsWellFoundedOn(R, Nat) BY NatLessThanWellFounded
<1>2. \E x \in T : \A y \in T : <<y, x>> \notin R
  <2> HIDE DEF R
  <2> QED BY <1>1, WFMin
<1>3. \A x, y \in Nat : y < x => <<y, x>> \in R BY DEF OpToRel
<1>4. \E x \in T : \A y \in T : ~(y < x)
  <2> HIDE DEF R
  <2> QED BY <1>2, <1>3, Zenon
<1> QED BY <1>4

(* A queued command has a number.                                            *)
LEMMA QueueElement ==
  ASSUME queued \in Seq(QueuedCommand), NEW i \in DOMAIN queued
  PROVE  /\ queued[i] \in QueuedCommand /\ queued[i].id \in Nat /\ queued[i].id > 0
         /\ queued[i].id <= MaxCommands
<1>1. queued[i] \in QueuedCommand OBVIOUS
<1> QED BY <1>1 DEF QueuedCommand

(* AiCommitId is the id of the AI commit there is.                           *)
LEMMA AiCommitIdFacts ==
  TypeOK /\ (active.action # None => active.id > 0) =>
    /\ AiCommitId # NoId <=> HasAi
    /\ active.action \in {"AiCommit", "GuardedCommit"} => AiCommitId = active.id
    /\ active.action \notin {"AiCommit", "GuardedCommit"} /\ QueuedKind("AiCommit") =>
         \E i \in DOMAIN queued : queued[i].kind = "AiCommit" /\ AiCommitId = queued[i].id
<1> SUFFICES ASSUME TypeOK, active.action # None => active.id > 0
    PROVE  /\ AiCommitId # NoId <=> HasAi
           /\ active.action \in {"AiCommit", "GuardedCommit"} => AiCommitId = active.id
           /\ active.action \notin {"AiCommit", "GuardedCommit"} /\ QueuedKind("AiCommit") =>
                \E i \in DOMAIN queued : queued[i].kind = "AiCommit" /\ AiCommitId = queued[i].id
  OBVIOUS
<1>0. queued \in Seq(QueuedCommand) BY DEF TypeOK
<1>1. CASE active.action \in {"AiCommit", "GuardedCommit"}
  BY <1>1 DEF AiCommitId, HasAi, NoId, None
<1>2. CASE active.action \notin {"AiCommit", "GuardedCommit"} /\ AiQueued = {}
  BY <1>2 DEF AiCommitId, HasAi, QueuedKind, AiQueued, NoId
<1>3. CASE active.action \notin {"AiCommit", "GuardedCommit"} /\ AiQueued # {}
  <2>1. AiQueued \in SUBSET Nat /\ AiQueued \subseteq DOMAIN queued
    BY <1>0 DEF AiQueued
  <2>2. \E i \in AiQueued : \A j \in AiQueued : i <= j
    BY <1>3, <2>1, Least
  <2> DEFINE i == CHOOSE i \in AiQueued : \A j \in AiQueued : i <= j
  <2>3. i \in AiQueued BY <2>2
  <2>4. AiCommitId = queued[i].id BY <1>3 DEF AiCommitId
  <2> HIDE DEF i
  <2>5. i \in DOMAIN queued /\ queued[i].kind = "AiCommit" BY <2>3 DEF AiQueued
  <2>6. queued[i].id > 0 BY <1>0, <2>5, QueueElement
  <2> QED BY <1>3, <2>4, <2>5, <2>6 DEF HasAi, QueuedKind, NoId
<1> QED BY <1>1, <1>2, <1>3

(* A command goes to the end of the queue.                                   *)
LEMMA EnterFacts ==
  ASSUME TypeOK, Ordered, NEW kind \in Kinds, NEW bound \in BOOLEAN, Enter(kind, bound)
  PROVE  /\ queued' \in Seq(QueuedCommand) /\ nextId' \in 1..(MaxCommands + 1)
         /\ active' = active /\ Ordered' /\ queued' # <<>>
         /\ queued # <<>> => Head(queued') = Head(queued)
         /\ queued = <<>> => Head(queued') = [id |-> nextId, kind |-> kind, bound |-> bound]
         /\ \A k : QueuedKind(k)' <=> QueuedKind(k) \/ k = kind
<1> DEFINE q == [id |-> nextId, kind |-> kind, bound |-> bound]
           n == Len(queued)
<1>1. /\ queued \in Seq(QueuedCommand) /\ nextId \in 1..MaxCommands /\ queued' = Append(queued, q)
      /\ nextId' = nextId + 1 /\ active' = active
  BY DEF Enter, TypeOK
<1>2. q \in QueuedCommand /\ q.id = nextId /\ q.kind = kind
  BY <1>1 DEF QueuedCommand
<1> HIDE DEF q
<1>3. /\ queued' \in Seq(QueuedCommand) /\ DOMAIN queued' = DOMAIN queued \cup {n + 1}
      /\ n \in Nat /\ DOMAIN queued = 1..n
      /\ queued'[n + 1] = q /\ \A i \in 1..n : queued'[i] = queued[i]
      /\ queued' # <<>> /\ (queued # <<>> => Head(queued') = Head(queued))
      /\ (queued = <<>> => Head(queued') = q)
  BY <1>1, <1>2
<1> HIDE DEF n
<1>4. \A i \in 1..n : queued[i].id \in Nat
  BY <1>1, <1>3, QueueElement
<1>5. active.id \in Nat BY DEF TypeOK, ActiveCommand
<1>6. Ordered'
  BY <1>1, <1>2, <1>3, <1>4, <1>5 DEF Ordered
<1>7. \A k : QueuedKind(k)' <=> QueuedKind(k) \/ k = kind
  BY <1>2, <1>3 DEF QueuedKind
<1> QED BY <1>1, <1>3, <1>6, <1>7 DEF q

(* A cancelled command goes with everything behind it.                       *)
LEMMA CancelFacts ==
  ASSUME TypeOK, Ordered, NEW c, Cancel(c), nextId' = nextId
  PROVE  /\ queued' \in Seq(QueuedCommand) /\ active' \in ActiveCommand /\ Ordered'
         /\ \A k : QueuedKind(k)' => QueuedKind(k)
         /\ \/ /\ c = active.id /\ queued' = <<>>
               /\ active' = [active EXCEPT !.state = "Cancelling", !.handle = TRUE]
            \/ /\ c # active.id /\ active' = active
               /\ \E i \in DOMAIN queued :
                    queued[i].id = c /\ (i = 1 => queued' = <<>>)
                    /\ (i # 1 => queued' # <<>> /\ Head(queued') = Head(queued))
<1>1. CASE c = active.id
  <2>1. /\ active' = [active EXCEPT !.state = "Cancelling", !.handle = TRUE] /\ queued' = <<>>
        /\ active \in ActiveCommand
    BY <1>1 DEF Cancel, TypeOK
  <2>2. active' \in ActiveCommand /\ active'.id = active.id
    BY <2>1 DEF ActiveCommand
  <2> QED BY <1>1, <2>1, <2>2 DEF Ordered, QueuedKind
<1>2. CASE c # active.id
  <2>1. PICK i \in DOMAIN queued :
          queued[i].id = c /\ queued' = SubSeq(queued, 1, i - 1) /\ active' = active
    BY <1>2 DEF Cancel
  <2>2. /\ queued \in Seq(QueuedCommand) /\ i \in 1..Len(queued) /\ active \in ActiveCommand
        /\ Len(queued) \in Nat
    BY DEF TypeOK
  <2>3. /\ queued' \in Seq(QueuedCommand) /\ DOMAIN queued' = 1..(i - 1)
        /\ \A j \in 1..(i - 1) : queued'[j] = queued[j] /\ j \in DOMAIN queued
        /\ i = 1 => queued' = <<>>
        /\ i # 1 => queued' # <<>> /\ Head(queued') = Head(queued)
    BY <2>1, <2>2
  <2>4. Ordered' BY <2>1, <2>3 DEF Ordered
  <2>5. \A k : QueuedKind(k)' => QueuedKind(k) BY <2>3 DEF QueuedKind
  <2> QED BY <1>2, <2>1, <2>2, <2>3, <2>4, <2>5
<1> QED BY <1>1, <1>2

(* The first command leaves the queue.                                       *)
LEMMA TakeFacts ==
  ASSUME TypeOK, Ordered, queued # <<>>, queued' = Tail(queued), nextId' = nextId,
         active'.id = Head(queued).id
  PROVE  /\ Head(queued) \in QueuedCommand /\ queued' \in Seq(QueuedCommand) /\ Ordered'
         /\ QueuedKind(Head(queued).kind)
         /\ \A k : QueuedKind(k) <=> QueuedKind(k)' \/ k = Head(queued).kind
<1> DEFINE n == Len(queued)
<1>1. /\ queued \in Seq(QueuedCommand) /\ n \in Nat /\ n > 0 /\ DOMAIN queued = 1..n
      /\ Head(queued) = queued[1] /\ queued[1] \in QueuedCommand
      /\ queued' \in Seq(QueuedCommand) /\ DOMAIN queued' = 1..(n - 1)
      /\ \A i \in 1..(n - 1) : queued'[i] = queued[i + 1]
  BY DEF TypeOK
<1> HIDE DEF n
<1>2. \A i \in 1..n : queued[i].id \in Nat
  BY <1>1, QueueElement
<1>3. Ordered'
  BY <1>1, <1>2 DEF Ordered
<1>4. \A k : QueuedKind(k) <=> QueuedKind(k)' \/ k = Head(queued).kind
  <2>1. ASSUME NEW i \in 1..n, i # 1
        PROVE  i - 1 \in 1..(n - 1) /\ queued'[i - 1] = queued[i]
    <3>1. i - 1 \in 1..(n - 1) /\ (i - 1) + 1 = i BY <1>1, <2>1
    <3> QED BY <1>1, <3>1
  <2>2. \A i \in 1..(n - 1) : i + 1 \in 1..n
    BY <1>1
  <2>3. ASSUME NEW k, QueuedKind(k) PROVE QueuedKind(k)' \/ k = Head(queued).kind
    <3>1. PICK i \in 1..n : queued[i].kind = k BY <1>1, <2>3 DEF QueuedKind
    <3>2. CASE i = 1 BY <1>1, <3>1, <3>2
    <3>3. CASE i # 1 BY <1>1, <2>1, <3>1, <3>3 DEF QueuedKind
    <3> QED BY <3>2, <3>3
  <2>4. ASSUME NEW k, QueuedKind(k)' PROVE QueuedKind(k)
    <3>1. PICK i \in 1..(n - 1) : queued'[i].kind = k BY <1>1, <2>4 DEF QueuedKind
    <3>2. i + 1 \in 1..n /\ queued[i + 1].kind = k BY <1>1, <2>2, <3>1
    <3> QED BY <1>1, <3>2 DEF QueuedKind
  <2>5. 1 \in 1..n BY <1>1
  <2> QED BY <1>1, <2>3, <2>4, <2>5 DEF QueuedKind
<1> QED BY <1>1, <1>3, <1>4 DEF QueuedKind

(***************************************************************************)
(* The modal and the errors behind it.                                     *)
(***************************************************************************)

(* What the handlers keep of a dialog: its errors come up, and it shows only *)
(* a failed refresh while a deletion is under way.                           *)
ErrorsUp(d) == d.waiting # <<>> => d.top.kind \in {"Prompt", "Error"}

(* The modals there are.                                                     *)
LEMMA ModalsTyped ==
  /\ NoModal \in Modals /\ NoModal.kind = None
  /\ \A e \in Errors : ErrorModal(e) \in Modals /\ ErrorModal(e).kind = "Error" /\ ErrorModal(e).of = e
  /\ \A k \in {"Composer", "Confirm"} : Product(k) \in Modals /\ Product(k).kind = k
  /\ \A c \in 1..MaxCommands : PromptModal(c) \in Modals /\ PromptModal(c).kind = "Prompt"
BY DEF Modals, NoModal, ErrorModal, Product, PromptModal, NoId, None

(* A modal is determined by its kind and what it is about.                   *)
LEMMA ModalKinds ==
  ASSUME NEW m \in Modals
  PROVE  /\ m.kind \in {None, "Prompt", "Error", "Composer", "Confirm"}
         /\ m.kind = "Error" => m.of \in Errors /\ m = ErrorModal(m.of)
         /\ m.kind = "Prompt" => m.id \in 1..MaxCommands /\ m = PromptModal(m.id)
BY DEF Modals, NoModal, ErrorModal, Product, PromptModal, NoId, None

(* A modal that is set or closed leaves the waiting errors.                  *)
LEMMA SetModalFacts ==
  ASSUME NEW d \in Dialogs, NEW m \in Modals
  PROVE  /\ SetModal(d, m) \in Dialogs /\ SetModal(d, m).top = m
         /\ SetModal(d, m).waiting = d.waiting
         /\ CloseModal(d) = SetModal(d, NoModal)
BY DEF SetModal, CloseModal, Dialogs

(* Closing a prompt or an error brings the next error up.                    *)
LEMMA ClosingFacts ==
  ASSUME NEW d \in Dialogs, NEW n, n = ShowNextError(CloseModal(d))
  PROVE  /\ n \in Dialogs /\ n.top.kind \in {None, "Error"} /\ ErrorsUp(n)
         /\ OnlyRefresh(d) => OnlyRefresh(n)
<1>1. PICK c : c = CloseModal(d) OBVIOUS
<1>2. c \in Dialogs /\ c.top = NoModal /\ c.waiting = d.waiting /\ d.waiting \in Seq(Errors)
  <2>1. NoModal \in Modals BY ModalsTyped
  <2>2. c = SetModal(d, NoModal) BY <1>1, <2>1, SetModalFacts
  <2> QED BY <2>1, <2>2, SetModalFacts DEF Dialogs
<1>3. CASE d.waiting = <<>>
  <2>1. n = c BY <1>1, <1>2, <1>3 DEF ShowNextError
  <2>2. n.top.kind = None /\ n.waiting = <<>> BY <1>2, <1>3, <2>1, ModalsTyped
  <2> QED BY <1>2, <2>1, <2>2 DEF ErrorsUp, OnlyRefresh, None
<1>4. CASE d.waiting # <<>>
  <2>1. n = [top |-> ErrorModal(Head(d.waiting)), waiting |-> Tail(d.waiting)]
    BY <1>1, <1>2, <1>4 DEF ShowNextError
  <2>2. Head(d.waiting) \in Errors /\ Tail(d.waiting) \in Seq(Errors)
    BY <1>2, <1>4
  <2>3. ErrorModal(Head(d.waiting)) \in Modals /\ ErrorModal(Head(d.waiting)).kind = "Error"
        /\ ErrorModal(Head(d.waiting)).of = Head(d.waiting)
    BY <2>2, ModalsTyped
  <2>4. n \in Dialogs /\ n.top.kind = "Error" /\ n.top.of = Head(d.waiting)
        /\ n.waiting = Tail(d.waiting)
    BY <2>1, <2>2, <2>3 DEF Dialogs
  <2>5. ASSUME OnlyRefresh(d) PROVE Head(d.waiting) = "Refresh" /\ Tail(d.waiting) = <<>>
    <3>1. Len(d.waiting) = 1 /\ Head(d.waiting) = "Refresh" BY <1>4, <2>5 DEF OnlyRefresh
    <3>2. Len(Tail(d.waiting)) = 0 BY <1>2, <1>4, <3>1
    <3>3. Tail(d.waiting) = <<>> BY <2>2, <3>2, EmptySeq
    <3> QED BY <3>1, <3>3
  <2> QED BY <2>4, <2>5 DEF ErrorsUp, OnlyRefresh
<1> QED BY <1>3, <1>4

(* The prompt of a command that ended goes, and only that prompt.            *)
LEMMA ClosePromptFacts ==
  ASSUME NEW d \in Dialogs, NEW c, ErrorsUp(d), d.top.kind = "Prompt" => d.top = PromptModal(c),
         NEW n, n = ClosePrompt(d, c)
  PROVE  /\ n \in Dialogs /\ n.top.kind # "Prompt" /\ ErrorsUp(n)
         /\ OnlyRefresh(d) => OnlyRefresh(n)
<1>1. PromptModal(c).kind = "Prompt" BY DEF PromptModal
<1>2. CASE d.top = PromptModal(c)
  <2>1. n = ShowNextError(CloseModal(d)) BY <1>2 DEF ClosePrompt
  <2> QED BY <2>1, ClosingFacts DEF None
<1>3. CASE d.top # PromptModal(c)
  BY <1>3 DEF ClosePrompt
<1> QED BY <1>2, <1>3

(* An error is on top or behind a prompt or another error.                   *)
LEMMA ShowErrorFacts ==
  ASSUME NEW d \in Dialogs, NEW e \in Errors, ErrorsUp(d), NEW n, n = ShowError(d, e)
  PROVE  /\ n \in Dialogs /\ ErrorsUp(n)
         /\ n.top.kind = "Prompt" <=> d.top.kind = "Prompt"
         /\ n.top.kind = "Prompt" => n.top = d.top
         /\ OnlyRefresh(d) /\ e = "Refresh" => OnlyRefresh(n)
<1>t. d.waiting \in Seq(Errors) /\ d.top \in Modals BY DEF Dialogs
<1>1. CASE d.top.kind \notin {"Prompt", "Error"}
  <2>1. n = SetModal(d, ErrorModal(e)) BY <1>1 DEF ShowError
  <2>0. ErrorModal(e) \in Modals BY ModalsTyped
  <2>2. n \in Dialogs /\ n.top = ErrorModal(e) /\ n.waiting = d.waiting
    BY <2>0, <2>1, SetModalFacts
  <2>3. n.top.kind = "Error" /\ n.top.of = e BY <2>2, ModalsTyped
  <2> QED BY <1>1, <2>2, <2>3 DEF ErrorsUp, OnlyRefresh
<1>2. CASE d.top.kind \in {"Prompt", "Error"} /\ (d.top = ErrorModal(e) \/ Contains(d.waiting, e))
  <2>1. n = d BY <1>2 DEF ShowError
  <2> QED BY <2>1
<1>3. CASE d.top.kind \in {"Prompt", "Error"} /\ d.top # ErrorModal(e) /\ ~Contains(d.waiting, e)
  <2>1. n = [d EXCEPT !.waiting = Append(d.waiting, e)] BY <1>3 DEF ShowError
  <2>2. Append(d.waiting, e) \in Seq(Errors) /\ Append(d.waiting, e) # <<>>
    BY <1>t
  <2>3. n \in Dialogs /\ n.top = d.top /\ n.waiting = Append(d.waiting, e)
    BY <1>t, <2>1, <2>2 DEF Dialogs
  <2>4. ASSUME OnlyRefresh(d), e = "Refresh" PROVE OnlyRefresh(n)
    <3>1. ~(Len(d.waiting) = 1 /\ Head(d.waiting) = "Refresh") BY <1>t, <1>3, <2>4 DEF Contains
    <3>2. d.waiting = <<>> /\ (d.top.kind = "Error" => d.top.of = "Refresh")
      BY <2>4, <3>1 DEF OnlyRefresh
    <3>3. CASE d.top.kind = "Prompt"
      <4>1. Len(Append(d.waiting, e)) = 1 /\ Head(Append(d.waiting, e)) = "Refresh"
        BY <1>t, <2>4, <3>2
      <4> QED BY <2>3, <3>3, <4>1 DEF OnlyRefresh
    <3>4. CASE d.top.kind = "Error"
      <4>1. d.top = ErrorModal(d.top.of) BY <1>t, <3>4, ModalKinds
      <4> QED BY <1>3, <2>4, <3>2, <3>4, <4>1
    <3> QED BY <1>3, <3>3, <3>4
  <2> QED BY <1>3, <2>2, <2>3, <2>4 DEF ErrorsUp
<1> QED BY <1>1, <1>2, <1>3

(* A prompt sends a visible error back to the front.                         *)
LEMMA OpenPromptFacts ==
  ASSUME NEW d \in Dialogs, NEW c \in 1..MaxCommands, NEW n, n = OpenPrompt(d, c)
  PROVE  /\ n \in Dialogs /\ n.top = PromptModal(c) /\ ErrorsUp(n)
         /\ OnlyRefresh(d) /\ d.top.kind # "Prompt" => OnlyRefresh(n)
<1>1. PICK w : w = IF d.top.kind = "Error" THEN <<d.top.of>> \o d.waiting ELSE d.waiting OBVIOUS
<1>2. n = [top |-> PromptModal(c), waiting |-> w] BY <1>1 DEF OpenPrompt
<1>3. d.waiting \in Seq(Errors) /\ d.top \in Modals BY DEF Dialogs
<1>4. w \in Seq(Errors)
  <2>1. d.top.kind = "Error" => d.top.of \in Errors BY <1>3, ModalKinds
  <2> QED BY <1>1, <1>3, <2>1
<1>5. PromptModal(c) \in Modals /\ PromptModal(c).kind = "Prompt" BY ModalsTyped
<1>6. n \in Dialogs /\ n.top = PromptModal(c) /\ n.waiting = w
  BY <1>2, <1>4, <1>5 DEF Dialogs
<1>7. ASSUME OnlyRefresh(d), d.top.kind # "Prompt"
        PROVE  w = <<>> \/ (Len(w) = 1 /\ Head(w) = "Refresh")
  <2>1. d.waiting = <<>> /\ (d.top.kind = "Error" => d.top.of = "Refresh") BY <1>7 DEF OnlyRefresh
  <2>2. CASE d.top.kind = "Error"
    <3>1. w = <<d.top.of>> \o d.waiting /\ d.top.of \in Errors BY <1>1, <1>3, <2>2, ModalKinds
    <3>2. Len(w) = 1 /\ w[1] = d.top.of BY <1>3, <2>1, <3>1
    <3> QED BY <1>4, <2>1, <2>2, <3>2
  <2>3. CASE d.top.kind # "Error" BY <1>1, <2>1, <2>3
  <2> QED BY <2>2, <2>3
<1> QED BY <1>5, <1>6, <1>7 DEF ErrorsUp, OnlyRefresh

(***************************************************************************)
(* The steps of the user.                                                  *)
(***************************************************************************)

(* The one runner is that of the active command.                             *)
LEMMA TheTask ==
  ASSUME TypeOK, ActiveInv, NEW t \in tasks
  PROVE  /\ active # NoCommand /\ tasks = {t} /\ t \in TaskStates
         /\ t.id = active.id /\ t.action = active.action /\ t.runner = Runner(t.action)
         /\ active.id \in 1..MaxCommands /\ active.action \in ActionKinds
         /\ active.state \in {"Running", "Cancelling"}
         /\ t.asking # "no" => t.action = "Sync" /\ t.outcome # "Completed"
         /\ t.outcome = "Refused" => t.action = "Delete"
         /\ t.outcome = "Cancelled" => t.action # "Update"
<1>1. t \in TaskStates /\ active \in ActiveCommand BY DEF TypeOK
<1>2. tasks # {} OBVIOUS
<1>3. /\ active.id > 0 /\ active.action # None /\ active.state # None
      /\ tasks = {t} /\ t.id = active.id /\ t.action = active.action
      /\ t.runner = Runner(t.action)
      /\ t.asking # "no" => t.action = "Sync" /\ t.outcome # "Completed"
      /\ t.outcome = "Refused" => t.action = "Delete"
      /\ t.outcome = "Cancelled" => t.action # "Update"
  BY <1>2 DEF ActiveInv
<1> QED BY <1>1, <1>3 DEF TaskStates, ActiveCommand, NoCommand, NoId

(* An idle workbench has the empty queue and no marks of a command.          *)
LEMMA IdleMarks ==
  ASSUME MarkInv, ~HasWork
  PROVE  active = NoCommand /\ queued = <<>> /\ model.op = None /\ ~model.file
BY DEF MarkInv, HasWork

(* A command is entered from a view or a modal that is neither a prompt nor  *)
(* an error, and only its own mark is set.                                   *)
LEMMA EnterKeeps ==
  ASSUME WorkbenchInv, NEW kind \in Kinds, NEW bound \in BOOLEAN, Enter(kind, bound), Input,
         lastPrompt' = lastPrompt, model' \in Marks,
         dialog.top.kind \notin {"Prompt", "Error"}, dialog' \in {dialog, CloseModal(dialog)},
         \/ model'.op = model.op
         \/ ~HasWork /\ model'.op = kind /\ kind \in {"Commit", "Sync"} /\ bound,
         \/ model'.file = model.file
         \/ ~HasWork /\ kind = "Stage" /\ bound,
         model'.ai => model.ai \/ kind = "AiCommit"
  PROVE  WorkbenchInv'
<1>0. /\ TypeOK /\ Ordered /\ ActiveInv /\ PromptInv /\ ErrorInv /\ MarksInv
      /\ dialog \in Dialogs
  BY DEF WorkbenchInv, TypeOK
<1>1. /\ queued' \in Seq(QueuedCommand) /\ nextId' \in 1..(MaxCommands + 1)
      /\ active' = active /\ Ordered' /\ queued' # <<>>
      /\ queued # <<>> => Head(queued') = Head(queued)
      /\ queued = <<>> => Head(queued') = [id |-> nextId, kind |-> kind, bound |-> bound]
      /\ \A k : QueuedKind(k)' <=> QueuedKind(k) \/ k = kind
  BY <1>0, EnterFacts
<1>2. NoModal \in Modals /\ NoModal.kind = None BY ModalsTyped
<1>3. /\ CloseModal(dialog) \in Dialogs /\ CloseModal(dialog).top = NoModal
      /\ CloseModal(dialog).waiting = dialog.waiting
  BY <1>0, <1>2, SetModalFacts
<1>4. dialog' \in Dialogs /\ dialog'.waiting = <<>> /\ dialog'.top.kind \notin {"Prompt", "Error"}
  BY <1>0, <1>2, <1>3 DEF ErrorInv, ErrorsComeUp, None
<1>5. TypeOK' BY <1>0, <1>1, <1>4 DEF TypeOK, Input
<1>6. ActiveInv' BY <1>0, <1>1 DEF ActiveInv, Input
<1>7. PromptInv' /\ ErrorInv' BY <1>4 DEF PromptInv, ErrorInv, ErrorsComeUp, OnlyRefresh
<1>8. ASSUME ~BatchedClicks PROVE MarkInv' /\ LockInv'
  <2>1. MarkInv /\ LockInv BY <1>0, <1>8 DEF MarksInv
  <2>2. CASE HasWork
    <3>1. model'.op = model.op /\ model'.file = model.file BY <2>2
    <3>2. active = NoCommand => queued # <<>> BY <2>2 DEF HasWork
    <3> QED
      <4>1. MarkInv' BY <1>1, <2>1, <3>1, <3>2 DEF MarkInv, Input
      <4>2. LockInv' BY <1>1, <2>1 DEF LockInv, HasAi, Input
      <4> QED BY <4>1, <4>2
  <2>3. CASE ~HasWork
    <3>1. active = NoCommand /\ queued = <<>> /\ model.op = None /\ model.file = FALSE
      <4>1. model.file \in BOOLEAN BY <1>0 DEF TypeOK, Marks
      <4> QED BY <2>1, <2>3, <4>1, IdleMarks
    <3>2. /\ model'.op # None => model'.op = kind /\ kind \in {"Commit", "Sync"} /\ bound
          /\ model'.file => kind = "Stage" /\ bound
      BY <3>1
    <3>3. Head(queued').kind = kind /\ Head(queued').bound = bound BY <1>1, <3>1
    <3>4. MarkInv' BY <1>1, <3>1, <3>2, <3>3 DEF MarkInv, Input
    <3>5. LockInv' BY <1>1, <2>1 DEF LockInv, HasAi, Input
    <3> QED BY <3>4, <3>5
  <2> QED BY <2>2, <2>3
<1> QED BY <1>1, <1>5, <1>6, <1>7, <1>8 DEF WorkbenchInv, MarksInv

(* What the user enters: a key, the palette, the confirmation.               *)
LEMMA PressingKeeps ==
  ASSUME WorkbenchInv,
         PressStage \/ PressSync \/ (\E typed \in BOOLEAN : PressCommit(typed))
           \/ (\E k \in {"Delete", "Update"} : Choose(k)) \/ ConfirmDelete
  PROVE  WorkbenchInv'
<1>0. model \in Marks BY DEF WorkbenchInv, TypeOK
<1>m. /\ NoModal.kind \notin {"Prompt", "Error"}
      /\ \A k \in {"Composer", "Confirm"} : Product(k).kind \notin {"Prompt", "Error"}
  BY DEF NoModal, Product, None
<1>1. CASE PressStage
  <2>1. CASE EnterFollowup("Stage")
    <3>1. /\ Enter("Stage", FALSE) /\ Input /\ lastPrompt' = lastPrompt /\ model' = model
          /\ dialog.top = NoModal /\ dialog' = dialog
      BY <1>1, <2>1 DEF PressStage, EnterFollowup
    <3> QED BY <1>0, <1>m, <3>1, EnterKeeps DEF Kinds
  <2>2. CASE ~EnterFollowup("Stage")
    <3>1. /\ Enter("Stage", TRUE) /\ Input /\ lastPrompt' = lastPrompt
          /\ model' = [model EXCEPT !.file = TRUE] /\ ~HasWork
          /\ dialog.top = NoModal /\ dialog' = dialog
      BY <1>1, <2>2 DEF PressStage
    <3>2. model' \in Marks /\ model'.op = model.op /\ model'.ai = model.ai
      BY <1>0, <3>1 DEF Marks
    <3> QED BY <1>m, <3>1, <3>2, EnterKeeps DEF Kinds
  <2> QED BY <2>1, <2>2
<1>2. CASE PressSync
  <2>1. /\ Enter("Sync", TRUE) /\ Input /\ lastPrompt' = lastPrompt
        /\ model' = model \/ (~HasWork /\ model' = [model EXCEPT !.op = "Sync"])
        /\ dialog.top = NoModal /\ dialog' = dialog
    BY <1>2 DEF PressSync
  <2>2. /\ model' \in Marks /\ model'.file = model.file /\ model'.ai = model.ai
        /\ model'.op = model.op \/ (~HasWork /\ model'.op = "Sync")
    BY <1>0, <2>1 DEF Marks, ActionKinds, Kinds
  <2> QED BY <1>m, <2>1, <2>2, EnterKeeps DEF Kinds
<1>3. ASSUME NEW typed \in BOOLEAN, PressCommit(typed) PROVE WorkbenchInv'
  <2>1. /\ Input /\ lastPrompt' = lastPrompt /\ dialog.top \in {NoModal, Product("Composer")}
        /\ dialog' = CloseModal(dialog)
    BY <1>3 DEF PressCommit
  <2>2. CASE EnterFollowup("Commit")
    <3>1. Enter("Commit", FALSE) /\ model' = model
      BY <2>2 DEF EnterFollowup
    <3> QED BY <1>0, <1>m, <2>1, <3>1, EnterKeeps DEF Kinds
  <2>3. CASE ~EnterFollowup("Commit")
    <3>1. Enter("Commit", TRUE) /\ model' = [model EXCEPT !.op = "Commit"] /\ ~HasWork
      BY <1>3, <2>3 DEF PressCommit
    <3>2. /\ model' \in Marks /\ model'.file = model.file /\ model'.ai = model.ai
          /\ model'.op = "Commit"
      BY <1>0, <3>1 DEF Marks, ActionKinds, Kinds
    <3> QED BY <1>m, <2>1, <3>1, <3>2, EnterKeeps DEF Kinds
  <2> QED BY <2>2, <2>3
<1>4. ASSUME NEW k \in {"Delete", "Update"}, Choose(k) PROVE WorkbenchInv'
  <2>1. /\ Input /\ lastPrompt' = lastPrompt /\ dialog.top = NoModal /\ dialog' = dialog
        /\ model' = model /\ Enter(k, TRUE)
    BY <1>4 DEF Choose
  <2> QED BY <1>0, <1>m, <2>1, EnterKeeps DEF Kinds
<1>5. CASE ConfirmDelete
  <2>1. /\ Input /\ lastPrompt' = lastPrompt /\ dialog.top = Product("Confirm")
        /\ dialog' = CloseModal(dialog) /\ model' = model /\ Enter("ForceDelete", TRUE)
    BY <1>5 DEF ConfirmDelete
  <2> QED BY <1>0, <1>m, <2>1, EnterKeeps DEF Kinds
<1> QED BY <1>1, <1>2, <1>3, <1>4, <1>5

(* A cancellation keeps what is entered before it; the composer stays locked *)
(* for an AI commit that is left, or one that the cancelled command drags    *)
(* along and whose own end unlocks it.                                       *)
LEMMA CancelKeeps ==
  ASSUME WorkbenchInv, NEW c, c # NoId, Cancel(c), Input, nextId' = nextId, lastPrompt' = lastPrompt,
         dialog' = dialog, model' \in {model, FinishAi(model)},
         ~BatchedClicks /\ phase = "input" /\ CanTake =>
           \E i \in DOMAIN queued : queued[i].id = c /\ queued[i].kind = "AiCommit",
         ~BatchedClicks /\ model'.ai => HasAi'
  PROVE  WorkbenchInv'
<1>0. /\ TypeOK /\ Ordered /\ ActiveInv /\ PromptInv /\ ErrorInv /\ MarksInv /\ model \in Marks
  BY DEF WorkbenchInv, TypeOK
<1>1. /\ queued' \in Seq(QueuedCommand) /\ active' \in ActiveCommand /\ Ordered'
      /\ \A k : QueuedKind(k)' => QueuedKind(k)
      /\ \/ /\ c = active.id /\ queued' = <<>>
            /\ active' = [active EXCEPT !.state = "Cancelling", !.handle = TRUE]
         \/ /\ c # active.id /\ active' = active
            /\ \E i \in DOMAIN queued :
                 queued[i].id = c /\ (i = 1 => queued' = <<>>)
                 /\ (i # 1 => queued' # <<>> /\ Head(queued') = Head(queued))
  BY <1>0, CancelFacts
<1>2. /\ model' \in Marks /\ model'.op = model.op /\ model'.file = model.file
  BY <1>0 DEF FinishAi, Marks
<1>3. TypeOK' BY <1>0, <1>1, <1>2 DEF TypeOK, Input
<1>4. /\ active' # NoCommand <=> active # NoCommand
      /\ active'.id = active.id /\ active'.action = active.action
      /\ active.id > 0 /\ active.state # None => active'.state # None
  <2>1. active \in ActiveCommand /\ NoCommand.id = 0 BY <1>0 DEF TypeOK, NoCommand, NoId
  <2>2. \A i \in DOMAIN queued : queued[i].id > 0 BY <1>0, QueueElement DEF TypeOK
  <2>3. CASE active' = active BY <2>3
  <2>4. CASE c = active.id /\ active' = [active EXCEPT !.state = "Cancelling", !.handle = TRUE]
    <3>1. active # NoCommand BY <2>1, <2>4 DEF NoId
    <3>2. /\ active'.id = active.id /\ active'.action = active.action
          /\ active'.state = "Cancelling"
      BY <2>1, <2>4 DEF ActiveCommand
    <3> QED BY <3>1, <3>2 DEF NoCommand, None
  <2> QED BY <1>1, <2>3, <2>4
<1>5. ActiveInv' BY <1>0, <1>4 DEF ActiveInv, Input
<1>6. PromptInv' BY <1>0, <1>4 DEF PromptInv, Input
<1>7. ErrorInv' BY <1>0, <1>1, <1>4 DEF ErrorInv, ErrorsComeUp, HasDelete
<1>8. ASSUME ~BatchedClicks PROVE MarkInv' /\ LockInv'
  <2>1. MarkInv /\ LockInv BY <1>0, <1>8 DEF MarksInv
  <2>2. LockInv' BY <1>8 DEF LockInv
  <2>3. CASE active # NoCommand BY <1>2, <1>4, <2>1, <2>2, <2>3 DEF MarkInv
  <2>4. CASE active = NoCommand /\ model.op = None /\ ~model.file
    BY <1>2, <1>4, <2>2, <2>4 DEF MarkInv
  <2>5. CASE active = NoCommand /\ (model.op # None \/ model.file)
    <3>1. queued # <<>> /\ phase = "input" /\ Head(queued).kind \in {"Commit", "Sync", "Stage"}
      BY <2>1, <2>5 DEF MarkInv
    <3>2. PICK j \in DOMAIN queued : queued[j].id = c /\ queued[j].kind = "AiCommit"
      BY <1>8, <2>5, <3>1 DEF CanTake
    <3>3. queued[1] = Head(queued) BY <1>0, <3>1 DEF TypeOK
    <3>4. j # 1 BY <3>1, <3>2, <3>3
    <3>5. \A i \in DOMAIN queued : queued[i].id > active.id /\ queued[i].id \in Nat
      BY <1>0, QueueElement DEF Ordered, TypeOK
    <3>6. \A i \in DOMAIN queued : queued[i].id = c => i = j
      <4>1. \A i, k \in DOMAIN queued : i < k => queued[i].id < queued[k].id
        BY <1>0 DEF Ordered
      <4>2. DOMAIN queued \subseteq Nat BY <1>0 DEF TypeOK
      <4> QED BY <3>2, <3>5, <4>1, <4>2
    <3>7. queued' # <<>> /\ Head(queued') = Head(queued) /\ active' = active
      <4>1. active.id \in Nat BY <1>0 DEF TypeOK, ActiveCommand
      <4>2. c # active.id BY <3>2, <3>5, <4>1
      <4> QED BY <1>1, <3>4, <3>6, <4>2
    <3> QED BY <1>2, <2>1, <2>2, <2>5, <3>7 DEF MarkInv, Input
  <2> QED BY <2>2, <2>3, <2>4, <2>5
<1> QED BY <1>1, <1>3, <1>5, <1>6, <1>7, <1>8 DEF WorkbenchInv, MarksInv

(* A row of the queue is clicked, or the AI key is pressed again.            *)
LEMMA CancellingKeeps ==
  ASSUME WorkbenchInv, PressAi \/ (\E c \in 1..MaxCommands : CancelRow(c))
  PROVE  WorkbenchInv'
<1>0. TypeOK /\ Ordered /\ ActiveInv /\ active \in ActiveCommand /\ model \in Marks
  BY DEF WorkbenchInv, TypeOK
<1>1. active.action # None => active.id > 0
  BY DEF WorkbenchInv, ActiveInv, NoCommand
<1>2. /\ AiCommitId # NoId <=> HasAi
      /\ active.action \in {"AiCommit", "GuardedCommit"} => AiCommitId = active.id
      /\ active.action \notin {"AiCommit", "GuardedCommit"} /\ QueuedKind("AiCommit") =>
           \E i \in DOMAIN queued : queued[i].kind = "AiCommit" /\ AiCommitId = queued[i].id
  BY <1>0, <1>1, AiCommitIdFacts
<1>3. CASE PressAi /\ AiCommitId # NoId
  <2>1. /\ Input /\ Cancel(AiCommitId) /\ nextId' = nextId /\ lastPrompt' = lastPrompt
        /\ dialog' = dialog
        /\ model' = IF AiCommitId = active.id THEN model ELSE FinishAi(model)
    BY <1>3 DEF PressAi
  <2>2. CASE active.action \in {"AiCommit", "GuardedCommit"}
    <3>1. active # NoCommand BY <2>2 DEF NoCommand, None
    <3>2. active' = [active EXCEPT !.state = "Cancelling", !.handle = TRUE]
      BY <1>2, <2>1, <2>2 DEF Cancel
    <3>3. HasAi' BY <1>0, <2>2, <3>2 DEF HasAi, ActiveCommand
    <3> QED BY <1>3, <2>1, <3>1, <3>3, CancelKeeps DEF CanTake
  <2>3. CASE active.action \notin {"AiCommit", "GuardedCommit"}
    <3>1. PICK i \in DOMAIN queued : queued[i].kind = "AiCommit" /\ AiCommitId = queued[i].id
      BY <1>2, <1>3, <2>3 DEF HasAi
    <3>2. active.id < queued[i].id BY <1>0 DEF Ordered
    <3>3. AiCommitId # active.id BY <1>0, <3>1, <3>2 DEF ActiveCommand
    <3>4. model' = FinishAi(model) /\ ~model'.ai BY <1>0, <2>1, <3>3 DEF FinishAi, Marks
    <3> QED BY <1>3, <2>1, <3>1, <3>4, CancelKeeps
  <2> QED BY <2>2, <2>3
<1>4. CASE PressAi /\ AiCommitId = NoId
  <2>1. /\ Input /\ Enter("AiCommit", FALSE) /\ lastPrompt' = lastPrompt /\ dialog' = dialog
        /\ dialog.top = NoModal /\ model' = [model EXCEPT !.ai = TRUE]
    BY <1>4 DEF PressAi
  <2>2. /\ model' \in Marks /\ model'.op = model.op /\ model'.file = model.file
    BY <1>0, <2>1 DEF Marks
  <2>3. NoModal.kind \notin {"Prompt", "Error"} BY DEF NoModal, None
  <2> QED BY <2>1, <2>2, <2>3, EnterKeeps DEF Kinds
<1>5. ASSUME NEW c \in 1..MaxCommands, CancelRow(c) PROVE WorkbenchInv'
  <2>1. /\ Input /\ Cancel(c) /\ nextId' = nextId /\ lastPrompt' = lastPrompt /\ dialog' = dialog
        /\ c # NoId /\ (phase = "input" /\ CanTake => BatchedClicks)
        /\ model' = IF AiCommitId' = NoId THEN FinishAi(model) ELSE model
    BY <1>5 DEF CancelRow
  <2>2. model'.ai => AiCommitId' # NoId BY <1>0, <2>1 DEF FinishAi, Marks
  <2>3. TypeOK' /\ (active'.action # None => active'.id > 0)
    <3>1. queued' \in Seq(QueuedCommand) /\ active' \in ActiveCommand
      BY <1>0, <2>1, CancelFacts
    <3>2. model' \in Marks BY <1>0, <2>1 DEF FinishAi, Marks
    <3>3. TypeOK' BY <1>0, <2>1, <3>1, <3>2 DEF TypeOK, Input
    <3>4. active' = active \/ active' = [active EXCEPT !.state = "Cancelling", !.handle = TRUE]
      BY <2>1 DEF Cancel
    <3>5. active'.action = active.action /\ active'.id = active.id
      BY <1>0, <3>4 DEF ActiveCommand
    <3> QED BY <1>1, <3>3, <3>5
  <2>4. AiCommitId' # NoId => HasAi'
    <3>1. (TypeOK /\ (active.action # None => active.id > 0) => (AiCommitId # NoId <=> HasAi))'
      BY AiCommitIdFacts, PTL
    <3> QED BY <2>3, <3>1
  <2> QED BY <2>1, <2>2, <2>4, CancelKeeps
<1> QED BY <1>3, <1>4, <1>5

(* Steps that touch no command: a modal, a refresh.                          *)
LEMMA DialogKeeps ==
  ASSUME WorkbenchInv, phase' \in {"drain", "input"}, snap' \in Snapshots, tasks' = tasks,
         UNCHANGED <<queueVars, model, lastPrompt>>, dialog' \in Dialogs,
         ~BatchedClicks /\ phase' # phase => phase' = "input" \/ active # NoCommand \/ queued = <<>>,
         dialog'.top.kind = "Prompt" => dialog'.top = dialog.top, ErrorsUp(dialog'),
         OnlyRefresh(dialog) => OnlyRefresh(dialog')
  PROVE  WorkbenchInv'
<1>0. TypeOK /\ Ordered /\ ActiveInv /\ PromptInv /\ ErrorInv /\ MarksInv
  BY DEF WorkbenchInv
<1>1. /\ queued' = queued /\ active' = active /\ nextId' = nextId /\ model' = model
      /\ lastPrompt' = lastPrompt
  BY DEF queueVars
<1>2. TypeOK' BY <1>0, <1>1 DEF TypeOK
<1>3. Ordered' /\ ActiveInv' BY <1>0, <1>1 DEF Ordered, ActiveInv
<1>4. PromptInv' BY <1>0, <1>1 DEF PromptInv
<1>5. ErrorInv' BY <1>0, <1>1 DEF ErrorInv, ErrorsComeUp, ErrorsUp, HasDelete, QueuedKind
<1>6. ASSUME ~BatchedClicks PROVE MarkInv' /\ LockInv'
  <2>1. MarkInv /\ LockInv BY <1>0, <1>6 DEF MarksInv
  <2>2. LockInv' BY <1>0, <1>1, <2>1 DEF LockInv, HasAi, QueuedKind
  <2>3. MarkInv' BY <1>1, <1>6, <2>1 DEF MarkInv
  <2> QED BY <2>2, <2>3
<1> QED BY <1>2, <1>3, <1>4, <1>5, <1>6 DEF WorkbenchInv, MarksInv

(* The modals that are neither a prompt nor an error open on nothing and     *)
(* close to nothing; an acknowledged error brings the next one up.           *)
LEMMA ModalsKeep ==
  ASSUME WorkbenchInv, OpenComposer \/ CloseComposer \/ DeclineDelete \/ DismissError
  PROVE  WorkbenchInv'
<1>0. dialog \in Dialogs /\ ErrorsUp(dialog) /\ snap \in Snapshots
  BY DEF WorkbenchInv, TypeOK, ErrorInv, ErrorsComeUp, ErrorsUp
<1>1. CASE DismissError
  <2>1. /\ Input /\ UNCHANGED <<queueVars, model, lastPrompt>>
        /\ dialog' = ShowNextError(CloseModal(dialog))
    BY <1>1 DEF DismissError
  <2>2. /\ dialog' \in Dialogs /\ dialog'.top.kind \in {None, "Error"} /\ ErrorsUp(dialog')
        /\ OnlyRefresh(dialog) => OnlyRefresh(dialog')
    BY <1>0, <2>1, ClosingFacts
  <2>3. phase' = "input" /\ snap' = snap /\ tasks' = tasks BY <2>1 DEF Input
  <2> QED BY <1>0, <2>1, <2>2, <2>3, DialogKeeps DEF None
<1>2. CASE OpenComposer \/ CloseComposer \/ DeclineDelete
  <2>1. /\ Input /\ UNCHANGED <<queueVars, model, lastPrompt>>
        /\ dialog.top \in {NoModal, Product("Composer"), Product("Confirm")}
        /\ dialog' \in {SetModal(dialog, Product("Composer")), CloseModal(dialog)}
    BY <1>2 DEF OpenComposer, CloseComposer, DeclineDelete
  <2>2. /\ NoModal \in Modals /\ Product("Composer") \in Modals
        /\ \A m \in {NoModal, Product("Composer"), Product("Confirm")} :
             m.kind \notin {"Prompt", "Error"}
    BY DEF Modals, NoModal, Product, None
  <2>3. /\ dialog' \in Dialogs /\ dialog'.waiting = dialog.waiting
        /\ dialog'.top \in {NoModal, Product("Composer")}
    BY <1>0, <2>1, <2>2, SetModalFacts
  <2>4. dialog.waiting = <<>> BY <1>0, <2>1, <2>2 DEF ErrorsUp
  <2>5. ErrorsUp(dialog') /\ OnlyRefresh(dialog')
    BY <2>2, <2>3, <2>4 DEF ErrorsUp, OnlyRefresh
  <2>6. phase' = "input" /\ snap' = snap /\ tasks' = tasks BY <2>1 DEF Input
  <2> QED BY <1>0, <2>1, <2>2, <2>3, <2>5, <2>6, DialogKeeps
<1> QED BY <1>1, <1>2

(* An answer goes to the one task; a refused prompt cancels its command,     *)
(* whose AI commit unlocks the composer when the command ends.               *)
LEMMA AnswerKeeps ==
  ASSUME WorkbenchInv, NEW a \in {"Text", "Cancel"}, AnswerPrompt(a)
  PROVE  WorkbenchInv'
<1>0. /\ TypeOK /\ Ordered /\ ActiveInv /\ PromptInv /\ ErrorInv /\ MarksInv
      /\ dialog \in Dialogs /\ active \in ActiveCommand
  BY DEF WorkbenchInv, TypeOK
<1>1. /\ phase' = "input" /\ dialog.top.kind = "Prompt"
      /\ dialog' = ShowNextError(CloseModal(dialog))
      /\ nextId' = nextId /\ snap' = snap /\ model' = model
      /\ IF a = "Cancel" THEN Cancel(dialog.top.id) ELSE active' = active /\ queued' = queued
  BY DEF AnswerPrompt
<1>2. PICK t \in tasks :
        /\ t.id = dialog.top.id /\ lastPrompt' = t.prompts
        /\ tasks' = (tasks \ {t}) \cup {Answered(t, a = "Text" /\ ~active.handle)}
  BY DEF AnswerPrompt
<1>3. PICK accepted \in BOOLEAN : accepted = (a = "Text" /\ ~active.handle) OBVIOUS
<1>4. PICK u : u = Answered(t, accepted) OBVIOUS
<1>5. /\ active # NoCommand /\ tasks = {t} /\ t \in TaskStates
      /\ t.id = active.id /\ t.action = active.action /\ t.runner = Runner(t.action)
      /\ active.id \in 1..MaxCommands /\ active.state \in {"Running", "Cancelling"}
      /\ t.asking # "no" => t.action = "Sync" /\ t.outcome # "Completed"
      /\ t.outcome = "Refused" => t.action = "Delete"
      /\ t.outcome = "Cancelled" => t.action # "Update"
  BY <1>0, TheTask
<1>6. t.asking = "open" BY <1>0, <1>1, <1>5 DEF PromptInv
<1>7. /\ u \in TaskStates /\ u.id = t.id /\ u.action = t.action /\ u.runner = t.runner
      /\ u.outcome = t.outcome /\ u.asking = (IF accepted THEN "no" ELSE "stopped")
  BY <1>4, <1>5 DEF Answered, TaskStates
<1>8. tasks' = {u} BY <1>2, <1>3, <1>4, <1>5
<1>9. /\ active' \in ActiveCommand /\ queued' \in Seq(QueuedCommand) /\ Ordered'
      /\ active'.id = active.id /\ active'.action = active.action
      /\ active'.state \in {"Running", "Cancelling"} /\ active' # NoCommand
      /\ \/ active' = active /\ queued' = queued
         \/ a = "Cancel" /\ active'.state = "Cancelling" /\ queued' = <<>>
  <2>1. CASE a = "Text"
    <3>1. active' = active /\ queued' = queued BY <1>1, <2>1
    <3> QED BY <1>0, <1>1, <1>5, <3>1 DEF Ordered, TypeOK
  <2>2. CASE a = "Cancel"
    <3>1. Cancel(active.id) BY <1>1, <1>2, <1>5, <2>2
    <3>2. /\ active' = [active EXCEPT !.state = "Cancelling", !.handle = TRUE]
          /\ queued' = <<>>
      BY <3>1 DEF Cancel
    <3>3. active' \in ActiveCommand /\ queued' \in Seq(QueuedCommand) /\ Ordered'
      BY <1>0, <1>1, <3>1, CancelFacts
    <3>4. /\ active'.id = active.id /\ active'.action = active.action
          /\ active'.state = "Cancelling"
      BY <1>0, <3>2 DEF ActiveCommand
    <3> QED BY <1>5, <2>2, <3>2, <3>3, <3>4 DEF NoCommand, NoId
  <2> QED BY <2>1, <2>2
<1>10. /\ dialog' \in Dialogs /\ dialog'.top.kind \in {None, "Error"} /\ ErrorsUp(dialog')
       /\ OnlyRefresh(dialog) => OnlyRefresh(dialog')
  BY <1>0, <1>1, ClosingFacts
<1>11. TypeOK'
  <2>1. lastPrompt' \in 0..MaxPrompts BY <1>2, <1>5 DEF TaskStates
  <2> QED BY <1>0, <1>1, <1>7, <1>8, <1>9, <1>10, <2>1 DEF TypeOK
<1>12. ActiveInv' BY <1>5, <1>6, <1>7, <1>8, <1>9 DEF ActiveInv, None, ActionKinds, Kinds
<1>13. PromptInv' BY <1>10 DEF PromptInv, None
<1>14. ErrorInv' BY <1>0, <1>9, <1>10 DEF ErrorInv, ErrorsComeUp, ErrorsUp, HasDelete, QueuedKind
<1>15. ASSUME ~BatchedClicks PROVE MarkInv' /\ LockInv'
  <2>1. MarkInv /\ LockInv BY <1>0, <1>15 DEF MarksInv
  <2>2. MarkInv' BY <1>1, <1>5, <1>9, <2>1 DEF MarkInv
  <2>3. model.ai => HasAi BY <1>5, <1>6, <2>1 DEF LockInv
  <2>4. LockInv' BY <1>1, <1>3, <1>7, <1>8, <1>9, <2>3 DEF LockInv, HasAi, QueuedKind
  <2> QED BY <2>2, <2>4
<1> QED BY <1>9, <1>11, <1>12, <1>13, <1>14, <1>15 DEF WorkbenchInv, MarksInv

(***************************************************************************)
(* The runners.                                                            *)
(***************************************************************************)

(* What a runner does on its own changes its state only: it stays the        *)
(* runner of its command, and an asked prompt keeps it from completing.      *)
LEMMA BecomesKeeps ==
  ASSUME WorkbenchInv, NEW t \in tasks, NEW u \in TaskStates, Becomes(t, u),
         u.id = t.id, u.action = t.action, u.runner = t.runner,
         t.asking # "no" => u.asking = t.asking,
         u.asking # "no" => u.action = "Sync" /\ u.outcome # "Completed",
         u.outcome = "Refused" => u.action = "Delete",
         u.outcome = "Cancelled" => u.action # "Update"
  PROVE  WorkbenchInv'
<1>0. TypeOK /\ Ordered /\ ActiveInv /\ PromptInv /\ ErrorInv /\ MarksInv
  BY DEF WorkbenchInv
<1>1. /\ queued' = queued /\ active' = active /\ nextId' = nextId /\ snap' = snap /\ model' = model
      /\ dialog' = dialog /\ lastPrompt' = lastPrompt /\ phase' = phase
      /\ tasks' = (tasks \ {t}) \cup {u}
  BY DEF Becomes, queueVars
<1>2. /\ active # NoCommand /\ tasks = {t}
      /\ t.id = active.id /\ t.action = active.action /\ t.runner = Runner(t.action)
  BY <1>0, TheTask
<1>3. tasks' = {u} BY <1>1, <1>2
<1>4. TypeOK' BY <1>0, <1>1, <1>3 DEF TypeOK
<1>5. Ordered' BY <1>0, <1>1 DEF Ordered
<1>6. ActiveInv' BY <1>0, <1>1, <1>2, <1>3 DEF ActiveInv
<1>7. PromptInv' BY <1>0, <1>1, <1>2, <1>3 DEF PromptInv
<1>8. ErrorInv' BY <1>0, <1>1 DEF ErrorInv, ErrorsComeUp, HasDelete, QueuedKind
<1>9. ASSUME ~BatchedClicks PROVE MarkInv' /\ LockInv'
  <2>1. MarkInv /\ LockInv BY <1>0, <1>9 DEF MarksInv
  <2>2. MarkInv' BY <1>1, <2>1 DEF MarkInv
  <2>3. LockInv' BY <1>1, <1>2, <1>3, <2>1 DEF LockInv, HasAi, QueuedKind
  <2> QED BY <2>2, <2>3
<1> QED BY <1>4, <1>5, <1>6, <1>7, <1>8, <1>9 DEF WorkbenchInv, MarksInv

(* Git, Codex or an update proceeds, or the helper that asked goes away.     *)
LEMMA RunnersKeep ==
  ASSUME WorkbenchInv, Runners
  PROVE  WorkbenchInv'
<1>1. PICK t \in tasks :
        \/ \E o \in Outcomes \cup {"Refused"}, s \in Snapshots : GitEnds(t, o, s)
        \/ \E o \in Outcomes : CodexEnds(t, o) \/ UpdateEnds(t, o)
        \/ GitAsks(t) \/ HelperDisconnects(t)
  BY DEF Runners
<1>2. TypeOK /\ Ordered /\ ActiveInv /\ PromptInv /\ ErrorInv /\ MarksInv /\ active \in ActiveCommand
  BY DEF WorkbenchInv, TypeOK
<1>3. /\ active # NoCommand /\ tasks = {t} /\ t \in TaskStates
      /\ t.action = active.action /\ t.runner = Runner(t.action)
      /\ active.id \in 1..MaxCommands /\ active.state \in {"Running", "Cancelling"}
      /\ t.asking # "no" => t.action = "Sync" /\ t.outcome # "Completed"
      /\ t.outcome = "Refused" => t.action = "Delete"
      /\ t.outcome = "Cancelled" => t.action # "Update"
  BY <1>2, TheTask
<1>4. ASSUME NEW o \in Outcomes \cup {"Refused"}, NEW s \in Snapshots, GitEnds(t, o, s)
      PROVE  WorkbenchInv'
  <2>1. Becomes(t, [t EXCEPT !.outcome = o, !.snap = s]) /\ o \in GitOutcomes(t)
    BY <1>4 DEF GitEnds
  <2>2. (t.asking # "no" => o # "Completed") /\ (o = "Refused" => t.action = "Delete")
    BY <2>1 DEF GitOutcomes
  <2>5. t.action # "Update" BY <1>3, <1>4 DEF GitEnds, Runner
  <2>3. PICK u : u = [t EXCEPT !.outcome = o, !.snap = s] OBVIOUS
  <2>4. /\ u \in TaskStates /\ u.id = t.id /\ u.action = t.action /\ u.runner = t.runner
        /\ u.asking = t.asking /\ u.outcome = o
    BY <1>3, <1>4, <2>3 DEF TaskStates, Outcomes
  <2> QED BY <1>3, <2>1, <2>2, <2>3, <2>4, <2>5, BecomesKeeps
<1>5. ASSUME NEW o \in Outcomes, CodexEnds(t, o) \/ UpdateEnds(t, o)
      PROVE  WorkbenchInv'
  <2>1. /\ Becomes(t, [t EXCEPT !.outcome = o]) /\ t.runner \in {"codex", "update"}
        /\ t.runner = "update" => o # "Cancelled"
    BY <1>5 DEF CodexEnds, UpdateEnds
  <2>2. t.asking = "no" BY <1>3, <2>1 DEF Runner
  <2>3. PICK u : u = [t EXCEPT !.outcome = o] OBVIOUS
  <2>4. /\ u \in TaskStates /\ u.id = t.id /\ u.action = t.action /\ u.runner = t.runner
        /\ u.asking = t.asking /\ u.outcome = o /\ u.outcome # "Refused"
    BY <1>3, <1>5, <2>3 DEF TaskStates, Outcomes
  <2>5. o = "Cancelled" => t.action # "Update" BY <1>3, <2>1 DEF Runner
  <2> QED BY <2>1, <2>2, <2>3, <2>4, <2>5, BecomesKeeps
<1>6. CASE GitAsks(t)
  <2>1. /\ Becomes(t, [t EXCEPT !.asking = "sent", !.prompts = @ + 1])
        /\ t.action = "Sync" /\ t.outcome = "running" /\ t.asking = "no" /\ t.prompts < MaxPrompts
    BY <1>6 DEF GitAsks, Running
  <2>2. PICK u : u = [t EXCEPT !.asking = "sent", !.prompts = @ + 1] OBVIOUS
  <2>3. /\ u \in TaskStates /\ u.id = t.id /\ u.action = t.action /\ u.runner = t.runner
        /\ u.outcome = t.outcome
    <3>1. t.prompts + 1 \in 0..MaxPrompts BY <1>3, <2>1 DEF TaskStates
    <3>2. u = [t EXCEPT !.asking = "sent", !.prompts = t.prompts + 1] BY <2>2
    <3> QED BY <1>3, <3>1, <3>2 DEF TaskStates
  <2> QED BY <2>1, <2>2, <2>3, BecomesKeeps
<1>7. CASE HelperDisconnects(t)
  <2>1. /\ active' = [active EXCEPT !.handle = TRUE]
        /\ queued' = queued /\ nextId' = nextId /\ snap' = snap /\ model' = model
        /\ dialog' = dialog /\ lastPrompt' = lastPrompt /\ tasks' = tasks /\ phase' = phase
    BY <1>7 DEF HelperDisconnects
  <2>2. /\ active' \in ActiveCommand /\ active'.id = active.id /\ active'.action = active.action
        /\ active'.state = active.state
    BY <1>2, <2>1 DEF ActiveCommand
  <2>3. active' # NoCommand BY <1>3, <2>2 DEF NoCommand, NoId
  <2>4. TypeOK' BY <1>2, <2>1, <2>2 DEF TypeOK
  <2>5. Ordered' BY <1>2, <2>1, <2>2 DEF Ordered
  <2>6. ActiveInv' BY <1>2, <1>3, <2>1, <2>2 DEF ActiveInv
  <2>7. PromptInv' BY <1>2, <2>1, <2>2, <2>3 DEF PromptInv
  <2>8. ErrorInv' BY <1>2, <2>1, <2>2 DEF ErrorInv, ErrorsComeUp, HasDelete, QueuedKind
  <2>9. ASSUME ~BatchedClicks PROVE MarkInv' /\ LockInv'
    <3>1. MarkInv /\ LockInv BY <1>2, <2>9 DEF MarksInv
    <3>2. MarkInv' BY <1>3, <2>1, <2>2, <2>3, <3>1 DEF MarkInv
    <3>3. LockInv' BY <1>3, <2>1, <2>2, <2>3, <3>1 DEF LockInv, HasAi, QueuedKind
    <3> QED BY <3>2, <3>3
  <2> QED BY <2>4, <2>5, <2>6, <2>7, <2>8, <2>9 DEF WorkbenchInv, MarksInv
<1> QED BY <1>1, <1>4, <1>5, <1>6, <1>7

(***************************************************************************)
(* The reports.                                                            *)
(***************************************************************************)

(* A report ends the active command: no prompt of it stays, and its marks go.*)
LEMMA EndsKeeps ==
  ASSUME WorkbenchInv, NEW t \in tasks, tasks' = tasks \ {t}, active' = NoCommand,
         queued' \in {queued, <<>>}, nextId' = nextId, snap' \in Snapshots,
         phase' = "drain", lastPrompt' \in 0..MaxPrompts, model' \in Marks, dialog' \in Dialogs,
         dialog'.top.kind # "Prompt", ErrorsUp(dialog'),
         queued' # <<>> /\ OnlyRefresh(dialog) => OnlyRefresh(dialog'),
         ~BatchedClicks => /\ model'.op = None /\ ~model'.file
                           /\ model'.ai => queued' = queued /\ QueuedKind("AiCommit")
  PROVE  WorkbenchInv'
<1>0. TypeOK /\ Ordered /\ ActiveInv /\ PromptInv /\ ErrorInv /\ MarksInv
  BY DEF WorkbenchInv
<1>1. tasks = {t} /\ active.id \in 1..MaxCommands BY <1>0, TheTask
<1>2. tasks' = {} BY <1>1
<1>3. NoCommand \in ActiveCommand /\ NoCommand.id = 0 /\ NoCommand.action = None
  BY DEF NoCommand, ActiveCommand, NoId, None, Snapshots
<1>4. TypeOK'
  <2>1. queued' \in Seq(QueuedCommand) BY <1>0, EmptySeq DEF TypeOK
  <2> QED BY <1>0, <1>2, <1>3, <2>1 DEF TypeOK
<1>5. Ordered'
  <2>1. CASE queued' = queued
    <3>1. \A i \in DOMAIN queued : queued[i].id > 0 BY <1>0, QueueElement DEF TypeOK
    <3> QED BY <1>0, <1>1, <1>3, <2>1, <3>1 DEF Ordered, TypeOK
  <2>2. CASE queued' = <<>> BY <1>0, <1>3, <2>2 DEF Ordered, TypeOK
  <2> QED BY <2>1, <2>2
<1>6. ActiveInv' BY <1>2 DEF ActiveInv
<1>7. PromptInv' BY DEF PromptInv
<1>8. ErrorInv'
  <2>1. HasDelete' => QueuedKind("Delete") /\ queued' = queued /\ queued' # <<>>
    BY <1>3 DEF HasDelete, QueuedKind, None
  <2> QED BY <1>0, <2>1 DEF ErrorInv, ErrorsComeUp, ErrorsUp, HasDelete
<1>9. ASSUME ~BatchedClicks PROVE MarkInv' /\ LockInv'
  <2>1. MarkInv' BY <1>9 DEF MarkInv
  <2>2. LockInv' BY <1>9 DEF LockInv, HasAi, QueuedKind
  <2> QED BY <2>1, <2>2
<1> QED BY <1>4, <1>5, <1>6, <1>7, <1>8, <1>9 DEF WorkbenchInv, MarksInv

(* A command that was given up leaves no mark of its own and no lock.        *)
LEMMA GivenUp ==
  ASSUME NEW m \in Marks, NEW a \in ActionKinds, NEW f, f = FinishAi(m),
         NEW n \in {CancelOperation(f, a), FailOperation(f, a)}
  PROVE  /\ n \in Marks /\ n.ai = FALSE
         /\ m.op = a /\ (m.file => a = "Stage") => n.op = None /\ n.file = FALSE
<1>1. f \in Marks /\ f.ai = FALSE /\ f.op = m.op /\ f.file = m.file
  BY DEF FinishAi, Marks
<1>2. CASE n = CancelOperation(f, a)
  <2>1. /\ n.op = IF f.op = a THEN None ELSE f.op
        /\ n.file = (f.file /\ a # "Stage")
        /\ n.ai = (f.ai /\ ~(f.op = a /\ a = "GuardedCommit"))
        /\ n = [op |-> n.op, file |-> n.file, ai |-> n.ai]
    BY <1>2 DEF CancelOperation
  <2> QED BY <1>1, <2>1 DEF Marks
<1>3. CASE n = FailOperation(f, a) /\ AcceptsFailure(f, a)
  <2>1. /\ n.op = None
        /\ n.file = (f.file /\ a # "Stage")
        /\ n.ai = (f.ai /\ a # "GuardedCommit")
        /\ n = [op |-> n.op, file |-> n.file, ai |-> n.ai]
    BY <1>3 DEF FailOperation
  <2> QED BY <1>1, <2>1 DEF Marks
<1>4. CASE n = FailOperation(f, a) /\ ~AcceptsFailure(f, a)
  <2>1. n = f BY <1>4 DEF FailOperation
  <2>2. f.op # a BY <1>4 DEF AcceptsFailure, SameOperation
  <2> QED BY <1>1, <2>1, <2>2
<1> QED BY <1>2, <1>3, <1>4

(* A Git command reports.                                                    *)
LEMMA GitReportKeeps ==
  ASSUME WorkbenchInv, NEW t \in tasks,
         ReceiveCompleted(t) \/ ReceiveCancelled(t) \/ ReceiveFailed(t) \/ ReceiveRefused(t)
  PROVE  WorkbenchInv'
<1>0. /\ TypeOK /\ Ordered /\ ActiveInv /\ PromptInv /\ ErrorInv /\ MarksInv
      /\ dialog \in Dialogs /\ model \in Marks /\ snap \in Snapshots /\ ErrorsUp(dialog)
  BY DEF WorkbenchInv, TypeOK, ErrorInv, ErrorsComeUp, ErrorsUp
<1>1. /\ active # NoCommand /\ tasks = {t} /\ t \in TaskStates
      /\ t.id = active.id /\ t.action = active.action /\ t.runner = Runner(t.action)
      /\ active.action \in ActionKinds
      /\ t.asking # "no" => t.action = "Sync" /\ t.outcome # "Completed"
      /\ t.outcome = "Refused" => t.action = "Delete"
      /\ t.outcome = "Cancelled" => t.action # "Update"
  BY <1>0, TheTask
<1>2. /\ phase' = "drain" /\ nextId' = nextId /\ tasks' = tasks \ {t} /\ active' = NoCommand
      /\ queued' \in {queued, <<>>} /\ lastPrompt' = 0 /\ snap' \in Snapshots
      /\ t.runner = "git"
  <2>1. t.snap \in Snapshots BY <1>1 DEF TaskStates
  <2> QED BY <1>0, <2>1
       DEF ReceiveCompleted, ReceiveCancelled, ReceiveFailed, ReceiveRefused, Drain, Reports, Acknowledge
<1>3. t.action \notin {"AiCommit", "Update"} BY <1>1, <1>2 DEF Runner
<1>4. PICK d : d = ClosePrompt(dialog, t.id) OBVIOUS
<1>5. dialog.top.kind = "Prompt" => dialog.top = PromptModal(t.id)
  BY <1>0, <1>1 DEF PromptInv
<1>6. /\ d \in Dialogs /\ d.top.kind # "Prompt" /\ ErrorsUp(d)
      /\ OnlyRefresh(dialog) => OnlyRefresh(d)
  BY <1>0, <1>4, <1>5, ClosePromptFacts
<1>7. ~BatchedClicks => /\ model.op = t.action
                        /\ model.file => t.action = "Stage"
  BY <1>0, <1>1, <1>3 DEF MarksInv, MarkInv
<1>9. CASE ReceiveCompleted(t)
  <2>1. /\ dialog' = d /\ model' = CompleteOperation(model, t.action) /\ t.outcome = "Completed"
        /\ queued' = queued
    BY <1>4, <1>9 DEF ReceiveCompleted, Acknowledge
  <2>2. ASSUME ~BatchedClicks
        PROVE  /\ model'.op = None /\ ~model'.file
               /\ model'.ai => QueuedKind("AiCommit")
    <3>1. model'.op = None /\ ~model'.file BY <1>7, <2>1, <2>2 DEF CompleteOperation
    <3>2. ASSUME model'.ai PROVE model.ai /\ t.action \notin {"Commit", "GuardedCommit"}
      BY <1>7, <2>1, <2>2, <3>2 DEF CompleteOperation
    <3>3. ASSUME model.ai PROVE HasAi
      BY <1>0, <1>1, <2>1, <2>2, <3>3 DEF MarksInv, LockInv
    <3> QED BY <1>1, <1>3, <3>1, <3>2, <3>3 DEF HasAi
  <2>3. model' \in Marks BY <1>0, <2>1 DEF CompleteOperation, Marks
  <2> QED BY <1>2, <1>6, <2>1, <2>2, <2>3, EndsKeeps
<1>10. CASE ReceiveCancelled(t)
  <2>1. dialog' = d /\ model' = CancelOperation(FinishAi(model), t.action)
    BY <1>4, <1>10 DEF ReceiveCancelled
  <2>2. /\ model' \in Marks /\ ~model'.ai
        /\ ~BatchedClicks => model'.op = None /\ ~model'.file
    BY <1>0, <1>1, <1>7, <2>1, GivenUp
  <2> QED BY <1>2, <1>6, <2>1, <2>2, EndsKeeps
<1>11. CASE ReceiveRefused(t)
  <2>1. /\ dialog' = SetModal(d, Product("Confirm"))
        /\ model' = CancelOperation(FinishAi(model), t.action)
        /\ t.outcome = "Refused" /\ queued' = <<>>
    BY <1>4, <1>11 DEF ReceiveRefused, Acknowledge
  <2>2. /\ model' \in Marks /\ ~model'.ai
        /\ ~BatchedClicks => model'.op = None /\ ~model'.file
    BY <1>0, <1>1, <1>7, <2>1, GivenUp
  <2>5. Product("Confirm") \in Modals /\ Product("Confirm").kind = "Confirm" BY ModalsTyped
  <2>6. dialog' \in Dialogs /\ dialog'.top = Product("Confirm") /\ dialog'.waiting = d.waiting
    BY <1>6, <2>1, <2>5, SetModalFacts
  <2>7. d.waiting = <<>>
    <3>1. OnlyRefresh(dialog) BY <1>0, <1>1, <2>1 DEF ErrorInv, HasDelete
    <3> QED BY <1>6, <3>1 DEF OnlyRefresh
  <2> QED BY <1>2, <2>1, <2>2, <2>5, <2>6, <2>7, EndsKeeps DEF ErrorsUp
<1>12. CASE ReceiveFailed(t)
  <2>1. /\ dialog' \in {d, ShowError(d, "Command")}
        /\ model' = FailOperation(FinishAi(model), t.action) /\ queued' = <<>>
    BY <1>4, <1>12 DEF ReceiveFailed, Acknowledge
  <2>2. /\ model' \in Marks /\ ~model'.ai
        /\ ~BatchedClicks => model'.op = None /\ ~model'.file
    BY <1>0, <1>1, <1>7, <2>1, GivenUp
  <2>5. dialog' \in Dialogs /\ dialog'.top.kind # "Prompt" /\ ErrorsUp(dialog')
    <3>1. "Command" \in Errors BY DEF Errors
    <3> QED BY <1>6, <2>1, <3>1, ShowErrorFacts
  <2> QED BY <1>2, <2>1, <2>2, <2>5, EndsKeeps
<1> QED BY <1>9, <1>10, <1>11, <1>12

(* Codex or an update reports, without a commit to make.                     *)
LEMMA OtherReportKeeps ==
  ASSUME WorkbenchInv, NEW t \in tasks,
         ReceiveAiStopped(t) \/ ReceiveAiStale(t) \/ ReceiveUpdate(t)
  PROVE  WorkbenchInv'
<1>0. /\ TypeOK /\ Ordered /\ ActiveInv /\ PromptInv /\ ErrorInv /\ MarksInv
      /\ dialog \in Dialogs /\ model \in Marks /\ snap \in Snapshots /\ ErrorsUp(dialog)
      /\ lastPrompt \in 0..MaxPrompts
  BY DEF WorkbenchInv, TypeOK, ErrorInv, ErrorsComeUp, ErrorsUp
<1>1. /\ active # NoCommand /\ tasks = {t} /\ t \in TaskStates
      /\ t.id = active.id /\ t.action = active.action /\ t.runner = Runner(t.action)
      /\ t.asking # "no" => t.action = "Sync" /\ t.outcome # "Completed"
      /\ t.outcome = "Refused" => t.action = "Delete"
      /\ t.outcome = "Cancelled" => t.action # "Update"
  BY <1>0, TheTask
<1>2. /\ phase' = "drain" /\ nextId' = nextId /\ tasks' = tasks \ {t} /\ active' = NoCommand
      /\ queued' \in {queued, <<>>} /\ lastPrompt' = lastPrompt /\ snap' = snap
      /\ t.runner \in {"codex", "update"}
      /\ dialog' = dialog \/ ((\E e \in Errors : dialog' = ShowError(dialog, e)) /\ queued' = <<>>)
      /\ model' = FinishAi(model) \/ (t.runner = "update" /\ model' = model /\ queued' = queued)
  <2>1. CASE ReceiveAiStopped(t)
    <3>1. PICK result \in Outcomes \cup {"running", "Refused"} :
            /\ Acknowledge(result)
            /\ dialog' = IF result = "Failed" THEN ShowError(dialog, "Ai") ELSE dialog
      BY <1>1, <2>1 DEF ReceiveAiStopped, TaskStates, Outcomes
    <3>2. /\ queued' \in {queued, <<>>} /\ active' = NoCommand
          /\ result = "Failed" => queued' = <<>>
      BY <3>1 DEF Acknowledge
    <3> QED BY <2>1, <3>1, <3>2 DEF ReceiveAiStopped, Drain, Reports, Errors
  <2>2. CASE ReceiveAiStale(t)
    <3>1. queued' = <<>> /\ active' = NoCommand BY <2>2 DEF ReceiveAiStale, Acknowledge
    <3> QED BY <2>2, <3>1 DEF ReceiveAiStale, Drain, Reports, Errors
  <2>3. CASE ReceiveUpdate(t)
    <3>1. /\ queued' \in {queued, <<>>} /\ active' = NoCommand
          /\ t.outcome = "Completed" => queued' = queued
      BY <2>3 DEF ReceiveUpdate, Acknowledge
    <3>2. t.outcome \in {"Completed", "Failed"}
      <4>1. t.runner = "update" /\ t.outcome # "running"
        BY <2>3 DEF ReceiveUpdate, Reports, Running
      <4>2. t.action = "Update" BY <1>1, <4>1 DEF Runner
      <4> QED BY <1>1, <4>1, <4>2 DEF TaskStates, Outcomes
    <3>3. t.outcome = "Failed" => queued' = <<>>
      BY <2>3 DEF ReceiveUpdate, Acknowledge
    <3> QED BY <2>3, <3>1, <3>2, <3>3 DEF ReceiveUpdate, Drain, Reports, Errors
  <2> QED BY <2>1, <2>2, <2>3
<1>3. dialog.top.kind # "Prompt"
  BY <1>0, <1>1, <1>2 DEF PromptInv, Runner
<1>4. /\ dialog' \in Dialogs /\ dialog'.top.kind # "Prompt" /\ ErrorsUp(dialog')
      /\ queued' # <<>> => dialog' = dialog
  BY <1>0, <1>2, <1>3, ShowErrorFacts
<1>5. /\ model' \in Marks /\ model'.op = model.op /\ model'.file = model.file
      /\ model'.ai => model' = model /\ t.runner = "update" /\ queued' = queued
  BY <1>0, <1>2 DEF FinishAi, Marks
<1>6. ASSUME ~BatchedClicks
      PROVE  /\ model.op = None /\ ~model.file
             /\ model.ai /\ t.runner = "update" => QueuedKind("AiCommit")
  <2>1. MarkInv /\ LockInv BY <1>0, <1>6 DEF MarksInv
  <2>2. active.action \in {"AiCommit", "Update"} BY <1>1, <1>2 DEF Runner
  <2>3. model.op = None /\ ~model.file BY <1>1, <2>1, <2>2 DEF MarkInv
  <2>4. ASSUME model.ai, t.runner = "update" PROVE QueuedKind("AiCommit")
    <3>1. t.asking = "no" /\ active.action = "Update" BY <1>1, <2>2, <2>4 DEF Runner
    <3> QED BY <1>1, <2>1, <2>4, <3>1 DEF LockInv, HasAi
  <2> QED BY <2>3, <2>4
<1> QED BY <1>0, <1>2, <1>4, <1>5, <1>6, EndsKeeps

(* A generated message turns the AI commit into a guarded commit.            *)
LEMMA MessageKeeps ==
  ASSUME WorkbenchInv, NEW t \in tasks, ReceiveAiMessage(t)
  PROVE  WorkbenchInv'
<1>0. /\ TypeOK /\ Ordered /\ ActiveInv /\ PromptInv /\ ErrorInv /\ MarksInv
      /\ active \in ActiveCommand /\ model \in Marks
  BY DEF WorkbenchInv, TypeOK
<1>1. /\ active # NoCommand /\ tasks = {t} /\ t \in TaskStates
      /\ t.id = active.id /\ t.action = active.action /\ t.runner = Runner(t.action)
      /\ active.id \in 1..MaxCommands
      /\ t.asking # "no" => t.action = "Sync" /\ t.outcome # "Completed"
  BY <1>0, TheTask
<1>2. /\ phase' = "drain" /\ nextId' = nextId /\ queued' = queued /\ snap' = snap
      /\ dialog' = dialog /\ lastPrompt' = lastPrompt
      /\ active.state = "Running" /\ t.runner = "codex"
      /\ active' = [active EXCEPT !.action = "GuardedCommit"]
      /\ model' = IF model.op = None THEN [model EXCEPT !.op = "GuardedCommit"] ELSE model
      /\ tasks' = (tasks \ {t}) \cup {Task(t.id, "GuardedCommit")}
  BY DEF ReceiveAiMessage, Drain
<1>3. PICK u : u = Task(t.id, "GuardedCommit") OBVIOUS
<1>4. /\ u \in TaskStates /\ u.id = active.id /\ u.action = "GuardedCommit" /\ u.asking = "no"
      /\ u.runner = Runner("GuardedCommit") /\ u.outcome = "running"
  BY <1>1, <1>3 DEF Task, TaskStates, Runner, ActionKinds, Outcomes, Snapshots
<1>5. tasks' = {u} BY <1>1, <1>2, <1>3
<1>6. /\ active' \in ActiveCommand /\ active'.id = active.id /\ active'.action = "GuardedCommit"
      /\ active'.state = "Running"
  BY <1>0, <1>2 DEF ActiveCommand, ActionKinds
<1>7. active' # NoCommand BY <1>1, <1>6 DEF NoCommand, NoId
<1>8. active.action = "AiCommit" /\ t.asking = "no" BY <1>1, <1>2 DEF Runner
<1>9. /\ model' \in Marks /\ model'.file = model.file /\ model'.ai = model.ai
      /\ model.op = None => model'.op = "GuardedCommit"
  BY <1>0, <1>2 DEF Marks, ActionKinds
<1>10. TypeOK' BY <1>0, <1>2, <1>4, <1>5, <1>6, <1>9 DEF TypeOK
<1>11. Ordered' BY <1>0, <1>2, <1>6 DEF Ordered
<1>12. ActiveInv' BY <1>1, <1>4, <1>5, <1>6 DEF ActiveInv, None
<1>13. PromptInv' BY <1>0, <1>1, <1>2, <1>8 DEF PromptInv
<1>14. ErrorInv' BY <1>0, <1>2, <1>6 DEF ErrorInv, ErrorsComeUp, HasDelete, QueuedKind
<1>15. ASSUME ~BatchedClicks PROVE MarkInv' /\ LockInv'
  <2>1. MarkInv /\ LockInv BY <1>0, <1>15 DEF MarksInv
  <2>2. model.op = None /\ ~model.file BY <1>1, <1>8, <2>1 DEF MarkInv
  <2>3. MarkInv' BY <1>6, <1>7, <1>9, <2>2 DEF MarkInv
  <2>4. LockInv' BY <1>6 DEF LockInv, HasAi
  <2> QED BY <2>3, <2>4
<1> QED BY <1>10, <1>11, <1>12, <1>13, <1>14, <1>15 DEF WorkbenchInv, MarksInv

(* A prompt is shown, or its command is cancelled and it can not complete.   *)
LEMMA PromptKeeps ==
  ASSUME WorkbenchInv, NEW t \in tasks, ReceivePrompt(t)
  PROVE  WorkbenchInv'
<1>0. /\ TypeOK /\ Ordered /\ ActiveInv /\ PromptInv /\ ErrorInv /\ MarksInv
      /\ active \in ActiveCommand /\ dialog \in Dialogs /\ ErrorsUp(dialog)
  BY DEF WorkbenchInv, TypeOK, ErrorInv, ErrorsComeUp, ErrorsUp
<1>1. /\ active # NoCommand /\ tasks = {t} /\ t \in TaskStates
      /\ t.id = active.id /\ t.action = active.action /\ t.runner = Runner(t.action)
      /\ active.id \in 1..MaxCommands /\ active.state \in {"Running", "Cancelling"}
      /\ t.asking # "no" => t.action = "Sync" /\ t.outcome # "Completed"
      /\ t.outcome = "Refused" => t.action = "Delete"
      /\ t.outcome = "Cancelled" => t.action # "Update"
  BY <1>0, TheTask
<1>2. PICK opens \in BOOLEAN :
        /\ opens => dialog.top.kind # "Prompt"
        /\ dialog' = IF opens THEN OpenPrompt(dialog, t.id) ELSE dialog
        /\ active' = IF opens THEN active ELSE [active EXCEPT !.handle = TRUE]
        /\ tasks' = (tasks \ {t})
             \cup {[t EXCEPT !.asking = IF opens THEN "open" ELSE "stopped"]}
  BY DEF ReceivePrompt
<1>3. /\ t.asking = "sent" /\ phase' = "drain" /\ ~(phase = "input" /\ CanTake)
      /\ nextId' = nextId /\ queued' = queued /\ snap' = snap /\ model' = model
      /\ lastPrompt' = lastPrompt
  BY DEF ReceivePrompt, Drain
<1>4. PICK u : u = [t EXCEPT !.asking = IF opens THEN "open" ELSE "stopped"] OBVIOUS
<1>5. /\ u \in TaskStates /\ u.id = t.id /\ u.action = t.action /\ u.runner = t.runner
      /\ u.outcome = t.outcome /\ u.asking = (IF opens THEN "open" ELSE "stopped")
  BY <1>1, <1>4 DEF TaskStates
<1>6. tasks' = {u} BY <1>1, <1>2, <1>4
<1>7. /\ active' \in ActiveCommand /\ active'.id = active.id /\ active'.action = active.action
      /\ active'.state = active.state
  BY <1>0, <1>2 DEF ActiveCommand
<1>8. active' # NoCommand BY <1>1, <1>7 DEF NoCommand, NoId
<1>9. dialog.top.kind # "Prompt" BY <1>0, <1>1, <1>3 DEF PromptInv
<1>10. /\ dialog' \in Dialogs /\ ErrorsUp(dialog') /\ (OnlyRefresh(dialog) => OnlyRefresh(dialog'))
       /\ dialog'.top.kind = "Prompt" => opens /\ dialog'.top = PromptModal(t.id)
  <2>1. CASE opens
    <3>1. dialog' = OpenPrompt(dialog, t.id) /\ t.id \in 1..MaxCommands BY <1>1, <1>2, <2>1
    <3> QED BY <1>0, <1>9, <2>1, <3>1, OpenPromptFacts
  <2>2. CASE ~opens BY <1>0, <1>2, <1>9, <2>2
  <2> QED BY <2>1, <2>2
<1>11. TypeOK' BY <1>0, <1>3, <1>5, <1>6, <1>7, <1>10 DEF TypeOK
<1>12. Ordered' BY <1>0, <1>3, <1>7 DEF Ordered
<1>13. ActiveInv'
  <2>1. u.asking # "no" => u.action = "Sync" /\ u.outcome # "Completed" BY <1>1, <1>3, <1>5
  <2>2. active'.action # None BY <1>1, <1>3, <1>7 DEF None
  <2> QED BY <1>1, <1>5, <1>6, <1>7, <2>1, <2>2 DEF ActiveInv, None
<1>14. PromptInv' BY <1>1, <1>5, <1>6, <1>7, <1>8, <1>10 DEF PromptInv
<1>15. ErrorInv' BY <1>0, <1>3, <1>7, <1>10 DEF ErrorInv, ErrorsComeUp, ErrorsUp, HasDelete, QueuedKind
<1>16. ASSUME ~BatchedClicks PROVE MarkInv' /\ LockInv'
  <2>1. MarkInv /\ LockInv BY <1>0, <1>16 DEF MarksInv
  <2>2. MarkInv' BY <1>1, <1>3, <1>7, <1>8, <2>1 DEF MarkInv
  <2>3. model.ai => HasAi BY <1>1, <1>3, <2>1 DEF LockInv
  <2>4. LockInv' BY <1>3, <1>7, <2>3 DEF LockInv, HasAi, QueuedKind
  <2> QED BY <2>2, <2>4
<1> QED BY <1>11, <1>12, <1>13, <1>14, <1>15, <1>16 DEF WorkbenchInv, MarksInv

(* Whatever a runner reports.                                                *)
LEMMA ReportKeeps ==
  ASSUME WorkbenchInv, Report
  PROVE  WorkbenchInv'
BY GitReportKeeps, OtherReportKeeps, MessageKeeps, PromptKeeps DEF Report

(* A refresh of the watcher, or its failure.                                 *)
LEMMA RefreshKeeps ==
  ASSUME WorkbenchInv, Refresh
  PROVE  WorkbenchInv'
<1>0. /\ dialog \in Dialogs /\ ErrorsUp(dialog) /\ snap \in Snapshots
  BY DEF WorkbenchInv, TypeOK, ErrorInv, ErrorsComeUp, ErrorsUp
<1>1. /\ phase' = "drain" /\ snap' \in Snapshots /\ tasks' = tasks
      /\ UNCHANGED <<queueVars, model, lastPrompt>>
      /\ ~(phase = "input" /\ CanTake)
      /\ dialog' \in {dialog, ShowError(dialog, "Refresh")}
  BY <1>0 DEF Refresh, ReceiveRefreshFailed, ReceiveSnapshot, Drain, queueVars
<1>2. phase \in {"drain", "input"} BY DEF WorkbenchInv, TypeOK
<1>3. phase' # phase => active # NoCommand \/ queued = <<>>
  BY <1>1, <1>2 DEF CanTake
<1>4. /\ dialog' \in Dialogs /\ ErrorsUp(dialog') /\ (OnlyRefresh(dialog) => OnlyRefresh(dialog'))
      /\ dialog'.top.kind = "Prompt" => dialog'.top = dialog.top
  <2>1. "Refresh" \in Errors BY DEF Errors
  <2> QED BY <1>0, <1>1, <2>1, ShowErrorFacts
<1> QED BY <1>1, <1>3, <1>4, DialogKeeps

(***************************************************************************)
(* The queue moves.                                                        *)
(***************************************************************************)

(* The first command is taken when none is active: the marks it finds are    *)
(* its own.                                                                  *)
LEMMA TakeKeeps ==
  ASSUME WorkbenchInv, NEW typed \in BOOLEAN, TakeCommand(typed)
  PROVE  WorkbenchInv'
<1>0. /\ TypeOK /\ Ordered /\ ActiveInv /\ PromptInv /\ ErrorInv /\ MarksInv
      /\ model \in Marks /\ snap \in Snapshots
  BY DEF WorkbenchInv, TypeOK
<1>1. PICK q : q = Head(queued) OBVIOUS
<1>2. /\ active = NoCommand /\ queued # <<>>
      /\ active' = [id |-> q.id, action |-> q.kind, state |-> "Running", handle |-> FALSE,
                    request |-> IF q.kind = "AiCommit" THEN snap ELSE "clean"]
      /\ queued' = Tail(queued) /\ lastPrompt' = 0 /\ phase' = "drain"
      /\ model' = IF q.kind \in {"AiCommit", "Update"} THEN Prepared(q)
                     ELSE [Prepared(q) EXCEPT !.op = q.kind]
      /\ tasks' = tasks \cup {Task(q.id, q.kind)}
      /\ nextId' = nextId /\ snap' = snap /\ dialog' = dialog
  BY <1>1 DEF TakeCommand, CanTake
<1>3. /\ q \in QueuedCommand /\ queued' \in Seq(QueuedCommand) /\ Ordered'
      /\ QueuedKind(q.kind)
      /\ \A k : QueuedKind(k) <=> QueuedKind(k)' \/ k = q.kind
  BY <1>0, <1>1, <1>2, TakeFacts
<1>4. q.id \in 1..MaxCommands /\ q.kind \in Kinds BY <1>3 DEF QueuedCommand
<1>5. tasks = {}
  BY <1>0, <1>2 DEF ActiveInv, NoCommand, NoId
<1>6. PICK u : u = Task(q.id, q.kind) OBVIOUS
<1>7. /\ u \in TaskStates /\ u.id = q.id /\ u.action = q.kind /\ u.asking = "no"
      /\ u.runner = Runner(q.kind) /\ u.outcome = "running"
  BY <1>4, <1>6 DEF Task, TaskStates, Runner, ActionKinds, Outcomes, Snapshots
<1>8. tasks' = {u} BY <1>2, <1>5, <1>6
<1>9. /\ active' \in ActiveCommand /\ active'.id = q.id /\ active'.action = q.kind
      /\ active'.state = "Running" /\ active' # NoCommand
  BY <1>0, <1>2, <1>4 DEF ActiveCommand, ActionKinds, NoCommand, NoId, Snapshots, None
<1>10. /\ model' \in Marks /\ model'.ai = model.ai
       /\ model'.op = (IF q.kind \in {"AiCommit", "Update"} THEN model.op ELSE q.kind)
       /\ model'.file = (model.file \/ (q.kind = "Stage" /\ ~q.bound))
  <2>1. /\ Prepared(q) \in Marks /\ Prepared(q).op = model.op /\ Prepared(q).ai = model.ai
        /\ Prepared(q).file = (model.file \/ (q.kind = "Stage" /\ ~q.bound))
    BY <1>0 DEF Prepared, Marks
  <2> QED BY <1>2, <1>4, <2>1 DEF Marks, ActionKinds
<1>11. TypeOK' BY <1>0, <1>2, <1>3, <1>7, <1>8, <1>9, <1>10 DEF TypeOK
<1>12. ActiveInv' BY <1>4, <1>7, <1>8, <1>9 DEF ActiveInv, Kinds, None
<1>13. PromptInv' BY <1>0, <1>2 DEF PromptInv
<1>14. ErrorInv' BY <1>0, <1>2, <1>3, <1>9 DEF ErrorInv, ErrorsComeUp, HasDelete
<1>15. ASSUME ~BatchedClicks PROVE MarkInv' /\ LockInv'
  <2>1. MarkInv /\ LockInv BY <1>0, <1>15 DEF MarksInv
  <2>2. /\ model.op # None => q.kind \in {"Commit", "Sync"}
        /\ model.file => q.kind = "Stage"
    BY <1>1, <1>2, <2>1 DEF MarkInv
  <2>3. MarkInv' BY <1>9, <1>10, <2>2 DEF MarkInv
  <2>4. model.ai => QueuedKind("AiCommit") BY <1>2, <2>1 DEF LockInv, HasAi, NoCommand, None
  <2>5. LockInv' BY <1>3, <1>9, <1>10, <2>4 DEF LockInv, HasAi
  <2> QED BY <2>3, <2>5
<1> QED BY <1>3, <1>11, <1>12, <1>13, <1>14, <1>15 DEF WorkbenchInv, MarksInv

(* The queue stops: nothing is left of it.                                   *)
LEMMA StopsKeeps ==
  ASSUME WorkbenchInv, NEW typed \in BOOLEAN, TakeStops(typed)
  PROVE  WorkbenchInv'
<1>0. /\ TypeOK /\ Ordered /\ ActiveInv /\ PromptInv /\ ErrorInv /\ MarksInv
      /\ model \in Marks /\ dialog \in Dialogs /\ ErrorsUp(dialog)
  BY DEF WorkbenchInv, TypeOK, ErrorInv, ErrorsComeUp, ErrorsUp
<1>1. PICK q : q = Head(queued) OBVIOUS
<1>2. PICK m : m = IF Prepares(q, typed) THEN CancelOperation(Prepared(q), q.kind) ELSE model
  OBVIOUS
<1>3. /\ active = NoCommand /\ queued # <<>> /\ ~(Prepares(q, typed) /\ Activates(q))
      /\ queued' = <<>> /\ model' = FinishAi(m) /\ dialog' = ShowError(dialog, "Stopped")
      /\ phase' = "drain" /\ active' = active /\ nextId' = nextId /\ snap' = snap
      /\ lastPrompt' = lastPrompt /\ tasks' = tasks
  BY <1>1, <1>2 DEF TakeStops, CanTake
<1>4. q \in QueuedCommand BY <1>0, <1>1, <1>3 DEF TypeOK
<1>5. m \in Marks
  BY <1>0, <1>2 DEF CancelOperation, Prepared, Marks
<1>6. model' \in Marks /\ model'.op = m.op /\ model'.file = m.file /\ ~model'.ai
  BY <1>3, <1>5 DEF FinishAi, Marks
<1>7. dialog.top.kind # "Prompt" BY <1>0, <1>3 DEF PromptInv
<1>8. dialog' \in Dialogs /\ ErrorsUp(dialog') /\ dialog'.top.kind # "Prompt"
  <2>1. "Stopped" \in Errors BY DEF Errors
  <2> QED BY <1>0, <1>3, <1>7, <2>1, ShowErrorFacts
<1>9. TypeOK'
  <2>1. queued' \in Seq(QueuedCommand) BY <1>3, EmptySeq
  <2> QED BY <1>0, <1>3, <1>6, <1>8, <2>1 DEF TypeOK
<1>10. Ordered' /\ ActiveInv' BY <1>0, <1>3 DEF Ordered, ActiveInv
<1>11. PromptInv' BY <1>8 DEF PromptInv
<1>12. ErrorInv'
  BY <1>3, <1>8 DEF ErrorInv, ErrorsComeUp, ErrorsUp, HasDelete, QueuedKind, NoCommand, None
<1>13. ASSUME ~BatchedClicks PROVE MarkInv' /\ LockInv'
  <2>1. MarkInv /\ LockInv BY <1>0, <1>13 DEF MarksInv
  <2>2. /\ model.op # None => q.kind = model.op /\ q.bound
        /\ model.file => q.kind = "Stage" /\ q.bound
    BY <1>1, <1>3, <2>1 DEF MarkInv
  <2>3. Activates(q) BY <2>2 DEF Activates
  <2>4. ~q.bound /\ m = model BY <1>2, <1>3, <2>3 DEF Prepares
  <2>5. MarkInv' BY <1>3, <1>6, <2>2, <2>4 DEF MarkInv
  <2>6. LockInv' BY <1>6 DEF LockInv
  <2> QED BY <2>5, <2>6
<1> QED BY <1>9, <1>10, <1>11, <1>12, <1>13 DEF WorkbenchInv, MarksInv

(***************************************************************************)
(* The specification.                                                      *)
(***************************************************************************)

(* The inductive invariant.                                                  *)
LEMMA WorkbenchInvHolds == Spec => []WorkbenchInv
<1>1. Init => WorkbenchInv
  <2> SUFFICES ASSUME Init PROVE WorkbenchInv OBVIOUS
  <2> USE DEF Init
  <2>1. NoModal \in Modals /\ NoModal.kind = None BY ModalsTyped
  <2>2. /\ queued \in Seq(QueuedCommand) /\ dialog \in Dialogs
        /\ dialog.top = NoModal /\ dialog.waiting = <<>> /\ DOMAIN queued = {}
    BY <2>1, EmptySeq DEF Dialogs
  <2>3. NoCommand \in ActiveCommand /\ NoCommand.id = 0 /\ NoCommand.action = None
    BY DEF NoCommand, ActiveCommand, NoId, None, Snapshots
  <2>4. /\ model \in Marks /\ model.op = None /\ model.file = FALSE /\ model.ai = FALSE
    BY DEF Marks
  <2>5. TypeOK BY <2>2, <2>3, <2>4 DEF TypeOK
  <2>6. Ordered BY <2>2, <2>3 DEF Ordered
  <2>7. ActiveInv BY DEF ActiveInv
  <2>8. PromptInv BY <2>1, <2>2 DEF PromptInv, None
  <2>9. ErrorInv BY <2>1, <2>2 DEF ErrorInv, ErrorsComeUp, OnlyRefresh, None
  <2>10. MarkInv /\ LockInv BY <2>4 DEF MarkInv, LockInv
  <2> QED BY <2>5, <2>6, <2>7, <2>8, <2>9, <2>10 DEF WorkbenchInv, MarksInv
<1>2. WorkbenchInv /\ [Next]_vars => WorkbenchInv'
  <2> SUFFICES ASSUME WorkbenchInv, [Next]_vars PROVE WorkbenchInv' OBVIOUS
  <2>1. CASE User
    BY <2>1, PressingKeeps, CancellingKeeps, ModalsKeep, AnswerKeeps DEF User
  <2>2. CASE Take BY <2>2, TakeKeeps, StopsKeeps DEF Take
  <2>3. CASE Runners BY <2>3, RunnersKeep
  <2>4. CASE Report BY <2>4, ReportKeeps
  <2>5. CASE Refresh BY <2>5, RefreshKeeps
  <2>6. CASE UNCHANGED vars
    <3>1. /\ phase' = phase /\ snap' = snap /\ tasks' = tasks /\ dialog' = dialog
          /\ UNCHANGED <<queueVars, model, lastPrompt>>
      BY <2>6 DEF vars
    <3>2. /\ phase \in {"drain", "input"} /\ snap \in Snapshots /\ dialog \in Dialogs
          /\ ErrorsUp(dialog)
      BY DEF WorkbenchInv, TypeOK, ErrorInv, ErrorsComeUp, ErrorsUp
    <3> QED BY <3>1, <3>2, DialogKeeps
  <2> QED BY <2>1, <2>2, <2>3, <2>4, <2>5, <2>6 DEF Next
<1> QED BY <1>1, <1>2, PTL DEF Spec

(* One runner runs the active command in the phase the queue panel shows, and *)
(* a prompt on screen is the unanswered prompt of that command, whatever is   *)
(* clicked and in whatever order the reports come. (command_queue.rs:         *)
(* activate, prompt.rs: open_prompt.)                                         *)
THEOREM OneRunnerServes == Spec => []RunnerServesActive
<1>1. WorkbenchInv => RunnerServesActive
  <2> SUFFICES ASSUME WorkbenchInv PROVE RunnerServesActive OBVIOUS
  <2>1. TypeOK /\ ActiveInv /\ PromptInv BY DEF WorkbenchInv
  <2>2. RunnerMatchesActive
    <3>1. CASE active = NoCommand
      BY <2>1, <3>1 DEF ActiveInv, RunnerMatchesActive, NoCommand, NoId
    <3>2. CASE active # NoCommand
      BY <2>1, <3>2 DEF ActiveInv, RunnerMatchesActive
    <3> QED BY <3>1, <3>2
  <2>3. ASSUME dialog.top.kind = "Prompt"
        PROVE  /\ dialog.top.id = active.id
               /\ \E t \in tasks : t.id = active.id /\ t.asking = "open"
    <3>1. dialog.top = PromptModal(active.id) /\ \E t \in tasks : t.asking = "open"
      BY <2>1, <2>3 DEF PromptInv
    <3>2. \A t \in tasks : t.id = active.id BY <2>1, TheTask
    <3> QED BY <3>1, <3>2 DEF PromptModal
  <2> QED BY <2>2, <2>3 DEF RunnerServesActive, PromptOfRunning
<1> QED BY <1>1, WorkbenchInvHolds, PTL

(* Nothing is left over of a command that is gone: an idle workbench has no   *)
(* mark that refuses the next one, the composer is locked only while there is *)
(* an AI commit or a cancelled command that will unlock it, a command that is *)
(* taken is never refused and no error is stranded; provided a command is     *)
(* drawn before its row is clicked. (state/repository.rs, state/commit.rs,    *)
(* modal.rs: show_next_error.)                                                *)
THEOREM CommandsLeaveNothing ==
  ASSUME ~BatchedClicks
  PROVE  Spec => []NothingLeftOver
<1>1. (~BatchedClicks) /\ WorkbenchInv => NothingLeftOver
  <2> SUFFICES ASSUME ~BatchedClicks, WorkbenchInv PROVE NothingLeftOver OBVIOUS
  <2>1. /\ TypeOK /\ ActiveInv /\ MarkInv /\ LockInv /\ ErrorInv /\ model \in Marks
        /\ active \in ActiveCommand
    BY DEF WorkbenchInv, MarksInv, TypeOK
  <2>2. IdleIsClean
    <3> SUFFICES ASSUME ~HasWork PROVE model = [op |-> None, file |-> FALSE, ai |-> FALSE]
      BY DEF IdleIsClean
    <3>1. active = NoCommand /\ queued = <<>> /\ model.op = None /\ ~model.file
      BY <2>1, IdleMarks
    <3>2. ~model.ai BY <2>1, <3>1 DEF LockInv, HasAi, QueuedKind, NoCommand, None
    <3> QED BY <2>1, <3>1, <3>2 DEF Marks
  <2>3. LockHasAiCommit
    <3>1. active.action # None => active.id > 0 BY <2>1 DEF ActiveInv, NoCommand
    <3>2. AiCommitId # NoId <=> HasAi BY <2>1, <3>1, AiCommitIdFacts
    <3> QED BY <2>1, <3>2 DEF LockHasAiCommit, LockInv
  <2>4. NeverRefusedWhileIdle
    BY <2>1 DEF NeverRefusedWhileIdle, CanTake, Activates, MarkInv
  <2> QED BY <2>1, <2>2, <2>3, <2>4 DEF NothingLeftOver, ErrorInv
<1> QED BY <1>1, WorkbenchInvHolds, PTL

(***************************************************************************)
(* What the end of a command does to those behind it.                      *)
(***************************************************************************)

(* Until it reports, a running command goes on or is cancelled with its tail.*)
LEMMA RunningGoesOn ==
  ASSUME WorkbenchInv, User \/ Take \/ Runners \/ Refresh, active.state = "Running"
  PROVE  active'.state = "Running" \/ (active'.state = "Cancelling" /\ queued' = <<>>)
<1>0. active \in ActiveCommand /\ TypeOK /\ ActiveInv BY DEF WorkbenchInv, TypeOK
<1>1. active # NoCommand BY DEF NoCommand, None
<1>2. ASSUME NEW c, Cancel(c)
      PROVE  active'.state = "Running" \/ (active'.state = "Cancelling" /\ queued' = <<>>)
  BY <1>0, <1>2 DEF Cancel, ActiveCommand
<1>3. CASE User
  <2>1. active' = active \/ \E c : Cancel(c)
    BY <1>3 DEF User, PressStage, PressSync, PressAi, PressCommit, Choose, CancelRow, OpenComposer,
                CloseComposer, DismissError, ConfirmDelete, DeclineDelete, AnswerPrompt,
                EnterFollowup, Enter, queueVars
  <2> QED BY <1>2, <2>1
<1>4. CASE Take
  BY <1>1, <1>4 DEF Take, TakeCommand, TakeStops, CanTake
<1>5. CASE Runners
  <2>1. active' = active \/ active' = [active EXCEPT !.handle = TRUE]
    BY <1>5 DEF Runners, GitEnds, CodexEnds, UpdateEnds, GitAsks, HelperDisconnects, Becomes, queueVars
  <2> QED BY <1>0, <2>1 DEF ActiveCommand
<1>6. CASE Refresh
  BY <1>6 DEF Refresh, ReceiveRefreshFailed, ReceiveSnapshot
<1> QED BY <1>3, <1>4, <1>5, <1>6

(* When it ends its tail stays only if it completed.                         *)
LEMMA RunningStep ==
  ASSUME WorkbenchInv, Next, active.state = "Running"
  PROVE  \/ active'.state = "Running"
         \/ active'.state = "Cancelling" /\ queued' = <<>>
         \/ active' = NoCommand /\ (queued' = <<>> \/ \A t \in tasks : t.outcome = "Completed")
<1>0. active \in ActiveCommand /\ TypeOK /\ ActiveInv BY DEF WorkbenchInv, TypeOK
<1>1. CASE User \/ Take \/ Runners \/ Refresh BY <1>1, RunningGoesOn
<1>7. CASE Report
  <2>1. PICK t \in tasks :
          \/ ReceiveCompleted(t) \/ ReceiveCancelled(t) \/ ReceiveFailed(t) \/ ReceiveRefused(t)
          \/ ReceiveAiStopped(t) \/ ReceiveAiStale(t) \/ ReceiveAiMessage(t)
          \/ ReceiveUpdate(t) \/ ReceivePrompt(t)
    BY <1>7 DEF Report
  <2>2. tasks = {t} BY <1>0, TheTask
  <2>3. CASE ReceivePrompt(t)
    <3>1. active' = active \/ active' = [active EXCEPT !.handle = TRUE]
      BY <2>3 DEF ReceivePrompt
    <3> QED BY <1>0, <3>1 DEF ActiveCommand
  <2>4. CASE ReceiveAiMessage(t)
    <3>1. active' = [active EXCEPT !.action = "GuardedCommit"] BY <2>4 DEF ReceiveAiMessage
    <3> QED BY <1>0, <3>1 DEF ActiveCommand
  <2>5. ASSUME NEW result, Acknowledge(result), result # "Completed" \/ t.outcome = "Completed"
        PROVE  active' = NoCommand /\ (queued' = <<>> \/ \A r \in tasks : r.outcome = "Completed")
    BY <2>2, <2>5 DEF Acknowledge
  <2>6. CASE ReceiveCompleted(t) BY <2>5, <2>6 DEF ReceiveCompleted
  <2>7. CASE ReceiveCancelled(t) BY <2>5, <2>7 DEF ReceiveCancelled
  <2>8. CASE ReceiveFailed(t) \/ ReceiveRefused(t) \/ ReceiveAiStale(t)
    <3>1. Acknowledge("Failed") BY <2>8 DEF ReceiveFailed, ReceiveRefused, ReceiveAiStale
    <3> QED BY <2>5, <3>1
  <2>9. CASE ReceiveAiStopped(t) \/ ReceiveUpdate(t)
    <3>1. Acknowledge(t.outcome) BY <2>9 DEF ReceiveAiStopped, ReceiveUpdate
    <3> QED BY <2>5, <3>1
  <2> QED BY <2>1, <2>3, <2>4, <2>6, <2>7, <2>8, <2>9
<1> QED BY <1>1, <1>7 DEF Next

(* Until it reports, a cancelled command stays cancelled.                     *)
LEMMA CancellingGoesOn ==
  ASSUME WorkbenchInv, User \/ Take \/ Runners \/ Refresh, active.state = "Cancelling"
  PROVE  active'.state = "Cancelling"
<1>0. active \in ActiveCommand BY DEF WorkbenchInv, TypeOK
<1>1. active # NoCommand BY DEF NoCommand, None
<1>2. ASSUME NEW c, Cancel(c) PROVE active'.state = "Cancelling"
  BY <1>0, <1>2 DEF Cancel, ActiveCommand
<1>3. CASE User
  <2>1. active' = active \/ \E c : Cancel(c)
    BY <1>3 DEF User, PressStage, PressSync, PressAi, PressCommit, Choose, CancelRow, OpenComposer,
                CloseComposer, DismissError, ConfirmDelete, DeclineDelete, AnswerPrompt,
                EnterFollowup, Enter, queueVars
  <2> QED BY <1>2, <2>1
<1>4. CASE Take
  BY <1>1, <1>4 DEF Take, TakeCommand, TakeStops, CanTake
<1>5. CASE Runners
  <2>1. active' = active \/ active' = [active EXCEPT !.handle = TRUE]
    BY <1>5 DEF Runners, GitEnds, CodexEnds, UpdateEnds, GitAsks, HelperDisconnects, Becomes, queueVars
  <2> QED BY <1>0, <2>1 DEF ActiveCommand
<1>6. CASE Refresh
  BY <1>6 DEF Refresh, ReceiveRefreshFailed, ReceiveSnapshot
<1> QED BY <1>3, <1>4, <1>5, <1>6

(* The end of a cancelled command takes from the queue only what it reports a *)
(* failure for.                                                              *)
LEMMA CancelledEnds ==
  ASSUME WorkbenchInv, Next, active.state = "Cancelling", active' = NoCommand,
         \A t \in tasks : t.runner = "codex" \/ t.outcome \in {"Completed", "Cancelled"}
  PROVE  queued' = queued
<1>0. active \in ActiveCommand /\ NoCommand.state = None BY DEF WorkbenchInv, TypeOK, NoCommand
<1>1. CASE User \/ Take \/ Runners \/ Refresh
  <2>1. active'.state = "Cancelling" BY <1>1, CancellingGoesOn
  <2> QED BY <1>0, <2>1 DEF None
<1>2. CASE Report
  <2>1. PICK t \in tasks :
          \/ ReceiveCompleted(t) \/ ReceiveCancelled(t) \/ ReceiveFailed(t) \/ ReceiveRefused(t)
          \/ ReceiveAiStopped(t) \/ ReceiveAiStale(t) \/ ReceiveAiMessage(t)
          \/ ReceiveUpdate(t) \/ ReceivePrompt(t)
    BY <1>2 DEF Report
  <2>2. t.runner = "codex" \/ t.outcome \in {"Completed", "Cancelled"} OBVIOUS
  <2>3. ASSUME NEW result \in {"Completed", "Cancelled"}, Acknowledge(result)
        PROVE  queued' = queued
    BY <2>3 DEF Acknowledge
  <2>4. CASE ReceiveCompleted(t) BY <2>3, <2>4 DEF ReceiveCompleted
  <2>5. CASE ReceiveCancelled(t) BY <2>3, <2>5 DEF ReceiveCancelled
  <2>6. CASE ReceiveAiStopped(t)
    <3>1. Acknowledge("Cancelled") BY <2>6 DEF ReceiveAiStopped
    <3> QED BY <2>3, <3>1
  <2>7. CASE ReceiveUpdate(t)
    <3>1. t.outcome \in {"Completed", "Cancelled"} /\ Acknowledge(t.outcome)
      BY <2>2, <2>7 DEF ReceiveUpdate, Reports
    <3> QED BY <2>3, <3>1
  <2>8. CASE ReceiveFailed(t) \/ ReceiveRefused(t)
    <3>1. t.runner = "git" /\ t.outcome \in {"Failed", "Refused"}
      BY <2>8 DEF ReceiveFailed, ReceiveRefused, Reports
    <3> QED BY <2>2, <3>1
  <2>9. CASE ReceiveAiStale(t) \/ ReceiveAiMessage(t)
    BY <2>9 DEF ReceiveAiStale, ReceiveAiMessage
  <2>10. CASE ReceivePrompt(t) BY <2>10 DEF ReceivePrompt
  <2> QED BY <2>1, <2>4, <2>5, <2>6, <2>7, <2>8, <2>9, <2>10
<1> QED BY <1>1, <1>2 DEF Next

(* What was entered to follow a command goes with it, when it is cancelled,   *)
(* fails or is given up by another; what was entered after its cancellation   *)
(* stays, unless the cancelled command reports a failure. (command_queue.rs:  *)
(* cancel, acknowledge; ADR 0110.)                                            *)
THEOREM DependentsFollow == Spec => QueueFollowsOutcome
<1>1. ASSUME WorkbenchInv, [Next]_vars, active.state = "Running",
             \/ active'.state = "Cancelling"
             \/ active' = NoCommand /\ \E t \in tasks : t.outcome # "Completed"
      PROVE  queued' = <<>>
  <2>1. CASE UNCHANGED vars
    <3>1. active' = active BY <2>1 DEF vars, queueVars
    <3> QED BY <1>1, <3>1 DEF NoCommand, None
  <2>2. CASE Next
    <3>1. NoCommand.state = None BY DEF NoCommand
    <3> QED BY <1>1, <2>2, <3>1, RunningStep DEF None
  <2> QED BY <1>1, <2>1, <2>2
<1>2. ASSUME WorkbenchInv, [Next]_vars, active.state = "Cancelling", active' = NoCommand,
             \A t \in tasks : t.runner = "codex" \/ t.outcome \in {"Completed", "Cancelled"}
      PROVE  queued' = queued
  <2>1. CASE UNCHANGED vars BY <2>1 DEF vars, queueVars
  <2>2. CASE Next BY <1>2, <2>2, CancelledEnds
  <2> QED BY <1>2, <2>1, <2>2
<1>3. WorkbenchInv /\ [Next]_vars =>
        [/\ active.state = "Running"
         /\ \/ active'.state = "Cancelling"
            \/ active' = NoCommand /\ \E t \in tasks : t.outcome # "Completed"
         => queued' = <<>>]_vars
  BY <1>1
<1>4. WorkbenchInv /\ [Next]_vars =>
        [/\ active.state = "Cancelling" /\ active' = NoCommand
         /\ \A t \in tasks : t.runner = "codex" \/ t.outcome \in {"Completed", "Cancelled"}
         => queued' = queued]_vars
  BY <1>2
<1>5. Spec => DependentsDropped BY <1>3, WorkbenchInvHolds, PTL DEF Spec, DependentsDropped
<1>6. Spec => CancellationKeepsFreshQueue
  BY <1>4, WorkbenchInvHolds, PTL DEF Spec, CancellationKeepsFreshQueue
<1> QED BY <1>5, <1>6 DEF QueueFollowsOutcome

(***************************************************************************)
(* What the user has not acknowledged.                                     *)
(***************************************************************************)

(* The errors a dialog holds.                                                *)
Unread(d) == ToSet(d.waiting) \cup {e \in Errors : d.top = ErrorModal(e)}

(* An error that is shown is added to the others.                            *)
LEMMA ShowErrorTells ==
  ASSUME NEW d \in Dialogs, NEW e \in Errors, NEW n, n = ShowError(d, e)
  PROVE  Unread(d) \subseteq Unread(n) /\ e \in Unread(n)
<1>0. d.waiting \in Seq(Errors) /\ d.top \in Modals BY DEF Dialogs
<1>k. \A f \in Errors : ErrorModal(f).kind = "Error" BY ModalsTyped
<1>1. CASE d.top.kind \notin {"Prompt", "Error"}
  <2>0. ErrorModal(e) \in Modals BY ModalsTyped
  <2>1. n = SetModal(d, ErrorModal(e)) BY <1>1 DEF ShowError
  <2>2. n.top = ErrorModal(e) /\ n.waiting = d.waiting BY <2>0, <2>1, SetModalFacts
  <2>3. \A f \in Errors : d.top # ErrorModal(f) BY <1>1, <1>k
  <2> QED BY <2>2, <2>3 DEF Unread
<1>2. CASE d.top.kind \in {"Prompt", "Error"} /\ (d.top = ErrorModal(e) \/ Contains(d.waiting, e))
  <2>1. n = d BY <1>2 DEF ShowError
  <2> QED BY <1>0, <1>2, <2>1 DEF Unread, Contains, ToSet
<1>3. CASE d.top.kind \in {"Prompt", "Error"} /\ d.top # ErrorModal(e) /\ ~Contains(d.waiting, e)
  <2>1. n.waiting = Append(d.waiting, e) /\ n.top = d.top
    BY <1>3 DEF ShowError, Dialogs
  <2>2. ToSet(d.waiting) \cup {e} \subseteq ToSet(Append(d.waiting, e))
    <3>1. /\ \A i \in DOMAIN d.waiting : /\ i \in DOMAIN Append(d.waiting, e)
                                        /\ Append(d.waiting, e)[i] = d.waiting[i]
          /\ Len(d.waiting) + 1 \in DOMAIN Append(d.waiting, e)
          /\ Append(d.waiting, e)[Len(d.waiting) + 1] = e
      BY <1>0
    <3> QED BY <3>1 DEF ToSet
  <2> QED BY <2>1, <2>2 DEF Unread
<1> QED BY <1>1, <1>2, <1>3

(* When a modal that is not an error closes, the next error comes up.        *)
LEMMA ClosingTells ==
  ASSUME NEW d \in Dialogs, d.top.kind # "Error", NEW n, n = ShowNextError(CloseModal(d))
  PROVE  Unread(d) \subseteq Unread(n)
<1>0. d.waiting \in Seq(Errors) BY DEF Dialogs
<1>1. PICK c : c = CloseModal(d) OBVIOUS
<1>2. c.top = NoModal /\ c.waiting = d.waiting
  <2>1. NoModal \in Modals BY ModalsTyped
  <2> QED BY <1>1, <2>1, SetModalFacts
<1>3. \A f \in Errors : d.top # ErrorModal(f) BY ModalsTyped
<1>4. CASE d.waiting = <<>>
  <2>1. n.waiting = d.waiting BY <1>1, <1>2, <1>4 DEF ShowNextError
  <2> QED BY <1>3, <2>1 DEF Unread
<1>5. CASE d.waiting # <<>>
  <2>1. n.top = ErrorModal(Head(d.waiting)) /\ n.waiting = Tail(d.waiting)
    BY <1>1, <1>2, <1>5 DEF ShowNextError
  <2>2. Head(d.waiting) \in Errors BY <1>0, <1>5
  <2>3. ASSUME NEW i \in DOMAIN d.waiting
        PROVE  d.waiting[i] \in ToSet(Tail(d.waiting)) \cup {Head(d.waiting)}
    <3>1. CASE i = 1 BY <1>0, <1>5, <3>1
    <3>2. CASE i # 1
      <4>1. /\ i - 1 \in DOMAIN Tail(d.waiting)
            /\ Tail(d.waiting)[i - 1] = d.waiting[(i - 1) + 1] /\ (i - 1) + 1 = i
        BY <1>0, <1>5, <3>2
      <4> QED BY <4>1 DEF ToSet
    <3> QED BY <3>1, <3>2
  <2> QED BY <1>3, <2>1, <2>2, <2>3 DEF Unread, ToSet
<1> QED BY <1>4, <1>5

(* The prompt of a command that ended takes no error with it.                *)
LEMMA ClosePromptTells ==
  ASSUME NEW d \in Dialogs, NEW c, NEW n, n = ClosePrompt(d, c)
  PROVE  Unread(d) \subseteq Unread(n)
<1>1. CASE d.top = PromptModal(c)
  <2>1. d.top.kind = "Prompt" /\ n = ShowNextError(CloseModal(d))
    BY <1>1 DEF ClosePrompt, PromptModal
  <2> QED BY <2>1, ClosingTells
<1>2. CASE d.top # PromptModal(c) BY <1>2 DEF ClosePrompt
<1> QED BY <1>1, <1>2

(* A prompt sends the visible error back, it does not lose it.               *)
LEMMA OpenPromptTells ==
  ASSUME NEW d \in Dialogs, NEW c, NEW n, n = OpenPrompt(d, c)
  PROVE  Unread(d) \subseteq Unread(n)
<1>0. d.waiting \in Seq(Errors) /\ d.top \in Modals BY DEF Dialogs
<1>1. CASE d.top.kind = "Error"
  <2>1. n.waiting = <<d.top.of>> \o d.waiting BY <1>1 DEF OpenPrompt
  <2>2. d.top.of \in Errors BY <1>0, <1>1, ModalKinds
  <2>3. ToSet(d.waiting) \cup {d.top.of} \subseteq ToSet(n.waiting)
    <3>1. /\ \A i \in DOMAIN d.waiting : /\ i + 1 \in DOMAIN n.waiting
                                        /\ n.waiting[i + 1] = d.waiting[i]
          /\ 1 \in DOMAIN n.waiting /\ n.waiting[1] = d.top.of
      BY <1>0, <2>1, <2>2
    <3> QED BY <3>1 DEF ToSet
  <2>4. \A f \in Errors : d.top = ErrorModal(f) => f = d.top.of BY ModalsTyped
  <2> QED BY <2>1, <2>3, <2>4 DEF Unread
<1>2. CASE d.top.kind # "Error"
  <2>1. n.waiting = d.waiting BY <1>2 DEF OpenPrompt
  <2>2. \A f \in Errors : d.top # ErrorModal(f) BY <1>2, ModalsTyped
  <2> QED BY <2>1, <2>2 DEF Unread
<1> QED BY <1>1, <1>2

(* A modal that replaces none of the errors.                                 *)
LEMMA SetModalTells ==
  ASSUME NEW d \in Dialogs, d.top.kind # "Error", NEW m, NEW n, n \in {SetModal(d, m), CloseModal(d)}
  PROVE  Unread(d) \subseteq Unread(n)
<1>1. n.waiting = d.waiting BY DEF SetModal, CloseModal, Dialogs
<1>2. \A f \in Errors : d.top # ErrorModal(f) BY ModalsTyped
<1> QED BY <1>1, <1>2 DEF Unread

(* No step takes an error off but the user's, or the confirmation of a       *)
(* deletion that was refused.                                                *)
LEMMA ErrorsStay ==
  ASSUME WorkbenchInv, Next
  PROVE  \/ Unread(dialog) \subseteq Unread(dialog') \/ DismissError
         \/ dialog'.top = Product("Confirm") /\ dialog.top # dialog'.top
<1>0. /\ dialog \in Dialogs /\ TypeOK /\ ActiveInv BY DEF WorkbenchInv, TypeOK
<1>m. /\ NoModal.kind # "Error" /\ \A k \in {"Composer", "Confirm"} : Product(k).kind # "Error"
  BY DEF NoModal, Product, None
<1>e. {"Refresh", "Command", "Stopped", "Ai", "Update"} \subseteq Errors BY DEF Errors
<1>1. CASE dialog' = dialog BY <1>1
<1>2. ASSUME NEW e \in Errors, dialog' = ShowError(dialog, e)
      PROVE  Unread(dialog) \subseteq Unread(dialog')
  BY <1>0, <1>2, ShowErrorTells
<1>3. CASE User
  <2>1. CASE DismissError BY <2>1
  <2>2. CASE \E a \in {"Text", "Cancel"} : AnswerPrompt(a)
    <3>1. dialog.top.kind = "Prompt" /\ dialog' = ShowNextError(CloseModal(dialog))
      BY <2>2 DEF AnswerPrompt
    <3> QED BY <1>0, <3>1, ClosingTells
  <2>3. CASE OpenComposer \/ CloseComposer \/ ConfirmDelete \/ DeclineDelete
             \/ \E typed \in BOOLEAN : PressCommit(typed)
    <3>1. /\ dialog.top \in {NoModal, Product("Composer"), Product("Confirm")}
          /\ dialog' \in {SetModal(dialog, Product("Composer")), CloseModal(dialog)}
      BY <2>3 DEF OpenComposer, CloseComposer, ConfirmDelete, DeclineDelete, PressCommit
    <3> QED BY <1>0, <1>m, <3>1, SetModalTells
  <2>4. CASE PressStage \/ PressSync \/ PressAi \/ (\E k \in {"Delete", "Update"} : Choose(k))
             \/ \E c \in 1..MaxCommands : CancelRow(c)
    <3>1. dialog' = dialog BY <2>4 DEF PressStage, PressSync, PressAi, Choose, CancelRow
    <3> QED BY <1>1, <3>1
  <2> QED BY <1>3, <2>1, <2>2, <2>3, <2>4 DEF User
<1>4. CASE Take
  <2>1. dialog' \in {dialog, ShowError(dialog, "Stopped")}
    BY <1>4 DEF Take, TakeCommand, TakeStops
  <2> QED BY <1>1, <1>2, <1>e, <2>1
<1>5. CASE Runners
  <2>1. dialog' = dialog
    BY <1>5 DEF Runners, GitEnds, CodexEnds, UpdateEnds, GitAsks, HelperDisconnects, Becomes
  <2> QED BY <1>1, <2>1
<1>6. CASE Refresh
  <2>1. dialog' \in {dialog, ShowError(dialog, "Refresh")}
    BY <1>6 DEF Refresh, ReceiveRefreshFailed, ReceiveSnapshot
  <2> QED BY <1>1, <1>2, <1>e, <2>1
<1>7. CASE Report
  <2>1. PICK t \in tasks :
          \/ ReceiveCompleted(t) \/ ReceiveCancelled(t) \/ ReceiveFailed(t) \/ ReceiveRefused(t)
          \/ ReceiveAiStopped(t) \/ ReceiveAiStale(t) \/ ReceiveAiMessage(t)
          \/ ReceiveUpdate(t) \/ ReceivePrompt(t)
    BY <1>7 DEF Report
  <2>2. PICK d : d = ClosePrompt(dialog, t.id) OBVIOUS
  <2>3. Unread(dialog) \subseteq Unread(d) BY <1>0, <2>2, ClosePromptTells
  <2>4. d \in Dialogs
    <3>1. t.id = active.id BY <1>0, TheTask
    <3>2. ErrorsUp(dialog) /\ (dialog.top.kind = "Prompt" => dialog.top = PromptModal(t.id))
      BY <3>1 DEF WorkbenchInv, ErrorInv, ErrorsComeUp, ErrorsUp, PromptInv
    <3> QED BY <1>0, <2>2, <3>2, ClosePromptFacts
  <2>5. CASE ReceiveCompleted(t) \/ ReceiveCancelled(t) \/ ReceiveFailed(t)
    <3>1. dialog' \in {d, ShowError(d, "Command")}
      BY <2>2, <2>5 DEF ReceiveCompleted, ReceiveCancelled, ReceiveFailed
    <3>2. Unread(d) \subseteq Unread(dialog') BY <1>e, <2>4, <3>1, ShowErrorTells
    <3> QED BY <2>3, <3>2
  <2>6. CASE ReceiveRefused(t)
    <3>1. dialog' = SetModal(d, Product("Confirm")) BY <2>2, <2>6 DEF ReceiveRefused
    <3>2. dialog'.top = Product("Confirm") BY <2>4, <3>1 DEF SetModal, Dialogs
    <3>3. CASE dialog.top = Product("Confirm")
      <4>1. d = dialog BY <2>2, <3>3 DEF ClosePrompt, Product, PromptModal
      <4> QED BY <1>0, <1>m, <3>1, <3>3, <4>1, SetModalTells
    <3> QED BY <3>2, <3>3
  <2>7. CASE ReceiveAiStopped(t) \/ ReceiveAiStale(t) \/ ReceiveUpdate(t)
    <3>1. dialog' \in {dialog, ShowError(dialog, "Ai"), ShowError(dialog, "Update")}
      BY <2>7 DEF ReceiveAiStopped, ReceiveAiStale, ReceiveUpdate
    <3> QED BY <1>1, <1>2, <1>e, <3>1
  <2>8. CASE ReceiveAiMessage(t) BY <1>1, <2>8 DEF ReceiveAiMessage
  <2>9. CASE ReceivePrompt(t)
    <3>1. dialog' \in {dialog, OpenPrompt(dialog, t.id)} BY <2>9 DEF ReceivePrompt
    <3> QED BY <1>0, <1>1, <3>1, OpenPromptTells
  <2> QED BY <2>1, <2>5, <2>6, <2>7, <2>8, <2>9
<1> QED BY <1>3, <1>4, <1>5, <1>6, <1>7 DEF Next

(* The end of a failed command is told.                                      *)
LEMMA FailureShown ==
  ASSUME WorkbenchInv, ~BatchedClicks, Next, active.state = "Running", active' = NoCommand,
         NEW f \in tasks, f.outcome \in {"Failed", "Refused"}
  PROVE  Unread(dialog') # {} \/ dialog'.top = Product("Confirm")
<1>0. /\ dialog \in Dialogs /\ TypeOK /\ ActiveInv /\ MarkInv /\ model \in Marks
  BY DEF WorkbenchInv, TypeOK, MarksInv
<1>e. {"Command", "Ai", "Update"} \subseteq Errors BY DEF Errors
<1>1. Report
  <2>1. CASE User \/ Take \/ Runners \/ Refresh
    BY <2>1, RunningGoesOn DEF NoCommand, None
  <2> QED BY <2>1 DEF Next
<1>2. PICK t \in tasks :
        \/ ReceiveCompleted(t) \/ ReceiveCancelled(t) \/ ReceiveFailed(t) \/ ReceiveRefused(t)
        \/ ReceiveAiStopped(t) \/ ReceiveAiStale(t) \/ ReceiveAiMessage(t)
        \/ ReceiveUpdate(t) \/ ReceivePrompt(t)
  BY <1>1 DEF Report
<1>3. /\ active # NoCommand /\ f = t /\ t.id = active.id /\ t.action = active.action
      /\ t.runner = Runner(t.action) /\ active.action \in ActionKinds
      /\ t.outcome = "Refused" => t.action = "Delete"
  <2>1. tasks = {t} BY <1>0, TheTask
  <2> QED BY <1>0, <2>1, TheTask
<1>4. PICK d : d = ClosePrompt(dialog, t.id) OBVIOUS
<1>5. d \in Dialogs
  <2>1. ErrorsUp(dialog) /\ (dialog.top.kind = "Prompt" => dialog.top = PromptModal(t.id))
    BY <1>3 DEF WorkbenchInv, ErrorInv, ErrorsComeUp, ErrorsUp, PromptInv
  <2> QED BY <1>0, <1>4, <2>1, ClosePromptFacts
<1>6. CASE ReceiveFailed(t)
  <2>1. model.op = t.action
    <3>1. t.action \notin {"AiCommit", "Update"} BY <1>3, <1>6 DEF ReceiveFailed, Reports, Runner
    <3> QED BY <1>0, <1>3, <3>1 DEF MarkInv
  <2>2. FinishAi(model).op = model.op BY <1>0 DEF FinishAi, Marks
  <2>3. AcceptsFailure(FinishAi(model), t.action) BY <2>1, <2>2 DEF AcceptsFailure, SameOperation
  <2>4. dialog' = ShowError(d, "Command") BY <1>4, <1>6, <2>3 DEF ReceiveFailed
  <2> QED BY <1>e, <1>5, <2>4, ShowErrorTells
<1>7. CASE ReceiveRefused(t)
  <2>1. dialog' = SetModal(d, Product("Confirm")) BY <1>4, <1>7 DEF ReceiveRefused
  <2> QED BY <1>5, <2>1 DEF SetModal, Dialogs
<1>8. CASE ReceiveAiStopped(t) \/ ReceiveAiStale(t) \/ ReceiveUpdate(t)
  <2>1. t.runner \in {"codex", "update"}
    BY <1>8 DEF ReceiveAiStopped, ReceiveAiStale, ReceiveUpdate, Reports
  <2>2. t.outcome = "Failed" BY <1>3, <2>1 DEF Runner
  <2>3. dialog' \in {ShowError(dialog, "Ai"), ShowError(dialog, "Update")}
    BY <1>8, <2>2 DEF ReceiveAiStopped, ReceiveAiStale, ReceiveUpdate, None
  <2> QED BY <1>0, <1>e, <2>3, ShowErrorTells
<1>9. CASE ReceiveCompleted(t) \/ ReceiveCancelled(t)
  BY <1>3, <1>9 DEF ReceiveCompleted, ReceiveCancelled
<1>10. CASE ReceiveAiMessage(t)
  BY <1>3, <1>10 DEF ReceiveAiMessage
<1>11. CASE ReceivePrompt(t)
  <2>1. t.action = "Sync" /\ active \in ActiveCommand
    BY <1>0, <1>11, TheTask DEF TypeOK, ReceivePrompt
  <2>2. active' = active \/ active' = [active EXCEPT !.handle = TRUE] BY <1>11 DEF ReceivePrompt
  <2>3. active'.state = "Running" BY <2>1, <2>2 DEF ActiveCommand
  <2> QED BY <2>3 DEF NoCommand, None
<1> QED BY <1>2, <1>6, <1>7, <1>8, <1>9, <1>10, <1>11

(* A failed command is told, and no step but the user's takes the telling     *)
(* away, save the confirmation of a refused deletion. (modal.rs: show_error,  *)
(* set_modal; ADR 0084.)                                                      *)
THEOREM FailuresAreKept ==
  ASSUME ~BatchedClicks
  PROVE  Spec => FailuresKept
<1>1. WorkbenchInv /\ [Next]_vars =>
        [active.state = "Running" /\ active' = NoCommand
           /\ (\E t \in tasks : t.outcome \in {"Failed", "Refused"})
           => Unacknowledged' # {} \/ dialog'.top = Product("Confirm")]_vars
  BY FailureShown DEF Unacknowledged, Unread
<1>2. WorkbenchInv /\ [Next]_vars =>
        [\/ Unacknowledged \subseteq Unacknowledged' \/ DismissError
         \/ dialog'.top = Product("Confirm") /\ dialog.top # dialog'.top]_vars
  BY ErrorsStay DEF Unacknowledged, Unread
<1>3. Spec => FailureTold BY <1>1, WorkbenchInvHolds, PTL DEF Spec, FailureTold
<1>4. Spec => ErrorsLeaveByTheUser BY <1>2, WorkbenchInvHolds, PTL DEF Spec, ErrorsLeaveByTheUser
<1> QED BY <1>3, <1>4 DEF FailuresKept
=============================================================================
