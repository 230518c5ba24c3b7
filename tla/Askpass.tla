------------------------------- MODULE Askpass -------------------------------
(***************************************************************************)
(* The askpass bridge of one Git command.  Git starts Diffo again as a     *)
(* helper for every credential it needs; the helper parses Git's question  *)
(* and sends it over a socket to the bridge's server thread, which runs    *)
(* one handler thread per question.  The handler waits in PromptBroker for *)
(* the user.  The worker drops the bridge, and joins its server, when Git  *)
(* has ended.  Texts are abstracted to whether the checks accept them.     *)
(***************************************************************************)
EXTENDS Sequences, Integers, FiniteSets

CONSTANTS
  Helpers,  \* the helper processes Git may start
  NoHelper,
  NoReply

ASSUME AskpassAssumption ==
  NoHelper \notin Helpers /\ NoReply \notin {"text", "yes", "cancel", "unusable", "Confirm", "Cancel"}

VARIABLES
  helper,     \* [helper -> its state, its question, what it printed]
  reply,      \* [helper -> what the server wrote to its socket]
  backlog,    \* connections the server has yet to accept
  server,     \* the server thread: where it is, its connection and prompt id
  serial,     \* next_prompt_id of the bridge
  handler,    \* the handler thread: "none", "asks", "waits" or its answer
  broker,     \* the id PromptBroker expects, its open prompt, the answer sent
  shown,      \* the prompt the Workbench got last: its id and the helper's
  told,       \* [helper -> what the user answered to its question]
  unread,     \* whether a connection got an id and no prompt was read
  git,        \* "running" or "ended"
  stop,
  cancelled

askpassVars == <<helper, reply, backlog, server, serial, handler, broker, shown, told,
                 unread, git, stop, cancelled>>

Texts == {"text", "unusable"}   \* an answer that is empty, too long or has controls
UserAnswers == Texts \cup {"Confirm", "Cancel"}
NoPromptShown == [id |-> 0, helper |-> NoHelper]

(***************************************************************************)
(* Git's questions, by their form, and the hint SSH gives in the           *)
(* environment.  "odd" is any question the parsers reject.                 *)
(***************************************************************************)
Forms == {"username", "password", "passphrase", "host", "odd"}
Hints == {"absent", "none", "confirm"}

ParseHostConfirmation(form) == IF form = "host" THEN "Confirm" ELSE "rejected"

ParsePrompt(form, hint) ==
  IF hint = "confirm" \/ (hint = "absent" /\ form = "host") THEN ParseHostConfirmation(form)
  ELSE IF form \in {"username", "password", "passphrase"} THEN "Text"
  ELSE "rejected"

AskpassInit ==
  /\ helper = [h \in Helpers |-> [pc |-> "off", class |-> "rejected", printed |-> NoReply]]
  /\ reply = [h \in Helpers |-> NoReply]
  /\ backlog = <<>> /\ serial = 1 /\ handler = "none"
  /\ server = [pc |-> "loop", helper |-> NoHelper, id |-> 0]
  /\ broker = [expected |-> 1, open |-> 0, answer |-> NoReply]
  /\ shown = NoPromptShown /\ told = [h \in Helpers |-> NoReply]
  /\ unread = FALSE /\ git = "running" /\ stop = FALSE /\ cancelled = FALSE

(* --- Git and the helper processes --------------------------------------- *)

Helper(h, pc, next) ==
  /\ helper[h].pc = pc
  /\ helper' = [helper EXCEPT ![h].pc = next]

Elsewhere == UNCHANGED <<serial, handler, broker, shown, told, unread, git, stop, cancelled>>

\* run_askpass: a question it does not understand ends it without an answer.
GitAsks(h) ==
  /\ git = "running" /\ helper[h].pc = "off"
  /\ \E form \in Forms, hint \in Hints :
       LET class == ParsePrompt(form, hint)
       IN  helper' = [helper EXCEPT ![h].pc = IF class = "rejected" THEN "exited" ELSE "connects",
                                    ![h].class = class]
  /\ UNCHANGED <<reply, backlog, server>> /\ Elsewhere

\* The socket is gone once the server thread has ended.
Connect(h) ==
  /\ IF server.pc = "stopped"
     THEN Helper(h, "connects", "exited") /\ UNCHANGED backlog
     ELSE Helper(h, "connects", "connected") /\ backlog' = Append(backlog, h)
  /\ UNCHANGED <<reply, server>> /\ Elsewhere

WritePrompt(h) ==
  /\ Helper(h, "connected", "sent")
  /\ UNCHANGED <<reply, backlog, server>> /\ Elsewhere

\* askpass_answer: prints a usable answer, or fails.
ReadAnswer(h) ==
  /\ helper[h].pc = "sent"
  /\ reply[h] # NoReply \/ server.pc = "stopped"
  /\ helper' = [helper EXCEPT ![h].pc = "exited",
                  ![h].printed = IF reply[h] \in {"text", "yes"} THEN reply[h] ELSE NoReply]
  /\ UNCHANGED <<reply, backlog, server>> /\ Elsewhere

\* Git, the user or SSH's own timeout kills a helper. What it has sent stays in
\* its socket.
HelperDies(h) ==
  /\ helper[h].pc \in {"connects", "connected", "sent"}
  /\ helper' = [helper EXCEPT ![h].pc = IF @ = "sent" THEN "gone" ELSE "exited"]
  /\ UNCHANGED <<reply, backlog, server>> /\ Elsewhere

GitEnds ==
  /\ git = "running" /\ git' = "ended"
  /\ UNCHANGED <<helper, reply, backlog, server, serial, handler, broker, shown, told,
                 unread, stop, cancelled>>

DropBridge ==
  /\ git = "ended" /\ ~stop /\ stop' = TRUE
  /\ UNCHANGED <<helper, reply, backlog, server, serial, handler, broker, shown, told,
                 unread, git, cancelled>>

(* --- The server thread --------------------------------------------------- *)

Listening == [pc |-> "loop", helper |-> NoHelper, id |-> 0]

Loop ==
  /\ server.pc = "loop"
  /\ server' = [server EXCEPT !.pc = IF stop \/ cancelled THEN "stopped" ELSE "accept"]
  /\ UNCHANGED <<helper, reply, backlog>> /\ Elsewhere

Accept ==
  /\ server.pc = "accept"
  /\ IF backlog = <<>>
     THEN server' = Listening /\ UNCHANGED <<backlog, serial>>
     ELSE /\ server' = [pc |-> "read", helper |-> Head(backlog), id |-> serial]
          /\ backlog' = Tail(backlog) /\ serial' = serial + 1
  /\ UNCHANGED <<helper, reply, handler, broker, shown, told, unread, git, stop, cancelled>>

\* The prompt, also of a helper that sent it and died; or the end of one that
\* died before or took more than a second.
ReadPrompt ==
  LET h == server.helper
  IN  /\ server.pc = "read"
      /\ \/ /\ helper[h].pc \in {"sent", "gone"}
            /\ server' = [server EXCEPT !.pc = "wait"] /\ handler' = "asks"
            /\ UNCHANGED <<reply, unread>>
         \/ /\ helper[h].pc \notin {"sent", "gone"}
            /\ server' = Listening /\ unread' = TRUE
            /\ reply' = [reply EXCEPT ![h] = "cancel"]
            /\ UNCHANGED handler
      /\ UNCHANGED <<helper, backlog, serial, broker, shown, told, git, stop, cancelled>>

\* Mutant: a helper that is gone is noticed when its answer is written.
DisconnectUnnoticed(h) == FALSE

Ended == {"exited", "gone"}
HelperDisconnected(h) == helper[h].pc \in Ended

CancelsWhenDisconnected ==
  /\ server.pc = "wait" /\ handler \notin UserAnswers
  /\ HelperDisconnected(server.helper) /\ ~cancelled
  /\ cancelled' = TRUE
  /\ UNCHANGED <<helper, reply, backlog, server, serial, handler, broker, shown, told,
                 unread, git, stop>>

\* Mutant: whatever the user typed is written back.
AnswerOfAnyClass(class, answer) ==
  CASE answer \in Texts -> "text" [] answer = "Confirm" -> "yes" [] OTHER -> "cancel"

AnswerFor(class, answer) ==
  CASE class = "Text" /\ answer = "text" -> "text"
    [] class = "Confirm" /\ answer = "Confirm" -> "yes"
    [] OTHER -> "cancel"

Reply ==
  LET h == server.helper
  IN  /\ server.pc = "wait" /\ handler \in UserAnswers
      /\ reply' = [reply EXCEPT ![h] =
                     IF cancelled THEN "cancel" ELSE AnswerFor(helper[h].class, handler)]
      /\ server' = Listening /\ handler' = "none"
      /\ UNCHANGED <<helper, backlog, serial, broker, shown, told, unread, git, stop, cancelled>>

(* --- The handler thread: PromptBroker::prompt --------------------------- *)

HandlerAsks ==
  /\ handler = "asks"
  /\ IF broker.open # 0 \/ server.id # broker.expected \/ cancelled
     THEN handler' = "Cancel" /\ UNCHANGED <<broker, shown>>
     ELSE /\ handler' = "waits"
          /\ broker' = [broker EXCEPT !.open = server.id, !.answer = NoReply]
          /\ shown' = [id |-> server.id, helper |-> server.helper]
  /\ UNCHANGED <<helper, reply, backlog, server, serial, told, unread, git, stop, cancelled>>

HandlerWaits ==
  /\ handler = "waits"
  /\ \/ /\ broker.answer # NoReply
        /\ handler' = broker.answer /\ UNCHANGED broker
     \/ /\ cancelled
        /\ handler' = "Cancel"
        /\ broker' = [broker EXCEPT !.open = 0]
  /\ UNCHANGED <<helper, reply, backlog, server, serial, shown, told, unread, git, stop, cancelled>>

(* --- The user ------------------------------------------------------------ *)

Answered(answer) == [expected |-> broker.expected + 1, open |-> 0, answer |-> answer]

\* PromptBroker::answer: Cancel cancels the command with the question.
UserAnswersPrompt ==
  /\ shown.id # 0 /\ broker.open = shown.id
  /\ \E answer \in UserAnswers :
       /\ broker' = Answered(answer)
       /\ told' = [told EXCEPT ![shown.helper] = answer]
       /\ cancelled' = (cancelled \/ answer = "Cancel")
  /\ UNCHANGED <<helper, reply, backlog, server, serial, handler, shown, unread, git, stop>>

CancelCommand ==
  /\ ~cancelled /\ cancelled' = TRUE
  /\ broker' = IF broker.open = 0 THEN broker
               ELSE [broker EXCEPT !.open = 0, !.answer = "Cancel"]
  /\ UNCHANGED <<helper, reply, backlog, server, serial, handler, shown, told, unread, git, stop>>

AskpassThreads ==
  \/ Loop \/ Accept \/ ReadPrompt \/ CancelsWhenDisconnected \/ Reply
  \/ HandlerAsks \/ HandlerWaits

HelperMoves(h) == Connect(h) \/ WritePrompt(h) \/ ReadAnswer(h)

AskpassNext ==
  \/ AskpassThreads
  \/ \E h \in Helpers : GitAsks(h) \/ HelperMoves(h) \/ HelperDies(h)
  \/ GitEnds \/ DropBridge \/ UserAnswersPrompt \/ CancelCommand

AskpassSpec == AskpassInit /\ [][AskpassNext]_askpassVars

-----------------------------------------------------------------------------
HelperStates == [pc : {"off", "connects", "connected", "sent", "exited", "gone"},
                 class : {"Text", "Confirm", "rejected"},
                 printed : {"text", "yes", NoReply}]

AskpassTypeOK ==
  /\ helper \in [Helpers -> HelperStates]
  /\ reply \in [Helpers -> {"text", "yes", "cancel", NoReply}]
  /\ told \in [Helpers -> UserAnswers \cup {NoReply}]
  /\ backlog \in Seq(Helpers) /\ serial \in Nat
  /\ server \in [pc : {"loop", "accept", "read", "wait", "stopped"},
                 helper : Helpers \cup {NoHelper}, id : Nat]
  /\ handler \in UserAnswers \cup {"none", "asks", "waits"}
  /\ broker \in [expected : Nat, open : Nat, answer : UserAnswers \cup {NoReply}]
  /\ shown \in [id : Nat, helper : Helpers \cup {NoHelper}]
  /\ git \in {"running", "ended"}
  /\ unread \in BOOLEAN /\ stop \in BOOLEAN /\ cancelled \in BOOLEAN

(* What a helper hands to Git is the usable answer of the right kind that   *)
(* the user gave to this helper's question, whatever other questions were   *)
(* waiting, dying or refused meanwhile. (handle_connection and              *)
(* PromptBroker::answer.)                                                    *)
AnswerReachesItsHelper ==
  \A h \in Helpers : helper[h].printed # NoReply =>
    \/ helper[h].class = "Text" /\ told[h] = "text"
    \/ helper[h].class = "Confirm" /\ told[h] = "Confirm"

(* Unless a helper ended before its prompt was read, the bridge and the     *)
(* broker count the prompts alike: none is refused while the command runs.  *)
(* (next_prompt_id of the bridge against PromptBroker.)                      *)
PromptIdsAgree ==
  handler = "asks" /\ ~unread /\ ~cancelled => broker.open = 0 /\ server.id = broker.expected

(* An answer goes to the helper that asked, and helper, bridge and broker   *)
(* agree about the prompt it is for. (handle_connection; service.rs.)        *)
AskpassAnswers == AskpassTypeOK /\ AnswerReachesItsHelper /\ PromptIdsAgree

(* The bridge waits for nothing but a prompt the user can answer: dropping  *)
(* it ends unless a question is left on screen, and a cancelled command's    *)
(* bridge ends without the user, also when Git or a helper died first.       *)
(* (AskpassBridge::drop, prompt.)                                            *)
OnScreen == broker.open # 0 /\ shown.id = broker.open
BridgeEnds ==
  /\ <>[]OnScreen \/ (stop ~> server.pc = "stopped")
  /\ cancelled ~> server.pc = "stopped"

(* Every helper that sent its question gets an answer or an end, or sees     *)
(* this question of its own put on screen, unless the user leaves another    *)
(* helper's question there for ever; and no question of a dead helper stays  *)
(* there, also when it died before its question was read.                    *)
Asked(h) == OnScreen /\ shown.helper = h
HelpersEnd ==
  /\ \A h \in Helpers :
       \/ helper[h].pc = "sent" ~> (helper[h].pc \in Ended \/ Asked(h))
       \/ \E other \in Helpers \ {h} : <>[]Asked(other)
  /\ \A h \in Helpers : (helper[h].pc \in Ended /\ Asked(h)) ~> ~Asked(h)
=============================================================================
