----------------------- MODULE RepositoryServiceProofs -----------------------
(***************************************************************************)
(* Proofs about RepositoryService, for every value of its constants.       *)
(***************************************************************************)
EXTENDS RepositoryServiceInv, SequenceTheorems, TLAPS

-----------------------------------------------------------------------------
(* The two channels.                                                       *)

LEMMA AppendProps ==
  ASSUME NEW S, NEW s \in Seq(S), NEW e \in S
  PROVE  /\ Append(s, e) \in Seq(S)
         /\ Len(s) \in Nat /\ DOMAIN s = 1..Len(s)
         /\ DOMAIN Append(s, e) = 1..(Len(s) + 1)
         /\ \A i \in DOMAIN s : Append(s, e)[i] = s[i]
         /\ Append(s, e)[Len(s) + 1] = e
         /\ Append(s, e) # <<>>
  OBVIOUS

LEMMA TailProps ==
  ASSUME NEW S, NEW s \in Seq(S), s # <<>>
  PROVE  /\ Tail(s) \in Seq(S) /\ Head(s) \in S /\ Head(s) = s[1]
         /\ Len(s) \in Nat \ {0} /\ DOMAIN s = 1..Len(s)
         /\ DOMAIN Tail(s) = 1..(Len(s) - 1)
         /\ \A i \in DOMAIN Tail(s) : i + 1 \in DOMAIN s /\ Tail(s)[i] = s[i + 1]
  BY HeadTailProperties, LenProperties, EmptySeq

LEMMA Positions ==
  ASSUME NEW S, NEW s \in Seq(S)
  PROVE  \A i \in DOMAIN s : i \in Nat /\ s[i] \in S
  BY LenProperties

LEMMA ReqType ==
  ASSUME NEW k \in RequestKinds, NEW c \in Nat
  PROVE  Req(k, c) \in Request /\ Req(k, c).kind = k /\ Req(k, c).id = c
  BY DEF Req, Request

LEMMA RequestFields ==
  ASSUME NEW r \in Request
  PROVE  r.kind \in RequestKinds /\ r.id \in Nat
  BY DEF Request

LEMMA UpdateType ==
  ASSUME NEW k \in UpdateKinds, NEW g \in Nat, NEW c \in Nat,
         NEW v \in Nat \cup {NoSnapshot}
  PROVE  /\ Update(k, g, c, v) \in Event
         /\ Update(k, g, c, v).kind = k /\ Update(k, g, c, v).gen = g
         /\ Update(k, g, c, v).id = c /\ Update(k, g, c, v).snap = v
  BY DEF Update, Event, EventKinds, NoId

LEMMA FailureType ==
  ASSUME NEW k \in {"RefreshFailed", "WatchFailed", "CommandFailed"},
         NEW g \in Nat, NEW c \in Nat
  PROVE  /\ Update(k, g, c, NoSnapshot) \in Event
         /\ Update(k, g, c, NoSnapshot).kind = k
         /\ Update(k, g, c, NoSnapshot).gen = g
         /\ Update(k, g, c, NoSnapshot).snap = NoSnapshot
  <1>1. k \in UpdateKinds
    BY DEF UpdateKinds, CommandKinds
  <1>2. NoSnapshot \in Nat \cup {NoSnapshot}
    OBVIOUS
  <1> QED BY <1>1 DEF Update, Event, EventKinds, NoId

LEMMA MessageType ==
  ASSUME NEW k \in EventKinds, NEW c \in Nat, NEW p \in Nat
  PROVE  /\ Message(k, c, p) \in Event
         /\ Message(k, c, p).kind = k /\ Message(k, c, p).snap = NoSnapshot
         /\ Message(k, c, p).id = c
  BY DEF Message, Event, NoSnapshot

LEMMA EventFields ==
  ASSUME NEW e \in Event
  PROVE  /\ e.kind \in EventKinds /\ e.gen \in Nat /\ e.id \in Nat
         /\ e.prompt \in Nat /\ e.snap \in Nat \cup {NoSnapshot}
  BY DEF Event

LEMMA Kinds ==
  /\ CommandKinds \subseteq UpdateKinds /\ UpdateKinds \subseteq EventKinds
  /\ {"Snapshot", "RefreshFailed", "WatchFailed"} \subseteq UpdateKinds \ CommandKinds
  /\ {"Prompt", "WorktreeChanged", "Loaded"} \subseteq EventKinds \ UpdateKinds
  BY DEF CommandKinds, UpdateKinds, EventKinds

LEMMA TerminalIsCommand ==
  outcome \in {"Completed", "Cancelled", "Failed"} => TerminalKind \in CommandKinds
  BY DEF TerminalKind, CommandKinds

\* What a send, a receive by the worker and a receive by the loop do to the
\* type of their channel.
LEMMA SendType ==
  ASSUME NEW e \in Event, events \in Seq(Event), Send(e)
  PROVE  events' \in Seq(Event)
  BY DEF Send

LEMMA AskType ==
  ASSUME NEW k \in RequestKinds, NEW c \in Nat, requests \in Seq(Request),
         requests' = Append(requests, Req(k, c))
  PROVE  requests' \in Seq(Request)
  BY ReqType

LEMMA ReceivedType ==
  ASSUME NEW k, NEW K, requests \in Seq(Request), Received(k, K)
  PROVE  /\ requests' \in Seq(Request) /\ Head(requests) \in Request
         /\ Head(requests).kind \in K /\ pc = k
  BY TailProps DEF Received

LEMMA ReceivesType ==
  ASSUME NEW K, events \in Seq(Event), Receives(K)
  PROVE  /\ events' \in Seq(Event) /\ Head(events) \in Event
         /\ Head(events).kind \in K
  BY TailProps DEF Receives

\* What an answer and a cancellation do to the broker.
BrokerType ==
  /\ cancelled \subseteq Nat /\ nextPrompt \in Nat /\ openPrompt \in Nat
  /\ answer \in {NoAnswer, "Text", "Cancel"}

LEMMA AnswersType ==
  ASSUME TypeOK, NEW c \in Nat, NEW a \in {"Text", "Cancel"}, Answers(c, a)
  PROVE  BrokerType'
  BY DEF TypeOK, BrokerType, Answers, NoId

LEMMA CancelsType ==
  ASSUME TypeOK, NEW c \in Nat, NEW g, CancelsCommand(c, g)
  PROVE  BrokerType'
  <1>1. cancelled' = cancelled \cup {c} \/ cancelled' = cancelled
    BY DEF CancelsCommand
  <1>2. openPrompt' = NoId \/ openPrompt' = openPrompt
    BY DEF CancelsCommand
  <1>3. answer' = "Cancel" \/ answer' = answer
    BY DEF CancelsCommand
  <1>4. nextPrompt' = nextPrompt
    BY DEF CancelsCommand
  <1>5. cancelled' \subseteq Nat
    BY <1>1 DEF TypeOK
  <1>6. answer' \in {NoAnswer, "Text", "Cancel"}
    BY <1>3 DEF TypeOK
  <1>7. openPrompt' \in Nat /\ nextPrompt' \in Nat
    BY <1>2, <1>4 DEF TypeOK, NoId
  <1> QED BY <1>5, <1>6, <1>7 DEF BrokerType

LEMMA InitType == Init => TypeOK
  <1>1. NoJob \in Request
    BY ReqType DEF NoJob, RequestKinds, NoId
  <1>11. NoJob.kind # "WatchFailed"
    BY ReqType DEF NoJob, RequestKinds, NoId
  <1>2. NoEvent \in Event
    BY MessageType, Kinds DEF NoEvent, NoId
  <1>3. <<>> \in Seq(Request) /\ <<>> \in Seq(Event)
    BY EmptySeq
  <1>4. NoPrompt \in [id : Nat, prompt : Nat]
    BY DEF NoPrompt, NoId
  <1> SUFFICES ASSUME Init PROVE TypeOK
    OBVIOUS
  <1>5. requests \in Seq(Request) /\ events \in Seq(Event)
    BY <1>3 DEF Init
  <1>6. job \in Request /\ job.kind # "WatchFailed" /\ ready \in Event
    BY <1>1, <1>11, <1>2 DEF Init
  <1>7. uiPrompt \in [id : Nat, prompt : Nat]
    BY <1>4 DEF Init
  <1> QED
    BY <1>5, <1>6, <1>7 DEF Init, TypeOK, NoId, NoAnswer, PCs

LEMMA NextType == TypeOK /\ [Next]_vars => TypeOK'
  <1> SUFFICES ASSUME TypeOK, [Next]_vars PROVE TypeOK'
    OBVIOUS
  <1> USE DEF TypeOK, PCs, NoId, NoAnswer
  <1> USE DEF diskVars, watchVars, workerVars, brokerVars, viewVars, uiVars
  <1>01. NoJob \in Request /\ NoJob.kind # "WatchFailed"
    BY ReqType DEF NoJob, RequestKinds
  <1>02. NoEvent \in Event
    BY MessageType, Kinds DEF NoEvent
  <1>1. CASE StartService
    BY <1>1 DEF StartService
  <1>2. CASE WatcherError
    <2>1. requests' \in Seq(Request)
      BY <1>2, AskType DEF WatcherError, RequestKinds
    <2> QED BY <1>2, <2>1 DEF WatcherError
  <1>3. ASSUME NEW k \in ChangeKinds, ExternalChange(k) PROVE TypeOK'
    BY <1>3 DEF ExternalChange, Touch
  <1>4. CASE WatcherSwap
    BY <1>4 DEF WatcherSwap
  <1>5. CASE WatcherSend
    <2>1. requests' \in Seq(Request)
      BY <1>5, AskType DEF WatcherSend, RequestKinds
    <2> QED BY <1>5, <2>1 DEF WatcherSend
  <1>6. ASSUME NEW k \in ChangeKinds, WatcherNotice(k) PROVE TypeOK'
    BY <1>6 DEF WatcherNotice
  <1>7. CASE RecvRefresh
    BY <1>7, ReceivedType DEF RecvRefresh
  <1>8. CASE ClearPending
    BY <1>8 DEF ClearPending
  <1>9. CASE DebounceRefresh
    BY <1>9, ReceivedType DEF DebounceRefresh
  <1>10. CASE DebounceRequest
    BY <1>10, ReceivedType DEF DebounceRequest
  <1>11. CASE DebounceWatchFailed
    BY <1>11, ReceivedType DEF DebounceWatchFailed
  <1>12. CASE DebounceTimeout
    BY <1>12, <1>01 DEF DebounceTimeout
  <1>13. CASE TakeWorktree
    <2>1. events' \in Seq(Event)
      BY <1>13, MessageType, Kinds, AppendProps DEF TakeWorktree
    <2>2. job.kind \in {"Refresh", "Execute", "Load", "Shutdown"}
      BY RequestFields DEF RequestKinds
    <2>3. pc' \in PCs
      BY <2>2, <1>13 DEF TakeWorktree, NextStage
    <2>4. generation' \in Nat /\ base' \in Nat
      BY <1>13 DEF TakeWorktree
    <2> QED BY <1>13, <2>1, <2>3, <2>4 DEF TakeWorktree
  <1>14. CASE RecvLoad
    BY <1>14, ReceivedType DEF RecvLoad
  <1>15. CASE Query
    <2>1. events' \in Seq(Event)
      BY <1>15, MessageType, Kinds, SendType, RequestFields DEF Query
    <2> QED BY <1>15, <2>1, <1>01 DEF Query, Served
  <1>16. CASE QueryThenRefresh
    <2>1. events' \in Seq(Event)
      BY <1>16, MessageType, Kinds, SendType, RequestFields DEF QueryThenRefresh
    <2> QED BY <1>16, <2>1 DEF QueryThenRefresh, BeginSnapshot
  <1>17. ASSUME NEW v \in base..disk, CollectSnapshot(v) PROVE TypeOK'
    <2>1. events' \in Seq(Event)
      BY <1>17, UpdateType, Kinds, SendType DEF CollectSnapshot
    <2> QED BY <1>17, <2>1, <1>01 DEF CollectSnapshot, Served
  <1>18. CASE CollectFails
    <2>1. events' \in Seq(Event)
      BY <1>18, UpdateType, Kinds, SendType DEF CollectFails, NoSnapshot
    <2> QED BY <1>18, <2>1, <1>01 DEF CollectFails, Served
  <1>19. CASE RecvWatchFailed
    <2>1. events' \in Seq(Event)
      BY <1>19, UpdateType, Kinds, SendType DEF RecvWatchFailed, NoSnapshot
    <2>2. requests' \in Seq(Request)
      BY <1>19, ReceivedType DEF RecvWatchFailed
    <2> QED BY <1>19, <2>1, <2>2 DEF RecvWatchFailed
  <1>20. CASE RecvShutdown
    BY <1>20, ReceivedType DEF RecvShutdown
  <1>21. CASE RecvExecute
    BY <1>21, ReceivedType DEF RecvExecute
  <1>22. CASE ApplyBegins
    BY <1>22 DEF ApplyBegins, BeginSnapshot
  <1>23. ASSUME NEW k \in ChangeKinds, GitChanges(k) PROVE TypeOK'
    BY <1>23 DEF GitChanges, Touch
  <1>24. ASSUME NEW o \in {"Completed", "Cancelled", "Failed"}, GitEnds(o)
         PROVE  TypeOK'
    BY <1>24 DEF GitEnds, BeginSnapshot
  <1>25. ASSUME NEW v \in base..disk, CommandEnds(v) PROVE TypeOK'
    <2>1. TerminalKind \in UpdateKinds /\ job.id \in Nat /\ v \in Nat
      BY TerminalIsCommand, Kinds, RequestFields
    <2>2. ready' \in Event
      BY <1>25, <2>1, UpdateType DEF CommandEnds
    <2> QED BY <1>25, <2>2 DEF CommandEnds, FreesBroker
  <1>26. CASE CommandEndsBlind
    <2>1. ready' \in Event
      BY <1>26, UpdateType, RequestFields
      DEF CommandEndsBlind, NoSnapshot, UpdateKinds, CommandKinds
    <2> QED BY <1>26, <2>1 DEF CommandEndsBlind, FreesBroker
  <1>27. CASE SendTerminal
    <2>1. events' \in Seq(Event)
      BY <1>27, SendType DEF SendTerminal
    <2> QED BY <1>27, <2>1, <1>01, <1>02 DEF SendTerminal, Served
  <1>28. CASE PromptDiscarded
    BY <1>28 DEF PromptDiscarded
  <1>29. CASE PromptAnswered
    BY <1>29 DEF PromptAnswered
  <1>30. CASE PromptBegins
    <2>1. events' \in Seq(Event)
      BY <1>30, MessageType, Kinds, SendType DEF PromptBegins
    <2> QED BY <1>30, <2>1 DEF PromptBegins
  <1>31. CASE AskpassReadFails
    BY <1>31 DEF AskpassReadFails
  <1>32. CASE HelperDisconnects
    BY <1>32, RequestFields DEF HelperDisconnects
  <1>33. CASE Execute
    <2>1. requests' \in Seq(Request)
      BY <1>33, AskType DEF Execute, RequestKinds
    <2> QED BY <1>33, <2>1 DEF Execute
  <1>34. ASSUME NEW q \in 1..MaxLoads, LoadQuery(q) PROVE TypeOK'
    <2>1. requests' \in Seq(Request)
      BY <1>34, AskType DEF LoadQuery, RequestKinds
    <2> QED BY <1>34, <2>1 DEF LoadQuery
  <1>35. CASE CancelActive
    BY <1>35 DEF CancelActive
  <1>36. ASSUME NEW a \in {"Text", "Cancel"}, AnswerPrompt(a) PROVE TypeOK'
    <2>1. uiPrompt.id \in Nat /\ uiPrompt.prompt \in Nat
      OBVIOUS
    <2>2. BrokerType'
      BY <1>36, <2>1, AnswersType, CancelsType DEF AnswerPrompt
    <2>3. uiPrompt' \in [id : Nat, prompt : Nat] /\ lastPrompt' \in Nat
      BY <1>36, <2>1 DEF AnswerPrompt, NoPrompt
    <2> QED BY <1>36, <2>2, <2>3 DEF AnswerPrompt, BrokerType
  <1>37. CASE Quit
    <2>1. requests' \in Seq(Request)
      BY <1>37, AskType DEF Quit, RequestKinds
    <2>2. BrokerType'
      BY <1>37, AnswersType, CancelsType DEF Quit
    <2> QED BY <1>37, <2>1, <2>2 DEF Quit, BrokerType
  <1>38. CASE ReceivePrompt
    <2>1. events' \in Seq(Event) /\ Head(events).id \in Nat /\ Head(events).prompt \in Nat
      BY <1>38, ReceivesType, EventFields DEF ReceivePrompt
    <2>2. BrokerType'
      <3>1. CASE UNCHANGED <<nextPrompt, openPrompt, answer, cancelled>>
        BY <3>1 DEF BrokerType
      <3>2. CASE Answers(Head(events).id, "Cancel")
        BY <3>2, <2>1, AnswersType, CancelsType
      <3>3. CASE CancelsCommand(Head(events).id, FALSE)
        BY <3>3, <2>1, AnswersType, CancelsType
      <3> QED BY <1>38, <3>1, <3>2, <3>3 DEF ReceivePrompt
    <2>3. uiPrompt' \in [id : Nat, prompt : Nat]
      <3>1. \/ uiPrompt' = uiPrompt
            \/ uiPrompt' = [id |-> Head(events).id, prompt |-> Head(events).prompt]
        BY <1>38 DEF ReceivePrompt
      <3> QED BY <2>1, <3>1
    <2> QED BY <1>38, <2>1, <2>2, <2>3 DEF ReceivePrompt, BrokerType
  <1>39. CASE ReceiveWorktreeChanged
    BY <1>39, ReceivesType DEF ReceiveWorktreeChanged
  <1>40. CASE ReceiveLoaded
    <2>1. events' \in Seq(Event)
      BY <1>40, ReceivesType DEF ReceiveLoaded
    <2>2. loads' \subseteq Nat
      BY <1>40 DEF ReceiveLoaded
    <2> QED BY <1>40, <2>1, <2>2 DEF ReceiveLoaded
  <1>41. CASE ReceiveUpdate
    <2>1. /\ events' \in Seq(Event) /\ Head(events).gen \in Nat
          /\ Head(events).snap \in Nat \cup {NoSnapshot}
      BY <1>41, ReceivesType, EventFields DEF ReceiveUpdate
    <2>2. ASSUME AcceptUpdate(Head(events))
          PROVE  /\ uiGeneration' \in Nat /\ seen' \in Nat /\ notice' \in BOOLEAN
                 /\ failures' \in Nat /\ active' \in Nat /\ lastPrompt' \in Nat
                 /\ uiPrompt' \in [id : Nat, prompt : Nat]
      <3>1. uiGeneration' \in Nat /\ failures' \in Nat
        BY <2>1, <2>2 DEF AcceptUpdate, AcceptRefresh, AcceptWatchFailed, AcceptCommand
      <3>2. active' \in Nat /\ lastPrompt' \in Nat /\ uiPrompt' \in [id : Nat, prompt : Nat]
        BY <2>2 DEF AcceptUpdate, AcceptRefresh, AcceptWatchFailed, AcceptCommand,
           Acknowledge, NotAcknowledged, NoPrompt
      <3>3. Install(Head(events)) => seen' \in Nat /\ notice' \in BOOLEAN
        BY <2>1 DEF Install
      <3>4. seen' \in Nat /\ notice' \in BOOLEAN
        BY <2>2, <3>3 DEF AcceptUpdate, AcceptRefresh, AcceptWatchFailed, AcceptCommand
      <3> QED BY <3>1, <3>2, <3>4
    <2>3. /\ uiGeneration' \in Nat /\ seen' \in Nat /\ notice' \in BOOLEAN
          /\ failures' \in Nat /\ active' \in Nat /\ lastPrompt' \in Nat
          /\ uiPrompt' \in [id : Nat, prompt : Nat]
      BY <1>41, <2>2 DEF ReceiveUpdate
    <2> QED BY <1>41, <2>1, <2>3 DEF ReceiveUpdate
  <1>42. CASE Stopped
    BY <1>42 DEF Stopped, vars
  <1>43. CASE UNCHANGED vars
    BY <1>43 DEF vars
  <1> QED
    BY <1>1, <1>2, <1>3, <1>4, <1>5, <1>6, <1>7, <1>8, <1>9, <1>10, <1>11, <1>12,
       <1>13, <1>14, <1>15, <1>16, <1>17, <1>18, <1>19, <1>20, <1>21, <1>22,
       <1>23, <1>24, <1>25, <1>26, <1>27, <1>28, <1>29, <1>30, <1>31, <1>32,
       <1>33, <1>34, <1>35, <1>36, <1>37, <1>38, <1>39, <1>40, <1>41, <1>42, <1>43
    DEF Next, Environment, Watcher, Worker, Git, User, Receive

\* The state of every thread, of every channel and of the event loop stays
\* within its type (service.rs, worker.rs, watcher.rs, main.rs).
THEOREM TypeCorrect == Spec => []TypeOK
  <1>1. TypeOK /\ [Next]_vars => TypeOK'
    BY NextType
  <1> QED BY <1>1, InitType, PTL DEF Spec

-----------------------------------------------------------------------------
(* How a step may change a channel: the entries of interest are those that *)
(* were there, d places further on, and nothing new.                       *)

NoNewExecute(d) ==
  \A i \in DOMAIN requests' : requests'[i].kind = "Execute" =>
     i + d \in DOMAIN requests /\ requests'[i] = requests[i + d]

NoNewUpdate(d) ==
  \A i \in DOMAIN events' : IsUpdate(events'[i]) \/ Carries(events'[i]) =>
     i + d \in DOMAIN events /\ events'[i] = events[i + d]

NoNewTerminal(d) ==
  \A i \in DOMAIN events' : IsTerminal(events'[i]) =>
     i + d \in DOMAIN events /\ events'[i] = events[i + d]

LEMMA RequestsKept ==
  ASSUME TypeOK, UNCHANGED requests
  PROVE  NoNewExecute(0)
  BY LenProperties DEF NoNewExecute, TypeOK

LEMMA RequestAdded ==
  ASSUME TypeOK, NEW k \in {"Refresh", "Load", "WatchFailed", "Shutdown"},
         NEW c \in Nat, requests' = Append(requests, Req(k, c))
  PROVE  NoNewExecute(0)
  BY ReqType, AppendProps DEF NoNewExecute, TypeOK, RequestKinds

LEMMA RequestTaken ==
  ASSUME TypeOK, NEW k, NEW K, Received(k, K)
  PROVE  NoNewExecute(1)
  BY TailProps DEF NoNewExecute, TypeOK, Received

LEMMA EventsKept ==
  ASSUME TypeOK, UNCHANGED events
  PROVE  NoNewUpdate(0)
  BY LenProperties DEF NoNewUpdate, TypeOK

LEMMA MessageSent ==
  ASSUME TypeOK, NEW k \in {"Prompt", "WorktreeChanged", "Loaded"},
         NEW c \in Nat, NEW p \in Nat, Send(Message(k, c, p))
  PROVE  NoNewUpdate(0)
  <1> DEFINE m == Message(k, c, p)
  <1>1. k \in EventKinds \ UpdateKinds
    BY Kinds
  <1>2. m \in Event /\ ~IsUpdate(m) /\ ~Carries(m)
    BY <1>1, MessageType DEF IsUpdate, Carries
  <1>3. events' = Append(events, m)
    BY DEF Send
  <1> HIDE DEF m
  <1> QED BY <1>2, <1>3, AppendProps DEF NoNewUpdate, TypeOK

LEMMA EventTaken ==
  ASSUME TypeOK, NEW K, Receives(K)
  PROVE  NoNewUpdate(1)
  BY TailProps DEF NoNewUpdate, TypeOK, Receives

LEMMA TerminalIsUpdate ==
  ASSUME NEW d, NoNewUpdate(d) PROVE NoNewTerminal(d)
  BY Kinds DEF NoNewTerminal, NoNewUpdate, IsTerminal, IsUpdate

LEMMA RefreshSent ==
  ASSUME TypeOK, NEW k \in {"Snapshot", "RefreshFailed", "WatchFailed"}, NEW g \in Nat,
         NEW v \in Nat \cup {NoSnapshot}, Send(Update(k, g, NoId, v))
  PROVE  NoNewTerminal(0)
  <1> DEFINE m == Update(k, g, NoId, v)
  <1>1. k \in UpdateKinds \ CommandKinds
    BY Kinds
  <1>2. m \in Event /\ ~IsTerminal(m)
    BY <1>1, UpdateType DEF IsTerminal, NoId
  <1>3. events' = Append(events, m)
    BY DEF Send
  <1> HIDE DEF m
  <1> QED BY <1>2, <1>3, AppendProps DEF NoNewTerminal, TypeOK

-----------------------------------------------------------------------------
(* The running command is in one place.                                    *)

LEMMA CommandKept ==
  ASSUME CommandInv, TypeOK, TypeOK', NEW d \in Nat, NEW f \in Nat,
         NoNewExecute(d), NoNewTerminal(f),
         UNCHANGED <<nextId, operation, active>>,
         Serving' => Serving /\ job' = job,
         pc' = "send" => pc = "send" /\ ready' = ready
  PROVE  CommandInv'
  <1>0. requests' \in Seq(Request) /\ events' \in Seq(Event)
    BY DEF TypeOK
  <1>1. \A i \in DOMAIN requests' : i \in Nat
    BY <1>0, Positions
  <1>2. \A i \in DOMAIN events' : i \in Nat
    BY <1>0, Positions
  <1>4. ASSUME NEW i \in DOMAIN requests', requests'[i].kind = "Execute"
        PROVE  /\ operation' # NoId /\ requests'[i].id = operation' /\ ~Serving'
               /\ \A j \in DOMAIN requests' : requests'[j].kind = "Execute" => i = j
    BY <1>1, <1>4 DEF CommandInv, NoNewExecute
  <1>5. ASSUME NEW i \in DOMAIN events', IsTerminal(events'[i])
        PROVE  /\ events'[i].id = active'
               /\ active' # NoId /\ operation' = NoId /\ pc' # "send"
               /\ \A j \in DOMAIN events' : IsTerminal(events'[j]) => i = j
    BY <1>2, <1>5 DEF CommandInv, NoNewTerminal
  <1>6. (Serving => operation # NoId /\ job.id = operation)'
    BY DEF CommandInv
  <1>7. (pc = "send" => /\ IsTerminal(ready) /\ ready.id = active
                        /\ active # NoId /\ operation = NoId)'
    BY DEF CommandInv
  <1> QED BY <1>4, <1>5, <1>6, <1>7 DEF CommandInv

\* The worker takes the one command there is out of the channel.
LEMMA ExecuteTaken ==
  ASSUME TypeOK, CommandInv, NoNewTerminal(0), requests # <<>>,
         Head(requests).kind = "Execute", requests' = Tail(requests),
         job' = Head(requests), pc' # "send", UNCHANGED <<nextId, operation, active>>
  PROVE  CommandInv'
  <1>1. /\ requests \in Seq(Request) /\ 1 \in DOMAIN requests
        /\ Head(requests) = requests[1]
    BY TailProps DEF TypeOK
  <1>2. /\ operation # NoId /\ Head(requests).id = operation
        /\ \A j \in DOMAIN requests : requests[j].kind = "Execute" => j = 1
    BY <1>1 DEF CommandInv
  <1>3. \A i \in DOMAIN requests' : requests'[i].kind # "Execute"
    BY <1>1, <1>2, TailProps
  <1>4. \A i \in DOMAIN events : ~IsTerminal(events[i])
    BY <1>2 DEF CommandInv
  <1>5. \A i \in DOMAIN events' : ~IsTerminal(events'[i])
    <2> SUFFICES ASSUME NEW i \in DOMAIN events', IsTerminal(events'[i]) PROVE FALSE
      OBVIOUS
    <2>1. i + 0 \in DOMAIN events /\ events'[i] = events[i + 0]
      BY DEF NoNewTerminal
    <2> QED BY <2>1, <1>4
  <1> QED BY <1>2, <1>3, <1>5 DEF CommandInv

\* The worker frees the broker and holds the terminal event.
LEMMA CommandOver ==
  ASSUME TypeOK, CommandInv, pc = "final", FreesBroker(job.id),
         IsTerminal(ready'), ready'.id = job.id, pc' = "send",
         UNCHANGED <<nextId, active, requests, events>>
  PROVE  CommandInv'
  <1>1. Serving /\ ~Serving'
    BY DEF Serving
  <1>2. operation # NoId /\ job.id = operation /\ operation = active
    BY <1>1 DEF CommandInv
  <1>3. operation' = NoId
    BY <1>2 DEF FreesBroker
  <1>4. \A i \in DOMAIN requests : requests[i].kind # "Execute"
    BY <1>1 DEF CommandInv
  <1>5. \A i \in DOMAIN events : ~IsTerminal(events[i])
    BY <1>2 DEF CommandInv
  <1> QED BY <1>1, <1>2, <1>3, <1>4, <1>5 DEF CommandInv

LEMMA NextCommand == TypeOK /\ TypeOK' /\ CommandInv /\ [Next]_vars => CommandInv'
  <1> SUFFICES ASSUME TypeOK, TypeOK', CommandInv, [Next]_vars PROVE CommandInv'
    OBVIOUS
  <1> USE DEF diskVars, watchVars, workerVars, brokerVars, viewVars, uiVars
  <1>01. UNCHANGED requests => NoNewExecute(0)
    BY RequestsKept
  <1>02. UNCHANGED events => NoNewTerminal(0)
    BY EventsKept, TerminalIsUpdate
  <1>03. job.id \in Nat /\ disk \in Nat /\ base \in Nat /\ generation \in Nat
    BY RequestFields DEF TypeOK
  <1>1. CASE StartService
    BY <1>1, <1>01, <1>02, CommandKept DEF StartService, Serving
  <1>2. CASE WatcherError
    <2>1. NoNewExecute(0)
      BY <1>2, RequestAdded DEF WatcherError, NoId
    <2> QED BY <1>2, <2>1, <1>02, CommandKept DEF WatcherError, Serving
  <1>3. ASSUME NEW k \in ChangeKinds, ExternalChange(k) PROVE CommandInv'
    BY <1>3, <1>01, <1>02, CommandKept DEF ExternalChange, Serving
  <1>4. CASE WatcherSwap
    BY <1>4, <1>01, <1>02, CommandKept DEF WatcherSwap, Serving
  <1>5. CASE WatcherSend
    <2>1. NoNewExecute(0)
      BY <1>5, RequestAdded DEF WatcherSend, NoId
    <2> QED BY <1>5, <2>1, <1>02, CommandKept DEF WatcherSend, Serving
  <1>6. ASSUME NEW k \in ChangeKinds, WatcherNotice(k) PROVE CommandInv'
    BY <1>6, <1>01, <1>02, CommandKept DEF WatcherNotice, Serving
  <1>7. CASE RecvRefresh
    BY <1>7, RequestTaken, <1>02, CommandKept DEF RecvRefresh, Serving
  <1>8. CASE ClearPending
    BY <1>8, <1>01, <1>02, CommandKept DEF ClearPending, Serving
  <1>9. CASE DebounceRefresh
    BY <1>9, RequestTaken, <1>02, CommandKept DEF DebounceRefresh, Serving
  <1>10. CASE DebounceRequest
    <2>1. NoNewExecute(1) /\ NoNewTerminal(0)
      BY <1>10, <1>02, RequestTaken DEF DebounceRequest
    <2>2. CASE Head(requests).kind = "Execute"
      BY <1>10, <2>1, <2>2, <1>02, ExecuteTaken DEF DebounceRequest, Received
    <2>3. CASE Head(requests).kind # "Execute"
      <3>1. ~Serving' /\ pc' # "send"
        BY <1>10, <2>3 DEF DebounceRequest, Serving
      <3> QED BY <1>10, <2>1, <3>1, CommandKept DEF DebounceRequest
    <2> QED BY <2>2, <2>3
  <1>11. CASE DebounceWatchFailed
    BY <1>11, RequestTaken, <1>02, CommandKept DEF DebounceWatchFailed, Serving
  <1>12. CASE DebounceTimeout
    <2>1. job'.kind # "Execute"
      BY <1>12, ReqType DEF DebounceTimeout, NoJob, RequestKinds, NoId
    <2> QED BY <1>12, <2>1, <1>01, <1>02, CommandKept DEF DebounceTimeout, Serving
  <1>13. CASE TakeWorktree
    <2>1. NoNewTerminal(0)
      BY <1>13, <1>02, MessageSent, TerminalIsUpdate DEF TakeWorktree, Send, NoId
    <2>2. Serving' => Serving
      BY <1>13, RequestFields DEF TakeWorktree, Serving, NextStage, TypeOK, RequestKinds
    <2>3. pc' # "send"
      BY <1>13, RequestFields DEF TakeWorktree, NextStage, TypeOK, RequestKinds
    <2> QED BY <1>13, <2>1, <2>2, <2>3, <1>01, CommandKept DEF TakeWorktree, Serving
  <1>14. CASE RecvLoad
    BY <1>14, RequestTaken, <1>02, CommandKept DEF RecvLoad, Serving
  <1>15. CASE Query
    <2>1. NoNewTerminal(0)
      BY <1>15, <1>03, MessageSent, TerminalIsUpdate DEF Query, NoId
    <2>2. pc' = "recv"
      BY <1>15, <1>15 DEF Query, Served
    <2> QED BY <1>15, <2>1, <2>2, <1>01, CommandKept DEF Query, Serving
  <1>16. CASE QueryThenRefresh
    BY <1>16, <1>01, MessageSent, TerminalIsUpdate, <1>03, CommandKept DEF QueryThenRefresh, Send, NoId, Serving
  <1>17. ASSUME NEW v \in base..disk, CollectSnapshot(v) PROVE CommandInv'
    <2>1. v \in Nat
      BY <1>17, <1>03
    <2>2. NoNewTerminal(0)
      BY <1>17, <2>1, <1>03, RefreshSent DEF CollectSnapshot
    <2>3. pc' = "recv"
      BY <1>17, <1>17 DEF CollectSnapshot, Served
    <2> QED BY <1>17, <2>1, <2>2, <2>3, <1>01, CommandKept DEF CollectSnapshot, Serving
  <1>18. CASE CollectFails
    <2>1. NoNewTerminal(0)
      BY <1>18, <1>03, RefreshSent DEF CollectFails
    <2>2. pc' = "recv"
      BY <1>18, <1>18 DEF CollectFails, Served
    <2> QED BY <1>18, <2>1, <2>2, <1>01, CommandKept DEF CollectFails, Serving
  <1>19. CASE RecvWatchFailed
    <2>1. generation + 1 \in Nat /\ NoId \in Nat
      BY <1>19, <1>03 DEF NoId
    <2>2. NoNewTerminal(0)
      BY <1>19, <2>1, RefreshSent DEF RecvWatchFailed
    <2>3. NoNewExecute(1)
      BY <1>19, RequestTaken DEF RecvWatchFailed
    <2>4. UNCHANGED <<nextId, operation, active, pc, job, ready>>
      BY <1>19, <1>19 DEF RecvWatchFailed
    <2> QED BY <1>19, <2>1, <2>2, <2>3, <2>4, CommandKept DEF RecvWatchFailed, Serving
  <1>20. CASE RecvShutdown
    BY <1>20, RequestTaken, <1>02, CommandKept DEF RecvShutdown, Serving
  <1>21. CASE RecvExecute
    BY <1>21, <1>02, ExecuteTaken DEF RecvExecute, Received
  <1>22. CASE ApplyBegins
    BY <1>22, <1>01, <1>02, CommandKept DEF ApplyBegins, Serving
  <1>23. ASSUME NEW k \in ChangeKinds, GitChanges(k) PROVE CommandInv'
    BY <1>23, <1>01, <1>02, CommandKept DEF GitChanges, Serving
  <1>24. ASSUME NEW o \in {"Completed", "Cancelled", "Failed"}, GitEnds(o) PROVE CommandInv'
    BY <1>24, <1>01, <1>02, CommandKept DEF GitEnds, Serving
  <1>25. ASSUME NEW v \in base..disk, CommandEnds(v) PROVE CommandInv'
    <2>1. TerminalKind \in CommandKinds
      BY TerminalIsCommand DEF TypeOK
    <2>2. IsTerminal(ready') /\ ready'.id = job.id
      BY <1>25, <2>1 DEF CommandEnds, Update, IsTerminal
    <2> QED BY <1>25, <2>2, CommandOver DEF CommandEnds
  <1>26. CASE CommandEndsBlind
    <2>1. IsTerminal(ready') /\ ready'.id = job.id
      BY <1>26 DEF CommandEndsBlind, Update, IsTerminal, CommandKinds
    <2> QED BY <1>26, <2>1, CommandOver DEF CommandEndsBlind
  <1>27. CASE SendTerminal
    <2>1. /\ IsTerminal(ready) /\ ready.id = active /\ active # NoId /\ operation = NoId
          /\ pc = "send" /\ pc' = "recv"
          /\ UNCHANGED <<nextId, requests, operation, active>>
      BY <1>27 DEF CommandInv, SendTerminal, Served
    <2>2. \A i \in DOMAIN requests : requests[i].kind # "Execute"
      BY <2>1 DEF CommandInv
    <2>3. \A i \in DOMAIN events : ~IsTerminal(events[i])
      BY <2>1 DEF CommandInv
    <2>4. \A i \in DOMAIN events' : IsTerminal(events'[i]) =>
             events'[i] = ready /\ i = Len(events) + 1
      <3>1. events \in Seq(Event) /\ ready \in Event /\ events' = Append(events, ready)
        BY <1>27 DEF TypeOK, SendTerminal, Send
      <3> QED BY <3>1, <2>3, AppendProps
    <2>5. ~Serving'
      BY <2>1 DEF Serving
    <2> QED BY <2>1, <2>2, <2>4, <2>5 DEF CommandInv
  <1>28. CASE PromptDiscarded
    BY <1>28, <1>01, <1>02, CommandKept DEF PromptDiscarded, Serving
  <1>29. CASE PromptAnswered
    BY <1>29, <1>01, <1>02, CommandKept DEF PromptAnswered, Serving
  <1>30. CASE PromptBegins
    <2>1. operation \in Nat /\ promptSerial \in Nat
      BY DEF TypeOK
    <2>2. NoNewTerminal(0)
      BY <1>30, <1>02, <2>1, MessageSent, TerminalIsUpdate DEF PromptBegins
    <2>3. Serving' /\ Serving /\ pc' # "send"
      BY <1>30, <1>30 DEF PromptBegins, Serving
    <2> QED BY <1>30, <2>1, <2>2, <2>3, <1>01, CommandKept DEF PromptBegins, Serving
  <1>31. CASE AskpassReadFails
    BY <1>31, <1>01, <1>02, CommandKept DEF AskpassReadFails, Serving
  <1>32. CASE HelperDisconnects
    BY <1>32, <1>01, <1>02, CommandKept DEF HelperDisconnects, Serving
  <1>33. CASE Execute
    <2>1. active = NoId /\ operation = NoId
      BY <1>33 DEF CommandInv, Execute
    <2>2. /\ operation' = nextId /\ active' = nextId /\ nextId' = nextId + 1
          /\ requests' = Append(requests, Req("Execute", nextId))
          /\ UNCHANGED <<pc, job, ready, events>>
      BY <1>33, <2>1 DEF Execute
    <2>3. /\ ~Serving /\ pc # "send"
          /\ \A i \in DOMAIN requests : requests[i].kind # "Execute"
          /\ \A i \in DOMAIN events : ~IsTerminal(events[i])
      BY <2>1 DEF CommandInv
    <2>4. \A i \in DOMAIN requests' : requests'[i].kind = "Execute" =>
             requests'[i].id = nextId /\ i = Len(requests) + 1
      <3>1. /\ requests \in Seq(Request) /\ Req("Execute", nextId) \in Request
            /\ Req("Execute", nextId).id = nextId
        BY ReqType DEF TypeOK, RequestKinds
      <3> QED BY <3>1, <2>2, <2>3, AppendProps
    <2>5. nextId \in Nat /\ nextId > 0
      BY DEF TypeOK, CommandInv
    <2>6. ~Serving'
      BY <2>2, <2>3 DEF Serving
    <2> QED BY <2>2, <2>3, <2>4, <2>5, <2>6 DEF CommandInv, NoId
  <1>34. ASSUME NEW q \in 1..MaxLoads, LoadQuery(q) PROVE CommandInv'
    BY <1>34, RequestAdded, <1>02, CommandKept DEF LoadQuery, Serving
  <1>35. CASE CancelActive
    BY <1>35, <1>01, <1>02, CommandKept DEF CancelActive, Serving
  <1>36. ASSUME NEW a \in {"Text", "Cancel"}, AnswerPrompt(a) PROVE CommandInv'
    BY <1>36, <1>01, <1>02, CommandKept DEF AnswerPrompt, Serving
  <1>37. CASE Quit
    <2>1. NoNewExecute(0)
      BY <1>37, RequestAdded DEF Quit, NoId
    <2>2. UNCHANGED <<nextId, operation, active, pc, job, ready, events>>
      BY <1>37, <1>37 DEF Quit
    <2> QED BY <1>37, <2>1, <2>2, <1>02, CommandKept DEF Quit, Serving
  <1>38. CASE ReceivePrompt
    BY <1>38, <1>01, EventTaken, TerminalIsUpdate, CommandKept DEF ReceivePrompt, Serving
  <1>39. CASE ReceiveWorktreeChanged
    BY <1>39, <1>01, EventTaken, TerminalIsUpdate, CommandKept DEF ReceiveWorktreeChanged, Serving
  <1>40. CASE ReceiveLoaded
    BY <1>40, <1>01, EventTaken, TerminalIsUpdate, CommandKept DEF ReceiveLoaded, Serving
  <1>41. CASE ReceiveUpdate
    <2>1. NoNewExecute(0) /\ NoNewTerminal(1)
      BY <1>41, <1>01, EventTaken, TerminalIsUpdate DEF ReceiveUpdate
    <2>2. UNCHANGED <<nextId, operation, requests, pc, job, ready>>
      BY <1>41 DEF ReceiveUpdate
    <2>3. Serving' = Serving
      BY <2>2 DEF Serving
    <2>4. CASE UNCHANGED active
      BY <2>1, <2>2, <2>3, <2>4, CommandKept
    <2>5. CASE active' # active
      <3>1. IsTerminal(Head(events)) /\ active' = NoId
        BY <1>41, <2>5 DEF ReceiveUpdate, AcceptUpdate, AcceptRefresh, AcceptWatchFailed,
           AcceptCommand, Acknowledge, NotAcknowledged, IsTerminal
      <3>2. /\ events # <<>> /\ events' = Tail(events) /\ events \in Seq(Event)
        BY <1>41 DEF ReceiveUpdate, Receives, TypeOK
      <3>3. /\ operation = NoId /\ active # NoId /\ pc # "send"
            /\ \A j \in DOMAIN events : IsTerminal(events[j]) => j = 1
        BY <3>1, <3>2, TailProps DEF CommandInv
      <3>4. \A i \in DOMAIN events' : ~IsTerminal(events'[i])
        BY <3>2, <3>3, TailProps
      <3>5. ~Serving /\ \A i \in DOMAIN requests : requests[i].kind # "Execute"
        BY <3>3 DEF CommandInv
      <3> QED BY <2>2, <2>3, <3>1, <3>3, <3>4, <3>5 DEF CommandInv
    <2> QED BY <2>4, <2>5
  <1>42. CASE Stopped
    BY <1>42, <1>01, <1>02, CommandKept DEF Stopped, vars, Serving
  <1>43. CASE UNCHANGED vars
    BY <1>43, <1>01, <1>02, CommandKept DEF vars, Serving
  <1> QED
    BY <1>1, <1>2, <1>3, <1>4, <1>5, <1>6, <1>7, <1>8, <1>9, <1>10, <1>11,
       <1>12, <1>13, <1>14, <1>15, <1>16, <1>17, <1>18, <1>19, <1>20, <1>21,
       <1>22, <1>23, <1>24, <1>25, <1>26, <1>27, <1>28, <1>29, <1>30, <1>31,
       <1>32, <1>33, <1>34, <1>35, <1>36, <1>37, <1>38, <1>39, <1>40, <1>41,
       <1>42, <1>43
    DEF Next, Environment, Watcher, Worker, Git, User, Receive

-----------------------------------------------------------------------------
(* Generations grow along the channel out of the service.                  *)

LEMMA GenerationKept ==
  ASSUME TypeOK, TypeOK', GenerationInv, NEW d \in Nat, NoNewUpdate(d),
         UNCHANGED uiGeneration, generation' >= generation,
         Holding' => Holding \/ generation' > generation,
         pc' = "send" => ready'.gen = generation'
  PROVE  GenerationInv'
  <1>1. /\ generation \in Nat /\ generation' \in Nat /\ uiGeneration \in Nat
        /\ events \in Seq(Event) /\ events' \in Seq(Event)
    BY DEF TypeOK
  <1>2. \A i \in DOMAIN events' : i \in Nat
    BY <1>1, Positions
  <1>3. \A i \in DOMAIN events : events[i].gen \in Nat
    BY <1>1, Positions, EventFields
  <1>4. ASSUME NEW i \in DOMAIN events', IsUpdate(events'[i])
        PROVE  /\ uiGeneration' < events'[i].gen
               /\ events'[i].gen <= generation'
               /\ Holding' => events'[i].gen < generation'
               /\ \A j \in DOMAIN events' : j < i /\ IsUpdate(events'[j]) =>
                    events'[j].gen < events'[i].gen
    <2>1. i + d \in DOMAIN events /\ events'[i] = events[i + d]
      BY <1>4 DEF NoNewUpdate
    <2>2. \A j \in DOMAIN events' : j < i /\ IsUpdate(events'[j]) =>
             j + d \in DOMAIN events /\ events'[j] = events[j + d] /\ j + d < i + d
      BY <1>2 DEF NoNewUpdate
    <2>3. IsUpdate(events[i + d])
      BY <1>4, <2>1
    <2> QED BY <1>1, <1>3, <2>1, <2>2, <2>3 DEF GenerationInv
  <1>5. uiGeneration' <= generation' /\ (Holding' => uiGeneration' < generation')
    BY <1>1 DEF GenerationInv
  <1> QED BY <1>4, <1>5 DEF GenerationInv

LEMMA GenerationSent ==
  ASSUME TypeOK, TypeOK', GenerationInv, NEW e \in Event, Send(e),
         e.gen = generation', UNCHANGED uiGeneration, ~Holding', generation' >= generation,
         Holding \/ generation' > generation
  PROVE  GenerationInv'
  <1>1. /\ generation \in Nat /\ generation' \in Nat /\ uiGeneration \in Nat
        /\ events \in Seq(Event) /\ events' = Append(events, e)
    BY DEF TypeOK, Send
  <1>2. \A i \in DOMAIN events : i \in Nat /\ events[i].gen \in Nat
    BY <1>1, Positions, EventFields
  <1>3. pc' # "send"
    BY DEF Holding
  <1>4. \A i \in DOMAIN events : IsUpdate(events[i]) => events[i].gen < generation'
    BY <1>1, <1>2 DEF GenerationInv
  <1>5. uiGeneration < generation'
    BY <1>1 DEF GenerationInv
  <1>6. /\ Len(events) \in Nat /\ DOMAIN events = 1..Len(events)
        /\ DOMAIN events' = 1..(Len(events) + 1)
        /\ \A i \in DOMAIN events : events'[i] = events[i]
        /\ events'[Len(events) + 1] = e
    BY <1>1, AppendProps
  <1>7. ASSUME NEW i \in DOMAIN events', IsUpdate(events'[i])
        PROVE  /\ uiGeneration' < events'[i].gen
               /\ events'[i].gen <= generation'
               /\ \A j \in DOMAIN events' : j < i /\ IsUpdate(events'[j]) =>
                    events'[j].gen < events'[i].gen
    <2>1. CASE i = Len(events) + 1
      BY <1>1, <1>4, <1>5, <1>6, <2>1
    <2>2. CASE i \in DOMAIN events
      <3>1. \A j \in DOMAIN events' : j < i => j \in DOMAIN events
        BY <1>6, <2>2
      <3>2. events'[i] = events[i] /\ IsUpdate(events[i])
        BY <1>6, <1>7, <2>2
      <3>3. uiGeneration < events[i].gen
        BY <2>2, <3>2 DEF GenerationInv
      <3>4. events[i].gen <= generation'
        BY <1>1, <1>2, <1>4, <2>2, <3>2
      <3>5. ASSUME NEW j \in DOMAIN events', j < i, IsUpdate(events'[j])
            PROVE  events'[j].gen < events[i].gen
        <4>1. j \in DOMAIN events /\ IsUpdate(events[j]) /\ events'[j] = events[j]
          BY <1>6, <3>1, <3>5
        <4> QED BY <2>2, <3>2, <3>5, <4>1 DEF GenerationInv
      <3> QED BY <3>2, <3>3, <3>4, <3>5
    <2> QED BY <1>6, <2>1, <2>2
  <1> QED BY <1>1, <1>3, <1>5, <1>7 DEF GenerationInv

LEMMA NextGeneration == TypeOK /\ TypeOK' /\ GenerationInv /\ [Next]_vars => GenerationInv'
  <1> SUFFICES ASSUME TypeOK, TypeOK', GenerationInv, [Next]_vars PROVE GenerationInv'
    OBVIOUS
  <1> USE DEF diskVars, watchVars, workerVars, brokerVars, viewVars, uiVars
  <1>01. UNCHANGED events => NoNewUpdate(0)
    BY EventsKept
  <1>02. /\ job.id \in Nat /\ disk \in Nat /\ base \in Nat /\ generation \in Nat
        /\ operation \in Nat /\ promptSerial \in Nat /\ generation <= generation
        /\ generation + 1 \in Nat /\ generation + 1 > generation /\ NoId \in Nat
    BY RequestFields DEF TypeOK, NoId
  <1>04. /\ {"Snapshot", "RefreshFailed", "WatchFailed"} \subseteq UpdateKinds
         /\ NoSnapshot \in Nat \cup {NoSnapshot} /\ base..disk \subseteq Nat
    BY <1>02, Kinds
  <1>03. pc = "send" => ready.gen = generation
    BY DEF GenerationInv
  <1>1. CASE StartService
    BY <1>1, <1>01, <1>02, <1>03, GenerationKept DEF StartService, Holding
  <1>2. CASE WatcherError
    BY <1>2, <1>01, <1>02, <1>03, GenerationKept DEF WatcherError, Holding
  <1>3. ASSUME NEW k \in ChangeKinds, ExternalChange(k) PROVE GenerationInv'
    BY <1>3, <1>01, <1>02, <1>03, GenerationKept DEF ExternalChange, Holding
  <1>4. CASE WatcherSwap
    BY <1>4, <1>01, <1>02, <1>03, GenerationKept DEF WatcherSwap, Holding
  <1>5. CASE WatcherSend
    BY <1>5, <1>01, <1>02, <1>03, GenerationKept DEF WatcherSend, Holding
  <1>6. ASSUME NEW k \in ChangeKinds, WatcherNotice(k) PROVE GenerationInv'
    BY <1>6, <1>01, <1>02, <1>03, GenerationKept DEF WatcherNotice, Holding
  <1>7. CASE RecvRefresh
    BY <1>7, <1>01, <1>02, <1>03, GenerationKept DEF RecvRefresh, Holding
  <1>8. CASE ClearPending
    BY <1>8, <1>01, <1>02, <1>03, GenerationKept DEF ClearPending, Holding
  <1>9. CASE DebounceRefresh
    BY <1>9, <1>01, <1>02, <1>03, GenerationKept DEF DebounceRefresh, Holding
  <1>10. CASE DebounceRequest
    BY <1>10, <1>01, <1>02, <1>03, GenerationKept DEF DebounceRequest, Holding
  <1>11. CASE DebounceWatchFailed
    BY <1>11, <1>01, <1>02, <1>03, GenerationKept DEF DebounceWatchFailed, Holding
  <1>12. CASE DebounceTimeout
    BY <1>12, <1>01, <1>02, <1>03, GenerationKept DEF DebounceTimeout, Holding
  <1>13. CASE TakeWorktree
    <2>1. NoNewUpdate(0)
      BY <1>13, <1>01, <1>02, MessageSent DEF TakeWorktree, Send
    <2>2. job.kind \in {"Refresh", "Execute", "Load", "Shutdown"}
      BY RequestFields DEF TypeOK, RequestKinds
    <2>3. pc' # "send" /\ (Holding' => generation' > generation)
      BY <1>13, <1>02, <2>2 DEF TakeWorktree, NextStage, Holding
    <2>4. generation' >= generation
      BY <1>13, <1>02 DEF TakeWorktree
    <2> QED BY <1>13, <2>1, <2>3, <2>4, GenerationKept DEF TakeWorktree
  <1>14. CASE RecvLoad
    BY <1>14, <1>01, <1>02, <1>03, GenerationKept DEF RecvLoad, Holding
  <1>15. CASE Query
    <2>1. NoNewUpdate(0)
      BY <1>15, <1>02, MessageSent DEF Query
    <2> QED BY <1>15, <1>02, <2>1, GenerationKept DEF Query, Served, Holding
  <1>16. CASE QueryThenRefresh
    <2>1. NoNewUpdate(0)
      BY <1>16, <1>02, MessageSent DEF QueryThenRefresh
    <2> QED BY <1>16, <1>02, <2>1, GenerationKept DEF QueryThenRefresh
  <1>17. ASSUME NEW v \in base..disk, CollectSnapshot(v) PROVE GenerationInv'
    <2>1. Update("Snapshot", generation, NoId, v) \in Event /\ Update("Snapshot", generation, NoId, v).gen = generation'
      BY <1>17, <1>02, <1>04, UpdateType DEF CollectSnapshot
    <2>2. ~Holding' /\ (Holding \/ generation' > generation) /\ generation' >= generation
      BY <1>17, <1>02 DEF CollectSnapshot, Served, Holding
    <2> QED BY <1>17, <2>1, <2>2, GenerationSent DEF CollectSnapshot
  <1>18. CASE CollectFails
    <2>0. generation' = generation
      BY <1>18 DEF CollectFails
    <2>1. Update("RefreshFailed", generation, NoId, NoSnapshot) \in Event /\ Update("RefreshFailed", generation, NoId, NoSnapshot).gen = generation'
      BY <2>0, <1>02, FailureType
    <2>2. ~Holding' /\ (Holding \/ generation' > generation) /\ generation' >= generation
      BY <1>18, <1>02 DEF CollectFails, Served, Holding
    <2> QED BY <1>18, <2>1, <2>2, GenerationSent DEF CollectFails
  <1>19. CASE RecvWatchFailed
    <2>0. generation' = generation + 1
      BY <1>19 DEF RecvWatchFailed
    <2>1. Update("WatchFailed", generation + 1, NoId, NoSnapshot) \in Event /\ Update("WatchFailed", generation + 1, NoId, NoSnapshot).gen = generation'
      BY <2>0, <1>02, FailureType
    <2>2. ~Holding' /\ (Holding \/ generation' > generation) /\ generation' >= generation
      BY <1>19, <1>02 DEF RecvWatchFailed, Received, Served, Holding
    <2> QED BY <1>19, <2>1, <2>2, GenerationSent DEF RecvWatchFailed, Received
  <1>20. CASE RecvShutdown
    BY <1>20, <1>01, <1>02, <1>03, GenerationKept DEF RecvShutdown, Holding
  <1>21. CASE RecvExecute
    BY <1>21, <1>01, <1>02, <1>03, GenerationKept DEF RecvExecute, Holding
  <1>22. CASE ApplyBegins
    BY <1>22, <1>01, <1>02, <1>03, GenerationKept DEF ApplyBegins, Holding
  <1>23. ASSUME NEW k \in ChangeKinds, GitChanges(k) PROVE GenerationInv'
    BY <1>23, <1>01, <1>02, <1>03, GenerationKept DEF GitChanges, Holding
  <1>24. ASSUME NEW o \in {"Completed", "Cancelled", "Failed"}, GitEnds(o) PROVE GenerationInv'
    BY <1>24, <1>01, <1>02, <1>03, GenerationKept DEF GitEnds, Holding
  <1>25. ASSUME NEW v \in base..disk, CommandEnds(v) PROVE GenerationInv'
    <2>1. ready'.gen = generation
      BY <1>25 DEF CommandEnds, Update
    <2> QED BY <1>25, <2>1, <1>01, <1>02, GenerationKept DEF CommandEnds, Holding
  <1>26. CASE CommandEndsBlind
    <2>1. ready'.gen = generation
      BY <1>26 DEF CommandEndsBlind, Update
    <2> QED BY <1>26, <2>1, <1>01, <1>02, GenerationKept DEF CommandEndsBlind, Holding
  <1>27. CASE SendTerminal
    <2>1. ready \in Event /\ Holding /\ ~Holding' /\ ready.gen = generation
      BY <1>27, <1>03 DEF SendTerminal, Served, Holding, TypeOK
    <2> QED BY <1>27, <1>02, <2>1, GenerationSent DEF SendTerminal
  <1>28. CASE PromptDiscarded
    BY <1>28, <1>01, <1>02, <1>03, GenerationKept DEF PromptDiscarded, Holding
  <1>29. CASE PromptAnswered
    BY <1>29, <1>01, <1>02, <1>03, GenerationKept DEF PromptAnswered, Holding
  <1>30. CASE PromptBegins
    <2>1. NoNewUpdate(0)
      BY <1>30, <1>01, <1>02, MessageSent DEF PromptBegins
    <2> QED BY <1>30, <1>02, <2>1, GenerationKept DEF PromptBegins, Holding
  <1>31. CASE AskpassReadFails
    BY <1>31, <1>01, <1>02, <1>03, GenerationKept DEF AskpassReadFails, Holding
  <1>32. CASE HelperDisconnects
    BY <1>32, <1>01, <1>02, <1>03, GenerationKept DEF HelperDisconnects, Holding
  <1>33. CASE Execute
    BY <1>33, <1>01, <1>02, <1>03, GenerationKept DEF Execute, Holding
  <1>34. ASSUME NEW q \in 1..MaxLoads, LoadQuery(q) PROVE GenerationInv'
    BY <1>34, <1>01, <1>02, <1>03, GenerationKept DEF LoadQuery, Holding
  <1>35. CASE CancelActive
    BY <1>35, <1>01, <1>02, <1>03, GenerationKept DEF CancelActive, Holding
  <1>36. ASSUME NEW a \in {"Text", "Cancel"}, AnswerPrompt(a) PROVE GenerationInv'
    BY <1>36, <1>01, <1>02, <1>03, GenerationKept DEF AnswerPrompt, Holding
  <1>37. CASE Quit
    BY <1>37, <1>01, <1>02, <1>03, GenerationKept DEF Quit, Holding
  <1>38. CASE ReceivePrompt
    BY <1>38, EventTaken, <1>02, <1>03, GenerationKept DEF ReceivePrompt, Holding
  <1>39. CASE ReceiveWorktreeChanged
    BY <1>39, EventTaken, <1>02, <1>03, GenerationKept DEF ReceiveWorktreeChanged, Holding
  <1>40. CASE ReceiveLoaded
    BY <1>40, EventTaken, <1>02, <1>03, GenerationKept DEF ReceiveLoaded, Holding
  <1>41. CASE ReceiveUpdate
    <2> DEFINE e == Head(events)
    <2>1. /\ events \in Seq(Event) /\ events # <<>> /\ events' = Tail(events)
          /\ IsUpdate(e) /\ e = events[1] /\ 1 \in DOMAIN events
      BY <1>41, TailProps DEF ReceiveUpdate, Receives, TypeOK, IsUpdate
    <2>2. /\ uiGeneration < e.gen /\ e.gen <= generation
          /\ (Holding => e.gen < generation) /\ e.gen \in Nat
      BY <2>1, EventFields DEF GenerationInv
    <2>3. uiGeneration' = e.gen
      BY <1>41, <2>2 DEF ReceiveUpdate, AcceptUpdate, TypeOK
    <2>4. /\ DOMAIN events = 1..Len(events) /\ Len(events) \in Nat
          /\ DOMAIN events' = 1..(Len(events) - 1)
          /\ \A i \in DOMAIN events' : i + 1 \in DOMAIN events /\ events'[i] = events[i + 1]
      BY <2>1, TailProps
    <2>5. UNCHANGED <<generation, pc, ready>>
      BY <1>41 DEF ReceiveUpdate
    <2>6. Holding' = Holding
      BY <2>5 DEF Holding
    <2>7. ASSUME NEW i \in DOMAIN events', IsUpdate(events'[i])
          PROVE  /\ e.gen < events'[i].gen
                 /\ events'[i].gen <= generation
                 /\ Holding => events'[i].gen < generation
                 /\ \A j \in DOMAIN events' : j < i /\ IsUpdate(events'[j]) =>
                      events'[j].gen < events'[i].gen
      <3>1. 1 < i + 1 /\ \A j \in DOMAIN events' : j < i => j + 1 < i + 1
        BY <2>4
      <3>2. i + 1 \in DOMAIN events /\ IsUpdate(events[i + 1])
        BY <2>4, <2>7
      <3> QED BY <2>1, <2>4, <3>1, <3>2 DEF GenerationInv
    <2> HIDE DEF e
    <2> QED BY <2>2, <2>3, <2>5, <2>6, <2>7, <1>03 DEF GenerationInv
  <1>42. CASE Stopped
    BY <1>42, <1>01, <1>02, <1>03, GenerationKept DEF Stopped, vars, Holding
  <1>43. CASE UNCHANGED vars
    BY <1>43, <1>01, <1>02, <1>03, GenerationKept DEF vars, Holding
  <1> QED
    BY <1>1, <1>2, <1>3, <1>4, <1>5, <1>6, <1>7, <1>8, <1>9, <1>10, <1>11,
       <1>12, <1>13, <1>14, <1>15, <1>16, <1>17, <1>18, <1>19, <1>20, <1>21,
       <1>22, <1>23, <1>24, <1>25, <1>26, <1>27, <1>28, <1>29, <1>30, <1>31,
       <1>32, <1>33, <1>34, <1>35, <1>36, <1>37, <1>38, <1>39, <1>40, <1>41,
       <1>42, <1>43
    DEF Next, Environment, Watcher, Worker, Git, User, Receive

-----------------------------------------------------------------------------
(* Snapshots grow along the channel out of the service.                    *)

NoNewSnapshot(d) ==
  \A i \in DOMAIN events' : Carries(events'[i]) =>
     i + d \in DOMAIN events /\ events'[i] = events[i + d]

LEMMA SnapshotIsUpdate ==
  ASSUME NEW d, NoNewUpdate(d) PROVE NoNewSnapshot(d)
  BY DEF NoNewSnapshot, NoNewUpdate

LEMMA FailureSent ==
  ASSUME TypeOK, NEW e \in Event, ~Carries(e), Send(e)
  PROVE  NoNewSnapshot(0)
  BY AppendProps DEF NoNewSnapshot, TypeOK, Send

LEMMA VersionTypes ==
  ASSUME TypeOK
  PROVE  /\ disk \in Nat /\ commandDisk \in Nat /\ base \in Nat /\ seen \in Nat
         /\ ready.snap \in Int /\ events \in Seq(Event)
         /\ \A i \in DOMAIN events : i \in Nat /\ events[i].snap \in Int
  <1>1. \A e \in Event : e.snap \in Int
    BY EventFields DEF NoSnapshot
  <1> QED BY <1>1, Positions DEF TypeOK

LEMMA SnapshotKept ==
  ASSUME TypeOK, TypeOK', SnapshotInv, NEW d \in Nat, NoNewSnapshot(d),
         UNCHANGED <<seen, commandDisk, ready>>, disk' >= disk,
         Snapshotting' => (Snapshotting /\ base' = base) \/ base' = disk,
         pc' = "final" => pc = "final" \/ base' = disk,
         pc' = "send" => pc = "send"
  PROVE  SnapshotInv'
  <1>1. \A i \in DOMAIN events' : i \in Nat
    BY Positions DEF TypeOK
  <1>2. ASSUME NEW i \in DOMAIN events', Carries(events'[i])
        PROVE  /\ IsUpdate(events'[i])
               /\ seen' <= events'[i].snap /\ events'[i].snap <= disk'
               /\ Snapshotting' => events'[i].snap <= base'
               /\ pc' = "send" /\ Carries(ready') => events'[i].snap <= ready'.snap
               /\ IsTerminal(events'[i]) => commandDisk' <= events'[i].snap
               /\ \A j \in DOMAIN events' : j < i /\ Carries(events'[j]) =>
                    events'[j].snap <= events'[i].snap
    <2>1. i + d \in DOMAIN events /\ events'[i] = events[i + d] /\ Carries(events[i + d])
      BY <1>2 DEF NoNewSnapshot
    <2>2. \A j \in DOMAIN events' : j < i /\ Carries(events'[j]) =>
             j + d \in DOMAIN events /\ events'[j] = events[j + d] /\ j + d < i + d
      BY <1>1 DEF NoNewSnapshot
    <2>3. \A j \in DOMAIN events' : j < i /\ Carries(events'[j]) =>
             events'[j].snap <= events'[i].snap
      BY <2>1, <2>2 DEF SnapshotInv
    <2>4. events[i + d].snap <= disk /\ events[i + d].snap \in Int /\ disk' \in Nat
      BY <2>1, VersionTypes DEF SnapshotInv, TypeOK
    <2> QED BY <2>1, <2>3, <2>4, VersionTypes DEF SnapshotInv
  <1>30. disk' \in Nat /\ disk' >= disk
    BY DEF TypeOK
  <1>31. seen <= disk /\ commandDisk <= disk /\ ready.snap <= disk
    BY DEF SnapshotInv
  <1>3. disk' \in Nat /\ seen <= disk' /\ commandDisk <= disk' /\ ready.snap <= disk'
    BY <1>30, <1>31, VersionTypes
  <1>4. Snapshotting' => base' <= disk' /\ seen <= base'
    BY <1>3, VersionTypes DEF SnapshotInv
  <1>5. pc' = "final" => commandDisk <= base'
    BY VersionTypes DEF SnapshotInv, Snapshotting
  <1>6. pc' = "send" /\ Carries(ready) => seen <= ready.snap /\ commandDisk <= ready.snap
    BY DEF SnapshotInv
  <1> QED BY <1>2, <1>3, <1>4, <1>5, <1>6 DEF SnapshotInv

LEMMA SnapshotSent ==
  ASSUME TypeOK, TypeOK', SnapshotInv, NEW e \in Event, Send(e), Carries(e), IsUpdate(e),
         UNCHANGED <<seen, disk, commandDisk>>, ~Snapshotting', pc' # "send",
         seen <= e.snap, e.snap <= disk, ready'.snap <= disk,
         IsTerminal(e) => commandDisk <= e.snap,
         \A i \in DOMAIN events : Carries(events[i]) => events[i].snap <= e.snap
  PROVE  SnapshotInv'
  <1>1. /\ Len(events) \in Nat /\ DOMAIN events = 1..Len(events)
        /\ DOMAIN events' = 1..(Len(events) + 1)
        /\ \A i \in DOMAIN events : events'[i] = events[i]
        /\ events'[Len(events) + 1] = e
    <2>1. events \in Seq(Event) /\ events' = Append(events, e)
      BY DEF Send, TypeOK
    <2> QED BY <2>1, AppendProps
  <1>2. pc' # "final"
    BY DEF Snapshotting
  <1>3. ASSUME NEW i \in DOMAIN events', Carries(events'[i])
        PROVE  /\ IsUpdate(events'[i])
               /\ seen <= events'[i].snap /\ events'[i].snap <= disk
               /\ IsTerminal(events'[i]) => commandDisk <= events'[i].snap
               /\ \A j \in DOMAIN events' : j < i /\ Carries(events'[j]) =>
                    events'[j].snap <= events'[i].snap
    <2>1. CASE i = Len(events) + 1
      BY <1>1, <2>1
    <2>2. CASE i \in DOMAIN events
      <3>1. \A j \in DOMAIN events' : j < i => j \in DOMAIN events
        BY <1>1, <2>2
      <3>2. events'[i] = events[i]
        BY <1>1, <2>2
      <3> QED BY <1>1, <1>3, <2>2, <3>1, <3>2 DEF SnapshotInv
    <2> QED BY <1>1, <2>1, <2>2
  <1>4. seen <= disk /\ commandDisk <= disk
    BY DEF SnapshotInv
  <1> QED BY <1>2, <1>3, <1>4 DEF SnapshotInv

LEMMA NextSnapshot ==
  TypeOK /\ TypeOK' /\ CommandInv /\ SnapshotInv /\ [Next]_vars => SnapshotInv'
  <1> SUFFICES ASSUME TypeOK, TypeOK', CommandInv, SnapshotInv, [Next]_vars
               PROVE  SnapshotInv'
    OBVIOUS
  <1> USE DEF diskVars, watchVars, workerVars, brokerVars, viewVars, uiVars
  <1>01. UNCHANGED events => NoNewSnapshot(0)
    BY EventsKept, SnapshotIsUpdate
  <1>02. /\ job.id \in Nat /\ generation \in Nat /\ operation \in Nat
         /\ promptSerial \in Nat /\ generation + 1 \in Nat /\ NoId \in Nat
    BY RequestFields DEF TypeOK, NoId
  <1>03. disk \in Nat /\ disk <= disk /\ disk + 1 >= disk
    BY DEF TypeOK
  <1>1. CASE StartService
    BY <1>1, <1>01, <1>03, SnapshotKept DEF StartService, Snapshotting
  <1>2. CASE WatcherError
    BY <1>2, <1>01, <1>03, SnapshotKept DEF WatcherError, Snapshotting
  <1>3. ASSUME NEW k \in ChangeKinds, ExternalChange(k) PROVE SnapshotInv'
    BY <1>3, <1>01, <1>03, SnapshotKept DEF ExternalChange, Touch, Snapshotting
  <1>4. CASE WatcherSwap
    BY <1>4, <1>01, <1>03, SnapshotKept DEF WatcherSwap, Snapshotting
  <1>5. CASE WatcherSend
    BY <1>5, <1>01, <1>03, SnapshotKept DEF WatcherSend, Snapshotting
  <1>6. ASSUME NEW k \in ChangeKinds, WatcherNotice(k) PROVE SnapshotInv'
    BY <1>6, <1>01, <1>03, SnapshotKept DEF WatcherNotice, Snapshotting
  <1>7. CASE RecvRefresh
    BY <1>7, <1>01, <1>03, SnapshotKept DEF RecvRefresh, Snapshotting
  <1>8. CASE ClearPending
    BY <1>8, <1>01, <1>03, SnapshotKept DEF ClearPending, Snapshotting
  <1>9. CASE DebounceRefresh
    BY <1>9, <1>01, <1>03, SnapshotKept DEF DebounceRefresh, Snapshotting
  <1>10. CASE DebounceRequest
    BY <1>10, <1>01, <1>03, SnapshotKept DEF DebounceRequest, Snapshotting
  <1>11. CASE DebounceWatchFailed
    BY <1>11, <1>01, <1>03, SnapshotKept DEF DebounceWatchFailed, Snapshotting
  <1>12. CASE DebounceTimeout
    BY <1>12, <1>01, <1>03, SnapshotKept DEF DebounceTimeout, Snapshotting
  <1>13. CASE TakeWorktree
    <2>1. NoNewSnapshot(0)
      BY <1>13, <1>01, <1>02, MessageSent, SnapshotIsUpdate DEF TakeWorktree, Send
    <2>2. job.kind \in {"Refresh", "Execute", "Load", "Shutdown"}
      BY RequestFields DEF TypeOK, RequestKinds
    <2>3. pc' \notin {"send", "final"} /\ (Snapshotting' => base' = disk)
      BY <1>13, <2>2 DEF TakeWorktree, NextStage, Snapshotting
    <2> QED BY <1>13, <1>03, <2>1, <2>3, SnapshotKept DEF TakeWorktree
  <1>14. CASE RecvLoad
    BY <1>14, <1>01, <1>03, SnapshotKept DEF RecvLoad, Snapshotting
  <1>15. CASE Query
    <2>1. NoNewSnapshot(0)
      BY <1>15, <1>01, <1>02, MessageSent, SnapshotIsUpdate DEF Query
    <2> QED BY <1>15, <1>03, <2>1, SnapshotKept DEF Query, Snapshotting, Served
  <1>16. CASE QueryThenRefresh
    <2>1. NoNewSnapshot(0)
      BY <1>16, <1>01, <1>02, MessageSent, SnapshotIsUpdate DEF QueryThenRefresh
    <2> QED BY <1>16, <1>03, <2>1, SnapshotKept DEF QueryThenRefresh, Snapshotting, BeginSnapshot
  <1>17. ASSUME NEW v \in base..disk, CollectSnapshot(v) PROVE SnapshotInv'
    <2> DEFINE e == Update("Snapshot", generation, NoId, v)
    <2>1. v \in Nat /\ base <= v /\ v <= disk
      BY <1>03 DEF TypeOK
    <2>2. e \in Event /\ e.kind = "Snapshot" /\ e.snap = v
      BY <1>02, <2>1, UpdateType, Kinds
    <2>3. Carries(e) /\ IsUpdate(e) /\ ~IsTerminal(e)
      BY <2>1, <2>2, Kinds DEF Carries, IsUpdate, IsTerminal, NoSnapshot
    <2>4. /\ Send(e) /\ pc = "collect" /\ pc' = "recv"
          /\ UNCHANGED <<seen, disk, commandDisk, ready>>
      BY <1>17 DEF CollectSnapshot, Served
    <2>5. /\ seen <= v /\ ready.snap <= disk
          /\ \A i \in DOMAIN events : Carries(events[i]) => events[i].snap <= v
      BY <2>1, <2>4, VersionTypes DEF SnapshotInv, Snapshotting
    <2> HIDE DEF e
    <2> QED BY <2>1, <2>2, <2>3, <2>4, <2>5, SnapshotSent DEF Snapshotting
  <1>18. CASE CollectFails
    <2>1. NoNewSnapshot(0)
      BY <1>18, <1>02, FailureType, FailureSent DEF CollectFails, Carries
    <2> QED BY <1>18, <1>03, <2>1, SnapshotKept DEF CollectFails, Served, Snapshotting
  <1>19. CASE RecvWatchFailed
    <2>1. NoNewSnapshot(0)
      BY <1>19, <1>02, FailureType, FailureSent DEF RecvWatchFailed, Carries
    <2> QED BY <1>19, <1>03, <2>1, SnapshotKept DEF RecvWatchFailed, Snapshotting
  <1>20. CASE RecvShutdown
    BY <1>20, <1>01, <1>03, SnapshotKept DEF RecvShutdown, Snapshotting
  <1>21. CASE RecvExecute
    BY <1>21, <1>01, <1>03, SnapshotKept DEF RecvExecute, Snapshotting
  <1>22. CASE ApplyBegins
    BY <1>22, <1>01, <1>03, SnapshotKept DEF ApplyBegins, BeginSnapshot, Snapshotting
  <1>23. ASSUME NEW k \in ChangeKinds, GitChanges(k) PROVE SnapshotInv'
    <2>1. /\ pc = "git" /\ disk' = disk + 1 /\ commandDisk' = disk + 1
          /\ UNCHANGED <<seen, pc, base, ready, events>>
      BY <1>23 DEF GitChanges, Touch
    <2>2. \A i \in DOMAIN events : ~IsTerminal(events[i])
      BY <2>1 DEF CommandInv, Serving
    <2>3. /\ ~Snapshotting' /\ seen <= disk' /\ commandDisk' <= disk' /\ ready.snap <= disk'
          /\ \A i \in DOMAIN events : events[i].snap <= disk => events[i].snap <= disk'
      BY <2>1, VersionTypes DEF SnapshotInv, Snapshotting
    <2> QED BY <2>1, <2>2, <2>3 DEF SnapshotInv
  <1>24. ASSUME NEW o \in {"Completed", "Cancelled", "Failed"}, GitEnds(o) PROVE SnapshotInv'
    BY <1>24, <1>01, <1>03, SnapshotKept DEF GitEnds, BeginSnapshot, Snapshotting
  <1>25. ASSUME NEW v \in base..disk, CommandEnds(v) PROVE SnapshotInv'
    <2>1. v \in Nat /\ base <= v /\ v <= disk
      BY <1>03 DEF TypeOK
    <2>2. /\ pc = "final" /\ pc' = "send" /\ ready'.snap = v
          /\ UNCHANGED <<seen, disk, commandDisk, base, events>>
      BY <1>25 DEF CommandEnds, Update
    <2>3. /\ seen <= v /\ commandDisk <= v
          /\ \A i \in DOMAIN events : Carries(events[i]) => events[i].snap <= v
      BY <2>1, <2>2, VersionTypes DEF SnapshotInv, Snapshotting
    <2> QED BY <2>1, <2>2, <2>3 DEF SnapshotInv, Snapshotting
  <1>26. CASE CommandEndsBlind
    <2>1. /\ pc = "final" /\ pc' = "send" /\ ~Carries(ready') /\ ready'.snap = NoSnapshot
          /\ UNCHANGED <<seen, disk, commandDisk, base, events>>
      BY <1>26 DEF CommandEndsBlind, Update, Carries
    <2>2. NoSnapshot <= disk
      BY <1>03 DEF NoSnapshot
    <2> QED BY <2>1, <2>2 DEF SnapshotInv, Snapshotting
  <1>27. CASE SendTerminal
    <2>1. /\ pc = "send" /\ pc' = "recv" /\ Send(ready) /\ ready \in Event
          /\ IsTerminal(ready) /\ UNCHANGED <<seen, disk, commandDisk>>
      BY <1>27 DEF SendTerminal, Served, CommandInv, TypeOK
    <2>2. IsUpdate(ready)
      BY <2>1, Kinds DEF IsUpdate, IsTerminal
    <2>3. ready' = NoEvent /\ NoEvent.snap = NoSnapshot /\ NoSnapshot <= disk
      BY <1>27, <1>03 DEF SendTerminal, NoEvent, Message, NoSnapshot
    <2>4. CASE Carries(ready)
      <3>1. /\ seen <= ready.snap /\ commandDisk <= ready.snap /\ ready.snap <= disk
            /\ \A i \in DOMAIN events : Carries(events[i]) => events[i].snap <= ready.snap
        BY <2>1, <2>4 DEF SnapshotInv
      <3> QED BY <2>1, <2>2, <2>3, <2>4, <3>1, SnapshotSent DEF Snapshotting
    <2>5. CASE ~Carries(ready)
      <3>1. NoNewSnapshot(0)
        BY <2>1, <2>5, FailureSent
      <3>2. \A i \in DOMAIN events' : Carries(events'[i]) =>
               i \in DOMAIN events /\ events'[i] = events[i]
        <4>1. \A i \in DOMAIN events' : i \in Nat
          BY Positions DEF TypeOK
        <4> QED BY <3>1, <4>1 DEF NoNewSnapshot
      <3>3. \A i \in DOMAIN events' : Carries(events'[i]) =>
               /\ IsUpdate(events'[i])
               /\ seen <= events'[i].snap /\ events'[i].snap <= disk
               /\ IsTerminal(events'[i]) => commandDisk <= events'[i].snap
               /\ \A j \in DOMAIN events' : j < i /\ Carries(events'[j]) =>
                    events'[j].snap <= events'[i].snap
        BY <3>2 DEF SnapshotInv
      <3> QED BY <2>1, <2>3, <3>3 DEF SnapshotInv, Snapshotting
    <2> QED BY <2>4, <2>5
  <1>28. CASE PromptDiscarded
    BY <1>28, <1>01, <1>03, SnapshotKept DEF PromptDiscarded, Snapshotting
  <1>29. CASE PromptAnswered
    BY <1>29, <1>01, <1>03, SnapshotKept DEF PromptAnswered, Snapshotting
  <1>30. CASE PromptBegins
    <2>1. NoNewSnapshot(0)
      BY <1>30, <1>01, <1>02, MessageSent, SnapshotIsUpdate DEF PromptBegins
    <2> QED BY <1>30, <1>03, <2>1, SnapshotKept DEF PromptBegins, Snapshotting
  <1>31. CASE AskpassReadFails
    BY <1>31, <1>01, <1>03, SnapshotKept DEF AskpassReadFails, Snapshotting
  <1>32. CASE HelperDisconnects
    BY <1>32, <1>01, <1>03, SnapshotKept DEF HelperDisconnects, Snapshotting
  <1>33. CASE Execute
    BY <1>33, <1>01, <1>03, SnapshotKept DEF Execute, Snapshotting
  <1>34. ASSUME NEW q \in 1..MaxLoads, LoadQuery(q) PROVE SnapshotInv'
    BY <1>34, <1>01, <1>03, SnapshotKept DEF LoadQuery, Snapshotting
  <1>35. CASE CancelActive
    BY <1>35, <1>01, <1>03, SnapshotKept DEF CancelActive, Snapshotting
  <1>36. ASSUME NEW a \in {"Text", "Cancel"}, AnswerPrompt(a) PROVE SnapshotInv'
    BY <1>36, <1>01, <1>03, SnapshotKept DEF AnswerPrompt, Snapshotting
  <1>37. CASE Quit
    BY <1>37, <1>01, <1>03, SnapshotKept DEF Quit, Snapshotting
  <1>38. CASE ReceivePrompt
    BY <1>38, EventTaken, SnapshotIsUpdate, <1>03, SnapshotKept DEF ReceivePrompt, Snapshotting
  <1>39. CASE ReceiveWorktreeChanged
    BY <1>39, EventTaken, SnapshotIsUpdate, <1>03, SnapshotKept DEF ReceiveWorktreeChanged, Snapshotting
  <1>40. CASE ReceiveLoaded
    BY <1>40, EventTaken, SnapshotIsUpdate, <1>03, SnapshotKept DEF ReceiveLoaded, Snapshotting
  <1>41. CASE ReceiveUpdate
    <2> DEFINE e == Head(events)
    <2>1. /\ events \in Seq(Event) /\ events # <<>> /\ events' = Tail(events)
          /\ e = events[1] /\ 1 \in DOMAIN events
      BY <1>41, TailProps DEF ReceiveUpdate, Receives, TypeOK
    <2>2. UNCHANGED <<disk, commandDisk, base, pc, ready>>
      BY <1>41 DEF ReceiveUpdate
    <2>3. NoNewSnapshot(1)
      BY <1>41, EventTaken, SnapshotIsUpdate DEF ReceiveUpdate
    <2>4. seen' = seen \/ (Carries(e) /\ seen' = e.snap)
      BY <1>41 DEF ReceiveUpdate, AcceptUpdate, AcceptRefresh, AcceptWatchFailed,
         AcceptCommand, Install, Carries
    <2>5. CASE seen' = seen
      BY <1>03, <2>2, <2>3, <2>5, SnapshotKept DEF Snapshotting
    <2>6. CASE Carries(e) /\ seen' = e.snap
      <3>1. /\ seen' <= disk /\ (Snapshotting => seen' <= base)
            /\ (pc = "send" /\ Carries(ready) => seen' <= ready.snap)
        BY <2>1, <2>6 DEF SnapshotInv
      <3>2. /\ \A i \in DOMAIN events' : i \in Nat
            /\ \A i \in DOMAIN events' : i + 1 \in DOMAIN events /\ events'[i] = events[i + 1] /\ 1 < i + 1
        BY <2>1, TailProps
      <3>3. ASSUME NEW i \in DOMAIN events', Carries(events'[i])
            PROVE  /\ IsUpdate(events'[i])
                   /\ seen' <= events'[i].snap /\ events'[i].snap <= disk
                   /\ Snapshotting => events'[i].snap <= base
                   /\ pc = "send" /\ Carries(ready) => events'[i].snap <= ready.snap
                   /\ IsTerminal(events'[i]) => commandDisk <= events'[i].snap
                   /\ \A j \in DOMAIN events' : j < i /\ Carries(events'[j]) =>
                        events'[j].snap <= events'[i].snap
        <4>1. /\ i + 1 \in DOMAIN events /\ events'[i] = events[i + 1]
              /\ Carries(events[i + 1]) /\ 1 < i + 1
          BY <3>2, <3>3
        <4>2. ASSUME NEW j \in DOMAIN events', j < i, Carries(events'[j])
              PROVE  events'[j].snap <= events'[i].snap
          <5>1. j + 1 \in DOMAIN events /\ events'[j] = events[j + 1] /\ j + 1 < i + 1
            BY <3>2, <4>2
          <5> QED BY <4>1, <4>2, <5>1 DEF SnapshotInv
        <4>3. e.snap <= events[i + 1].snap
          BY <2>1, <2>6, <4>1 DEF SnapshotInv
        <4> QED BY <2>6, <4>1, <4>2, <4>3 DEF SnapshotInv
      <3>4. commandDisk <= disk /\ Snapshotting' = Snapshotting
        BY <2>2 DEF SnapshotInv, Snapshotting
      <3> QED BY <2>2, <3>1, <3>3, <3>4 DEF SnapshotInv
    <2> QED BY <2>4, <2>5, <2>6
  <1>42. CASE Stopped
    BY <1>42, <1>01, <1>03, SnapshotKept DEF Stopped, vars, Snapshotting
  <1>43. CASE UNCHANGED vars
    BY <1>43, <1>01, <1>03, SnapshotKept DEF vars, Snapshotting
  <1> QED
    BY <1>1, <1>2, <1>3, <1>4, <1>5, <1>6, <1>7, <1>8, <1>9, <1>10, <1>11,
       <1>12, <1>13, <1>14, <1>15, <1>16, <1>17, <1>18, <1>19, <1>20, <1>21,
       <1>22, <1>23, <1>24, <1>25, <1>26, <1>27, <1>28, <1>29, <1>30, <1>31,
       <1>32, <1>33, <1>34, <1>35, <1>36, <1>37, <1>38, <1>39, <1>40, <1>41,
       <1>42, <1>43
    DEF Next, Environment, Watcher, Worker, Git, User, Receive

-----------------------------------------------------------------------------
(* The invariant and what follows from it.                                 *)

LEMMA InitInv == Init => IInv
  <1> SUFFICES ASSUME Init PROVE IInv
    OBVIOUS
  <1>1. TypeOK
    BY InitType
  <1>2. /\ nextId = 1 /\ operation = NoId /\ requests = <<>> /\ events = <<>>
        /\ pc = "recv" /\ job = NoJob /\ uiGeneration = 0 /\ generation = 0
        /\ seen = 0 /\ disk = 0 /\ commandDisk = 0 /\ ready = NoEvent
    BY DEF Init
  <1>3. DOMAIN requests = {} /\ DOMAIN events = {}
    BY <1>2
  <1>4. ready.snap <= disk
    BY <1>2 DEF NoEvent, Message, NoSnapshot
  <1>5. CommandInv
    BY <1>2, <1>3 DEF CommandInv, Serving
  <1>6. GenerationInv
    BY <1>2, <1>3 DEF GenerationInv, Holding
  <1>7. SnapshotInv
    BY <1>2, <1>3, <1>4 DEF SnapshotInv, Snapshotting
  <1> QED BY <1>1, <1>5, <1>6, <1>7 DEF IInv

LEMMA NextInv == IInv /\ [Next]_vars => IInv'
  BY NextType, NextCommand, NextGeneration, NextSnapshot DEF IInv

LEMMA Invariance == Spec => []IInv
  BY InitInv, NextInv, PTL DEF Spec

\* The event loop is never refused by RepositoryService::execute: the broker
\* has been freed before the terminal event that lets the next command start.
THEOREM ExecuteAccepted == Spec => []ExecuteNeverRefused
  <1>1. IInv => ExecuteNeverRefused
    BY DEF IInv, CommandInv, ExecuteNeverRefused, NoId
  <1> QED BY <1>1, Invariance, PTL

\* accept_repository_update never drops an update of the running worker for
\* its generation.
THEOREM GenerationsAlwaysIncrease == Spec => []GenerationsIncrease
  <1>1. IInv => GenerationsIncrease
    BY DEF IInv, GenerationInv, GenerationsIncrease
  <1> QED BY <1>1, Invariance, PTL

\* What a step may do to the screen: nothing, install the snapshot of the
\* first update in the channel, or report a failure without one.
LEMMA ScreenStep ==
  ASSUME IInv, ReceiveUpdate
  PROVE  /\ seen' = seen \/ (Carries(Head(events)) /\ seen' = Head(events).snap)
         /\ seen' \in seen..disk
  <1> DEFINE e == Head(events)
  <1>1. seen' = seen \/ (Carries(e) /\ seen' = e.snap)
    BY DEF ReceiveUpdate, AcceptUpdate, AcceptRefresh, AcceptWatchFailed,
       AcceptCommand, Install, Carries, viewVars, uiVars
  <1>2. e = events[1] /\ 1 \in DOMAIN events /\ e \in Event
    BY TailProps DEF ReceiveUpdate, Receives, IInv, TypeOK
  <1>3. Carries(e) => seen <= e.snap /\ e.snap <= disk
    BY <1>2 DEF IInv, SnapshotInv
  <1>4. seen \in Nat /\ disk \in Nat /\ seen <= disk /\ (Carries(e) => e.snap \in Nat)
    BY <1>2, EventFields DEF IInv, SnapshotInv, TypeOK, Carries
  <1> HIDE DEF e
  <1> QED BY <1>1, <1>3, <1>4 DEF e

\* Every other action leaves the screen alone.
LEMMA ScreenKept ==
  ASSUME Next, ~ReceiveUpdate PROVE UNCHANGED <<seen, notice>>
  <1> USE DEF diskVars, watchVars, workerVars, brokerVars, viewVars, uiVars
  <1>1. CASE Environment
    BY <1>1 DEF Environment, StartService, WatcherError, ExternalChange
  <1>2. CASE Watcher
    BY <1>2 DEF Watcher, WatcherSwap, WatcherSend, WatcherNotice
  <1>3. CASE Worker
    BY <1>3 DEF Worker, RecvRefresh, ClearPending, DebounceRefresh, DebounceRequest,
       DebounceWatchFailed, DebounceTimeout, TakeWorktree, RecvLoad, Query,
       QueryThenRefresh, CollectSnapshot, CollectFails, RecvWatchFailed, RecvShutdown,
       RecvExecute, ApplyBegins, CommandEnds, CommandEndsBlind, SendTerminal,
       PromptDiscarded, PromptAnswered
  <1>4. CASE Git
    BY <1>4 DEF Git, GitChanges, GitEnds, PromptBegins, AskpassReadFails,
       HelperDisconnects
  <1>5. CASE User
    BY <1>5 DEF User, Execute, CancelActive, Quit, LoadQuery, AnswerPrompt
  <1>6. CASE Receive
    BY <1>6 DEF Receive, ReceivePrompt, ReceiveWorktreeChanged, ReceiveLoaded
  <1>7. CASE Stopped
    BY <1>7 DEF Stopped, vars
  <1> QED BY <1>1, <1>2, <1>3, <1>4, <1>5, <1>6, <1>7 DEF Next

\* The screen never shows an older version than it did.
THEOREM ScreenNeverGoesBack == Spec => SeenNeverGoesBack
  <1>1. IInv /\ [Next]_vars => [seen' >= seen]_seen
    <2> SUFFICES ASSUME IInv, Next PROVE seen' >= seen
      BY DEF vars, uiVars, viewVars, IInv, TypeOK
    <2>1. seen \in Nat /\ disk \in Nat
      BY DEF IInv, TypeOK
    <2>2. CASE ReceiveUpdate
      BY <2>1, <2>2, ScreenStep
    <2>3. CASE ~ReceiveUpdate
      BY <2>1, <2>3, ScreenKept
    <2> QED BY <2>2, <2>3
  <1> QED BY <1>1, Invariance, PTL DEF Spec, SeenNeverGoesBack

-----------------------------------------------------------------------------
(* The service implements the lane.                                        *)

LEMMA LaneKept ==
  ASSUME Next, ~ReceiveUpdate, ~Execute, \A k \in ChangeKinds : ~ExternalChange(k),
         \A k \in ChangeKinds : ~GitChanges(k)
  PROVE  UNCHANGED <<active, disk, commandDisk>>
  <1> USE DEF diskVars, watchVars, workerVars, brokerVars, viewVars, uiVars
  <1>1. CASE Environment
    BY <1>1 DEF Environment, StartService, WatcherError
  <1>2. CASE Watcher
    BY <1>2 DEF Watcher, WatcherSwap, WatcherSend, WatcherNotice
  <1>3. CASE Worker
    BY <1>3 DEF Worker, RecvRefresh, ClearPending, DebounceRefresh, DebounceRequest,
       DebounceWatchFailed, DebounceTimeout, TakeWorktree, RecvLoad, Query,
       QueryThenRefresh, CollectSnapshot, CollectFails, RecvWatchFailed, RecvShutdown,
       RecvExecute, ApplyBegins, CommandEnds, CommandEndsBlind, SendTerminal,
       PromptDiscarded, PromptAnswered
  <1>4. CASE Git
    BY <1>4 DEF Git, GitEnds, PromptBegins, AskpassReadFails, HelperDisconnects
  <1>5. CASE User
    BY <1>5 DEF User, CancelActive, Quit, LoadQuery, AnswerPrompt
  <1>6. CASE Receive
    BY <1>6 DEF Receive, ReceivePrompt, ReceiveWorktreeChanged, ReceiveLoaded
  <1>7. CASE Stopped
    BY <1>7 DEF Stopped, vars
  <1> QED BY <1>1, <1>2, <1>3, <1>4, <1>5, <1>6, <1>7 DEF Next

\* An update that reaches the workbench shows a snapshot, tells the user that
\* there is none, or ends the running command with one of the two.
LEMMA LaneUpdate ==
  ASSUME IInv, UnmergedDeletes = {}, ReceiveUpdate
  PROVE  [Lane!Next]_Lane!laneVars
  <1> DEFINE e == Head(events)
  <1>1. UNCHANGED <<disk, commandDisk>>
    BY DEF ReceiveUpdate, diskVars
  <1>2. e = events[1] /\ 1 \in DOMAIN events /\ e \in Event
    BY TailProps DEF ReceiveUpdate, Receives, IInv, TypeOK
  <1>3. Carries(e) => e.snap \in seen..disk /\ (IsTerminal(e) => commandDisk <= e.snap)
    <2>1. Carries(e) => /\ seen <= e.snap /\ e.snap <= disk
                        /\ IsTerminal(e) => commandDisk <= e.snap
      BY <1>2 DEF IInv, SnapshotInv
    <2>2. seen \in Nat /\ disk \in Nat /\ (Carries(e) => e.snap \in Nat)
      BY <1>2, EventFields DEF IInv, TypeOK, Carries
    <2> QED BY <2>1, <2>2
  <1>4. IsTerminal(e) => active # NoId /\ e.id = active
    BY <1>2 DEF IInv, CommandInv
  <1>5. Install(e) => IF Carries(e) THEN seen' = e.snap /\ notice' = FALSE
                                    ELSE seen' = seen /\ notice' = TRUE
    BY DEF Install, Carries
  <1>6. CASE UNCHANGED <<active, seen, notice>>
    BY <1>1, <1>6 DEF Lane!laneVars
  <1>7. CASE UNCHANGED active /\ Install(e)
    <2>1. CASE Carries(e)
      <3>1. Lane!Show(e.snap)
        BY <1>1, <1>3, <1>5, <1>7, <2>1 DEF Lane!Show
      <3> QED BY <3>1, <1>3, <2>1 DEF Lane!Next
    <2>2. CASE ~Carries(e)
      BY <1>1, <1>5, <1>7, <2>2 DEF Lane!Next, Lane!Tell
    <2> QED BY <2>1, <2>2
  <1>8. CASE IsTerminal(e) /\ active' = NoId /\ Install(e)
    <2>1. CASE Carries(e)
      <3>1. Lane!Finish(e.snap)
        BY <1>1, <1>3, <1>4, <1>5, <1>8, <2>1 DEF Lane!Finish, NoId
      <3> QED BY <3>1, <1>3, <2>1 DEF Lane!Next
    <2>2. CASE ~Carries(e)
      BY <1>1, <1>4, <1>5, <1>8, <2>2 DEF Lane!Next, Lane!FinishBlind, NoId
    <2> QED BY <2>1, <2>2
  <1>9. \/ UNCHANGED <<active, seen, notice>>
        \/ UNCHANGED active /\ Install(e)
        \/ IsTerminal(e) /\ active' = NoId /\ Install(e)
    <2>1. CASE ~(e.gen > uiGeneration)
      BY <2>1 DEF ReceiveUpdate
    <2>2. CASE e.kind \in {"Snapshot", "RefreshFailed"} /\ AcceptRefresh(e)
      BY <2>2 DEF AcceptRefresh, NotAcknowledged
    <2>3. CASE e.kind = "WatchFailed" /\ AcceptWatchFailed(e)
      BY <2>3 DEF AcceptWatchFailed, NotAcknowledged
    <2>4. CASE e.kind \in CommandKinds /\ AcceptCommand(e)
      BY <1>4, <2>4 DEF AcceptCommand, Acknowledge, IsTerminal
    <2> QED BY <2>1, <2>2, <2>3, <2>4 DEF ReceiveUpdate, AcceptUpdate
  <1> QED BY <1>6, <1>7, <1>8, <1>9

\* The service, the broker and the event loop together run one command at a
\* time and end it only with its work on screen, or with the user told that
\* there is no snapshot: as long as no command is a deletion of an unmerged
\* branch.
THEOREM LaneImplemented ==
  ASSUME UnmergedDeletes = {} PROVE Spec => ImplementsLane
  <1>1. Init => Lane!Init
    BY DEF Init, Lane!Init, NoId
  <1>2. IInv /\ [Next]_vars => [Lane!Next]_Lane!laneVars
    <2> SUFFICES ASSUME IInv, [Next]_vars PROVE [Lane!Next]_Lane!laneVars
      OBVIOUS
    <2>1. CASE UNCHANGED vars
      BY <2>1 DEF vars, diskVars, uiVars, viewVars, Lane!laneVars
    <2>2. CASE ReceiveUpdate
      BY <2>2, LaneUpdate
    <2>3. ASSUME NEW k \in ChangeKinds, ExternalChange(k)
          PROVE  [Lane!Next]_Lane!laneVars
      <3>1. Lane!Change
        BY <2>3 DEF ExternalChange, Touch, Lane!Change, uiVars, viewVars
      <3> QED BY <3>1 DEF Lane!Next
    <2>4. ASSUME NEW k \in ChangeKinds, GitChanges(k)
          PROVE  [Lane!Next]_Lane!laneVars
      <3>1. active # NoId
        BY <2>4 DEF IInv, CommandInv, GitChanges, Serving
      <3>2. Lane!Work
        BY <2>4, <3>1 DEF GitChanges, Touch, Lane!Work, uiVars, viewVars, NoId
      <3> QED BY <3>2 DEF Lane!Next
    <2>5. CASE Execute
      <3>1. nextId \in Nat \ {0} /\ operation = NoId
        BY <2>5, <2>1 DEF IInv, CommandInv, TypeOK, Execute
      <3>2. Lane!Start
        BY <2>5, <3>1 DEF Execute, Lane!Start, NoId, diskVars, viewVars
      <3> QED BY <3>2 DEF Lane!Next
    <2>6. CASE /\ Next /\ ~ReceiveUpdate /\ ~Execute
               /\ \A k \in ChangeKinds : ~ExternalChange(k)
               /\ \A k \in ChangeKinds : ~GitChanges(k)
      BY <2>6, LaneKept, ScreenKept DEF Lane!laneVars
    <2> QED BY <2>1, <2>2, <2>3, <2>4, <2>5, <2>6
  <1> QED BY <1>1, <1>2, Invariance, PTL DEF Spec, ImplementsLane, Lane!LaneSpec

-----------------------------------------------------------------------------
(* No refresh is lost.                                                     *)

LEMMA QueuedAdded ==
  ASSUME TypeOK, NEW r \in Request, requests' = Append(requests, r)
  PROVE  /\ RefreshQueued => RefreshQueued'
         /\ r.kind = "Refresh" => RefreshQueued'
         /\ r.kind # "Shutdown" => (ShutdownQueued' => ShutdownQueued)
  <1>1. /\ DOMAIN requests' = 1..(Len(requests) + 1) /\ Len(requests) \in Nat
        /\ DOMAIN requests = 1..Len(requests)
        /\ \A i \in DOMAIN requests : requests'[i] = requests[i]
        /\ requests'[Len(requests) + 1] = r
    <2>1. requests \in Seq(Request)
      BY DEF TypeOK
    <2> QED BY <2>1, AppendProps
  <1>2. RefreshQueued => RefreshQueued'
    BY <1>1 DEF RefreshQueued
  <1>3. r.kind = "Refresh" => RefreshQueued'
    BY <1>1 DEF RefreshQueued
  <1>4. r.kind # "Shutdown" => (ShutdownQueued' => ShutdownQueued)
    BY <1>1 DEF ShutdownQueued
  <1> QED BY <1>2, <1>3, <1>4

LEMMA QueuedTaken ==
  ASSUME TypeOK, NEW k, NEW K, Received(k, K)
  PROVE  /\ "Refresh" \notin K => (RefreshQueued => RefreshQueued')
         /\ ShutdownQueued' => ShutdownQueued
         /\ "Shutdown" \in K \/ Head(requests).kind # "Shutdown"
         /\ Head(requests).kind = "Shutdown" => ShutdownQueued
         /\ requests # <<>> /\ pc = k
  <1>1. /\ requests \in Seq(Request) /\ requests # <<>> /\ requests' = Tail(requests)
        /\ Head(requests).kind \in K /\ pc = k
    BY DEF TypeOK, Received
  <1>2. /\ Head(requests) = requests[1] /\ Len(requests) \in Nat \ {0}
        /\ DOMAIN requests = 1..Len(requests)
        /\ DOMAIN requests' = 1..(Len(requests) - 1)
        /\ \A i \in DOMAIN requests' : i + 1 \in DOMAIN requests /\ requests'[i] = requests[i + 1]
    BY <1>1, TailProps
  <1>3. ASSUME "Refresh" \notin K, RefreshQueued PROVE RefreshQueued'
    <2>1. PICK i \in DOMAIN requests : requests[i].kind = "Refresh"
      BY <1>3 DEF RefreshQueued
    <2>2. i # 1
      BY <1>1, <1>2, <1>3, <2>1
    <2>3. i - 1 \in DOMAIN requests' /\ requests'[i - 1] = requests[i]
      BY <1>2, <2>2
    <2> QED BY <2>1, <2>3 DEF RefreshQueued
  <1>4. ShutdownQueued' => ShutdownQueued
    BY <1>2 DEF ShutdownQueued
  <1>5. Head(requests).kind = "Shutdown" => ShutdownQueued
    BY <1>2 DEF ShutdownQueued
  <1> QED BY <1>1, <1>3, <1>4, <1>5

LEMMA DeliveredSent ==
  ASSUME TypeOK, NEW e \in Event, Send(e), UNCHANGED <<disk, seen, notice>>,
         IF Shows(e) THEN Current(e.snap) ELSE Delivered
  PROVE  Delivered'
  <1>1. /\ Len(events) \in Nat /\ DOMAIN events = 1..Len(events)
        /\ DOMAIN events' = 1..(Len(events) + 1)
        /\ \A i \in DOMAIN events : events'[i] = events[i]
        /\ events'[Len(events) + 1] = e
    <2>1. events \in Seq(Event) /\ events' = Append(events, e)
      BY DEF Send, TypeOK
    <2> QED BY <2>1, AppendProps
  <1>2. CASE Shows(e)
    <2>1. ASSUME NEW i \in DOMAIN events',
                 \A j \in DOMAIN events' : j > i => ~Shows(events'[j])
          PROVE  i = Len(events) + 1
      BY <1>1, <1>2, <2>1
    <2> QED BY <1>1, <1>2, <2>1 DEF Delivered, Current
  <1>3. CASE ~Shows(e)
    <2>1. ASSUME NEW i \in DOMAIN events', Shows(events'[i]),
                 \A j \in DOMAIN events' : j > i => ~Shows(events'[j])
          PROVE  Current(events[i].snap)'
      <3>1. i \in DOMAIN events /\ events'[i] = events[i]
        BY <1>1, <1>3, <2>1
      <3>2. \A j \in DOMAIN events : j > i => ~Shows(events[j])
        BY <1>1, <2>1
      <3> QED BY <1>3, <2>1, <3>1, <3>2 DEF Delivered, Current
    <2>2. (\A i \in DOMAIN events' : ~Shows(events'[i])) => seen = disk \/ notice
      BY <1>1, <1>3 DEF Delivered
    <2> QED BY <2>1, <2>2 DEF Delivered
  <1> QED BY <1>2, <1>3

\* The loop takes an event: what it shows, if anything, is now on screen.
LEMMA DeliveredTaken ==
  ASSUME TypeOK, events # <<>>, events' = Tail(events), UNCHANGED disk, Delivered,
         IF Shows(Head(events)) /\ Current(Head(events).snap)
           THEN seen' = disk \/ notice'
           ELSE Shows(Head(events)) \/ UNCHANGED <<seen, notice>>
  PROVE  Delivered'
  <1>1. /\ events \in Seq(Event) /\ Head(events) = events[1] /\ 1 \in DOMAIN events
        /\ Len(events) \in Nat \ {0} /\ DOMAIN events = 1..Len(events)
        /\ DOMAIN events' = 1..(Len(events) - 1)
        /\ \A i \in DOMAIN events' : i + 1 \in DOMAIN events /\ events'[i] = events[i + 1]
    BY TailProps DEF TypeOK
  <1>2. ASSUME NEW j \in DOMAIN events, j > 1
        PROVE  j - 1 \in DOMAIN events' /\ events'[j - 1] = events[j]
    BY <1>1, <1>2
  <1>3. ASSUME NEW i \in DOMAIN events', Shows(events'[i]),
               \A j \in DOMAIN events' : j > i => ~Shows(events'[j])
        PROVE  Current(events[i].snap)'
    <2>1. i + 1 \in DOMAIN events /\ events'[i] = events[i + 1]
      BY <1>1
    <2>2. ASSUME NEW j \in DOMAIN events, j > i + 1 PROVE ~Shows(events[j])
      <3>1. j > 1 /\ j - 1 > i
        BY <1>1, <2>2
      <3> QED BY <1>2, <1>3, <3>1
    <2> QED BY <1>3, <2>1, <2>2 DEF Delivered, Current
  <1>4. ASSUME \A i \in DOMAIN events' : ~Shows(events'[i])
        PROVE  (seen = disk \/ notice)'
    <2>1. \A j \in DOMAIN events : j > 1 => ~Shows(events[j])
      BY <1>2, <1>4
    <2>2. CASE Shows(Head(events))
      BY <1>1, <2>1, <2>2 DEF Delivered
    <2>3. CASE ~Shows(Head(events))
      <3>1. \A j \in DOMAIN events : ~Shows(events[j])
        BY <1>1, <2>1, <2>3
      <3> QED BY <2>3, <3>1 DEF Delivered
    <2> QED BY <2>2, <2>3
  <1> QED BY <1>3, <1>4 DEF Delivered

\* Nothing that is owed is forgotten by a step that leaves the watcher alone.
LEMMA RefreshKept ==
  ASSUME RefreshInv, watching # "starting",
         UNCHANGED <<disk, undelivered, watcher, refreshPending, watching>>,
         RefreshQueued => RefreshQueued', ShutdownQueued' => ShutdownQueued,
         pc = "clear" => pc' = "clear",
         watching # "off" => pc' # "stopped" /\ job'.kind # "Shutdown",
         watching # "off" => Refreshing' \/ Fresh' \/ (~Refreshing /\ (Fresh => Fresh'))
  PROVE  RefreshInv'
  <1>1. PendingInv'
    BY DEF RefreshInv, PendingInv
  <1>2. RunningInv' /\ StartingInv'
    BY DEF RefreshInv, RunningInv, StartingInv
  <1>3. ScreenInv'
    BY DEF RefreshInv, ScreenInv, Owed
  <1> QED BY <1>1, <1>2, <1>3 DEF RefreshInv

LEMMA FreshKept ==
  ASSUME Fresh, UNCHANGED <<disk, base, pc, ready, events, seen, notice>>
  PROVE  Fresh'
  BY DEF Fresh, Snapshotting, Current, Delivered

\* A step that begins and ends between snapshots.
LEMMA FreshBetween ==
  ASSUME Fresh, pc \notin {"collect", "final", "send"}, Delivered => Delivered',
         pc' \notin {"collect", "final", "send"}
  PROVE  Fresh'
  BY DEF Fresh, Snapshotting

LEMMA FreshSnapshot ==
  ASSUME base' = disk', pc' # "send", Snapshotting'
  PROVE  Fresh'
  BY DEF Fresh

LEMMA FreshSent ==
  ASSUME Delivered', pc' = "recv"
  PROVE  Fresh'
  BY DEF Fresh, Snapshotting

LEMMA DeliveredKept ==
  ASSUME Delivered, UNCHANGED <<disk, events, seen, notice>> PROVE Delivered'
  BY DEF Delivered, Current

LEMMA MessagesShowNothing ==
  ASSUME NEW k \in {"Prompt", "WorktreeChanged", "Loaded"}, NEW c \in Nat, NEW p \in Nat
  PROVE  Message(k, c, p) \in Event /\ ~Shows(Message(k, c, p))
  <1>1. k \in EventKinds \ UpdateKinds
    BY Kinds
  <1> QED BY <1>1, MessageType DEF Shows, IsUpdate

\* Every step keeps what is owed: one case per action.
LEMMA NextRefresh ==
  ASSUME MaxEarly = 0, UnmergedDeletes = {},
         IInv, IInv', RefreshInv, [Next]_vars
  PROVE  RefreshInv'
  <1> USE DEF diskVars, watchVars, workerVars, brokerVars, viewVars, uiVars
  <1>01. TypeOK /\ TypeOK'
    BY DEF IInv
  <1>02. /\ job.id \in Nat /\ generation \in Nat /\ operation \in Nat
         /\ promptSerial \in Nat /\ generation + 1 \in Nat /\ NoId \in Nat
    BY <1>01, RequestFields DEF TypeOK, NoId
  <1>03. pc # "recv" \/ requests # <<>> => watching # "starting"
    BY DEF RefreshInv, StartingInv
  <1>04. UNCHANGED requests => (RefreshQueued => RefreshQueued') /\ (ShutdownQueued' => ShutdownQueued)
    BY DEF RefreshQueued, ShutdownQueued
  <1>05. watching # "off" => pc # "stopped" /\ job.kind # "Shutdown" /\ ~ShutdownQueued
    BY DEF RefreshInv, RunningInv
  <1>06. NoJob.kind = "Refresh"
    BY ReqType DEF NoJob, RequestKinds, NoId
  <1>1. CASE StartService
    <2>1. /\ watching = "starting" /\ watching' = "on"
          /\ UNCHANGED <<disk, base, pc, ready, events, seen, notice, job, undelivered, watcher, refreshPending, requests>>
      BY <1>1 DEF StartService
    <2>2. Refreshing' = Refreshing /\ RefreshQueued' = RefreshQueued /\ ShutdownQueued' = ShutdownQueued
      BY <2>1 DEF Refreshing, RefreshQueued, ShutdownQueued
    <2> QED BY <2>1, <2>2, FreshKept
      DEF RefreshInv, PendingInv, RunningInv, StartingInv, ScreenInv, Owed
  <1>2. CASE WatcherError
    <2>0. requests' = Append(requests, Req("WatchFailed", NoId)) /\ Req("WatchFailed", NoId) \in Request /\ Req("WatchFailed", NoId).kind = "WatchFailed"
      BY <1>2, <1>02, <1>01, ReqType DEF WatcherError, RequestKinds, TypeOK
    <2>1. UNCHANGED <<disk, base, pc, ready, events, seen, notice, job, undelivered, watcher, refreshPending, watching>>
      BY <1>2 DEF WatcherError
    <2>2. (RefreshQueued => RefreshQueued') /\ (ShutdownQueued' => ShutdownQueued)
      BY <1>2, <1>01, <2>0, QueuedAdded DEF WatcherError
    <2>3. watching # "starting"
      BY <1>2, <1>03 DEF WatcherError
    <2>4. Refreshing' = Refreshing
      BY <2>1 DEF Refreshing
    <2> QED BY <1>05, <2>1, <2>2, <2>3, <2>4, FreshKept, RefreshKept
  <1>3. ASSUME NEW k \in ChangeKinds, ExternalChange(k) PROVE RefreshInv'
    <2>1. /\ UNCHANGED <<watching, requests, watcher, refreshPending, pc, job>>
          /\ watching = "on" => undelivered' # {}
          /\ watching # "starting"
      BY <1>3, <1>01 DEF ExternalChange, Touch, TypeOK
    <2>2. RefreshQueued' = RefreshQueued /\ ShutdownQueued' = ShutdownQueued
      BY <2>1 DEF RefreshQueued, ShutdownQueued
    <2>3. watching \in {"starting", "on", "off"}
      BY <1>01 DEF TypeOK
    <2> QED BY <2>1, <2>2, <2>3
      DEF RefreshInv, PendingInv, RunningInv, StartingInv, ScreenInv, Owed
  <1>4. CASE WatcherSwap
    <2>1. /\ watcher = "swap" /\ refreshPending' = TRUE
          /\ watcher' = IF refreshPending THEN "idle" ELSE "send"
          /\ UNCHANGED <<watching, requests, pc, job, undelivered>>
      BY <1>4 DEF WatcherSwap
    <2>2. RefreshQueued' = RefreshQueued /\ ShutdownQueued' = ShutdownQueued /\ Refreshing' = Refreshing
      BY <2>1 DEF RefreshQueued, ShutdownQueued, Refreshing
    <2>3. refreshPending => RefreshQueued \/ pc = "clear"
      BY <2>1 DEF RefreshInv, PendingInv
    <2>4. PendingInv' /\ ScreenInv'
      BY <2>1, <2>2, <2>3 DEF PendingInv, ScreenInv, Owed, Refreshing
    <2> QED BY <2>1, <2>2, <2>4 DEF RefreshInv, RunningInv, StartingInv
  <1>5. CASE WatcherSend
    <2>0. requests' = Append(requests, Req("Refresh", NoId)) /\ Req("Refresh", NoId) \in Request /\ Req("Refresh", NoId).kind = "Refresh"
      BY <1>5, <1>02, <1>01, ReqType DEF WatcherSend, RequestKinds, TypeOK
    <2>1. watcher = "send" /\ UNCHANGED <<watching, pc, job, undelivered>>
      BY <1>5 DEF WatcherSend
    <2>2. RefreshQueued' /\ (ShutdownQueued' => ShutdownQueued)
      BY <1>01, <2>0, QueuedAdded
    <2> QED BY <2>1, <2>2
      DEF RefreshInv, PendingInv, RunningInv, StartingInv, ScreenInv, Owed
  <1>6. ASSUME NEW k \in ChangeKinds, WatcherNotice(k) PROVE RefreshInv'
    <2>1. /\ watcher = "idle" /\ watcher' = "swap" /\ k \in undelivered
          /\ UNCHANGED <<watching, requests, pc, job, refreshPending>>
      BY <1>6 DEF WatcherNotice
    <2>2. RefreshQueued' = RefreshQueued /\ ShutdownQueued' = ShutdownQueued
      BY <2>1 DEF RefreshQueued, ShutdownQueued
    <2> QED BY <2>1, <2>2
      DEF RefreshInv, PendingInv, RunningInv, StartingInv, ScreenInv, Owed
  <1>7. CASE RecvRefresh
    <2>1. /\ pc' = "clear" /\ requests # <<>>
          /\ UNCHANGED <<watching, job, undelivered, watcher>>
      BY <1>7 DEF RecvRefresh, Received
    <2>2. (ShutdownQueued' => ShutdownQueued) /\ watching # "starting" /\ Refreshing'
      BY <1>7, <1>01, <1>03, <2>1, QueuedTaken DEF RecvRefresh, Refreshing
    <2> QED BY <2>1, <2>2
      DEF RefreshInv, PendingInv, RunningInv, StartingInv, ScreenInv, Owed
  <1>8. CASE ClearPending
    <2>1. /\ pc' = "debounce" /\ refreshPending' = FALSE /\ watching # "starting"
          /\ UNCHANGED <<watching, job, undelivered, watcher, requests>>
      BY <1>8, <1>03 DEF ClearPending
    <2>2. ShutdownQueued' = ShutdownQueued /\ Refreshing'
      BY <2>1 DEF ShutdownQueued, Refreshing
    <2> QED BY <2>1, <2>2
      DEF RefreshInv, PendingInv, RunningInv, StartingInv, ScreenInv, Owed
  <1>9. CASE DebounceRefresh
    <2>1. /\ pc' = "clear" /\ requests # <<>>
          /\ UNCHANGED <<watching, job, undelivered, watcher>>
      BY <1>9 DEF DebounceRefresh, Received
    <2>2. (ShutdownQueued' => ShutdownQueued) /\ watching # "starting" /\ Refreshing'
      BY <1>9, <1>01, <1>03, <2>1, QueuedTaken DEF DebounceRefresh, Refreshing
    <2> QED BY <2>1, <2>2
      DEF RefreshInv, PendingInv, RunningInv, StartingInv, ScreenInv, Owed
  <1>10. CASE DebounceRequest
    <2>1. /\ pc = "debounce" /\ pc' = "worktree" /\ job' = Head(requests)
          /\ UNCHANGED <<disk, undelivered, watcher, refreshPending, watching>>
      BY <1>10 DEF DebounceRequest, Received
    <2>2. /\ RefreshQueued => RefreshQueued'
          /\ ShutdownQueued' => ShutdownQueued
          /\ Head(requests).kind = "Shutdown" => ShutdownQueued
      BY <1>10, <1>01, QueuedTaken DEF DebounceRequest
    <2> QED BY <1>03, <1>05, <2>1, <2>2, RefreshKept DEF Refreshing
  <1>11. CASE DebounceWatchFailed
    <2>1. /\ pc = "debounce" /\ pc' = "debounce" /\ job' = job
          /\ UNCHANGED <<disk, undelivered, watcher, refreshPending, watching>>
      BY <1>11 DEF DebounceWatchFailed, Received
    <2>2. (RefreshQueued => RefreshQueued') /\ (ShutdownQueued' => ShutdownQueued)
      BY <1>11, <1>01, QueuedTaken DEF DebounceWatchFailed
    <2> QED BY <1>03, <1>05, <2>1, <2>2, RefreshKept DEF Refreshing
  <1>12. CASE DebounceTimeout
    <2>1. /\ pc = "debounce" /\ pc' = "worktree" /\ job' = NoJob
          /\ UNCHANGED <<disk, undelivered, watcher, refreshPending, watching, requests>>
      BY <1>12 DEF DebounceTimeout
    <2> QED BY <1>03, <1>04, <1>06, <2>1, RefreshKept DEF Refreshing
  <1>13. CASE TakeWorktree
    <2>1. /\ pc = "worktree" /\ pc' = NextStage(job.kind)
          /\ UNCHANGED <<disk, undelivered, watcher, refreshPending, watching, requests, job>>
          /\ base' = IF job.kind = "Refresh" THEN disk ELSE base
      BY <1>13 DEF TakeWorktree
    <2>2. job.kind \in {"Refresh", "Execute", "Load", "Shutdown"}
      BY <1>01, RequestFields DEF TypeOK, RequestKinds
    <2>3. watching # "off" => job.kind \in {"Refresh", "Execute", "Load"}
      BY <2>2, <1>05
    <2>4. CASE watching # "off" /\ job.kind = "Refresh"
      <3>1. pc' = "collect" /\ Fresh'
        BY <2>1, <2>4, FreshSnapshot DEF NextStage, Snapshotting
      <3> QED BY <1>03, <1>04, <1>05, <2>1, <3>1, RefreshKept
    <2>5. CASE watching # "off" /\ job.kind \in {"Execute", "Load"}
      <3>1. pc' \in {"apply", "queryRefresh"}
        BY <2>1, <2>5 DEF NextStage
      <3> QED BY <1>03, <1>04, <1>05, <2>1, <3>1, RefreshKept DEF Refreshing
    <2>6. CASE watching = "off"
      BY <1>03, <1>04, <2>1, <2>6, RefreshKept
    <2> QED BY <2>3, <2>4, <2>5, <2>6
  <1>14. CASE RecvLoad
    <2>1. /\ pc = "recv" /\ pc' = "query" /\ job' = Head(requests) /\ requests # <<>>
          /\ Head(requests).kind = "Load"
          /\ UNCHANGED <<disk, undelivered, watcher, refreshPending, watching, events, seen, notice>>
      BY <1>14 DEF RecvLoad, Received
    <2>2. (RefreshQueued => RefreshQueued') /\ (ShutdownQueued' => ShutdownQueued)
      BY <1>14, <1>01, QueuedTaken DEF RecvLoad
    <2>3. Fresh => Fresh'
      BY <2>1, DeliveredKept, FreshBetween
    <2> QED BY <1>03, <2>1, <2>2, <2>3, RefreshKept DEF Refreshing
  <1>15. CASE Query
    <2>1. /\ pc = "query" /\ pc' = "recv" /\ job' = NoJob /\ Send(Message("Loaded", job.id, NoId))
          /\ UNCHANGED <<disk, undelivered, watcher, refreshPending, watching, requests, seen, notice>>
      BY <1>15 DEF Query, Served
    <2>2. Delivered => Delivered'
      BY <1>01, <1>02, <2>1, MessagesShowNothing, DeliveredSent
    <2>3. Fresh => Fresh'
      BY <2>1, <2>2, FreshBetween
    <2> QED BY <1>03, <1>04, <1>06, <2>1, <2>3, RefreshKept DEF Refreshing
  <1>16. CASE QueryThenRefresh
    <2>1. /\ pc = "queryRefresh" /\ pc' = "collect" /\ job' = job /\ base' = disk
          /\ UNCHANGED <<disk, undelivered, watcher, refreshPending, watching, requests>>
      BY <1>16 DEF QueryThenRefresh, BeginSnapshot
    <2>2. Fresh'
      BY <2>1, FreshSnapshot DEF Snapshotting
    <2> QED BY <1>03, <1>04, <1>05, <2>1, <2>2, RefreshKept
  <1>17. ASSUME NEW v \in base..disk, CollectSnapshot(v) PROVE RefreshInv'
    <2> DEFINE e == Update("Snapshot", generation, NoId, v)
    <2>1. /\ pc = "collect" /\ pc' = "recv" /\ job' = NoJob /\ Send(e)
          /\ UNCHANGED <<disk, undelivered, watcher, refreshPending, watching, requests, seen, notice>>
      BY <1>17 DEF CollectSnapshot, Served
    <2>2. e \in Event /\ (Fresh => Current(e.snap)) /\ Shows(e)
      <3>1. v \in Nat /\ base <= v /\ v <= disk /\ disk \in Nat
        BY <1>01 DEF TypeOK
      <3>2. Fresh => v = disk
        BY <2>1, <3>1 DEF Fresh, Snapshotting
      <3>3. e \in Event /\ e.kind = "Snapshot" /\ e.snap = v
        BY <1>02, <3>1, UpdateType, Kinds
      <3> QED BY <3>2, <3>3, Kinds DEF Shows, IsUpdate, Current
    <2> HIDE DEF e
    <2>3. Fresh => Fresh'
      BY <1>01, <2>1, <2>2, DeliveredSent, FreshSent
    <2> QED BY <1>03, <1>04, <1>06, <2>1, <2>3, RefreshKept DEF Refreshing
  <1>18. CASE CollectFails
    <2> DEFINE e == Update("RefreshFailed", generation, NoId, NoSnapshot)
    <2>1. /\ pc = "collect" /\ pc' = "recv" /\ job' = NoJob /\ Send(e)
          /\ UNCHANGED <<disk, undelivered, watcher, refreshPending, watching, requests, seen, notice>>
      BY <1>18 DEF CollectFails, Served
    <2>2. e \in Event /\ (Fresh => Current(e.snap)) /\ Shows(e)
      <3>1. e \in Event /\ e.kind = "RefreshFailed" /\ e.snap = NoSnapshot
        BY <1>02, FailureType
      <3> QED BY <3>1, Kinds DEF Shows, IsUpdate, Current
    <2> HIDE DEF e
    <2>3. Fresh => Fresh'
      BY <1>01, <2>1, <2>2, DeliveredSent, FreshSent
    <2> QED BY <1>03, <1>04, <1>06, <2>1, <2>3, RefreshKept DEF Refreshing
  <1>19. CASE RecvWatchFailed
    <2> DEFINE e == Update("WatchFailed", generation + 1, NoId, NoSnapshot)
    <2>1. /\ pc = "recv" /\ pc' = "recv" /\ job' = job /\ Send(e) /\ requests # <<>>
          /\ UNCHANGED <<disk, undelivered, watcher, refreshPending, watching, seen, notice>>
      BY <1>19 DEF RecvWatchFailed, Received
    <2>2. (RefreshQueued => RefreshQueued') /\ (ShutdownQueued' => ShutdownQueued)
      BY <1>19, <1>01, QueuedTaken DEF RecvWatchFailed
    <2>3. e \in Event /\ ~Shows(e)
      BY <1>02, FailureType DEF Shows
    <2> HIDE DEF e
    <2>4. Delivered => Delivered'
      BY <1>01, <2>1, <2>3, DeliveredSent
    <2>5. Fresh => Fresh'
      BY <2>1, <2>4, FreshBetween
    <2> QED BY <1>03, <1>05, <2>1, <2>2, <2>5, RefreshKept DEF Refreshing
  <1>20. CASE RecvShutdown
    <2>1. /\ pc = "recv" /\ pc' = "stopped" /\ requests # <<>> /\ job' = job
          /\ Head(requests).kind = "Shutdown"
          /\ UNCHANGED <<disk, undelivered, watcher, refreshPending, watching>>
      BY <1>20 DEF RecvShutdown, Received
    <2>2. /\ RefreshQueued => RefreshQueued'
          /\ ShutdownQueued' => ShutdownQueued
          /\ ShutdownQueued
      BY <1>20, <1>01, <2>1, QueuedTaken DEF RecvShutdown
    <2> QED BY <1>03, <1>05, <2>1, <2>2, RefreshKept
  <1>21. CASE RecvExecute
    <2>1. /\ pc = "recv" /\ pc' = "apply" /\ job' = Head(requests) /\ requests # <<>>
          /\ Head(requests).kind = "Execute"
          /\ UNCHANGED <<disk, undelivered, watcher, refreshPending, watching>>
      BY <1>21 DEF RecvExecute, Received
    <2>2. (RefreshQueued => RefreshQueued') /\ (ShutdownQueued' => ShutdownQueued)
      BY <1>21, <1>01, QueuedTaken DEF RecvExecute
    <2> QED BY <1>03, <2>1, <2>2, RefreshKept DEF Refreshing
  <1>22. CASE ApplyBegins
    <2>1. /\ pc = "apply" /\ job' = job
          /\ UNCHANGED <<disk, undelivered, watcher, refreshPending, watching, requests>>
          /\ pc' = "git" \/ (pc' = "final" /\ base' = disk)
      BY <1>22 DEF ApplyBegins, BeginSnapshot
    <2>2. Refreshing' \/ Fresh'
      BY <2>1, FreshSnapshot DEF Snapshotting, Refreshing
    <2> QED BY <1>03, <1>04, <1>05, <2>1, <2>2, RefreshKept
  <1>23. ASSUME NEW k \in ChangeKinds, GitChanges(k) PROVE RefreshInv'
    <2>1. /\ pc = "git" /\ watching # "starting"
          /\ UNCHANGED <<watching, requests, watcher, refreshPending, pc, job>>
      BY <1>23, <1>03 DEF GitChanges, Touch
    <2>2. RefreshQueued' = RefreshQueued /\ ShutdownQueued' = ShutdownQueued /\ Refreshing'
      BY <2>1 DEF RefreshQueued, ShutdownQueued, Refreshing
    <2> QED BY <2>1, <2>2
      DEF RefreshInv, PendingInv, RunningInv, StartingInv, ScreenInv, Owed
  <1>24. ASSUME NEW o \in {"Completed", "Cancelled", "Failed"}, GitEnds(o) PROVE RefreshInv'
    <2>1. /\ pc = "git" /\ pc' = "final" /\ base' = disk /\ job' = job
          /\ UNCHANGED <<disk, undelivered, watcher, refreshPending, watching, requests>>
      BY <1>24 DEF GitEnds, BeginSnapshot
    <2>2. Fresh'
      BY <2>1, FreshSnapshot DEF Snapshotting
    <2> QED BY <1>03, <1>04, <1>05, <2>1, <2>2, RefreshKept
  <1>25. ASSUME NEW v \in base..disk, CommandEnds(v) PROVE RefreshInv'
    <2>1. /\ pc = "final" /\ pc' = "send" /\ job' = job
          /\ UNCHANGED <<disk, undelivered, watcher, refreshPending, watching, requests>>
      BY <1>25 DEF CommandEnds
    <2>2. Fresh => Fresh'
      <3>1. v \in Nat /\ base <= v /\ v <= disk /\ disk \in Nat
        BY <1>01 DEF TypeOK
      <3>2. Fresh => ready'.snap = disk'
        BY <1>25, <2>1, <3>1 DEF Fresh, Snapshotting, CommandEnds, Update
      <3> QED BY <2>1, <3>2 DEF Fresh, Snapshotting, Current
    <2> QED BY <1>03, <1>04, <1>05, <2>1, <2>2, RefreshKept DEF Refreshing
  <1>26. CASE CommandEndsBlind
    <2>1. /\ pc = "final" /\ pc' = "send" /\ job' = job
          /\ UNCHANGED <<disk, undelivered, watcher, refreshPending, watching, requests>>
      BY <1>26 DEF CommandEndsBlind
    <2>2. Fresh => Fresh'
      <3>1. ready'.snap = NoSnapshot
        BY <1>26 DEF CommandEndsBlind, Update
      <3> QED BY <2>1, <3>1 DEF Fresh, Snapshotting, Current
    <2> QED BY <1>03, <1>04, <1>05, <2>1, <2>2, RefreshKept DEF Refreshing
  <1>27. CASE SendTerminal
    <2>1. /\ pc = "send" /\ pc' = "recv" /\ job' = NoJob /\ Send(ready)
          /\ UNCHANGED <<disk, undelivered, watcher, refreshPending, watching, requests, seen, notice>>
      BY <1>27 DEF SendTerminal, Served
    <2>2. ready \in Event /\ ready.kind \in CommandKinds
      BY <1>01, <2>1 DEF TypeOK, IInv, CommandInv, IsTerminal
    <2>3. Shows(ready) /\ (Fresh => Current(ready.snap))
      BY <2>1, <2>2, Kinds DEF Shows, IsUpdate, Fresh
    <2>4. Fresh => Fresh'
      BY <1>01, <2>1, <2>2, <2>3, DeliveredSent, FreshSent
    <2> QED BY <1>03, <1>04, <1>06, <2>1, <2>4, RefreshKept DEF Refreshing
  <1>28. CASE PromptDiscarded
    <2>1. /\ pc' = "git" /\ pc = "prompting" /\ job' = job
          /\ UNCHANGED <<disk, undelivered, watcher, refreshPending, watching, requests>>
      BY <1>28 DEF PromptDiscarded
    <2> QED BY <1>03, <1>04, <1>05, <2>1, RefreshKept DEF Refreshing
  <1>29. CASE PromptAnswered
    <2>1. /\ pc' = "git" /\ pc = "prompting" /\ job' = job
          /\ UNCHANGED <<disk, undelivered, watcher, refreshPending, watching, requests>>
      BY <1>29 DEF PromptAnswered
    <2> QED BY <1>03, <1>04, <1>05, <2>1, RefreshKept DEF Refreshing
  <1>30. CASE PromptBegins
    <2>1. /\ pc = "git" /\ pc' \in {"git", "prompting"} /\ job' = job
          /\ UNCHANGED <<disk, undelivered, watcher, refreshPending, watching, requests>>
      BY <1>30 DEF PromptBegins
    <2> QED BY <1>03, <1>04, <1>05, <2>1, RefreshKept DEF Refreshing
  <1>31. CASE AskpassReadFails
    <2>1. UNCHANGED <<disk, base, pc, ready, events, seen, notice, job, undelivered, watcher, refreshPending, watching>>
      BY <1>31 DEF AskpassReadFails
    <2>2. (RefreshQueued => RefreshQueued') /\ (ShutdownQueued' => ShutdownQueued)
      BY <1>31, <1>04 DEF AskpassReadFails
    <2>3. watching # "starting"
      BY <1>31, <1>03 DEF AskpassReadFails
    <2>4. Refreshing' = Refreshing
      BY <2>1 DEF Refreshing
    <2> QED BY <1>05, <2>1, <2>2, <2>3, <2>4, FreshKept, RefreshKept
  <1>32. CASE HelperDisconnects
    <2>1. UNCHANGED <<disk, base, pc, ready, events, seen, notice, job, undelivered, watcher, refreshPending, watching>>
      BY <1>32 DEF HelperDisconnects
    <2>2. (RefreshQueued => RefreshQueued') /\ (ShutdownQueued' => ShutdownQueued)
      BY <1>32, <1>04 DEF HelperDisconnects
    <2>3. watching # "starting"
      BY <1>32, <1>03 DEF HelperDisconnects
    <2>4. Refreshing' = Refreshing
      BY <2>1 DEF Refreshing
    <2> QED BY <1>05, <2>1, <2>2, <2>3, <2>4, FreshKept, RefreshKept
  <1>33. CASE Execute
    <2>0. /\ nextId \in Nat
          /\ Req("Execute", nextId) \in Request /\ Req("Execute", nextId).kind = "Execute"
      BY <1>01, ReqType DEF RequestKinds, TypeOK
    <2>1. UNCHANGED <<disk, base, pc, ready, events, seen, notice, job, undelivered, watcher, refreshPending, watching>>
      BY <1>33 DEF Execute
    <2>2. (RefreshQueued => RefreshQueued') /\ (ShutdownQueued' => ShutdownQueued)
      BY <1>33, <1>01, <1>04, <2>0, QueuedAdded DEF Execute
    <2>3. watching # "starting"
      BY <1>33, <1>03 DEF Execute
    <2>4. Refreshing' = Refreshing
      BY <2>1 DEF Refreshing
    <2> QED BY <1>05, <2>1, <2>2, <2>3, <2>4, FreshKept, RefreshKept
  <1>34. ASSUME NEW q \in 1..MaxLoads, LoadQuery(q) PROVE RefreshInv'
    <2>0. requests' = Append(requests, Req("Load", q)) /\ Req("Load", q) \in Request /\ Req("Load", q).kind = "Load"
      BY <1>34, <1>02, <1>01, ReqType DEF LoadQuery, RequestKinds, TypeOK
    <2>1. UNCHANGED <<disk, base, pc, ready, events, seen, notice, job, undelivered, watcher, refreshPending, watching>>
      BY <1>34 DEF LoadQuery
    <2>2. (RefreshQueued => RefreshQueued') /\ (ShutdownQueued' => ShutdownQueued)
      BY <1>34, <1>01, <2>0, QueuedAdded DEF LoadQuery
    <2>3. watching # "starting"
      BY <1>34, <1>03 DEF LoadQuery
    <2>4. Refreshing' = Refreshing
      BY <2>1 DEF Refreshing
    <2> QED BY <1>05, <2>1, <2>2, <2>3, <2>4, FreshKept, RefreshKept
  <1>35. CASE CancelActive
    <2>1. UNCHANGED <<disk, base, pc, ready, events, seen, notice, job, undelivered, watcher, refreshPending, watching>>
      BY <1>35 DEF CancelActive
    <2>2. (RefreshQueued => RefreshQueued') /\ (ShutdownQueued' => ShutdownQueued)
      BY <1>35, <1>04 DEF CancelActive
    <2>3. watching # "starting"
      BY <1>35, <1>03 DEF CancelActive
    <2>4. Refreshing' = Refreshing
      BY <2>1 DEF Refreshing
    <2> QED BY <1>05, <2>1, <2>2, <2>3, <2>4, FreshKept, RefreshKept
  <1>36. ASSUME NEW a \in {"Text", "Cancel"}, AnswerPrompt(a) PROVE RefreshInv'
    <2>1. UNCHANGED <<disk, base, pc, ready, events, seen, notice, job, undelivered, watcher, refreshPending, watching>>
      BY <1>36 DEF AnswerPrompt
    <2>2. (RefreshQueued => RefreshQueued') /\ (ShutdownQueued' => ShutdownQueued)
      BY <1>36, <1>04 DEF AnswerPrompt
    <2>3. watching # "starting"
      BY <1>36, <1>03 DEF AnswerPrompt
    <2>4. Refreshing' = Refreshing
      BY <2>1 DEF Refreshing
    <2> QED BY <1>05, <2>1, <2>2, <2>3, <2>4, FreshKept, RefreshKept
  <1>37. CASE Quit
    <2>1. watching' = "off" /\ UNCHANGED <<watcher, refreshPending, pc>>
      BY <1>37 DEF Quit
    <2>2. RefreshQueued => RefreshQueued'
      BY <1>37, <1>01, <1>02, QueuedAdded, ReqType DEF Quit, RequestKinds
    <2> QED BY <2>1, <2>2
      DEF RefreshInv, PendingInv, RunningInv, StartingInv, ScreenInv
  <1>38. CASE ReceivePrompt
    <2>1. /\ watching = "on" /\ events # <<>> /\ events' = Tail(events)
          /\ Head(events).kind = "Prompt"
          /\ UNCHANGED <<disk, base, pc, ready, job, seen, notice, undelivered, watcher, refreshPending, watching, requests>>
      BY <1>38 DEF ReceivePrompt, Receives
    <2>2. ~Shows(Head(events))
      BY <2>1, Kinds DEF Shows, IsUpdate
    <2>3. Delivered => Delivered'
      BY <1>01, <2>1, <2>2, DeliveredTaken
    <2>4. (Fresh => Fresh') /\ Refreshing' = Refreshing
      BY <2>1, <2>3 DEF Fresh, Snapshotting, Current, Refreshing
    <2> QED BY <1>04, <1>05, <2>1, <2>4, RefreshKept
  <1>39. CASE ReceiveWorktreeChanged
    <2>1. /\ watching = "on" /\ events # <<>> /\ events' = Tail(events)
          /\ Head(events).kind = "WorktreeChanged"
          /\ UNCHANGED <<disk, base, pc, ready, job, seen, notice, undelivered, watcher, refreshPending, watching, requests>>
      BY <1>39 DEF ReceiveWorktreeChanged, Receives
    <2>2. ~Shows(Head(events))
      BY <2>1, Kinds DEF Shows, IsUpdate
    <2>3. Delivered => Delivered'
      BY <1>01, <2>1, <2>2, DeliveredTaken
    <2>4. (Fresh => Fresh') /\ Refreshing' = Refreshing
      BY <2>1, <2>3 DEF Fresh, Snapshotting, Current, Refreshing
    <2> QED BY <1>04, <1>05, <2>1, <2>4, RefreshKept
  <1>40. CASE ReceiveLoaded
    <2>1. /\ watching = "on" /\ events # <<>> /\ events' = Tail(events)
          /\ Head(events).kind = "Loaded"
          /\ UNCHANGED <<disk, base, pc, ready, job, seen, notice, undelivered, watcher, refreshPending, watching, requests>>
      BY <1>40 DEF ReceiveLoaded, Receives
    <2>2. ~Shows(Head(events))
      BY <2>1, Kinds DEF Shows, IsUpdate
    <2>3. Delivered => Delivered'
      BY <1>01, <2>1, <2>2, DeliveredTaken
    <2>4. (Fresh => Fresh') /\ Refreshing' = Refreshing
      BY <2>1, <2>3 DEF Fresh, Snapshotting, Current, Refreshing
    <2> QED BY <1>04, <1>05, <2>1, <2>4, RefreshKept
  <1>41. CASE ReceiveUpdate
    <2> DEFINE e == Head(events)
    <2>1. /\ watching = "on" /\ events # <<>> /\ events' = Tail(events)
          /\ IsUpdate(e)
          /\ UNCHANGED <<disk, base, pc, ready, job, undelivered, watcher, refreshPending, watching, requests>>
      BY <1>41 DEF ReceiveUpdate, Receives, IsUpdate
    <2>2. e = events[1] /\ 1 \in DOMAIN events
      <3>1. events \in Seq(Event)
        BY <1>01 DEF TypeOK
      <3> QED BY <2>1, <3>1, TailProps
    <2>3. AcceptUpdate(e)
      <3>1. e.gen > uiGeneration
        BY <1>01, <2>1, <2>2, Positions, EventFields DEF IInv, GenerationInv, TypeOK
      <3> QED BY <1>41, <3>1 DEF ReceiveUpdate
    <2>4. IsTerminal(e) => active = e.id
      BY <2>2 DEF IInv, CommandInv
    <2>5. Shows(e) => Install(e)
      <3>1. CASE AcceptRefresh(e)
        BY <3>1 DEF AcceptRefresh
      <3>2. CASE e.kind \in CommandKinds /\ AcceptCommand(e)
        BY <2>4, <3>2 DEF AcceptCommand, IsTerminal
      <3> QED BY <2>3, <3>1, <3>2 DEF AcceptUpdate, Shows
    <2>6. ~Shows(e) => UNCHANGED <<seen, notice>>
      <3>1. e.kind = "WatchFailed" => e.kind \notin CommandKinds \cup {"Snapshot", "RefreshFailed"}
        BY DEF CommandKinds
      <3> QED BY <2>1, <2>3, <3>1 DEF AcceptUpdate, AcceptWatchFailed, Shows
    <2>7. Shows(e) /\ Current(e.snap) => seen' = disk \/ notice'
      BY <2>5 DEF Install, Current
    <2>8. Delivered => Delivered'
      BY <1>01, <2>1, <2>6, <2>7, DeliveredTaken
    <2>9. (Fresh => Fresh') /\ Refreshing' = Refreshing
      BY <2>1, <2>8 DEF Fresh, Snapshotting, Current, Refreshing
    <2> QED BY <1>04, <1>05, <2>1, <2>9, RefreshKept
  <1>42. CASE Stopped
    <2>1. UNCHANGED vars
      BY <1>42 DEF Stopped
    <2>2. UNCHANGED <<disk, base, pc, ready, events, seen, notice, job, undelivered, watcher, refreshPending, watching, requests>>
      BY <2>1 DEF vars
    <2>3. Refreshing' = Refreshing /\ RefreshQueued' = RefreshQueued /\ ShutdownQueued' = ShutdownQueued
      BY <2>2 DEF Refreshing, RefreshQueued, ShutdownQueued
    <2> QED BY <2>2, <2>3, FreshKept
      DEF RefreshInv, PendingInv, RunningInv, StartingInv, ScreenInv, Owed
  <1>43. CASE UNCHANGED vars
    <2>1. UNCHANGED vars
      BY <1>43 DEF Stopped
    <2>2. UNCHANGED <<disk, base, pc, ready, events, seen, notice, job, undelivered, watcher, refreshPending, watching, requests>>
      BY <2>1 DEF vars
    <2>3. Refreshing' = Refreshing /\ RefreshQueued' = RefreshQueued /\ ShutdownQueued' = ShutdownQueued
      BY <2>2 DEF Refreshing, RefreshQueued, ShutdownQueued
    <2> QED BY <2>2, <2>3, FreshKept
      DEF RefreshInv, PendingInv, RunningInv, StartingInv, ScreenInv, Owed
  <1> QED
    BY <1>1, <1>2, <1>3, <1>4, <1>5, <1>6, <1>7, <1>8, <1>9, <1>10, <1>11,
       <1>12, <1>13, <1>14, <1>15, <1>16, <1>17, <1>18, <1>19, <1>20, <1>21,
       <1>22, <1>23, <1>24, <1>25, <1>26, <1>27, <1>28, <1>29, <1>30, <1>31,
       <1>32, <1>33, <1>34, <1>35, <1>36, <1>37, <1>38, <1>39, <1>40, <1>41,
       <1>42, <1>43
    DEF Next, Environment, Watcher, Worker, Git, User, Receive

\* No refresh is lost between the callback, its two flags, the channel, the
\* debounce and the commands and queries that interrupt it: when everything
\* has come to rest the screen shows the repository as it is, or the user was
\* told that it could not be read.  It needs a repository that nobody changes
\* between the startup snapshot and the watch, and no deletion of an unmerged
\* branch.
THEOREM RefreshesArrive ==
  ASSUME MaxEarly = 0, UnmergedDeletes = {} PROVE Spec => []RefreshNotLost
  <1>1. Init => RefreshInv
    <2> SUFFICES ASSUME Init PROVE RefreshInv
      OBVIOUS
    <2>1. /\ requests = <<>> /\ events = <<>> /\ pc = "recv" /\ job = NoJob
          /\ undelivered = {} /\ watcher = "idle" /\ refreshPending = FALSE
          /\ seen = 0 /\ disk = 0 /\ watching = "starting"
      BY DEF Init
    <2>2. DOMAIN requests = {} /\ DOMAIN events = {} /\ NoJob.kind = "Refresh"
      BY <2>1, ReqType DEF NoJob, RequestKinds, NoId
    <2>3. PendingInv /\ RunningInv /\ StartingInv
      BY <2>1, <2>2 DEF PendingInv, RunningInv, StartingInv, ShutdownQueued
    <2>4. ScreenInv
      BY <2>1, <2>2 DEF ScreenInv, Fresh, Snapshotting, Delivered
    <2> QED BY <2>3, <2>4 DEF RefreshInv
  <1>2. IInv /\ IInv' /\ RefreshInv /\ [Next]_vars => RefreshInv'
    BY NextRefresh
  <1>3. RefreshInv => RefreshNotLost
    <2> SUFFICES ASSUME RefreshInv, Quiet PROVE seen = disk \/ notice
      BY DEF RefreshNotLost
    <2>1. ~Owed /\ DOMAIN events = {}
      BY DEF Quiet, Owed, RefreshQueued, Refreshing
    <2>2. Delivered
      BY <2>1 DEF RefreshInv, ScreenInv, Fresh, Snapshotting, Quiet
    <2> QED BY <2>1, <2>2 DEF Delivered
  <1> QED BY <1>1, <1>2, <1>3, Invariance, PTL DEF Spec

-----------------------------------------------------------------------------
(* What any step of Next does to the channels, the flags and the job.      *)

USE DEF Next, Environment, Watcher, Worker, Git, User, Receive, Stopped, Send,
  diskVars, watchVars, workerVars, brokerVars, viewVars, uiVars, vars,
  StartService, WatcherError, ExternalChange, Touch, WatcherNotice, WatcherSwap,
  WatcherSend, Received, Served, RecvRefresh, ClearPending, DebounceRefresh,
  DebounceRequest, DebounceWatchFailed, DebounceTimeout, TakeWorktree, RecvLoad,
  Query, QueryThenRefresh, CollectSnapshot, CollectFails, RecvWatchFailed,
  RecvShutdown, RecvExecute, ApplyBegins, GitChanges, GitEnds, CommandEnds,
  CommandEndsBlind, SendTerminal, PromptBegins, AskpassReadFails, PromptDiscarded,
  PromptAnswered, HelperDisconnects, Execute, LoadQuery, CancelActive,
  AnswerPrompt, Quit, Receives, ReceivePrompt, ReceiveWorktreeChanged,
  ReceiveLoaded, ReceiveUpdate

LEMMA StepEvents ==
  ASSUME Next
  PROVE  \/ UNCHANGED events
         \/ \E e : events' = Append(events, e)
         \/ Receive /\ events # <<>> /\ events' = Tail(events)
  OBVIOUS

LEMMA StepRequests ==
  ASSUME Next
  PROVE  \/ UNCHANGED requests
         \/ \E r : requests' = Append(requests, r)
         \/ /\ requests # <<>> /\ requests' = Tail(requests)
            /\ pc \in {"recv", "debounce"}
            /\ Head(requests).kind = "Refresh" => pc' = "clear"
            /\ Head(requests).kind = "Load" =>
                 pc' \in {"query", "worktree"} /\ job' = Head(requests)
  OBVIOUS

\* Only the watcher's own steps move it; the flags are cleared where the
\* worker takes them.
LEMMA StepFlags ==
  ASSUME Next, ~Watcher
  PROVE  /\ watcher' = watcher
         /\ refreshPending' => refreshPending /\ (pc = "clear" => pc' = "clear")
         /\ worktreePending' => worktreePending /\ (pc = "worktree" => pc' = "worktree")
         /\ pc = "clear" => pc' \in {"clear", "debounce"}
         /\ pc = "debounce" => pc' \in {"clear", "debounce", "worktree"}
         /\ worktreePending => worktreePending' \/ events' = Append(events, Invalidation)
  <1>1. watcher' = watcher
    OBVIOUS
  <1>2. refreshPending' = refreshPending \/ (pc = "clear" /\ refreshPending' = FALSE)
    OBVIOUS
  <1>3. \/ worktreePending' = worktreePending
        \/ /\ pc = "worktree" /\ worktreePending' = FALSE
           /\ worktreePending => events' = Append(events, Invalidation)
    BY DEF Invalidation
  <1>4. pc = "clear" => pc' = "clear" \/ (pc' = "debounce" /\ refreshPending' = FALSE)
    OBVIOUS
  <1>5. pc = "debounce" => pc' \in {"clear", "debounce", "worktree"}
    OBVIOUS
  <1>6. pc = "worktree" => pc' = "worktree" \/ worktreePending' = FALSE
    OBVIOUS
  <1> QED BY <1>1, <1>2, <1>3, <1>4, <1>5, <1>6

\* A version of the worktree is recorded with what notify owes for it.
LEMMA StepDisk ==
  ASSUME Next
  PROVE  /\ UNCHANGED <<disk, worktreeDisk>> \/ /\ disk' = disk + 1
                                                /\ worktreeDisk' \in {disk', worktreeDisk}
         /\ worktreeDisk' # worktreeDisk /\ watching = "on" => "worktree" \in undelivered'
         /\ "worktree" \in undelivered /\ ~Watcher => "worktree" \in undelivered'
         /\ worktreeSeen' \in {worktreeSeen, disk'}
         /\ Receive /\ Head(events).kind = "WorktreeChanged" => worktreeSeen' = disk'
  <1>1. \/ UNCHANGED <<disk, worktreeDisk>>
        \/ disk' = disk + 1 /\ worktreeDisk' \in {disk', worktreeDisk}
    OBVIOUS
  <1>2. worktreeDisk' # worktreeDisk /\ watching = "on" => "worktree" \in undelivered'
    OBVIOUS
  <1>3. "worktree" \in undelivered /\ ~Watcher => "worktree" \in undelivered'
    OBVIOUS
  <1>4. worktreeSeen' \in {worktreeSeen, disk'}
    OBVIOUS
  <1>5. Receive /\ Head(events).kind = "WorktreeChanged" => worktreeSeen' = disk'
    BY Kinds
  <1> QED BY <1>1, <1>2, <1>3, <1>4, <1>5

LEMMA StepStarting ==
  ASSUME MaxEarly = 0, TypeOK, StartingInv, watching = "starting", Next
  PROVE  /\ UNCHANGED <<undelivered, requests, watcher, pc, disk, worktreeDisk>>
         /\ watching' \in {"starting", "on"}
  <1>1. undelivered = {} /\ requests = <<>> /\ watcher = "idle" /\ pc = "recv"
    BY DEF StartingInv
  <1>2. ~Watcher /\ ~Git /\ ~User /\ ~Receive
    BY <1>1
  <1>3. ~Worker
    BY <1>1
  <1>4. ~(\E k \in ChangeKinds : ExternalChange(k)) /\ ~WatcherError
    <2>1. ~(disk < MaxEarly)
      BY DEF TypeOK
    <2> QED BY <2>1
  <1>5. CASE StartService \/ Stopped
    BY <1>5
  <1> QED BY <1>2, <1>3, <1>4, <1>5

LEMMA StepWatching ==
  ASSUME Next
  PROVE  /\ watching' = "starting" => watching = "starting"
         /\ watching' = "on" => watching \in {"starting", "on"}
         /\ watching = "starting" => UNCHANGED loads
  OBVIOUS

\* A query's answer is sent under its id, and ends its wait.
LEMMA StepJob ==
  ASSUME Next, pc \in {"worktree", "query", "queryRefresh"}, job.kind = "Load"
  PROVE  \/ job' = job /\ pc' \in {pc, "queryRefresh"}
         \/ events' = Append(events, Message("Loaded", job.id, NoId))
  BY DEF NextStage

LEMMA StepLoads ==
  ASSUME Next
  PROVE  /\ \A q \in loads' : q \in loads \/ requests' = Append(requests, Req("Load", q))
         /\ Receive /\ Head(events).kind = "Loaded" => Head(events).id \notin loads'
  <1>1. ASSUME NEW q \in 1..MaxLoads, LoadQuery(q)
        PROVE  loads' = loads \cup {q} /\ requests' = Append(requests, Req("Load", q)) /\ ~Receive
    BY <1>1
  <1>2. ASSUME ~\E q \in 1..MaxLoads : LoadQuery(q) PROVE loads' \subseteq loads
    BY <1>2
  <1>3. Receive /\ Head(events).kind = "Loaded" => ReceiveLoaded
    BY Kinds
  <1> QED BY <1>1, <1>2, <1>3

\* The wait for a prompt begins when its event is sent.
LEMMA StepPrompt ==
  ASSUME TypeOK, Next, pc' = "prompting", pc # "prompting"
  PROVE  /\ job' = job /\ operation # NoId /\ pc = "git"
         /\ events' = Append(events, Message("Prompt", operation, openPrompt'))
  <1>1. job.kind \in {"Refresh", "Execute", "Load", "Shutdown"}
    BY RequestFields DEF TypeOK, RequestKinds
  <1>2. PromptBegins \/ TakeWorktree
    OBVIOUS
  <1>3. ~TakeWorktree
    BY <1>1 DEF NextStage
  <1> QED BY <1>2, <1>3 DEF BrokerAccepts

\* While it goes on only the user, the loop's answers and a helper that goes
\* away touch the prompt.
LEMMA StepWaiting ==
  ASSUME Next, pc = "prompting", active # NoId,
         ~ReceivePrompt, ~ReceiveUpdate, ~Quit,
         ~\E a \in {"Text", "Cancel"} : AnswerPrompt(a)
  PROVE  /\ pc' = "prompting" => UNCHANGED <<job, openPrompt, answer, uiPrompt>>
         /\ cancelled \subseteq cancelled'
  <1>1. pc' = "prompting" => UNCHANGED <<job, openPrompt, answer, uiPrompt>>
    OBVIOUS
  <1>2. cancelled \subseteq cancelled'
    OBVIOUS
  <1> QED BY <1>1, <1>2

\* The modal and the active command change together.
LEMMA StepModal ==
  ASSUME Next, ~ReceivePrompt, ~ReceiveUpdate
  PROVE  /\ uiPrompt' \in {uiPrompt, NoPrompt}
         /\ active' = active \/ active = NoId
  OBVIOUS

LEMMA StepPrompts ==
  ASSUME TypeOK, CommandInv, Next
  PROVE  \/ \E e : events' = Append(events, e) /\ (e.kind = "Prompt" => e.id # NoId)
         \/ UNCHANGED events
         \/ events # <<>> /\ events' = Tail(events)
  <1>1. CASE Receive
    BY <1>1
  <1>2. CASE SendTerminal
    BY <1>2, Kinds DEF CommandInv, IsTerminal
  <1>3. CASE PromptBegins
    <2>1. Message("Prompt", operation, promptSerial).id = operation
      BY DEF Message
    <2> QED BY <1>3, <2>1 DEF BrokerAccepts
  <1>4. \A k, g, c, v : k \in UpdateKinds => Update(k, g, c, v).kind # "Prompt"
    BY Kinds DEF Update
  <1>5. \A k, c, p : k # "Prompt" => Message(k, c, p).kind # "Prompt"
    BY DEF Message
  <1>6. CASE Next /\ ~Receive /\ ~SendTerminal /\ ~PromptBegins
    <2>1. \/ UNCHANGED events
          \/ \E k \in UpdateKinds : \E g, c, v : events' = Append(events, Update(k, g, c, v))
          \/ \E k, c, p : k # "Prompt" /\ events' = Append(events, Message(k, c, p))
      BY <1>6, Kinds
    <2> QED BY <2>1, <1>4, <1>5
  <1> QED BY <1>1, <1>2, <1>3, <1>6

HIDE DEF Next, Environment, Watcher, Worker, Git, User, Receive, Stopped, Send,
  diskVars, watchVars, workerVars, brokerVars, viewVars, uiVars, vars,
  StartService, WatcherError, ExternalChange, Touch, WatcherNotice, WatcherSwap,
  WatcherSend, Received, Served, RecvRefresh, ClearPending, DebounceRefresh,
  DebounceRequest, DebounceWatchFailed, DebounceTimeout, TakeWorktree, RecvLoad,
  Query, QueryThenRefresh, CollectSnapshot, CollectFails, RecvWatchFailed,
  RecvShutdown, RecvExecute, ApplyBegins, GitChanges, GitEnds, CommandEnds,
  CommandEndsBlind, SendTerminal, PromptBegins, AskpassReadFails, PromptDiscarded,
  PromptAnswered, HelperDisconnects, Execute, LoadQuery, CancelActive,
  AnswerPrompt, Quit, Receives, ReceivePrompt, ReceiveWorktreeChanged,
  ReceiveLoaded, ReceiveUpdate

\* Where an entry of a channel can go.
LEMMA AppendKeeps ==
  ASSUME NEW S, NEW s \in Seq(S), NEW x
  PROVE  /\ Len(s) \in Nat /\ DOMAIN s = 1..Len(s)
         /\ DOMAIN Append(s, x) = 1..(Len(s) + 1)
         /\ \A i \in DOMAIN s : Append(s, x)[i] = s[i]
         /\ Append(s, x)[Len(s) + 1] = x
  OBVIOUS

LEMMA SentStays ==
  ASSUME TypeOK, Next, NEW e, Sent(e)
  PROVE  Sent(e)' \/ (Receive /\ Head(events) = e)
  <1>0. events \in Seq(Event)
    BY DEF TypeOK
  <1>1. PICK i \in DOMAIN events : events[i] = e
    BY DEF Sent
  <1>2. CASE UNCHANGED events
    BY <1>1, <1>2 DEF Sent
  <1>3. ASSUME NEW x, events' = Append(events, x) PROVE Sent(e)'
    <2>1. i \in DOMAIN events' /\ events'[i] = e
      BY <1>0, <1>1, <1>3, AppendKeeps
    <2> QED BY <2>1 DEF Sent
  <1>4. CASE Receive /\ events # <<>> /\ events' = Tail(events) /\ Head(events) # e
    <2>1. i # 1
      BY <1>0, <1>1, <1>4, TailProps
    <2>2. i - 1 \in DOMAIN events' /\ events'[i - 1] = e
      BY <1>0, <1>1, <1>4, <2>1, TailProps
    <2> QED BY <2>2 DEF Sent
  <1> QED BY <1>2, <1>3, <1>4, StepEvents

LEMMA SentNow ==
  ASSUME TypeOK, NEW e, events' = Append(events, e)
  PROVE  Sent(e)'
  <1>1. events \in Seq(Event)
    BY DEF TypeOK
  <1>2. Len(events) + 1 \in DOMAIN events' /\ events'[Len(events) + 1] = e
    BY <1>1, AppendKeeps
  <1> QED BY <1>2 DEF Sent

LEMMA AskedStays ==
  ASSUME TypeOK, Next, NEW r, Asked(r)
  PROVE  \/ Asked(r)'
         \/ /\ Head(requests) = r /\ pc \in {"recv", "debounce"}
            /\ r.kind = "Refresh" => pc' = "clear"
            /\ r.kind = "Load" => pc' \in {"query", "worktree"} /\ job' = r
  <1>0. requests \in Seq(Request)
    BY DEF TypeOK
  <1>1. PICK i \in DOMAIN requests : requests[i] = r
    BY DEF Asked
  <1>2. CASE UNCHANGED requests
    BY <1>1, <1>2 DEF Asked
  <1>3. ASSUME NEW x, requests' = Append(requests, x) PROVE Asked(r)'
    <2>1. i \in DOMAIN requests' /\ requests'[i] = r
      BY <1>0, <1>1, <1>3, AppendKeeps
    <2> QED BY <2>1 DEF Asked
  <1>4. CASE requests # <<>> /\ requests' = Tail(requests) /\ Head(requests) # r
    <2>1. i # 1
      BY <1>0, <1>1, <1>4, TailProps
    <2>2. i - 1 \in DOMAIN requests' /\ requests'[i - 1] = r
      BY <1>0, <1>1, <1>4, <2>1, TailProps
    <2> QED BY <2>2 DEF Asked
  <1> QED BY <1>2, <1>3, <1>4, StepRequests

LEMMA RefreshStays ==
  ASSUME TypeOK, Next, RefreshQueued
  PROVE  RefreshQueued' \/ pc' = "clear"
  <1>1. PICK i \in DOMAIN requests : requests[i].kind = "Refresh"
    BY DEF RefreshQueued
  <1>2. Asked(requests[i])
    BY <1>1 DEF Asked
  <1> QED BY <1>1, <1>2, AskedStays DEF Asked, RefreshQueued

-----------------------------------------------------------------------------
(* The Explorer is invalidated after the last change to a file.            *)

LEMMA NextPending ==
  ASSUME TypeOK, Next, PendingInv, FlagTaken
  PROVE  PendingInv' /\ FlagTaken'
  <1>1. CASE \E k \in ChangeKinds : WatcherNotice(k)
    <2>1. watcher = "idle" /\ watcher' = "swap" /\ UNCHANGED <<refreshPending, requests, pc>>
      BY <1>1 DEF WatcherNotice, workerVars
    <2> QED BY <2>1 DEF PendingInv, FlagTaken, RefreshQueued
  <1>2. CASE WatcherSwap
    <2>1. /\ watcher = "swap" /\ watcher' = IF refreshPending THEN "idle" ELSE "send"
          /\ UNCHANGED <<requests, pc>>
      BY <1>2 DEF WatcherSwap, workerVars
    <2> QED BY <2>1 DEF PendingInv, FlagTaken, RefreshQueued
  <1>3. CASE WatcherSend
    <2>1. requests' = Append(requests, Req("Refresh", NoId)) /\ requests \in Seq(Request)
      BY <1>3 DEF WatcherSend, TypeOK
    <2>2. Len(requests) + 1 \in DOMAIN requests' /\ requests'[Len(requests) + 1].kind = "Refresh"
      BY <2>1, AppendKeeps DEF Req
    <2> QED BY <2>2 DEF PendingInv, FlagTaken, RefreshQueued
  <1>4. CASE ~Watcher
    <2>1. PendingInv'
      BY <1>4, StepFlags, RefreshStays DEF PendingInv
    <2>2. FlagTaken'
      BY <1>4, StepFlags, RefreshStays DEF FlagTaken
    <2> QED BY <2>1, <2>2
  <1> QED BY <1>1, <1>2, <1>3, <1>4 DEF Watcher

LEMMA NextWorktree ==
  ASSUME MaxEarly = 0, TypeOK, TypeOK', WorktreeInv, Next
  PROVE  WorktreeInv'
  <1>0. PendingInv /\ StartingInv /\ FlagTaken
    BY DEF WorktreeInv
  <1>1. PendingInv' /\ FlagTaken'
    BY <1>0, NextPending
  <1>2. StartingInv'
    BY <1>0, StepStarting, StepWatching DEF StartingInv
  <1>3. worktreeDisk' <= disk'
    <2>1. worktreeDisk <= disk /\ disk \in Nat /\ worktreeDisk \in Nat
      BY DEF WorktreeInv, TypeOK
    <2>2. \/ disk' = disk /\ worktreeDisk' = worktreeDisk
          \/ disk' = disk + 1 /\ (worktreeDisk' = disk' \/ worktreeDisk' = worktreeDisk)
      BY StepDisk
    <2> QED BY <2>1, <2>2
  <1>4. SUFFICES ASSUME watching' # "off" PROVE InvalidationOwed' \/ worktreeSeen' >= worktreeDisk'
    BY <1>1, <1>2, <1>3 DEF WorktreeInv
  <1>6. CASE worktreeDisk' # worktreeDisk
    <2>1. watching = "on"
      BY <1>0, <1>4, <1>6, StepStarting, StepWatching DEF TypeOK
    <2> QED BY <1>6, <2>1, StepDisk DEF InvalidationOwed
  <1>7. CASE worktreeDisk' = worktreeDisk /\ worktreeSeen' # worktreeSeen
    BY <1>3, <1>7, StepDisk DEF TypeOK
  <1>8. CASE worktreeDisk' = worktreeDisk /\ worktreeSeen' = worktreeSeen
    <2>1. InvalidationOwed \/ worktreeSeen >= worktreeDisk
      BY <1>4, StepWatching DEF WorktreeInv, TypeOK
    <2>2. CASE worktreeSeen >= worktreeDisk
      BY <1>8, <2>2
    <2>3. CASE "worktree" \in undelivered
      <3>1. ASSUME NEW k \in ChangeKinds, WatcherNotice(k) PROVE InvalidationOwed'
        BY <2>3, <3>1 DEF WatcherNotice, InvalidationOwed
      <3>2. CASE WatcherSwap \/ WatcherSend
        BY <2>3, <3>2 DEF WatcherSwap, WatcherSend, diskVars, InvalidationOwed
      <3> QED BY <2>3, <3>1, <3>2, StepDisk DEF Watcher, InvalidationOwed
    <2>4. CASE worktreePending
      <3>1. CASE Watcher
        BY <2>4, <3>1 DEF Watcher, WatcherNotice, WatcherSwap, WatcherSend, InvalidationOwed
      <3> QED BY <2>4, <3>1, StepFlags, SentNow DEF InvalidationOwed
    <2>5. CASE Sent(Invalidation)
      <3>1. Invalidation.kind = "WorktreeChanged"
        BY DEF Invalidation, Message
      <3>2. CASE Receive /\ Head(events) = Invalidation
        BY <1>3, <3>1, <3>2, StepDisk DEF TypeOK
      <3> QED BY <2>5, <3>2, SentStays DEF InvalidationOwed
    <2> QED BY <2>1, <2>2, <2>3, <2>4, <2>5 DEF InvalidationOwed
  <1> QED BY <1>6, <1>7, <1>8

-----------------------------------------------------------------------------
(* No query is swallowed.                                                  *)

LEMMA NextLoad ==
  ASSUME TypeOK, LoadInv, Next
  PROVE  LoadInv'
  <1>1. watching' = "starting" => loads' = {}
    BY StepWatching DEF LoadInv
  <1>2. SUFFICES ASSUME watching' = "on", NEW q \in loads'
                 PROVE  \/ Asked(Req("Load", q))'
                        \/ job' = Req("Load", q) /\ pc' \in {"worktree", "query", "queryRefresh"}
                        \/ Sent(Message("Loaded", q, NoId))'
    BY <1>1 DEF LoadInv, QueryNotLost, Asked, Sent
  <1> DEFINE r == Req("Load", q)
             m == Message("Loaded", q, NoId)
  <1>3. r.kind = "Load" /\ r.id = q /\ m.kind = "Loaded" /\ m.id = q
    BY DEF Req, Message
  <1>4. CASE q \in loads
    <2>1. watching = "on"
      BY <1>2, <1>4, StepWatching DEF LoadInv
    <2>2. \/ Asked(r) \/ Sent(m)
          \/ job = r /\ pc \in {"worktree", "query", "queryRefresh"}
      BY <1>4, <2>1 DEF LoadInv, QueryNotLost, Asked, Sent
    <2>3. CASE Asked(r)
      BY <1>3, <2>3, AskedStays
    <2>4. CASE Sent(m)
      <3>1. ~(Receive /\ Head(events) = m)
        BY <1>3, StepLoads
      <3> QED BY <2>4, <3>1, SentStays
    <2>5. CASE job = r /\ pc \in {"worktree", "query", "queryRefresh"}
      BY <1>3, <2>5, StepJob, SentNow
    <2> QED BY <2>2, <2>3, <2>4, <2>5
  <1>5. CASE q \notin loads
    <2>1. requests' = Append(requests, r) /\ requests \in Seq(Request)
      BY <1>5, StepLoads DEF TypeOK
    <2>2. Len(requests) + 1 \in DOMAIN requests' /\ requests'[Len(requests) + 1] = r
      BY <2>1, AppendKeeps
    <2> QED BY <2>2 DEF Asked
  <1> QED BY <1>4, <1>5

-----------------------------------------------------------------------------
(* Git never waits for a prompt nobody can answer.                         *)

\* An answer or a cancellation for a command ends the wait of its prompt.
LEMMA WaitEnds ==
  ASSUME NEW c, NEW p, NEW a \in {"Text", "Cancel"}, NEW g, operation # NoId,
         IF Answerable(c, p) THEN Answers(c, a) ELSE CancelsCommand(c, g)
  PROVE  /\ c = operation => answer' # NoAnswer \/ operation \in cancelled'
         /\ \/ answer' # NoAnswer \/ operation \in cancelled'
            \/ UNCHANGED <<openPrompt, answer>>
         /\ cancelled \subseteq cancelled'
  BY DEF Answerable, Answers, CancelsCommand, Registered, NoAnswer

LEMMA NextVisible ==
  ASSUME TypeOK, CommandInv, PromptInv, Next
  PROVE  PromptVisible'
  <1>1. SUFFICES ASSUME pc' = "prompting", answer' = NoAnswer, job'.id \notin cancelled'
                 PROVE  \/ uiPrompt' = [id |-> job'.id, prompt |-> openPrompt']
                        \/ \E i \in DOMAIN events' : events'[i] = Message("Prompt", job'.id, openPrompt')
    BY DEF PromptVisible
  <1>2. CASE pc # "prompting"
    <2>1. /\ job' = job /\ operation # NoId /\ pc = "git"
          /\ events' = Append(events, Message("Prompt", operation, openPrompt'))
      BY <1>1, <1>2, StepPrompt
    <2>2. operation = job.id
      BY <2>1 DEF CommandInv, Serving
    <2> QED BY <2>1, <2>2, SentNow DEF Sent
  <1>3. CASE pc = "prompting"
    <2> DEFINE m == Message("Prompt", job.id, openPrompt)
               modal == [id |-> job.id, prompt |-> openPrompt]
    <2>1. operation = job.id /\ operation # NoId /\ operation = active
      BY <1>3 DEF CommandInv, Serving
    <2>2. m.kind = "Prompt" /\ m.id = job.id /\ m.prompt = openPrompt
      BY DEF Message
    <2>3. ASSUME UNCHANGED <<job, openPrompt, answer>>, cancelled \subseteq cancelled'
          PROVE  uiPrompt = modal \/ Sent(m)
      BY <1>1, <1>3, <2>3 DEF PromptInv, PromptVisible, Sent
    <2>4. ASSUME UNCHANGED <<job, openPrompt>>, Sent(m), ~(Receive /\ Head(events) = m)
          PROVE  \E i \in DOMAIN events' : events'[i] = Message("Prompt", job'.id, openPrompt')
      BY <2>4, SentStays DEF Sent
    <2> HIDE DEF m
    <2>5. ASSUME NEW a \in {"Text", "Cancel"}, AnswerPrompt(a), uiPrompt = modal
          PROVE  FALSE
      <3>1. uiPrompt.id = operation
        BY <2>1, <2>5
      <3> QED BY <1>1, <2>1, <2>5, <3>1, WaitEnds DEF AnswerPrompt, workerVars
    <2>6. ASSUME NEW a \in {"Text", "Cancel"}, AnswerPrompt(a)
          PROVE  UNCHANGED <<job, openPrompt, answer, events>> /\ cancelled \subseteq cancelled'
      BY <1>1, <2>1, <2>6, WaitEnds DEF AnswerPrompt, workerVars
    <2>7. CASE ReceivePrompt
      <3>1. UNCHANGED job
        BY <2>7 DEF ReceivePrompt, workerVars
      <3>2. CASE uiPrompt' # uiPrompt
        <4>1. /\ uiPrompt = NoPrompt /\ uiPrompt' = [id |-> Head(events).id, prompt |-> Head(events).prompt]
              /\ UNCHANGED <<openPrompt, answer, cancelled>>
          BY <2>7, <3>2 DEF ReceivePrompt
        <4>2. modal # NoPrompt
          BY <2>1 DEF NoPrompt
        <4>3. Sent(m)
          BY <2>3, <3>1, <4>1, <4>2
        <4> QED BY <2>2, <2>4, <3>1, <4>1, <4>3
      <3>3. CASE uiPrompt' = uiPrompt
        <4>1. \/ IF Answerable(Head(events).id, Head(events).prompt)
                   THEN Answers(Head(events).id, "Cancel") ELSE CancelsCommand(Head(events).id, FALSE)
              \/ uiPrompt = NoPrompt /\ uiPrompt' = [id |-> Head(events).id, prompt |-> Head(events).prompt]
                   /\ UNCHANGED <<openPrompt, answer, cancelled>>
          BY <2>7 DEF ReceivePrompt
        <4>2. CASE uiPrompt = NoPrompt /\ uiPrompt' = [id |-> Head(events).id, prompt |-> Head(events).prompt]
                   /\ UNCHANGED <<openPrompt, answer, cancelled>>
          <5>1. Head(events).id = NoId
            BY <3>3, <4>2 DEF NoPrompt
          <5>2. modal # NoPrompt /\ Head(events) # m
            BY <2>1, <2>2, <5>1 DEF NoPrompt
          <5> QED BY <2>3, <2>4, <3>1, <4>2, <5>2
        <4>3. CASE IF Answerable(Head(events).id, Head(events).prompt)
                   THEN Answers(Head(events).id, "Cancel") ELSE CancelsCommand(Head(events).id, FALSE)
          <5>1. Head(events).id # operation /\ UNCHANGED <<openPrompt, answer>> /\ cancelled \subseteq cancelled'
            BY <1>1, <2>1, <3>1, <4>3, WaitEnds
          <5> QED BY <2>1, <2>2, <2>3, <2>4, <3>1, <3>3, <5>1
        <4> QED BY <4>1, <4>2, <4>3
      <3> QED BY <3>2, <3>3
    <2>8. CASE ReceiveUpdate
      <3>1. UNCHANGED <<job, openPrompt, answer, cancelled>> /\ Head(events).kind \in UpdateKinds /\ events # <<>>
        BY <2>8 DEF ReceiveUpdate, Receives, workerVars, brokerVars
      <3>2. Head(events) # m /\ ~IsTerminal(Head(events))
        <4>1. Head(events) = events[1] /\ 1 \in DOMAIN events
          BY <3>1, TailProps DEF TypeOK
        <4> QED BY <2>1, <2>2, <3>1, <4>1, Kinds DEF CommandInv
      <3>3. UNCHANGED uiPrompt
        BY <2>8, <3>2 DEF ReceiveUpdate, AcceptUpdate, AcceptRefresh, AcceptWatchFailed, NotAcknowledged, IsTerminal
      <3> QED BY <2>3, <2>4, <3>1, <3>2, <3>3
    <2>9. CASE Quit
      <3>1. job' = job /\ CancelsCommand(operation, active # NoId)
        BY <2>1, <2>9 DEF Quit, workerVars
      <3> QED BY <1>1, <2>1, <3>1 DEF CancelsCommand, Registered
    <2>10. CASE /\ ~ReceivePrompt /\ ~ReceiveUpdate /\ ~Quit
                /\ ~\E a \in {"Text", "Cancel"} : AnswerPrompt(a)
      <3>1. UNCHANGED <<job, openPrompt, answer, uiPrompt>> /\ cancelled \subseteq cancelled'
        BY <1>1, <1>3, <2>1, <2>10, StepWaiting
      <3>2. ~(Receive /\ Head(events) = m)
        BY <2>2, <2>10 DEF Receive, ReceiveWorktreeChanged, ReceiveLoaded, Receives
      <3> QED BY <2>3, <2>4, <3>1, <3>2
    <2>11. ASSUME NEW a \in {"Text", "Cancel"}, AnswerPrompt(a)
           PROVE  \E i \in DOMAIN events' : events'[i] = Message("Prompt", job'.id, openPrompt')
      <3>1. Sent(m) /\ UNCHANGED <<job, openPrompt, events>>
        BY <2>3, <2>5, <2>6, <2>11
      <3> QED BY <3>1 DEF Sent, m
    <2> QED BY <2>7, <2>8, <2>9, <2>10, <2>11
  <1> QED BY <1>2, <1>3

LEMMA NextPrompt ==
  ASSUME TypeOK, CommandInv, PromptInv, Next
  PROVE  PromptInv'
  <1>1. PromptVisible'
    BY NextVisible
  <1>2. uiPrompt' # NoPrompt => uiPrompt'.id = active' /\ active' # NoId
    <2>1. CASE ReceivePrompt
      <3>1. events # <<>> /\ Head(events).kind = "Prompt" /\ active' = active
        BY <2>1 DEF ReceivePrompt, Receives
      <3>2. Head(events).id # NoId
        BY <3>1, TailProps DEF PromptInv, TypeOK
      <3>3. uiPrompt' = uiPrompt \/ (uiPrompt'.id = Head(events).id /\ active = Head(events).id)
        <4>1. \/ UNCHANGED uiPrompt
              \/ /\ uiPrompt' = [id |-> Head(events).id, prompt |-> Head(events).prompt]
                 /\ active = Head(events).id
          BY <2>1 DEF ReceivePrompt
        <4> QED BY <4>1
      <3> QED BY <3>1, <3>2, <3>3 DEF PromptInv
    <2>2. CASE ReceiveUpdate
      <3>1. \/ UNCHANGED <<active, uiPrompt>>
            \/ uiPrompt' = IF uiPrompt.id = active THEN NoPrompt ELSE uiPrompt
        BY <2>2 DEF ReceiveUpdate, AcceptUpdate, AcceptRefresh, AcceptWatchFailed,
                    AcceptCommand, Acknowledge, NotAcknowledged
      <3> QED BY <3>1 DEF PromptInv
    <2> QED BY <2>1, <2>2, StepModal DEF PromptInv
  <1>3. \A i \in DOMAIN events' : events'[i].kind = "Prompt" => events'[i].id # NoId
    <2>1. /\ events \in Seq(Event)
          /\ \A i \in DOMAIN events : events[i].kind = "Prompt" => events[i].id # NoId
      BY DEF TypeOK, PromptInv
    <2>2. ASSUME NEW e, events' = Append(events, e), e.kind = "Prompt" => e.id # NoId
          PROVE  \A i \in DOMAIN events' : events'[i].kind = "Prompt" => events'[i].id # NoId
      BY <2>1, <2>2, AppendKeeps
    <2>3. CASE events # <<>> /\ events' = Tail(events)
      BY <2>1, <2>3, TailProps
    <2> QED BY <2>1, <2>2, <2>3, StepPrompts
  <1> QED BY <1>1, <1>2, <1>3 DEF PromptInv

\* Both invariants, for every step.
LEMMA NextOwed ==
  ASSUME MaxEarly = 0, IInv, IInv', WorktreeInv, LoadInv, PromptInv, [Next]_vars
  PROVE  WorktreeInv' /\ LoadInv' /\ PromptInv'
  <1>1. CASE Next
    BY <1>1, NextWorktree, NextLoad, NextPrompt DEF IInv
  <1>2. CASE UNCHANGED vars
    <2>1. WorktreeInv'
      BY <1>2 DEF vars, diskVars, watchVars, workerVars, brokerVars, uiVars, viewVars,
        WorktreeInv, PendingInv, StartingInv, FlagTaken, RefreshQueued, InvalidationOwed, Sent
    <2>2. LoadInv'
      BY <1>2 DEF vars, diskVars, workerVars, uiVars, viewVars, LoadInv, QueryNotLost
    <2>3. PromptInv'
      BY <1>2 DEF vars, workerVars, brokerVars, uiVars, PromptInv, PromptVisible
    <2> QED BY <2>1, <2>2, <2>3
  <1> QED BY <1>1, <1>2

LEMMA InitOwed == Init => WorktreeInv /\ LoadInv /\ PromptInv
  <1> SUFFICES ASSUME Init PROVE WorktreeInv /\ LoadInv /\ PromptInv
    OBVIOUS
  <1>1. WorktreeInv
    BY DEF Init, WorktreeInv, PendingInv, StartingInv, FlagTaken
  <1>2. LoadInv
    BY DEF Init, LoadInv, QueryNotLost
  <1>3. PromptInv
    BY DEF Init, PromptInv, PromptVisible
  <1> QED BY <1>1, <1>2, <1>3

\* The debounce forgets nothing: once everything has come to rest the Explorer
\* has been invalidated after the last change to a file, and a query the user
\* waits for is in the channel, at the worker or answered, whatever request
\* ended the debounce.  The watch must have missed no change since the startup
\* snapshot.  (worker.rs: debounce, collect_after_debounce.)
THEOREM ChangesAndQueriesArrive ==
  ASSUME MaxEarly = 0 PROVE Spec => []ChangesAndQueriesKept
  <1>1. IInv /\ IInv' /\ (WorktreeInv /\ LoadInv /\ PromptInv) /\ [Next]_vars
          => (WorktreeInv /\ LoadInv /\ PromptInv)'
    BY NextOwed
  <1>2. IInv /\ WorktreeInv /\ LoadInv => ChangesAndQueriesKept
    <2> SUFFICES ASSUME IInv, WorktreeInv, LoadInv, Quiet PROVE worktreeSeen >= worktreeDisk
      BY DEF ChangesAndQueriesKept, WorktreeNotLost, IInv, LoadInv
    <2>1. ~RefreshQueued /\ ~Sent(Invalidation) /\ ~worktreePending
      BY DEF Quiet, RefreshQueued, Sent, WorktreeInv, FlagTaken
    <2> QED BY <2>1 DEF Quiet, WorktreeInv, InvalidationOwed
  <1> QED BY <1>1, <1>2, InitOwed, Invariance, PTL DEF Spec

\* Git never waits for a prompt nobody can answer: while its command is not
\* cancelled an unanswered prompt is on screen or on its way there, however
\* answers, cancellations, further prompts and the end of the command
\* interleave; and a prompt on screen is one of the active command.
\* (service.rs: PromptBroker; prompt.rs: open_prompt.)
THEOREM PromptsCanBeAnswered == Spec => []PromptsAnswerable
  <1>1. IInv /\ PromptInv /\ [Next]_vars => PromptInv'
    <2>1. CASE UNCHANGED vars
      BY <2>1 DEF vars, workerVars, brokerVars, uiVars, PromptInv, PromptVisible
    <2> QED BY <2>1, NextPrompt DEF IInv
  <1>2. PromptInv => PromptsAnswerable
    BY DEF PromptInv, PromptsAnswerable, PromptOfActive
  <1> QED BY <1>1, <1>2, InitOwed, Invariance, PTL DEF Spec
====
