--------------------------- MODULE DeliveryProofs ---------------------------
(***************************************************************************)
(* Theorems about BridgeDelivery, for any events, clients, connections and *)
(* channel capacity, and however often the menu is used.                   *)
(***************************************************************************)
EXTENDS BridgeDelivery, SequenceTheorems, TLAPS

---------------------------------------------------------------------------
(***************************************************************************)
(* Queues                                                                  *)
(***************************************************************************)

\* What Append adds is the last element.
LEMMA Appended ==
  ASSUME NEW S, NEW s \in Seq(S), NEW x \in S
  PROVE  /\ Append(s, x) \in Seq(S)
         /\ Append(s, x) # <<>>
         /\ Len(Append(s, x)) = Len(s) + 1
         /\ \A i \in 1 .. Len(s) : Append(s, x)[i] = s[i]
         /\ Append(s, x)[Len(s) + 1] = x
OBVIOUS

\* What Tail takes away is the first element, and Head.
LEMMA Taken ==
  ASSUME NEW S, NEW s \in Seq(S), s # <<>>
  PROVE  /\ Len(s) \in Nat \ {0}
         /\ Head(s) = s[1] /\ s[1] \in S
         /\ Tail(s) \in Seq(S)
         /\ Len(Tail(s)) = Len(s) - 1
         /\ \A i \in 1 .. Len(s) - 1 : Tail(s)[i] = s[i + 1]
BY HeadTailProperties

---------------------------------------------------------------------------
(***************************************************************************)
(* Types                                                                   *)
(***************************************************************************)

\* A session has a connection, and a display under way has an event.
Session ==
  /\ worker # "offline" => conn \in Conns
  /\ worker = "showing" => showing \in Event

Typed == DeliveryTypeOK /\ Session

LEMMA TypedInit == DeliveryInit => Typed
<1> SUFFICES ASSUME DeliveryInit
             PROVE  Typed
  OBVIOUS
<1>1. MaxConns \in Nat /\ None \notin Event
  BY DeliveryAssumption, BoardAssumption
<1>2. /\ slot \in Event \cup {None}
      /\ owed \in [Client -> Message \cup {None}]
      /\ announced \in Seq(Message)
      /\ posted \subseteq Event /\ deletes \in Nat
      /\ task \in [Conns -> {"none", "accepted", "subscribed", "loop", "ended"}]
      /\ mirror \in [Conns -> BOOLEAN]
      /\ up \in [Conns -> Seq(BridgeClientMessage)]
      /\ down \in [Conns -> Seq(Message)]
  BY <1>1 DEF DeliveryInit, BoardInit
<1>3. cursor \in [Conns -> 0 .. Len(announced)]
  BY <1>1 DEF DeliveryInit, BoardInit
<1>4. /\ conn \in 0 .. MaxConns
      /\ worker \in {"offline", "hello", "ask", "idle", "showing", "status"}
      /\ showing \in Event \cup {None}
      /\ current \in AgentState \cup {None}
      /\ icon \in IconState
      /\ keyboard \in Event \cup {TestEvent, None}
      /\ tray \in {"rest", "stored"}
      /\ clicks \in Nat /\ beats \in Nat
  BY <1>1 DEF DeliveryInit, IconState
<1>5. flag \in BOOLEAN /\ menu \in BOOLEAN
  BY DEF DeliveryInit
<1>6. commands \in Seq(BridgeCommand)
  BY DEF DeliveryInit
<1>7. Session
  BY DEF DeliveryInit, Session
<1> QED
  BY <1>2, <1>3, <1>4, <1>5, <1>6, <1>7 DEF Typed, DeliveryTypeOK

\* The parts of the type invariant, by who changes them.
BoardTyped ==
  /\ slot \in Event \cup {None}
  /\ owed \in [Client -> Message \cup {None}]
  /\ announced \in Seq(Message)
  /\ posted \subseteq Event /\ deletes \in Nat

TaskTyped ==
  /\ task \in [Conns -> {"none", "accepted", "subscribed", "loop", "ended"}]
  /\ cursor \in [Conns -> 0 .. Len(announced)]
  /\ mirror \in [Conns -> BOOLEAN]

WireTyped ==
  /\ up \in [Conns -> Seq(BridgeClientMessage)]
  /\ down \in [Conns -> Seq(Message)]

WorkerTyped ==
  /\ conn \in 0 .. MaxConns
  /\ worker \in {"offline", "hello", "ask", "idle", "showing", "status"}
  /\ worker # "offline" => conn \in Conns

ScreenTyped ==
  /\ showing \in Event \cup {None}
  /\ worker = "showing" => showing \in Event
  /\ current \in AgentState \cup {None}
  /\ icon \in IconState
  /\ keyboard \in Event \cup {TestEvent, None}

MenuTyped ==
  /\ flag \in BOOLEAN /\ menu \in BOOLEAN
  /\ commands \in Seq(BridgeCommand)
  /\ tray \in {"rest", "stored"}
  /\ clicks \in Nat /\ beats \in Nat

LEMMA TypedParts ==
  Typed <=> BoardTyped /\ TaskTyped /\ WireTyped /\ WorkerTyped /\ ScreenTyped /\ MenuTyped
BY Zenon DEF Typed, DeliveryTypeOK, Session, BoardTyped, TaskTyped, WireTyped,
             WorkerTyped, ScreenTyped, MenuTyped

\* What live_latest leaves in the slot and sends.
LEMMA LiveLatest ==
  ASSUME BoardTyped, WireTyped, WorkerTyped, NEW c \in Conns, SendLiveLatest(c)
  PROVE  /\ slot' \in {slot, None} /\ (~ Expiring => slot' = slot)
         /\ \/ down' = down /\ (slot' = None \/ c # conn \/ worker = "offline")
            \/ /\ c = conn /\ worker # "offline" /\ slot' \in Event
               /\ down' = [down EXCEPT ![c] = Append(@, EventMessage(slot'))]
BY DEF SendLiveLatest, SendDown, BoardTyped

\* Messages are messages.
LEMMA Messages ==
  /\ \A e \in Event : EventMessage(e) \in Message
  /\ ClearMessage \in Message
  /\ RequestLatest \in BridgeClientMessage /\ DismissLatest \in BridgeClientMessage
  /\ \A paused \in BOOLEAN : Status(paused) \in BridgeClientMessage
BY DEF EventMessage, ClearMessage, Message, BridgeClientMessage

\* The actions that leave the board and the requests alone.
Elsewhere ==
  \/ \E c \in Conns : \/ EndTask(c) \/ Subscribe(c) \/ ReadStatus(c)
                      \/ Lag(c) \/ Forward(c)
  \/ ConnectFails \/ Disconnect \/ LoseDismiss \/ Heartbeat
  \/ ClickPause \/ ClickItem \/ SendPaused
  \/ Worker

LEMMA ElsewhereBoard ==
  Elsewhere \/ UNCHANGED vars => UNCHANGED <<boardVars, httpVars>>
BY DEF Elsewhere, EndTask, Subscribe, ReadStatus, Lag, Forward, ConnectFails,
       Disconnect, LoseDismiss, Heartbeat, ClickPause, ClickItem, SendPaused,
       Worker, Connect, Hello, Ask, SendStatus, HandleSetPaused, HandleTest,
       HandleDismiss, HandleReconnect, ReceiveEvent, FinishShowing, ReceiveClear,
       vars, boardVars, httpVars

\* The board's variables keep their types; what was announced stays announced.
LEMMA BoardTypeStep ==
  ASSUME Typed, [DeliveryNext]_vars
  PROVE  BoardTyped' /\ Len(announced) <= Len(announced')
<1> USE BoardAssumption
<1>1. BoardTyped /\ WireTyped /\ WorkerTyped /\ Len(announced) \in Nat
  BY TypedParts DEF BoardTyped
<1>2. Conns \subseteq Client
  BY DeliveryAssumption
<1>3. CASE Elsewhere \/ UNCHANGED vars
  BY <1>1, <1>3, ElsewhereBoard DEF BoardTyped, boardVars, httpVars
<1>4. ASSUME NEW p \in Posters, NEW e \in Event, PostEvent(p, e)
      PROVE  BoardTyped' /\ announced' = announced
  <2>1. /\ slot' \in Event /\ announced' = announced
        /\ owed' = [owed EXCEPT ![p] = EventMessage(slot')]
        /\ posted' = posted \cup {e} /\ deletes' = deletes
    BY <1>4 DEF PostEvent, Offer, Owe
  <2>2. EventMessage(slot') \in Message
    BY <2>1, Messages
  <2> QED
    BY <1>1, <2>1, <2>2 DEF BoardTyped
<1>5. ASSUME NEW p \in Posters, DeleteLatest(p)
      PROVE  BoardTyped' /\ announced' = announced
  <2>1. /\ slot' = None /\ announced' = announced
        /\ owed' = [owed EXCEPT ![p] = ClearMessage]
        /\ posted' = posted /\ deletes' = deletes + 1
    BY <1>5 DEF DeleteLatest, Dismiss, Owe
  <2>2. ClearMessage \in Message
    BY Messages
  <2>3. deletes' \in Nat
    BY <1>1, <2>1 DEF BoardTyped
  <2>4. owed' \in [Client -> Message \cup {None}]
    BY <1>1, <2>1, <2>2 DEF BoardTyped
  <2> QED
    BY <1>1, <2>1, <2>3, <2>4 DEF BoardTyped
<1>6. CASE GetExpired
  BY <1>1, <1>6 DEF GetExpired, Lapse, BoardTyped, httpVars
<1>7. ASSUME NEW c \in Client, Broadcast(c)
      PROVE  BoardTyped' /\ Len(announced') = Len(announced) + 1
  <2>1. owed[c] \in Message /\ announced' = Append(announced, owed[c])
    BY <1>1, <1>7 DEF Broadcast, Announce, BoardTyped
  <2>2. announced' \in Seq(Message) /\ Len(announced') = Len(announced) + 1
    BY <1>1, <2>1, Appended DEF BoardTyped
  <2> QED
    BY <1>1, <1>7, <2>2 DEF Broadcast, Announce, BoardTyped, httpVars
<1>8. ASSUME NEW c \in Conns, Snapshot(c) \/ ReadRequestLatest(c)
      PROVE  BoardTyped' /\ announced' = announced
  <2>1. SendLiveLatest(c) /\ UNCHANGED <<owed, announced, httpVars>>
    BY <1>8 DEF Snapshot, ReadRequestLatest
  <2> QED
    BY <1>1, <2>1, LiveLatest DEF BoardTyped, httpVars
<1>9. ASSUME NEW c \in Conns, ReadDismissLatest(c)
      PROVE  BoardTyped' /\ announced' = announced
  BY <1>1, <1>2, <1>9, Messages DEF ReadDismissLatest, Dismiss, Owe, BoardTyped,
                                   boardVars, httpVars
<1> QED
  BY <1>1, <1>3, <1>4, <1>5, <1>6, <1>7, <1>8, <1>9
     DEF DeliveryNext, Environment, System, Task, Elsewhere, BoardTyped

\* A session's message to the server.
LEMMA SentUp ==
  ASSUME TaskTyped, WireTyped, conn \in Conns, NEW message \in BridgeClientMessage,
         SendUp(message)
  PROVE  /\ up' \in [Conns -> Seq(BridgeClientMessage)]
         /\ \/ task[conn] = "ended" /\ up' = up
            \/ up' = [up EXCEPT ![conn] = Append(@, message)]
<1>1. up[conn] \in Seq(BridgeClientMessage)
  BY DEF WireTyped
<1>2. Append(up[conn], message) \in Seq(BridgeClientMessage)
  BY <1>1, Appended
<1> QED
  BY <1>2 DEF SendUp, WireTyped

\* A socket task's message to the bridge.
LEMMA SentDown ==
  ASSUME WireTyped, NEW c \in Conns, NEW message \in Message, SendDown(c, message)
  PROVE  down' \in [Conns -> Seq(Message)]
<1>1. down[c] \in Seq(Message)
  BY DEF WireTyped
<1>2. Append(down[c], message) \in Seq(Message)
  BY <1>1, Appended
<1> QED
  BY <1>2 DEF SendDown, WireTyped

\* A socket task takes what it reads.
LEMMA ReadTakes ==
  ASSUME WireTyped, NEW c \in Conns, NEW message, Read(c, message)
  PROVE  /\ task[c] = "loop" /\ owed[c] = None
         /\ up[c] # <<>> /\ message = up[c][1] /\ message \in BridgeClientMessage
         /\ up' = [up EXCEPT ![c] = Tail(@)]
         /\ up' \in [Conns -> Seq(BridgeClientMessage)]
<1>1. up[c] \in Seq(BridgeClientMessage) /\ up[c] # <<>>
  BY DEF WireTyped, Read
<1>2. Tail(up[c]) \in Seq(BridgeClientMessage) /\ Head(up[c]) = up[c][1]
      /\ up[c][1] \in BridgeClientMessage
  BY <1>1, Taken
<1> QED
  BY <1>1, <1>2 DEF Read, Selecting, WireTyped

\* The worker takes the next message.
LEMMA NextTakes ==
  ASSUME WireTyped, WorkerTyped, NEW message, NextMessage(message)
  PROVE  /\ conn \in Conns /\ worker = "idle"
         /\ down[conn] # <<>> /\ message = down[conn][1] /\ message \in Message
         /\ down' = [down EXCEPT ![conn] = Tail(@)]
         /\ down' \in [Conns -> Seq(Message)]
<1>1. conn \in Conns /\ worker = "idle"
  BY DEF NextMessage, WorkerTyped
<1>2. down[conn] \in Seq(Message) /\ down[conn] # <<>>
  BY <1>1 DEF WireTyped, NextMessage
<1>3. Tail(down[conn]) \in Seq(Message) /\ Head(down[conn]) = down[conn][1]
      /\ down[conn][1] \in Message
  BY <1>2, Taken
<1> QED
  BY <1>1, <1>2, <1>3 DEF NextMessage, WireTyped

\* The worker takes the next command.
LEMMA CommandTaken ==
  ASSUME MenuTyped, NEW command, Receive(command)
  PROVE  /\ worker = "idle" /\ commands # <<>>
         /\ command = commands[1] /\ command \in BridgeCommand
         /\ commands' = Tail(commands)
         /\ commands' \in Seq(BridgeCommand)
BY Taken DEF Receive, MenuTyped

\* Who leaves the socket tasks alone.
NoTask ==
  \/ \E p \in Posters : (\E e \in Event : PostEvent(p, e)) \/ DeleteLatest(p)
  \/ GetExpired
  \/ \E c \in Client : Broadcast(c)
  \/ ConnectFails \/ Disconnect \/ LoseDismiss \/ Heartbeat
  \/ ClickPause \/ ClickItem \/ SendPaused
  \/ Hello \/ Ask \/ SendStatus \/ HandleSetPaused \/ HandleTest
  \/ HandleDismiss \/ HandleReconnect \/ ReceiveEvent \/ FinishShowing \/ ReceiveClear

LEMMA NoTaskFrame == NoTask \/ UNCHANGED vars => UNCHANGED taskVars
BY DEF NoTask, PostEvent, DeleteLatest, GetExpired, Broadcast, ConnectFails,
       Disconnect, LoseDismiss, Heartbeat, ClickPause, ClickItem, SendPaused,
       Hello, Ask, SendStatus, HandleSetPaused, HandleTest, HandleDismiss,
       HandleReconnect, ReceiveEvent, FinishShowing, ReceiveClear, vars, taskVars

\* The socket tasks' variables keep their types.
LEMMA TaskTypeStep ==
  ASSUME Typed, [DeliveryNext]_vars
  PROVE  TaskTyped'
<1>1. /\ TaskTyped /\ WireTyped /\ WorkerTyped /\ BoardTyped /\ BoardTyped'
      /\ Len(announced) <= Len(announced')
  BY TypedParts, BoardTypeStep
<1>2. Len(announced) \in Nat /\ Len(announced') \in Nat /\ Capacity \in Nat \ {0}
      /\ MaxConns \in Nat
  BY <1>1, DeliveryAssumption DEF BoardTyped
<1>3. cursor \in [Conns -> 0 .. Len(announced')]
  BY <1>1, <1>2 DEF TaskTyped
<1>4. CASE NoTask \/ UNCHANGED vars
  BY <1>1, <1>3, <1>4, NoTaskFrame DEF TaskTyped, taskVars
<1>5. ASSUME NEW c \in Conns, Subscribe(c)
      PROVE  TaskTyped'
  BY <1>1, <1>2, <1>5 DEF Subscribe, TaskTyped, boardVars
<1>6. ASSUME NEW c \in Conns, Snapshot(c) \/ ReadRequestLatest(c) \/ ReadDismissLatest(c)
      PROVE  TaskTyped'
  <2>1. /\ task' \in [Conns -> {"none", "accepted", "subscribed", "loop", "ended"}]
        /\ UNCHANGED <<cursor, mirror>>
    BY <1>1, <1>6 DEF Snapshot, ReadRequestLatest, ReadDismissLatest, TaskTyped, taskVars
  <2> QED
    BY <1>1, <1>3, <2>1 DEF TaskTyped
<1>7. ASSUME NEW c \in Conns, ReadStatus(c)
      PROVE  TaskTyped'
  BY <1>1, <1>3, <1>7 DEF ReadStatus, TaskTyped
<1>8. ASSUME NEW c \in Conns, Lag(c)
      PROVE  TaskTyped'
  <2>1. cursor' = [cursor EXCEPT ![c] = Len(announced) - Capacity]
        /\ UNCHANGED <<task, mirror, announced>>
    BY <1>8 DEF Lag, boardVars
  <2>2. Len(announced) - Capacity \in 0 .. Len(announced)
    BY <1>1, <1>2, <1>8 DEF Lag, TaskTyped
  <2> QED
    BY <1>1, <2>1, <2>2 DEF TaskTyped
<1>9. ASSUME NEW c \in Conns, Forward(c)
      PROVE  TaskTyped'
  <2>1. cursor' = [cursor EXCEPT ![c] = cursor[c] + 1]
        /\ UNCHANGED <<task, mirror, announced>>
    BY <1>9 DEF Forward, boardVars
  <2>2. cursor[c] + 1 \in 0 .. Len(announced)
    BY <1>1, <1>2, <1>9 DEF Forward, TaskTyped
  <2> QED
    BY <1>1, <2>1, <2>2 DEF TaskTyped
<1>10. ASSUME NEW c \in Conns, EndTask(c)
       PROVE  TaskTyped'
  BY <1>1, <1>2, <1>10 DEF EndTask, TaskTyped, boardVars
<1>11. CASE Connect
  BY <1>1, <1>3, <1>11 DEF Connect, TaskTyped
<1> QED
  BY <1>4, <1>5, <1>6, <1>7, <1>8, <1>9, <1>10, <1>11
     DEF DeliveryNext, Environment, System, Task, Worker, NoTask

\* Who leaves the wires alone.
NoWire ==
  \/ \E p \in Posters : (\E e \in Event : PostEvent(p, e)) \/ DeleteLatest(p)
  \/ GetExpired
  \/ \E c \in Client : Broadcast(c)
  \/ \E c \in Conns : Subscribe(c) \/ Lag(c)
  \/ ConnectFails \/ Heartbeat \/ ClickPause \/ ClickItem \/ SendPaused
  \/ Connect \/ HandleSetPaused \/ FinishShowing

LEMMA NoWireFrame == NoWire \/ UNCHANGED vars => UNCHANGED wireVars
BY DEF NoWire, PostEvent, DeleteLatest, GetExpired, Broadcast, Subscribe, Lag,
       ConnectFails, Heartbeat, ClickPause, ClickItem, SendPaused, Connect,
       HandleSetPaused, FinishShowing, vars, wireVars

\* The messages in flight are messages.
LEMMA WireTypeStep ==
  ASSUME Typed, [DeliveryNext]_vars
  PROVE  WireTyped'
<1>1. TaskTyped /\ WireTyped /\ WorkerTyped /\ BoardTyped /\ MenuTyped
  BY TypedParts
<1>2. /\ <<>> \in Seq(Message) /\ <<>> \in Seq(BridgeClientMessage)
      /\ flag \in BOOLEAN
  BY <1>1 DEF MenuTyped
<1>3. CASE NoWire \/ UNCHANGED vars
  BY <1>1, <1>3, NoWireFrame DEF WireTyped, wireVars
<1>4. ASSUME NEW c \in Conns, EndTask(c)
      PROVE  WireTyped'
  BY <1>1, <1>2, <1>4 DEF EndTask, WireTyped
<1>5. ASSUME NEW c \in Conns, ReadStatus(c) \/ ReadDismissLatest(c)
      PROVE  WireTyped'
  <2>1. PICK message : Read(c, message) /\ UNCHANGED down
    BY <1>5 DEF ReadStatus, ReadDismissLatest
  <2> QED
    BY <1>1, <2>1, ReadTakes DEF WireTyped
<1>6. ASSUME NEW c \in Conns, SendLiveLatest(c)
      PROVE  down' \in [Conns -> Seq(Message)]
  <2>1. slot' \in Event \/ slot' = None
    BY <1>1, <1>6, LiveLatest DEF BoardTyped
  <2>2. CASE down' = down
    BY <1>1, <2>2 DEF WireTyped
  <2>3. CASE slot' \in Event /\ SendDown(c, EventMessage(slot'))
    BY <1>1, <2>3, Messages, SentDown
  <2> QED
    BY <1>1, <1>6, <2>1, <2>2, <2>3, BoardAssumption DEF SendLiveLatest
<1>7. ASSUME NEW c \in Conns, Snapshot(c) \/ ReadRequestLatest(c)
      PROVE  WireTyped'
  <2>1. SendLiveLatest(c) /\ (up' = up \/ Read(c, RequestLatest))
    BY <1>7 DEF Snapshot, ReadRequestLatest
  <2>2. up' \in [Conns -> Seq(BridgeClientMessage)]
    BY <1>1, <2>1, ReadTakes DEF WireTyped
  <2> QED
    BY <1>6, <2>1, <2>2 DEF WireTyped
<1>8. ASSUME NEW c \in Conns, Forward(c)
      PROVE  WireTyped'
  <2>1. /\ UNCHANGED up /\ cursor'[c] \in 1 .. Len(announced)
        /\ down' = down \/ SendDown(c, announced[cursor'[c]])
    BY <1>1, <1>8 DEF Forward, TaskTyped, BoardTyped
  <2>2. announced[cursor'[c]] \in Message
    BY <1>1, <2>1 DEF BoardTyped
  <2> QED
    BY <1>1, <2>1, <2>2, SentDown DEF WireTyped
<1>9. CASE Hello \/ Ask \/ SendStatus \/ HandleDismiss
  <2>1. /\ conn \in Conns /\ UNCHANGED down
        /\ \E message \in BridgeClientMessage : SendUp(message)
    BY <1>1, <1>2, <1>9, Messages
       DEF Hello, Ask, SendStatus, HandleDismiss, Receive, WorkerTyped
  <2> QED
    BY <1>1, <2>1, SentUp DEF WireTyped
<1>10. CASE Disconnect \/ LoseDismiss \/ HandleReconnect \/ HandleTest
  <2>1. UNCHANGED up /\ (down' = down \/ Leave)
    BY <1>10 DEF Disconnect, LoseDismiss, HandleReconnect, HandleTest
  <2> QED
    BY <1>1, <1>2, <2>1 DEF Leave, WireTyped
<1>11. CASE ReceiveEvent \/ ReceiveClear
  <2>1. PICK message : NextMessage(message) /\ UNCHANGED up
    BY <1>11 DEF ReceiveEvent, ReceiveClear
  <2> QED
    BY <1>1, <2>1, NextTakes DEF WireTyped
<1> QED
  BY <1>3, <1>4, <1>5, <1>7, <1>8, <1>9, <1>10, <1>11
     DEF DeliveryNext, Environment, System, Task, Worker, NoWire

\* What the server and the network do by themselves leaves the bridge alone.
Outside ==
  \/ \E p \in Posters : (\E e \in Event : PostEvent(p, e)) \/ DeleteLatest(p)
  \/ GetExpired
  \/ \E c \in Client : Broadcast(c)
  \/ \E c \in Conns : Task(c) \/ EndTask(c)

LEMMA OutsideFrame == Outside \/ UNCHANGED vars => UNCHANGED bridgeVars
BY DEF Outside, PostEvent, DeleteLatest, GetExpired, Broadcast, Task, EndTask,
       Subscribe, Snapshot, ReadStatus, ReadRequestLatest, ReadDismissLatest, Lag,
       Forward, vars

\* A step is one of the server's, or one of these of the bridge.
LEMMA BridgeActs ==
  ASSUME [DeliveryNext]_vars
  PROVE  \/ UNCHANGED bridgeVars
         \/ Connect \/ ConnectFails \/ Hello \/ Ask \/ Disconnect
         \/ Heartbeat \/ SendStatus
         \/ HandleSetPaused \/ HandleTest \/ HandleDismiss \/ LoseDismiss
         \/ HandleReconnect
         \/ ReceiveEvent \/ FinishShowing \/ ReceiveClear
         \/ ClickPause \/ ClickItem \/ SendPaused
BY OutsideFrame DEF DeliveryNext, Environment, System, Worker, Outside

\* The worker's session keeps its type.
LEMMA WorkerTypeStep ==
  ASSUME Typed, [DeliveryNext]_vars
  PROVE  WorkerTyped'
<1>1. WorkerTyped /\ MaxConns \in Nat
  BY TypedParts, DeliveryAssumption
<1> USE DEF WorkerTyped
<1>2. CASE UNCHANGED bridgeVars \/ ConnectFails \/ ClickPause \/ ClickItem \/ SendPaused
           \/ ReceiveClear
  BY <1>1, <1>2 DEF bridgeVars, ConnectFails, ClickPause, ClickItem, SendPaused, ReceiveClear
<1>3. CASE Connect
  <2>1. conn' = conn + 1 /\ conn < MaxConns /\ worker' = "hello"
    BY <1>3 DEF Connect
  <2>2. conn' \in 1 .. MaxConns
    BY <1>1, <2>1
  <2> QED
    BY <1>1, <2>1, <2>2 DEF Conns
<1>4. CASE Hello \/ Ask \/ Heartbeat \/ SendStatus
  BY <1>1, <1>4 DEF Hello, Ask, Heartbeat, SendStatus
<1>5. CASE Disconnect \/ LoseDismiss \/ HandleReconnect
  BY <1>1, <1>5 DEF Disconnect, LoseDismiss, HandleReconnect, Leave
<1>6. CASE HandleSetPaused \/ HandleTest \/ HandleDismiss
  BY <1>1, <1>6 DEF HandleSetPaused, HandleTest, HandleDismiss, Receive, Leave
<1>7. CASE ReceiveEvent \/ FinishShowing
  BY <1>1, <1>7 DEF ReceiveEvent, NextMessage, FinishShowing
<1> QED
  BY <1>2, <1>3, <1>4, <1>5, <1>6, <1>7, BridgeActs

\* An icon is one of the bridge's icons.
LEMMA IconTypes ==
  ASSUME NEW state \in AgentState \cup {None}, NEW paused \in BOOLEAN
  PROVE  EffectiveIcon(state, paused) \in IconState
BY DEF EffectiveIcon, IconState

\* Icon, display and current state keep their types.
LEMMA ScreenTypeStep ==
  ASSUME Typed, [DeliveryNext]_vars
  PROVE  ScreenTyped'
<1>1. WorkerTyped /\ ScreenTyped /\ MenuTyped
  BY TypedParts
<1>2. /\ "idle" \in IconState /\ FALSE \in BOOLEAN
      /\ \A e \in Event \cup {TestEvent} : StateOf[e] \in AgentState
  BY DeliveryAssumption DEF IconState
<1>3. CASE UNCHANGED bridgeVars \/ ClickPause \/ ClickItem \/ SendPaused
  BY <1>1, <1>3 DEF ScreenTyped, bridgeVars, screenVars, ClickPause, ClickItem, SendPaused
<1>4. CASE Connect \/ Hello \/ Heartbeat \/ SendStatus \/ HandleReconnect
  BY <1>1, <1>4
     DEF ScreenTyped, screenVars, Connect, Hello, Heartbeat, SendStatus, HandleReconnect, Leave
<1>5. CASE ConnectFails \/ Disconnect \/ LoseDismiss
  BY <1>1, <1>2, <1>5 DEF ScreenTyped, ConnectFails, Disconnect, LoseDismiss, Leave
<1>6. CASE Ask
  <2>1. EffectiveIcon(None, flag) \in IconState
    BY <1>1, IconTypes DEF MenuTyped
  <2> QED
    BY <1>1, <1>6, <2>1 DEF ScreenTyped, Ask
<1>7. CASE HandleSetPaused
  <2>1. icon' \in IconState
    BY <1>1, <1>7, IconTypes DEF HandleSetPaused, ScreenTyped
  <2> QED
    BY <1>1, <1>7, <2>1 DEF ScreenTyped, HandleSetPaused
<1>8. ASSUME ClearDisplay
      PROVE  keyboard' \in {keyboard, None} /\ current' = None /\ icon' \in IconState
  BY <1>1, <1>8, IconTypes DEF ClearDisplay, Write, MenuTyped
<1>9. CASE HandleDismiss \/ ReceiveClear
  <2>1. ClearDisplay /\ UNCHANGED showing /\ (worker' = "status" \/ worker' = worker)
    BY <1>9 DEF HandleDismiss, ReceiveClear
  <2> QED
    BY <1>1, <1>8, <2>1 DEF ScreenTyped
<1>10. CASE HandleTest
  <2>1. /\ keyboard' \in {keyboard, TestEvent}
        /\ UNCHANGED showing /\ worker' \in {"status", "offline"}
    BY <1>10 DEF HandleTest, Write, Leave
  <2>2. current' \in AgentState \cup {None} /\ icon' \in IconState
    BY <1>1, <1>2, <1>10, IconTypes DEF HandleTest, ScreenTyped, MenuTyped
  <2> QED
    BY <1>1, <2>1, <2>2 DEF ScreenTyped
<1>11. CASE ReceiveEvent
  BY <1>1, <1>11 DEF ScreenTyped, ReceiveEvent
<1>12. CASE FinishShowing
  <2>1. showing \in Event
    BY <1>1, <1>12 DEF ScreenTyped, FinishShowing
  <2>2. keyboard' \in {keyboard, showing} /\ showing' = None /\ worker' = "idle"
    BY <1>12 DEF FinishShowing, Write
  <2>3. current' \in AgentState \cup {None} /\ icon' \in IconState
    BY <1>1, <1>2, <1>12, <2>1, IconTypes DEF FinishShowing, ScreenTyped
  <2> QED
    BY <1>1, <2>1, <2>2, <2>3 DEF ScreenTyped
<1> QED
  BY <1>3, <1>4, <1>5, <1>6, <1>7, <1>9, <1>10, <1>11, <1>12, BridgeActs

\* The menu's variables keep their types.
LEMMA MenuTypeStep ==
  ASSUME Typed, [DeliveryNext]_vars
  PROVE  MenuTyped'
<1>1. MenuTyped
  BY TypedParts
<1>2. CASE \/ UNCHANGED bridgeVars
           \/ Connect \/ ConnectFails \/ Hello \/ Ask \/ Disconnect
           \/ SendStatus \/ ReceiveEvent \/ FinishShowing \/ ReceiveClear
  BY <1>1, <1>2 DEF MenuTyped, bridgeVars, trayVars, Connect, ConnectFails, Hello,
                    Ask, Disconnect, SendStatus, ReceiveEvent, FinishShowing, ReceiveClear
<1>3. CASE Heartbeat
  BY <1>1, <1>3 DEF MenuTyped, Heartbeat, trayVars
<1>4. CASE \/ HandleSetPaused \/ HandleTest \/ HandleDismiss \/ LoseDismiss
           \/ HandleReconnect
  <2>1. PICK command : Receive(command) /\ UNCHANGED <<trayVars, beats>>
    BY <1>4 DEF HandleSetPaused, HandleTest, HandleDismiss, LoseDismiss, HandleReconnect
  <2>2. flag' \in BOOLEAN
    BY <1>1, <1>4 DEF MenuTyped, HandleSetPaused, HandleTest, HandleDismiss,
                      LoseDismiss, HandleReconnect
  <2>3. commands' \in Seq(BridgeCommand)
    BY <1>1, <2>1, CommandTaken
  <2> QED
    BY <1>1, <2>1, <2>2, <2>3 DEF MenuTyped, trayVars
<1>5. CASE ClickPause
  <2>1. menu' \in BOOLEAN /\ flag' \in BOOLEAN
    BY <1>1, <1>5 DEF MenuTyped, ClickPause
  <2>2. clicks' \in Nat /\ tray' = "stored" /\ UNCHANGED <<commands, beats>>
    BY <1>1, <1>5 DEF MenuTyped, ClickPause, Click
  <2> QED
    BY <1>1, <2>1, <2>2 DEF MenuTyped
<1>6. CASE SendPaused \/ ClickItem
  <2>1. \E command \in BridgeCommand : commands' = Append(commands, command)
    BY <1>1, <1>6 DEF SendPaused, ClickItem, BridgeCommand, MenuTyped
  <2>2. commands' \in Seq(BridgeCommand)
    BY <1>1, <2>1, Appended DEF MenuTyped
  <2>3. /\ UNCHANGED <<flag, menu, beats>>
        /\ tray' = "rest" \/ tray' = tray
        /\ clicks' = clicks \/ clicks' = clicks + 1
    BY <1>6 DEF SendPaused, ClickItem, Click
  <2>4. clicks' \in Nat
    BY <1>1, <2>3 DEF MenuTyped
  <2> QED
    BY <1>1, <2>2, <2>3, <2>4 DEF MenuTyped
<1> QED
  BY <1>2, <1>3, <1>4, <1>5, <1>6, BridgeActs

LEMMA AlwaysTyped == DeliverySpec => []Typed
<1>1. Typed /\ [DeliveryNext]_vars => Typed'
  <2> SUFFICES ASSUME Typed, [DeliveryNext]_vars
               PROVE  Typed'
    OBVIOUS
  <2>1. BoardTyped' /\ TaskTyped' /\ WireTyped' /\ WorkerTyped' /\ ScreenTyped' /\ MenuTyped'
    BY BoardTypeStep, TaskTypeStep, WireTypeStep, WorkerTypeStep, ScreenTypeStep, MenuTypeStep
  <2> QED
    BY <2>1, Zenon DEF Typed, DeliveryTypeOK, Session, BoardTyped, TaskTyped, WireTyped,
                       WorkerTyped, ScreenTyped, MenuTyped
<1> QED
  BY <1>1, TypedInit, PTL DEF DeliverySpec

\* Every variable of the delivery has its type.
THEOREM DeliveryTypes == DeliverySpec => []DeliveryTypeOK
<1>1. Typed => DeliveryTypeOK
  BY DEF Typed
<1> QED
  BY <1>1, AlwaysTyped, PTL

---------------------------------------------------------------------------
(***************************************************************************)
(* The pause item                                                          *)
(***************************************************************************)

(***************************************************************************)
(* While the handler of the tray rests, the last pause command on its way  *)
(* says what the menu says; without one the flag does.  The flag is all    *)
(* that the worker goes by once the commands are handled.                  *)
(***************************************************************************)
LastPauseIsMenu ==
  tray = "rest" =>
    \A i \in 1 .. Len(commands) :
      /\ commands[i].item = "pause"
      /\ \A j \in i + 1 .. Len(commands) : commands[j].item # "pause"
      => commands[i].paused = menu

PauseInv ==
  /\ LastPauseIsMenu
  /\ PauseSettled => flag = menu
  /\ PauseSettled /\ worker = "showing" => flag = FALSE
  /\ PauseSettled /\ worker \in {"idle", "status", "showing"} =>
       (icon = "paused" <=> flag = TRUE)

\* A handled command was the first of the queue.
LEMMA QueueShifts ==
  ASSUME MenuTyped, NEW command, Receive(command)
  PROVE  /\ Len(commands) \in Nat /\ Len(commands') \in Nat
         /\ 1 \in 1 .. Len(commands) /\ command = commands[1]
         /\ Len(commands') = Len(commands) - 1
         /\ \A i \in 1 .. Len(commands') : commands'[i] = commands[i + 1]
<1>1. commands \in Seq(BridgeCommand) /\ commands # <<>> /\ commands' = Tail(commands)
      /\ command = commands[1]
  BY CommandTaken DEF MenuTyped
<1>2. Len(commands) \in Nat \ {0} /\ Len(commands') = Len(commands) - 1
      /\ \A i \in 1 .. Len(commands) - 1 : commands'[i] = commands[i + 1]
  BY <1>1, Taken
<1> QED
  BY <1>1, <1>2

\* What is settled after a command was handled, if it was no pause, was before.
LEMMA SettledBefore ==
  ASSUME MenuTyped, NEW command, Receive(command), command.item # "pause",
         UNCHANGED <<tray, menu>>
  PROVE  /\ PauseSettled' => PauseSettled
         /\ LastPauseIsMenu => LastPauseIsMenu'
<1>1. \A i \in 1 .. Len(commands) : i = 1 \/ i - 1 \in 1 .. Len(commands')
  BY QueueShifts
<1>2. \A i \in 1 .. Len(commands) : i # 1 => commands[i] = commands'[i - 1]
  BY <1>1, QueueShifts
<1>3. PauseSettled' => PauseSettled
  BY <1>1, <1>2, QueueShifts DEF PauseSettled
<1>4. ASSUME LastPauseIsMenu, tray = "rest", NEW i \in 1 .. Len(commands'),
             commands'[i].item = "pause",
             \A j \in i + 1 .. Len(commands') : commands'[j].item # "pause"
      PROVE  commands'[i].paused = menu
  <2>1. i + 1 \in 1 .. Len(commands) /\ commands'[i] = commands[i + 1]
    BY QueueShifts
  <2>2. ASSUME NEW j \in i + 2 .. Len(commands)
        PROVE  commands[j].item # "pause"
    <3>1. j - 1 \in i + 1 .. Len(commands') /\ j # 1 /\ j \in 1 .. Len(commands)
      BY QueueShifts
    <3> QED
      BY <1>2, <1>4, <3>1
  <2>3. \A j \in (i + 1) + 1 .. Len(commands) : commands[j].item # "pause"
    BY <2>2, QueueShifts
  <2> QED
    BY <1>4, <2>1, <2>3 DEF LastPauseIsMenu
<1> QED
  BY <1>3, <1>4 DEF LastPauseIsMenu

\* The pause invariant holds at first, and is kept.
LEMMA PauseInit == DeliveryInit => PauseInv
<1> SUFFICES ASSUME DeliveryInit
             PROVE  PauseInv
  OBVIOUS
<1>1. /\ commands = <<>> /\ tray = "rest" /\ worker = "offline"
      /\ flag = FALSE /\ menu = FALSE
  BY DEF DeliveryInit
<1>2. \A i \in 1 .. Len(commands) : FALSE
  BY <1>1
<1> QED
  BY <1>1, <1>2 DEF PauseInv, LastPauseIsMenu

LEMMA PauseStep ==
  ASSUME Typed, PauseInv, [DeliveryNext]_vars
  PROVE  PauseInv'
<1>1. MenuTyped /\ ScreenTyped /\ WorkerTyped
  BY TypedParts
<1>2. \A e \in Event \cup {TestEvent} : StateOf[e] \in AgentState
  BY DeliveryAssumption
<1>3. \A state \in AgentState \cup {None}, paused \in BOOLEAN :
        EffectiveIcon(state, paused) = "paused" <=> paused = TRUE
  BY DEF EffectiveIcon, AgentState
<1>4. ASSUME UNCHANGED <<tray, commands, menu>>
      PROVE  (PauseSettled' <=> PauseSettled) /\ (LastPauseIsMenu' <=> LastPauseIsMenu)
  BY <1>4 DEF PauseSettled, LastPauseIsMenu
<1>5. CASE UNCHANGED bridgeVars \/ Hello \/ Heartbeat \/ SendStatus \/ ConnectFails
  <2>1. /\ UNCHANGED <<tray, commands, menu, flag>>
        /\ icon' = icon \/ worker' = "offline"
        /\ \/ worker' = worker
           \/ worker' = "ask"
           \/ worker = "idle" /\ worker' = "status"
           \/ worker = "status" /\ worker' = "idle"
    BY <1>5 DEF bridgeVars, trayVars, screenVars, Hello, Heartbeat, SendStatus, ConnectFails
  <2> QED
    BY <1>4, <2>1 DEF PauseInv
<1>6. CASE Connect \/ Disconnect
  <2>1. /\ UNCHANGED <<tray, commands, menu, flag>>
        /\ worker' \in {"hello", "offline"}
    BY <1>6 DEF trayVars, Connect, Disconnect, Leave
  <2> QED
    BY <1>4, <2>1 DEF PauseInv
<1>7. CASE Ask \/ ReceiveClear
  <2>1. /\ UNCHANGED <<tray, commands, menu, flag>>
        /\ worker' = "idle" /\ icon' = EffectiveIcon(None, flag)
    BY <1>7 DEF trayVars, Ask, ReceiveClear, ClearDisplay, NextMessage
  <2>2. icon' = "paused" <=> flag = TRUE
    BY <1>1, <1>3, <2>1 DEF MenuTyped
  <2> QED
    BY <1>4, <2>1, <2>2 DEF PauseInv
<1>8. CASE ReceiveEvent
  <2>1. /\ UNCHANGED <<tray, commands, menu, flag, icon>>
        /\ worker = "idle"
        /\ worker' = "idle" \/ (worker' = "showing" /\ ~ flag)
    BY <1>8 DEF trayVars, ReceiveEvent, NextMessage
  <2>2. worker' = "showing" => flag = FALSE
    BY <1>1, <2>1, Zenon DEF MenuTyped
  <2> QED
    BY <1>4, <2>1, <2>2 DEF PauseInv
<1>9. CASE FinishShowing
  <2>1. /\ UNCHANGED <<tray, commands, menu, flag>>
        /\ worker = "showing" /\ worker' = "idle"
        /\ icon' = icon \/ icon' = EffectiveIcon(StateOf[showing], FALSE)
    BY <1>9 DEF trayVars, FinishShowing
  <2>2. StateOf[showing] \in AgentState
    BY <1>1, <1>2, <2>1 DEF ScreenTyped
  <2>3. EffectiveIcon(StateOf[showing], FALSE) # "paused"
    BY <1>3, <2>2
  <2> QED
    BY <1>4, <2>1, <2>3 DEF PauseInv
<1>10. CASE HandleSetPaused
  <2>1. PICK paused \in BOOLEAN : Receive(SetPaused(paused)) /\ flag' = paused
                                  /\ icon' = EffectiveIcon(current, paused)
    BY <1>10 DEF HandleSetPaused
  <2>2. worker' = "status" /\ UNCHANGED <<tray, menu>>
    BY <1>10 DEF HandleSetPaused, trayVars
  <2>3. icon' = "paused" <=> flag' = TRUE
    BY <1>1, <1>3, <2>1 DEF ScreenTyped
  <2>4. /\ 1 \in 1 .. Len(commands) /\ commands[1].item = "pause"
        /\ commands[1].paused = paused
    BY <1>1, <2>1, QueueShifts DEF SetPaused
  <2>5. \A j \in 2 .. Len(commands) : j - 1 \in 1 .. Len(commands') /\ commands[j] = commands'[j - 1]
    BY <1>1, <2>1, QueueShifts
  <2>6. PauseSettled' => flag' = menu'
    <3> SUFFICES ASSUME PauseSettled'
                 PROVE  paused = menu
      BY <2>1, <2>2
    <3>1. \A j \in 1 + 1 .. Len(commands) : commands[j].item # "pause"
      BY <2>5 DEF PauseSettled
    <3>2. tray = "rest"
      BY <2>2 DEF PauseSettled
    <3> QED
      BY <2>4, <3>1, <3>2 DEF PauseInv, LastPauseIsMenu
  <2>7. ASSUME tray = "rest", NEW i \in 1 .. Len(commands'),
               commands'[i].item = "pause",
               \A j \in i + 1 .. Len(commands') : commands'[j].item # "pause"
        PROVE  commands'[i].paused = menu
    <3>1. i + 1 \in 1 .. Len(commands) /\ commands'[i] = commands[i + 1] /\ i \in Nat
      BY <1>1, <2>1, QueueShifts
    <3>2. ASSUME NEW j \in (i + 1) + 1 .. Len(commands)
          PROVE  commands[j].item # "pause"
      <4>1. j - 1 \in i + 1 .. Len(commands') /\ j \in 2 .. Len(commands)
        BY <1>1, <2>1, <3>1, QueueShifts
      <4> QED
        BY <2>5, <2>7, <4>1
    <3> QED
      BY <2>7, <3>1, <3>2 DEF PauseInv, LastPauseIsMenu
  <2>8. LastPauseIsMenu'
    BY <2>2, <2>7 DEF LastPauseIsMenu
  <2> QED
    BY <2>2, <2>3, <2>6, <2>8 DEF PauseInv
<1>11. CASE HandleTest \/ HandleDismiss \/ LoseDismiss \/ HandleReconnect
  <2>1. /\ UNCHANGED <<tray, menu, flag>>
        /\ worker = "idle"
        /\ \/ worker' = "offline"
           \/ worker' = "status" /\ icon' = EffectiveIcon(StateOf[TestEvent], flag)
           \/ worker' = "status" /\ icon' = EffectiveIcon(None, flag)
    BY <1>11 DEF HandleTest, HandleDismiss, LoseDismiss, HandleReconnect, trayVars,
                 Receive, Leave, ClearDisplay
  <2>2. PICK item \in {"test", "dismiss", "reconnect"} : Receive(Choose(item))
    BY <1>11 DEF HandleTest, HandleDismiss, LoseDismiss, HandleReconnect
  <2>3. Choose(item).item # "pause"
    BY DEF Choose
  <2>4. (PauseSettled' => PauseSettled) /\ LastPauseIsMenu'
    BY <1>1, <2>1, <2>2, <2>3, SettledBefore DEF PauseInv
  <2>5. worker' = "status" => (icon' = "paused" <=> flag = TRUE)
    BY <1>1, <1>2, <1>3, <2>1 DEF MenuTyped
  <2> QED
    BY <2>1, <2>4, <2>5 DEF PauseInv
<1>12. CASE ClickPause
  BY <1>12 DEF ClickPause, PauseInv, LastPauseIsMenu, PauseSettled
<1>13. CASE ClickItem
  <2>1. PICK item \in {"test", "dismiss", "reconnect"} : commands' = Append(commands, Choose(item))
    BY <1>13 DEF ClickItem
  <2>2. /\ UNCHANGED <<tray, menu, flag, worker, icon>> /\ tray = "rest"
    BY <1>13 DEF ClickItem, Click, screenVars
  <2>3. Choose(item).item # "pause" /\ Choose(item) \in BridgeCommand
    BY DEF Choose, BridgeCommand
  <2>4. /\ Len(commands) \in Nat /\ Len(commands') = Len(commands) + 1
        /\ \A i \in 1 .. Len(commands) : commands'[i] = commands[i]
        /\ commands'[Len(commands) + 1] = Choose(item)
    BY <1>1, <2>1, <2>3, Appended DEF MenuTyped
  <2>5. PauseSettled' => PauseSettled
    BY <2>2, <2>4 DEF PauseSettled
  <2>6. LastPauseIsMenu'
    <3>1. ASSUME NEW i \in 1 .. Len(commands'), commands'[i].item = "pause",
                 \A j \in i + 1 .. Len(commands') : commands'[j].item # "pause"
          PROVE  commands'[i].paused = menu
      <4>1. i \in 1 .. Len(commands) /\ commands'[i] = commands[i]
        BY <2>3, <2>4, <3>1
      <4>2. ASSUME NEW j \in i + 1 .. Len(commands)
            PROVE  commands[j].item # "pause"
        <5>1. j \in i + 1 .. Len(commands') /\ j \in 1 .. Len(commands)
          BY <2>4, <4>1
        <5> QED
          BY <2>4, <3>1, <5>1
      <4> QED
        BY <2>2, <3>1, <4>1, <4>2 DEF PauseInv, LastPauseIsMenu
    <3> QED
      BY <2>2, <3>1 DEF LastPauseIsMenu
  <2> QED
    BY <2>2, <2>5, <2>6 DEF PauseInv
<1>14. CASE SendPaused
  <2>1. commands' = Append(commands, SetPaused(menu)) /\ UNCHANGED menu
    BY <1>14 DEF SendPaused
  <2>2. /\ SetPaused(menu).item = "pause" /\ SetPaused(menu).paused = menu
        /\ SetPaused(menu) \in BridgeCommand
    BY <1>1 DEF SetPaused, BridgeCommand, MenuTyped
  <2>3. /\ Len(commands) \in Nat /\ Len(commands') = Len(commands) + 1
        /\ commands'[Len(commands) + 1] = SetPaused(menu)
    BY <1>1, <2>1, <2>2, Appended DEF MenuTyped
  <2>4. ~ PauseSettled'
    BY <2>2, <2>3 DEF PauseSettled
  <2>5. ASSUME NEW i \in 1 .. Len(commands'),
               \A j \in i + 1 .. Len(commands') : commands'[j].item # "pause"
        PROVE  commands'[i].paused = menu
    <3>1. i = Len(commands) + 1
      BY <2>2, <2>3, <2>5
    <3> QED
      BY <2>2, <2>3, <3>1
  <2>6. LastPauseIsMenu'
    BY <2>1, <2>5 DEF LastPauseIsMenu
  <2> QED
    BY <2>4, <2>6 DEF PauseInv
<1> QED
  BY <1>5, <1>6, <1>7, <1>8, <1>9, <1>10, <1>11, <1>12, <1>13, <1>14, BridgeActs

LEMMA AlwaysPause == DeliverySpec => []PauseInv
<1>1. Typed /\ PauseInv /\ [DeliveryNext]_vars => PauseInv'
  BY PauseStep
<1> QED
  BY <1>1, PauseInit, AlwaysTyped, PTL DEF DeliverySpec

(***************************************************************************)
(* A checked pause item is obeyed once its command was handled: no write   *)
(* that the bridge began before is still under way.                        *)
(***************************************************************************)
THEOREM PauseObeyed == DeliverySpec => []PauseIsObeyed
<1>1. PauseInv => PauseIsObeyed
  <2> SUFFICES ASSUME PauseInv, menu, PauseSettled, worker = "showing"
               PROVE  FALSE
    BY DEF PauseIsObeyed
  <2>1. flag = menu /\ flag = FALSE
    BY DEF PauseInv
  <2> QED
    BY <2>1
<1> QED
  BY <1>1, AlwaysPause, PTL

\* The paused icon is shown exactly while the item is checked, once it is settled.
THEOREM PausedIcon == DeliverySpec => []IconFollowsPause
<1>1. Typed /\ PauseInv => IconFollowsPause
  <2> SUFFICES ASSUME Typed, PauseInv, PauseSettled, worker \in {"idle", "status"}
               PROVE  icon = "paused" <=> menu
    BY DEF IconFollowsPause
  <2>1. flag = menu /\ (icon = "paused" <=> flag = TRUE)
    BY DEF PauseInv
  <2>2. menu \in BOOLEAN
    BY TypedParts DEF MenuTyped
  <2>3. icon = "paused" <=> menu = TRUE
    BY <2>1
  <2> QED
    BY <2>2, <2>3, Zenon
<1> QED
  BY <1>1, AlwaysTyped, AlwaysPause, PTL

---------------------------------------------------------------------------
(***************************************************************************)
(* The icon                                                                *)
(***************************************************************************)

(***************************************************************************)
(* What the bridge remembers of the keyboard, in its state and its icon.   *)
(* The state outlives an icon that a lost connection or a pause has reset. *)
(***************************************************************************)
Shows(state) == keyboard # None /\ StateOf[keyboard] = state

IconInv ==
  /\ icon \in AgentState => Shows(icon)
  /\ current # None => Shows(current)

LEMMA IconStep ==
  ASSUME "unacked" \notin DisplayOutcomes, Typed, IconInv, [DeliveryNext]_vars
  PROVE  IconInv'
<1>1. ScreenTyped
  BY TypedParts
<1>2. /\ DisplayOutcomes \subseteq {"ok", "failed"}
      /\ \A e \in Event \cup {TestEvent} : e # None
  BY DeliveryAssumption, BoardAssumption
<1>3. /\ "idle" \notin AgentState /\ "paused" \notin AgentState
      /\ \A state, paused : EffectiveIcon(state, paused) \in AgentState =>
           state # None /\ EffectiveIcon(state, paused) = state
  BY DEF EffectiveIcon, AgentState
<1>4. ASSUME keyboard' = keyboard, current' = current,
             icon' \in {icon, "idle", EffectiveIcon(current, flag')}
      PROVE  IconInv'
  BY <1>3, <1>4 DEF IconInv, Shows
<1>5. ASSUME current' = None, icon' = EffectiveIcon(None, flag)
      PROVE  IconInv'
  BY <1>3, <1>5 DEF IconInv
<1>6. ASSUME NEW e \in Event \cup {TestEvent}, NEW paused,
             keyboard' = e, current' = StateOf[e], icon' = EffectiveIcon(StateOf[e], paused)
      PROVE  IconInv'
  BY <1>2, <1>3, <1>6 DEF IconInv, Shows
<1>7. CASE UNCHANGED bridgeVars \/ ClickPause \/ ClickItem \/ SendPaused
  BY <1>4, <1>7 DEF bridgeVars, screenVars, ClickPause, ClickItem, SendPaused
<1>8. CASE Connect \/ Hello \/ Heartbeat \/ SendStatus \/ HandleReconnect \/ ReceiveEvent
  BY <1>4, <1>8 DEF screenVars, Connect, Hello, Heartbeat, SendStatus, HandleReconnect,
                    ReceiveEvent
<1>9. CASE ConnectFails \/ Disconnect \/ LoseDismiss
  BY <1>4, <1>9 DEF ConnectFails, Disconnect, LoseDismiss
<1>10. CASE HandleSetPaused
  BY <1>4, <1>10 DEF HandleSetPaused
<1>11. CASE Ask \/ HandleDismiss \/ ReceiveClear
  BY <1>5, <1>11 DEF Ask, HandleDismiss, ReceiveClear, ClearDisplay
<1>12. CASE HandleTest
  <2>1. PICK outcome \in DisplayOutcomes :
          /\ Write(TestEvent, outcome)
          /\ IF outcome = "ok"
             THEN current' = StateOf[TestEvent] /\ icon' = EffectiveIcon(current', flag)
             ELSE icon' = "idle" /\ current' = current
    BY <1>12 DEF HandleTest
  <2>2. CASE outcome = "ok"
    BY <1>6, <2>1, <2>2 DEF Write
  <2>3. CASE outcome = "failed"
    BY <1>4, <2>1, <2>3 DEF Write
  <2> QED
    BY <1>2, <2>2, <2>3
<1>13. CASE FinishShowing
  <2>1. showing \in Event
    BY <1>1, <1>13 DEF ScreenTyped, FinishShowing
  <2>2. PICK outcome \in DisplayOutcomes :
          /\ Write(showing, outcome)
          /\ IF outcome = "ok"
             THEN current' = StateOf[showing] /\ icon' = EffectiveIcon(current', FALSE)
             ELSE current' = current /\ icon' = icon
    BY <1>13 DEF FinishShowing
  <2>3. CASE outcome = "ok"
    BY <1>6, <2>1, <2>2, <2>3 DEF Write
  <2>4. CASE outcome = "failed"
    BY <1>4, <2>2, <2>4 DEF Write
  <2> QED
    BY <1>2, <2>3, <2>4
<1> QED
  BY <1>7, <1>8, <1>9, <1>10, <1>11, <1>12, <1>13, BridgeActs

\* The icon that names a state names the state of what the keyboard shows.
THEOREM IconIsTrue ==
  ASSUME "unacked" \notin DisplayOutcomes
  PROVE  DeliverySpec => []IconNamesKeyboard
<1>1. DeliveryInit => IconInv
  BY DEF DeliveryInit, IconInv, AgentState
<1>2. Typed /\ IconInv /\ [DeliveryNext]_vars => IconInv'
  BY IconStep
<1>3. IconInv => IconNamesKeyboard
  BY DEF IconInv, Shows, IconNamesKeyboard
<1> QED
  BY <1>1, <1>2, <1>3, AlwaysTyped, PTL DEF DeliverySpec

---------------------------------------------------------------------------
(***************************************************************************)
(* The copies of the pause flag                                            *)
(***************************************************************************)

(***************************************************************************)
(* The socket task of connection c knows, or is about to read, that the    *)
(* bridge is paused, or that it is not, and reads nothing else after that. *)
(***************************************************************************)
NoStatus(messages, from) == \A j \in from .. Len(messages) : messages[j].type # "status"

Knows(c, paused) == mirror[c] = paused /\ NoStatus(up[c], 1)

Reads(c, paused) ==
  \E i \in 1 .. Len(up[c]) : up[c][i] = Status(paused) /\ NoStatus(up[c], i + 1)

Told(c, paused) == Knows(c, paused) \/ Reads(c, paused)

MirrorInv ==
  /\ PauseSettled
  /\ worker \in {"ask", "idle", "showing"}
  /\ task[conn] # "ended"
  => Told(conn, flag)

\* A status that has just been sent is the last one.
LEMMA TellsNow ==
  ASSUME WireTyped, NEW c \in Conns, NEW paused \in BOOLEAN,
         up' = [up EXCEPT ![c] = Append(@, Status(paused))]
  PROVE  Told(c, paused)'
<1>1. up[c] \in Seq(BridgeClientMessage) /\ Status(paused) \in BridgeClientMessage
  BY Messages DEF WireTyped
<1>2. up'[c] = Append(up[c], Status(paused))
  BY DEF WireTyped
<1>3. Len(up[c]) \in Nat /\ Len(up'[c]) = Len(up[c]) + 1 /\ up'[c][Len(up[c]) + 1] = Status(paused)
  BY <1>1, <1>2, Appended
<1>4. Len(up[c]) + 1 \in 1 .. Len(up'[c]) /\ NoStatus(up'[c], (Len(up[c]) + 1) + 1)
  BY <1>3 DEF NoStatus
<1>5. Reads(c, paused)'
  BY <1>3, <1>4 DEF Reads
<1> QED
  BY <1>5 DEF Told

\* Another message changes nothing of what the task is told.
LEMMA StillTold ==
  ASSUME WireTyped, NEW c \in Conns, NEW paused, Told(c, paused),
         NEW message \in BridgeClientMessage, message.type # "status",
         up' = [up EXCEPT ![c] = Append(@, message)], mirror' = mirror
  PROVE  Told(c, paused)'
<1>1. up[c] \in Seq(BridgeClientMessage) /\ up'[c] = Append(up[c], message)
  BY DEF WireTyped
<1>2. /\ Len(up[c]) \in Nat /\ Len(up'[c]) = Len(up[c]) + 1
      /\ \A i \in 1 .. Len(up[c]) : up'[c][i] = up[c][i]
      /\ up'[c][Len(up[c]) + 1] = message
  BY <1>1, Appended
<1>3. ASSUME NEW from \in Nat \ {0}, NoStatus(up[c], from)
      PROVE  NoStatus(up'[c], from)
  <2> SUFFICES ASSUME NEW j \in from .. Len(up'[c])
               PROVE  up'[c][j].type # "status"
    BY DEF NoStatus
  <2>1. CASE j = Len(up[c]) + 1
    BY <1>2, <2>1
  <2>2. CASE j # Len(up[c]) + 1
    <3>1. j \in from .. Len(up[c]) /\ j \in 1 .. Len(up[c])
      BY <1>2, <1>3, <2>2
    <3> QED
      BY <1>2, <1>3, <3>1 DEF NoStatus
  <2> QED
    BY <2>1, <2>2
<1>4. CASE Knows(c, paused)
  BY <1>3, <1>4 DEF Knows, Told
<1>5. CASE Reads(c, paused)
  <2>1. PICK i \in 1 .. Len(up[c]) : up[c][i] = Status(paused) /\ NoStatus(up[c], i + 1)
    BY <1>5 DEF Reads
  <2>2. i \in 1 .. Len(up'[c]) /\ i + 1 \in Nat \ {0} /\ up'[c][i] = Status(paused)
    BY <1>2, <2>1
  <2>3. NoStatus(up'[c], i + 1)
    BY <1>3, <2>1, <2>2
  <2>4. Reads(c, paused)'
    BY <2>2, <2>3 DEF Reads
  <2> QED
    BY <2>4 DEF Told
<1> QED
  BY <1>4, <1>5 DEF Told

\* Reading a message brings the task nearer to what it is told.
LEMMA TellsTheRest ==
  ASSUME WireTyped, TaskTyped, NEW c \in Conns, NEW paused, Told(c, paused),
         NEW message, Read(c, message),
         message.type = "status" => mirror' = [mirror EXCEPT ![c] = message.paused],
         message.type # "status" => mirror' = mirror
  PROVE  Told(c, paused)'
<1>1. /\ up[c] \in Seq(BridgeClientMessage) /\ up[c] # <<>> /\ message = up[c][1]
      /\ up'[c] = Tail(up[c])
  BY ReadTakes DEF WireTyped
<1>2. /\ Len(up[c]) \in Nat \ {0} /\ Len(up'[c]) = Len(up[c]) - 1
      /\ \A i \in 1 .. Len(up[c]) - 1 : up'[c][i] = up[c][i + 1]
  BY <1>1, Taken
<1>3. ASSUME NEW from \in Nat \ {0}, NoStatus(up[c], from + 1)
      PROVE  NoStatus(up'[c], from)
  BY <1>2, <1>3 DEF NoStatus
<1>4. CASE Knows(c, paused)
  <2>1. message.type # "status" /\ NoStatus(up[c], 1 + 1)
    BY <1>1, <1>2, <1>4 DEF Knows, NoStatus
  <2>2. NoStatus(up'[c], 1)
    BY <1>3, <2>1
  <2> QED
    BY <1>4, <2>1, <2>2 DEF Knows, Told
<1>5. CASE Reads(c, paused)
  <2>1. PICK i \in 1 .. Len(up[c]) : up[c][i] = Status(paused) /\ NoStatus(up[c], i + 1)
    BY <1>5 DEF Reads
  <2>2. CASE i = 1
    <3>1. message = Status(paused) /\ NoStatus(up'[c], 1)
      BY <1>1, <1>3, <2>1, <2>2
    <3>2. mirror'[c] = paused
      BY <3>1 DEF Status, TaskTyped
    <3> QED
      BY <3>1, <3>2 DEF Knows, Told
  <2>3. CASE i # 1
    <3>1. i - 1 \in 1 .. Len(up'[c]) /\ i \in Nat \ {0} /\ up'[c][i - 1] = Status(paused)
      BY <1>2, <2>1, <2>3
    <3>2. NoStatus(up'[c], i)
      BY <1>3, <2>1, <3>1
    <3>3. (i - 1) + 1 = i
      BY <3>1
    <3>4. Reads(c, paused)'
      BY <3>1, <3>2, <3>3 DEF Reads
    <3> QED
      BY <3>4 DEF Told
  <2> QED
    BY <2>2, <2>3
<1> QED
  BY <1>4, <1>5 DEF Told

\* What the running session is told stays so while the bridge does nothing.
LEMMA MirrorKept ==
  ASSUME Typed, MirrorInv, UNCHANGED <<conn, flag, worker, commands, tray>>,
         conn \in Conns /\ task'[conn] # "ended" =>
           task[conn] # "ended" /\ (Told(conn, flag) => Told(conn, flag)')
  PROVE  MirrorInv'
<1>1. PauseSettled' <=> PauseSettled
  BY DEF PauseSettled
<1>2. worker \in {"ask", "idle", "showing"} => conn \in Conns
  BY TypedParts DEF WorkerTyped
<1>3. CASE /\ PauseSettled /\ worker \in {"ask", "idle", "showing"}
           /\ task'[conn] # "ended"
  <2>1. Told(conn, flag)'
    BY <1>2, <1>3 DEF MirrorInv
  <2> QED
    BY <2>1 DEF MirrorInv
<1>4. CASE ~ (/\ PauseSettled /\ worker \in {"ask", "idle", "showing"}
              /\ task'[conn] # "ended")
  BY <1>1, <1>4 DEF MirrorInv
<1> QED
  BY <1>3, <1>4

LEMMA MirrorStep ==
  ASSUME Typed, MirrorInv, [DeliveryNext]_vars
  PROVE  MirrorInv'
<1>1. TaskTyped /\ WireTyped /\ WorkerTyped /\ MenuTyped /\ flag \in BOOLEAN
  BY TypedParts DEF MenuTyped
<1>2. ASSUME worker' \notin {"ask", "idle", "showing"}
      PROVE  MirrorInv'
  BY <1>2 DEF MirrorInv
<1>3. ASSUME UNCHANGED <<taskVars, up, conn, flag, commands, tray>>,
             worker' \in {"ask", "idle", "showing"} => worker \in {"ask", "idle", "showing"}
      PROVE  MirrorInv'
  BY <1>3 DEF MirrorInv, taskVars, Told, Knows, Reads, NoStatus, PauseSettled
<1>4. CASE \/ \E p \in Posters : (\E e \in Event : PostEvent(p, e)) \/ DeleteLatest(p)
           \/ GetExpired \/ (\E c \in Client : Broadcast(c)) \/ UNCHANGED vars
  BY <1>3, <1>4 DEF PostEvent, DeleteLatest, GetExpired, Broadcast, vars, wireVars,
                    bridgeVars, trayVars
<1>5. CASE ReceiveEvent \/ FinishShowing \/ ReceiveClear
  BY <1>3, <1>5 DEF ReceiveEvent, FinishShowing, ReceiveClear, NextMessage, wireVars, trayVars
<1>6. CASE \/ Connect \/ Disconnect \/ Heartbeat \/ HandleSetPaused \/ HandleTest
           \/ HandleDismiss \/ LoseDismiss \/ HandleReconnect
  BY <1>2, <1>6 DEF Connect, Disconnect, Heartbeat, HandleSetPaused, HandleTest,
                    HandleDismiss, LoseDismiss, HandleReconnect, Leave
<1>7. CASE ConnectFails
  BY <1>2, <1>7 DEF ConnectFails
<1>8. CASE ClickPause
  BY <1>8 DEF ClickPause, MirrorInv, PauseSettled
<1>9. CASE ClickItem \/ SendPaused
  <2>1. /\ UNCHANGED <<taskVars, up, conn, flag, worker>> /\ tray' = "rest"
        /\ \E command \in BridgeCommand :
             commands' = Append(commands, command) /\ (tray = "rest" \/ command.item = "pause")
    BY <1>1, <1>9 DEF ClickItem, SendPaused, Click, BridgeCommand, MenuTyped, wireVars,
                      SetPaused
  <2>2. PICK command \in BridgeCommand :
          commands' = Append(commands, command) /\ (tray = "rest" \/ command.item = "pause")
    BY <2>1
  <2>3. /\ Len(commands) \in Nat /\ Len(commands') = Len(commands) + 1
        /\ \A i \in 1 .. Len(commands) : commands'[i] = commands[i]
        /\ commands'[Len(commands) + 1] = command
    BY <1>1, <2>2, Appended DEF MenuTyped
  <2>4. PauseSettled' => PauseSettled
    BY <2>2, <2>3 DEF PauseSettled
  <2>5. Told(conn, flag)' <=> Told(conn, flag)
    BY <2>1 DEF taskVars, Told, Knows, Reads, NoStatus
  <2> QED
    BY <2>1, <2>4, <2>5 DEF MirrorInv, taskVars
<1>10. CASE Hello \/ SendStatus
  <2>1. /\ UNCHANGED <<taskVars, conn, flag>> /\ SendUp(Status(flag)) /\ conn \in Conns
    BY <1>1, <1>10 DEF Hello, SendStatus, WorkerTyped
  <2>2. CASE task[conn] = "ended"
    BY <2>1, <2>2 DEF MirrorInv, taskVars
  <2>3. CASE task[conn] # "ended"
    <3>1. Told(conn, flag)'
      BY <1>1, <2>1, <2>3, TellsNow DEF SendUp, Told, Knows, Reads
    <3> QED
      BY <3>1 DEF MirrorInv
  <2> QED
    BY <2>2, <2>3
<1>11. CASE Ask
  <2>1. /\ UNCHANGED <<taskVars, conn, flag, commands, tray>> /\ SendUp(RequestLatest)
        /\ worker = "ask" /\ conn \in Conns
    BY <1>1, <1>11 DEF Ask, WorkerTyped, trayVars
  <2>2. CASE task[conn] = "ended" \/ ~ PauseSettled
    BY <2>1, <2>2 DEF MirrorInv, PauseSettled, taskVars
  <2>3. CASE task[conn] # "ended" /\ PauseSettled
    <3>1. Told(conn, flag)
      BY <2>1, <2>3 DEF MirrorInv
    <3>2. RequestLatest \in BridgeClientMessage /\ RequestLatest.type # "status"
      BY Messages DEF RequestLatest
    <3>3. up' = [up EXCEPT ![conn] = Append(@, RequestLatest)] /\ mirror' = mirror
      BY <2>1, <2>3 DEF SendUp, taskVars
    <3>4. Told(conn, flag)'
      BY <1>1, <2>1, <3>1, <3>2, <3>3, StillTold, Zenon
    <3> QED
      BY <3>4 DEF MirrorInv
  <2> QED
    BY <2>2, <2>3
<1>12. ASSUME NEW c \in Conns, Subscribe(c) \/ Snapshot(c) \/ Lag(c) \/ Forward(c)
       PROVE  MirrorInv'
  <2>1. /\ UNCHANGED <<mirror, up, conn, flag, worker, commands, tray>>
        /\ \/ task' = task
           \/ task[c] # "ended" /\ task' = [task EXCEPT ![c] = "subscribed"]
           \/ task[c] # "ended" /\ task' = [task EXCEPT ![c] = "loop"]
    BY <1>12 DEF Subscribe, Snapshot, Lag, Forward, bridgeVars, wireVars, trayVars
  <2>2. conn \in Conns /\ task'[conn] # "ended" => task[conn] # "ended"
    BY <1>1, <2>1 DEF TaskTyped
  <2>3. Told(conn, flag)' <=> Told(conn, flag)
    BY <2>1 DEF Told, Knows, Reads, NoStatus
  <2> QED
    BY <2>1, <2>2, <2>3, MirrorKept
<1>13. ASSUME NEW c \in Conns, EndTask(c)
       PROVE  MirrorInv'
  <2>1. /\ UNCHANGED <<conn, flag, worker, commands, tray>>
        /\ task' = [task EXCEPT ![c] = "ended"]
        /\ mirror' = [mirror EXCEPT ![c] = FALSE] /\ up' = [up EXCEPT ![c] = <<>>]
    BY <1>13 DEF EndTask, bridgeVars, trayVars
  <2>2. CASE conn = c
    BY <1>1, <2>1, <2>2 DEF MirrorInv, TaskTyped
  <2>3. CASE conn # c
    <3>1. conn \in Conns => task'[conn] = task[conn] /\ mirror'[conn] = mirror[conn]
                             /\ up'[conn] = up[conn]
      BY <1>1, <2>1, <2>3 DEF TaskTyped, WireTyped
    <3>2. conn \in Conns => (Told(conn, flag)' <=> Told(conn, flag))
      BY <2>1, <3>1 DEF Told, Knows, Reads, NoStatus
    <3> QED
      BY <2>1, <3>1, <3>2, MirrorKept
  <2> QED
    BY <2>2, <2>3
<1>14. ASSUME NEW c \in Conns, ReadStatus(c) \/ ReadRequestLatest(c) \/ ReadDismissLatest(c)
       PROVE  MirrorInv'
  <2>1. UNCHANGED <<task, conn, flag, worker, commands, tray>>
    BY <1>14 DEF ReadStatus, ReadRequestLatest, ReadDismissLatest, bridgeVars, trayVars,
                 taskVars
  <2>2. PICK message : /\ Read(c, message)
                       /\ message.type = "status" =>
                            mirror' = [mirror EXCEPT ![c] = message.paused]
                       /\ message.type # "status" => mirror' = mirror
    <3>1. CASE ReadStatus(c)
      <4>1. PICK paused : Read(c, Status(paused)) /\ mirror' = [mirror EXCEPT ![c] = paused]
        BY <3>1 DEF ReadStatus
      <4>2. Status(paused).type = "status" /\ Status(paused).paused = paused
        BY DEF Status
      <4> QED
        BY <4>1, <4>2
    <3>2. CASE ReadRequestLatest(c)
      BY <3>2 DEF ReadRequestLatest, RequestLatest, taskVars
    <3>3. CASE ReadDismissLatest(c)
      BY <3>3 DEF ReadDismissLatest, DismissLatest, taskVars
    <3> QED
      BY <1>14, <3>1, <3>2, <3>3
  <2>3. CASE conn = c
    <3>1. Told(conn, flag) => Told(conn, flag)'
      BY <1>1, <2>1, <2>2, <2>3, TellsTheRest, Zenon
    <3> QED
      BY <2>1, <3>1, MirrorKept
  <2>4. CASE conn # c
    <3>1. up' = [up EXCEPT ![c] = Tail(@)]
      BY <1>1, <2>2, ReadTakes
    <3>2. conn \in Conns => mirror'[conn] = mirror[conn] /\ up'[conn] = up[conn]
      BY <1>1, <2>2, <2>4, <3>1 DEF TaskTyped, WireTyped
    <3>3. conn \in Conns => (Told(conn, flag)' <=> Told(conn, flag))
      BY <2>1, <3>2 DEF Told, Knows, Reads, NoStatus
    <3> QED
      BY <2>1, <3>3, MirrorKept
  <2> QED
    BY <2>3, <2>4
<1> QED
  BY <1>2, <1>4, <1>5, <1>6, <1>7, <1>8, <1>9, <1>10, <1>11, <1>12, <1>13, <1>14
     DEF DeliveryNext, Environment, System, Task, Worker

\* Once nothing is under way, the flag and the server's copy say what the menu says.
THEOREM MirrorSettles == DeliverySpec => []MirrorFollowsMenu
<1>1. DeliveryInit => MirrorInv
  BY DEF DeliveryInit, MirrorInv
<1>2. Typed /\ MirrorInv /\ [DeliveryNext]_vars => MirrorInv'
  BY MirrorStep
<1>3. Typed /\ PauseInv /\ MirrorInv => MirrorFollowsMenu
  <2> SUFFICES ASSUME Typed, PauseInv, MirrorInv, Quiet
               PROVE  flag = menu /\ mirror[conn] = menu
    BY DEF MirrorFollowsMenu
  <2>1. Len(commands) = 0 /\ Len(up[conn]) = 0 /\ tray = "rest" /\ worker = "idle"
        /\ task[conn] = "loop"
    BY DEF Quiet
  <2>2. PauseSettled /\ \A i \in 1 .. Len(up[conn]) : FALSE
    BY <2>1 DEF PauseSettled
  <2>3. Told(conn, flag) /\ flag = menu
    BY <2>1, <2>2 DEF MirrorInv, PauseInv
  <2> QED
    BY <2>2, <2>3 DEF Told, Knows, Reads
<1> QED
  BY <1>1, <1>2, <1>3, AlwaysTyped, AlwaysPause, PTL DEF DeliverySpec

---------------------------------------------------------------------------
(***************************************************************************)
(* The keyboard                                                            *)
(***************************************************************************)

\* Nobody pauses, and the keyboard obeys.
Undisturbed ==
  /\ "failed" \notin DisplayOutcomes
  /\ MenuItems \subseteq {"dismiss", "reconnect"}

\* What tells a bridge what the slot holds.
SlotMessage == IF slot = None THEN ClearMessage ELSE EventMessage(slot)

\* The slot may have been emptied without a word.
Expired == Expiring /\ slot = None

\* When changes do not overlap, one announcement is owed at most, and the last one
\* tells what the slot holds, until that expires.
BoardInv ==
  /\ \A c, d \in Client : owed[c] # None /\ owed[d] # None => c = d
  /\ ~ Expired => \A c \in Client : owed[c] # None => owed[c] = SlotMessage
  /\ ~ Expired /\ NoneOwed =>
       IF announced = <<>> THEN slot = None
                           ELSE announced[Len(announced)] = SlotMessage

\* Nothing in the bridge or on the wires has anything to do with pausing.
Unpaused ==
  /\ flag = FALSE /\ menu = FALSE /\ tray = "rest"
  /\ \A i \in 1 .. Len(commands) : commands[i].item # "pause" /\ commands[i].item # "test"
  /\ \A c \in Conns : mirror[c] = FALSE
  /\ \A c \in Conns : \A i \in 1 .. Len(up[c]) : up[c][i].paused = FALSE

\* A session begins with nothing on its way to the bridge, and the first one
\* with an empty keyboard.
Fresh ==
  /\ \A c \in Conns : c # conn \/ worker = "offline" => down[c] = <<>>
  /\ worker # "offline" /\ task[conn] \in {"accepted", "subscribed"} =>
       down[conn] = <<>> /\ worker # "showing"
  /\ conn = 0 \/ (conn = 1 /\ task[1] \in {"accepted", "subscribed"}) => keyboard = None

\* The keyboard shows the latest event, or what was announced last, or the
\* dismissal of what the slot holds is under way.
Shown ==
  \/ keyboard \in {slot, LastWord}
  \/ slot = None /\ conn > 1
  \/ keyboard = None /\ Dismissing(conn)

\* A message tells what the slot holds, or is what was announced last.
Telling(message) ==
  message = SlotMessage \/ (announced # <<>> /\ message = announced[Len(announced)])

\* Changes that overlap, and an expiry on top: then nothing is certain until the
\* next announcement.
Confused == ~ Serial /\ Expired

(***************************************************************************)
(* Then the last message in flight to the bridge tells what the slot holds *)
(* or what was announced last; with none in flight the display that is     *)
(* under way shows it; and with none under way the keyboard does.          *)
(***************************************************************************)
LatestArrives ==
  CaughtUp /\ ~ Confused =>
    \/ down[conn] # <<>> /\ Telling(down[conn][Len(down[conn])])
    \/ down[conn] = <<>> /\ worker = "showing" /\ showing \in {slot, LastWord}
    \/ down[conn] = <<>> /\ worker # "showing" /\ Shown

KeyboardInv == (Serial => BoardInv) /\ Unpaused /\ Fresh /\ LatestArrives

\* live_latest sends what the slot holds, or finds that it has expired.
LEMMA LiveSends ==
  ASSUME Typed, NEW c \in Conns, SendLiveLatest(c)
  PROVE  \/ /\ slot' = slot
            /\ \/ down' = down /\ (slot = None \/ c # conn \/ worker = "offline")
               \/ /\ c = conn /\ worker # "offline" /\ slot \in Event
                  /\ down' = [down EXCEPT ![c] = Append(@, EventMessage(slot))]
         \/ Expiring /\ slot # None /\ slot' = None /\ down' = down
BY LiveLatest, TypedParts, BoardAssumption

\* The board's announcements keep telling what the slot holds.
LEMMA BoardStep ==
  ASSUME Serial, Typed, BoardInv, [DeliveryNext]_vars
  PROVE  BoardInv'
<1> USE BoardAssumption
<1>1. BoardTyped /\ Serial
  BY TypedParts
<1>2. Conns \subseteq Client /\ Posters \subseteq Client
  BY DeliveryAssumption
<1>3. ASSUME UNCHANGED <<slot, owed, announced>>
      PROVE  BoardInv'
  BY <1>3 DEF BoardInv, NoneOwed, SlotMessage, Expired
<1>11. ASSUME UNCHANGED <<owed, announced>>, Expired'
       PROVE  BoardInv'
  BY <1>11 DEF BoardInv, NoneOwed
<1>4. ASSUME NEW c \in Client, NoneOwed, owed' = [owed EXCEPT ![c] = SlotMessage'],
             slot' \in Event \cup {None}
      PROVE  BoardInv'
  <2>1. SlotMessage' # None
    BY <1>4, Messages DEF SlotMessage
  <2>2. \A d \in Client : owed'[d] # None <=> d = c
    BY <1>1, <1>4, <2>1 DEF BoardTyped, NoneOwed
  <2>3. owed'[c] = SlotMessage'
    BY <1>1, <1>4 DEF BoardTyped
  <2> QED
    BY <2>2, <2>3 DEF BoardInv, NoneOwed
<1>5. CASE Elsewhere \/ UNCHANGED vars
  BY <1>3, <1>5, ElsewhereBoard DEF boardVars
<1>6. ASSUME NEW p \in Posters, NEW e \in Event, PostEvent(p, e)
      PROVE  BoardInv'
  <2>1. NoneOwed /\ slot' \in Event /\ owed' = [owed EXCEPT ![p] = EventMessage(slot')]
    BY <1>1, <1>6 DEF PostEvent, MayChange, Offer, Owe, NoneOwed
  <2>2. SlotMessage' = EventMessage(slot')
    BY <2>1 DEF SlotMessage
  <2> QED
    BY <1>2, <1>4, <2>1, <2>2
<1>7. ASSUME NEW c \in Client, MayChange, Dismiss(c)
      PROVE  BoardInv'
  <2>1. NoneOwed /\ slot' = None /\ owed' = [owed EXCEPT ![c] = ClearMessage]
    BY <1>1, <1>7 DEF MayChange, Dismiss, Owe, NoneOwed
  <2>2. SlotMessage' = ClearMessage
    BY <2>1 DEF SlotMessage
  <2> QED
    BY <1>4, <2>1, <2>2
<1>8. ASSUME NEW c \in Client, Broadcast(c)
      PROVE  BoardInv'
  <2>1. /\ owed[c] # None /\ owed[c] \in Message /\ slot' = slot
        /\ announced' = Append(announced, owed[c]) /\ owed' = [owed EXCEPT ![c] = None]
    BY <1>1, <1>8 DEF Broadcast, Announce, BoardTyped
  <2>2. /\ ~ Expired' => owed[c] = SlotMessage
        /\ SlotMessage' = SlotMessage
    BY <2>1 DEF BoardInv, SlotMessage, Expired
  <2>3. \A d \in Client : owed'[d] = None
    BY <1>1, <2>1 DEF BoardTyped, BoardInv
  <2>4. announced' # <<>> /\ announced'[Len(announced')] = owed[c]
    BY <1>1, <2>1, Appended DEF BoardTyped
  <2> QED
    BY <2>2, <2>3, <2>4 DEF BoardInv
<1>9. ASSUME NEW c \in Conns, Snapshot(c) \/ ReadRequestLatest(c)
      PROVE  BoardInv'
  BY <1>3, <1>9, <1>11, LiveSends DEF Snapshot, ReadRequestLatest, Expired
<1>12. CASE GetExpired
  BY <1>11, <1>12 DEF GetExpired, Lapse, Expired
<1>10. ASSUME NEW c \in Conns, ReadDismissLatest(c)
       PROVE  BoardInv'
  BY <1>2, <1>3, <1>7, <1>10 DEF ReadDismissLatest, boardVars
<1> QED
  BY <1>1, <1>2, <1>5, <1>6, <1>7, <1>8, <1>9, <1>10, <1>12
     DEF DeliveryNext, Environment, System, Task, Elsewhere, DeleteLatest

\* The messages of a session say nothing of pauses.
Plain(messages) == \A i \in 1 .. Len(messages) : messages[i].paused = FALSE

LEMMA PlainStep ==
  ASSUME Undisturbed, Typed, Unpaused, [DeliveryNext]_vars
  PROVE  \A c \in Conns : Plain(up[c])'
<1>1. WireTyped /\ TaskTyped /\ WorkerTyped /\ flag = FALSE
  BY TypedParts DEF Unpaused
<1>2. \A c \in Conns : Plain(up[c]) /\ up[c] \in Seq(BridgeClientMessage)
  BY <1>1 DEF Unpaused, Plain, WireTyped
<1>3. ASSUME UNCHANGED up
      PROVE  \A c \in Conns : Plain(up[c])'
  BY <1>2, <1>3 DEF Plain
<1>4. ASSUME NEW c \in Conns, NEW message, Read(c, message)
      PROVE  \A d \in Conns : Plain(up[d])'
  <2>1. up' = [up EXCEPT ![c] = Tail(@)] /\ up[c] # <<>>
    BY <1>1, <1>4, ReadTakes
  <2>2. Plain(Tail(up[c]))
    BY <1>2, <2>1, Taken DEF Plain
  <2>3. \A d \in Conns : up'[d] = up[d] \/ up'[d] = Tail(up[c])
    BY <1>1, <2>1 DEF WireTyped
  <2> QED
    BY <1>2, <2>2, <2>3 DEF Plain
<1>5. ASSUME NEW message \in BridgeClientMessage, message.paused = FALSE, SendUp(message),
             worker # "offline"
      PROVE  \A d \in Conns : Plain(up[d])'
  <2>1. conn \in Conns
    BY <1>1, <1>5 DEF WorkerTyped
  <2>2. Plain(Append(up[conn], message))
    BY <1>2, <1>5, <2>1, Appended DEF Plain
  <2>3. \A d \in Conns : up'[d] = up[d] \/ up'[d] = Append(up[conn], message)
    BY <1>1, <1>5, <2>1 DEF SendUp, WireTyped
  <2> QED
    BY <1>2, <2>2, <2>3 DEF Plain
<1>6. CASE NoWire \/ UNCHANGED vars
  BY <1>3, <1>6, NoWireFrame DEF wireVars
<1>7. ASSUME NEW c \in Conns, EndTask(c)
      PROVE  \A d \in Conns : Plain(up[d])'
  <2>1. \A d \in Conns : up'[d] = up[d] \/ up'[d] = <<>>
    BY <1>1, <1>7 DEF EndTask, WireTyped
  <2> QED
    BY <1>2, <2>1 DEF Plain
<1>8. ASSUME NEW c \in Conns, ReadStatus(c) \/ ReadRequestLatest(c) \/ ReadDismissLatest(c)
      PROVE  \A d \in Conns : Plain(up[d])'
  BY <1>4, <1>8 DEF ReadStatus, ReadRequestLatest, ReadDismissLatest
<1>9. ASSUME NEW c \in Conns, Snapshot(c) \/ Forward(c)
      PROVE  \A d \in Conns : Plain(up[d])'
  BY <1>3, <1>9 DEF Snapshot, Forward
<1>10. CASE Hello \/ SendStatus
  <2>1. SendUp(Status(FALSE)) /\ worker # "offline"
    BY <1>1, <1>10 DEF Hello, SendStatus
  <2>2. Status(FALSE).paused = FALSE
    BY DEF Status
  <2> QED
    BY <1>5, <2>1, <2>2, Messages
<1>11. CASE Ask \/ HandleDismiss
  <2>1. (SendUp(RequestLatest) \/ SendUp(DismissLatest)) /\ worker # "offline"
    BY <1>11 DEF Ask, HandleDismiss, Receive
  <2>2. RequestLatest.paused = FALSE /\ DismissLatest.paused = FALSE
    BY DEF RequestLatest, DismissLatest
  <2> QED
    BY <1>5, <2>1, <2>2, Messages
<1>12. CASE \/ Disconnect \/ LoseDismiss \/ HandleReconnect \/ HandleTest
            \/ ReceiveEvent \/ ReceiveClear
  BY <1>3, <1>12 DEF Disconnect, LoseDismiss, HandleReconnect, HandleTest, ReceiveEvent,
                     ReceiveClear
<1> QED
  BY <1>6, <1>7, <1>8, <1>9, <1>10, <1>11, <1>12
     DEF DeliveryNext, Environment, System, Task, Worker, NoWire

\* Without its menu item, nothing is ever paused.
LEMMA UnpausedStep ==
  ASSUME Undisturbed, Typed, Unpaused, [DeliveryNext]_vars
  PROVE  Unpaused'
<1>1. MenuTyped /\ WireTyped /\ TaskTyped
  BY TypedParts
<1>2. \A c \in Conns : \A i \in 1 .. Len(up'[c]) : up'[c][i].paused = FALSE
  BY PlainStep DEF Plain
<1>3. \A c \in Conns : mirror'[c] = FALSE
  <2>1. CASE UNCHANGED mirror
    BY <2>1 DEF Unpaused
  <2>2. ASSUME NEW c \in Conns, ReadStatus(c)
        PROVE  \A d \in Conns : mirror'[d] = FALSE
    <3>1. PICK paused \in BOOLEAN : Read(c, Status(paused)) /\ mirror' = [mirror EXCEPT ![c] = paused]
      BY <2>2 DEF ReadStatus
    <3>2. Status(paused) = up[c][1] /\ up[c] # <<>>
      BY <1>1, <3>1, ReadTakes
    <3>3. 1 \in 1 .. Len(up[c])
      BY <1>1, <3>2, Taken DEF WireTyped
    <3>4. Status(paused).paused = FALSE
      BY <3>2, <3>3 DEF Unpaused
    <3>5. paused = FALSE
      BY <3>4 DEF Status
    <3> QED
      BY <1>1, <3>1, <3>5 DEF TaskTyped, Unpaused
  <2>3. ASSUME NEW c \in Conns, EndTask(c)
        PROVE  \A d \in Conns : mirror'[d] = FALSE
    BY <1>1, <2>3 DEF EndTask, TaskTyped, Unpaused
  <2>4. CASE NoTask \/ UNCHANGED vars
    BY <2>1, <2>4, NoTaskFrame DEF taskVars
  <2>5. ASSUME NEW c \in Conns, \/ Subscribe(c) \/ Snapshot(c) \/ ReadRequestLatest(c)
                                \/ ReadDismissLatest(c) \/ Lag(c) \/ Forward(c)
        PROVE  UNCHANGED mirror
    BY <2>5 DEF Subscribe, Snapshot, ReadRequestLatest, ReadDismissLatest, Lag, Forward,
                taskVars
  <2>6. CASE Connect
    BY <2>1, <2>6 DEF Connect
  <2> QED
    BY <2>1, <2>2, <2>3, <2>4, <2>5, <2>6
       DEF DeliveryNext, Environment, System, Task, Worker, NoTask
<1>4. ASSUME UNCHANGED <<flag, menu, tray>>,
             \A i \in 1 .. Len(commands') :
               commands'[i].item # "pause" /\ commands'[i].item # "test"
      PROVE  Unpaused'
  BY <1>2, <1>3, <1>4 DEF Unpaused
<1>5. CASE \/ UNCHANGED bridgeVars
           \/ Connect \/ ConnectFails \/ Hello \/ Ask \/ Disconnect
           \/ Heartbeat \/ SendStatus \/ ReceiveEvent \/ FinishShowing \/ ReceiveClear
  <2>1. UNCHANGED <<flag, menu, tray, commands>>
    BY <1>5 DEF bridgeVars, trayVars, Connect, ConnectFails, Hello, Ask, Disconnect,
                Heartbeat, SendStatus, ReceiveEvent, FinishShowing, ReceiveClear
  <2> QED
    BY <1>4, <2>1 DEF Unpaused
<1>6. CASE HandleSetPaused \/ HandleTest
  <2>1. ASSUME NEW command, Receive(command), command.item \in {"pause", "test"}
        PROVE  FALSE
    <3>1. 1 \in 1 .. Len(commands) /\ command = commands[1]
      BY <1>1, <2>1, QueueShifts
    <3> QED
      BY <2>1, <3>1 DEF Unpaused
  <2>2. Choose("test").item = "test" /\ \A paused : SetPaused(paused).item = "pause"
    BY DEF Choose, SetPaused
  <2> QED
    BY <1>6, <2>1, <2>2 DEF HandleSetPaused, HandleTest
<1>7. CASE HandleDismiss \/ LoseDismiss \/ HandleReconnect
  <2>1. UNCHANGED <<flag, menu, tray>> /\ \E command : Receive(command)
    BY <1>7 DEF HandleDismiss, LoseDismiss, HandleReconnect, trayVars
  <2>2. PICK command : Receive(command)
    BY <2>1
  <2>3. /\ Len(commands) \in Nat /\ Len(commands') = Len(commands) - 1
        /\ \A i \in 1 .. Len(commands') : commands'[i] = commands[i + 1]
    BY <1>1, <2>2, QueueShifts
  <2>4. \A i \in 1 .. Len(commands') : i + 1 \in 1 .. Len(commands)
    BY <2>3
  <2> QED
    BY <1>4, <2>1, <2>3, <2>4 DEF Unpaused
<1>8. CASE ClickItem
  <2>1. PICK item \in {"test", "dismiss", "reconnect"} :
          Click(item) /\ commands' = Append(commands, Choose(item))
    BY <1>8 DEF ClickItem
  <2>2. item \in {"dismiss", "reconnect"} /\ UNCHANGED <<flag, menu, tray>>
    BY <1>8, <2>1 DEF ClickItem, Click, Undisturbed
  <2>3. /\ Choose(item) \in BridgeCommand
        /\ Choose(item).item # "pause" /\ Choose(item).item # "test"
    BY <2>2 DEF Choose, BridgeCommand
  <2>4. /\ Len(commands) \in Nat /\ Len(commands') = Len(commands) + 1
        /\ \A i \in 1 .. Len(commands) : commands'[i] = commands[i]
        /\ commands'[Len(commands) + 1] = Choose(item)
    BY <1>1, <2>1, <2>3, Appended DEF MenuTyped
  <2>5. \A i \in 1 .. Len(commands') : i \in 1 .. Len(commands) \/ i = Len(commands) + 1
    BY <2>4
  <2> QED
    BY <1>4, <2>2, <2>3, <2>4, <2>5 DEF Unpaused
<1>9. CASE ClickPause \/ SendPaused
  BY <1>9 DEF ClickPause, Click, SendPaused, Undisturbed, Unpaused
<1> QED
  BY <1>5, <1>6, <1>7, <1>8, <1>9, BridgeActs

\* What a socket task does concerns its own connection.
LEMMA TaskAlone ==
  ASSUME Typed, NEW c \in Conns, Task(c) \/ EndTask(c)
  PROVE  /\ UNCHANGED bridgeVars
         /\ c # conn \/ worker = "offline" => down' = down
         /\ \A d \in Conns \ {c} : /\ task'[d] = task[d] /\ cursor'[d] = cursor[d]
                                   /\ up'[d] = up[d] /\ down'[d] = down[d]
<1>1. TaskTyped /\ WireTyped
  BY TypedParts
<1>2. UNCHANGED bridgeVars
  BY OutsideFrame DEF Outside
<1>3. ASSUME NEW message, SendDown(c, message)
      PROVE  /\ c # conn \/ worker = "offline" => down' = down
             /\ \A d \in Conns \ {c} : down'[d] = down[d]
  BY <1>1, <1>3 DEF SendDown, WireTyped
<1>4. /\ c # conn \/ worker = "offline" => down' = down
      /\ \A d \in Conns \ {c} : down'[d] = down[d]
  <2>1. CASE Snapshot(c) \/ ReadRequestLatest(c)
    BY <1>3, <2>1 DEF Snapshot, ReadRequestLatest, SendLiveLatest
  <2>2. CASE Forward(c)
    BY <1>3, <2>2 DEF Forward
  <2>3. CASE Subscribe(c) \/ ReadStatus(c) \/ ReadDismissLatest(c) \/ Lag(c) \/ EndTask(c)
    BY <2>3 DEF Subscribe, ReadStatus, ReadDismissLatest, Lag, EndTask, wireVars
  <2> QED
    BY <2>1, <2>2, <2>3 DEF Task
<1>5. \A d \in Conns \ {c} : task'[d] = task[d] /\ cursor'[d] = cursor[d]
  BY <1>1 DEF Task, TaskTyped, taskVars, Subscribe, Snapshot, ReadStatus, ReadRequestLatest,
              ReadDismissLatest, Lag, Forward, EndTask
<1>6. \A d \in Conns \ {c} : up'[d] = up[d]
  BY <1>1 DEF Task, WireTyped, wireVars, Subscribe, Snapshot, ReadStatus, ReadRequestLatest,
              ReadDismissLatest, Lag, Forward, EndTask, Read
<1> QED
  BY <1>2, <1>4, <1>5, <1>6

\* The task that has not looped yet keeps silent until its snapshot.
LEMMA FreshStep ==
  ASSUME Undisturbed, Typed, Unpaused, Fresh, [DeliveryNext]_vars
  PROVE  Fresh'
<1>1. /\ TaskTyped /\ WireTyped /\ WorkerTyped /\ MaxConns \in Nat
      /\ 0 \notin Conns /\ conn \in Nat
  BY TypedParts, DeliveryAssumption DEF WorkerTyped, Conns
<1>2. ASSUME UNCHANGED <<taskVars, down, conn, keyboard>>,
             worker = "offline" <=> worker' = "offline",
             worker' = "showing" => worker = "showing"
      PROVE  Fresh'
  BY <1>2 DEF Fresh, taskVars
<1>3. CASE \/ \E p \in Posters : (\E e \in Event : PostEvent(p, e)) \/ DeleteLatest(p)
           \/ GetExpired \/ (\E c \in Client : Broadcast(c)) \/ UNCHANGED vars
  BY <1>2, <1>3 DEF PostEvent, DeleteLatest, GetExpired, Broadcast, vars, wireVars,
                    bridgeVars, screenVars
<1>4. CASE \/ ConnectFails \/ Hello \/ Ask \/ Heartbeat \/ SendStatus
           \/ HandleSetPaused \/ ClickPause \/ ClickItem \/ SendPaused
  BY <1>2, <1>4 DEF ConnectFails, Hello, Ask, Heartbeat, SendStatus, HandleSetPaused,
                    Receive, ClickPause, ClickItem, SendPaused, wireVars, screenVars
<1>5. ASSUME NEW c \in Conns, Task(c) \/ EndTask(c)
      PROVE  Fresh'
  <2>1. UNCHANGED <<conn, worker, keyboard>>
    BY <1>5, TaskAlone DEF bridgeVars, screenVars
  <2>2. \A d \in Conns : d # conn \/ worker = "offline" => down'[d] = down[d]
    BY <1>1, <1>5, TaskAlone
  <2>3. task'[c] \in {"accepted", "subscribed"} =>
          task[c] \in {"accepted", "subscribed"} /\ down'[c] = down[c]
    BY <1>1, <1>5 DEF Task, EndTask, Subscribe, Snapshot, ReadStatus, ReadRequestLatest,
                      ReadDismissLatest, Lag, Forward, Read, Selecting, TaskTyped, taskVars, wireVars
  <2>4. \A d \in Conns : task'[d] \in {"accepted", "subscribed"} =>
          task[d] \in {"accepted", "subscribed"} /\ (d = conn => down'[d] = down[d])
    BY <1>5, <2>3, TaskAlone
  <2>5. \A d \in Conns : d # conn' \/ worker' = "offline" => down'[d] = <<>>
    BY <2>1, <2>2 DEF Fresh
  <2>6. worker' # "offline" /\ task'[conn'] \in {"accepted", "subscribed"} =>
          down'[conn'] = <<>> /\ worker' # "showing"
    BY <1>1, <2>1, <2>4 DEF Fresh, WorkerTyped
  <2>7. conn = 1 => 1 \in Conns
    BY <1>1 DEF WorkerTyped, Conns
  <2>8. conn' = 0 \/ (conn' = 1 /\ task'[1] \in {"accepted", "subscribed"}) =>
          keyboard' = None
    BY <2>1, <2>4, <2>7 DEF Fresh
  <2> QED
    BY <2>5, <2>6, <2>8 DEF Fresh
<1>6. CASE Connect
  <2>1. /\ worker = "offline" /\ conn' = conn + 1 /\ conn < MaxConns /\ worker' = "hello"
        /\ UNCHANGED <<down, keyboard>>
    BY <1>6 DEF Connect, wireVars, screenVars
  <2>2. conn' \in Conns /\ conn' # 0
    BY <1>1, <2>1 DEF Conns
  <2>3. conn' = 1 => conn = 0
    BY <1>1, <2>1
  <2> QED
    BY <2>1, <2>2, <2>3 DEF Fresh
<1>7. CASE Disconnect \/ LoseDismiss \/ HandleReconnect
  <2>1. /\ worker # "offline" /\ worker' = "offline" /\ UNCHANGED <<conn, task, keyboard>>
        /\ down' = [down EXCEPT ![conn] = <<>>]
    BY <1>7 DEF Disconnect, LoseDismiss, HandleReconnect, Receive, Leave, taskVars, screenVars
  <2>2. \A d \in Conns : down'[d] = <<>>
    BY <1>1, <2>1 DEF Fresh, WireTyped
  <2> QED
    BY <2>1, <2>2 DEF Fresh
<1>8. CASE HandleTest
  <2>1. MenuTyped
    BY TypedParts
  <2>2. Receive(Choose("test")) /\ Choose("test").item = "test"
    BY <1>8 DEF HandleTest, Choose
  <2>3. 1 \in 1 .. Len(commands) /\ commands[1].item = "test"
    BY <2>1, <2>2, QueueShifts
  <2> QED
    BY <2>3 DEF Unpaused
<1>9. CASE HandleDismiss
  <2>1. /\ UNCHANGED <<conn, task, down>> /\ keyboard' = None
        /\ worker = "idle" /\ worker' = "status"
    BY <1>9 DEF HandleDismiss, Receive, ClearDisplay, Write, taskVars, Undisturbed
  <2> QED
    BY <2>1 DEF Fresh
<1>10. CASE ReceiveEvent \/ ReceiveClear
  <2>1. /\ UNCHANGED <<conn, task>> /\ worker' # "offline"
        /\ \E message : NextMessage(message)
        /\ keyboard' = keyboard \/ keyboard' = None
    BY <1>10 DEF ReceiveEvent, ReceiveClear, NextMessage, ClearDisplay, Write, taskVars,
                 Undisturbed
  <2>2. PICK message : NextMessage(message)
    BY <2>1
  <2>3. /\ conn \in Conns /\ worker = "idle" /\ down[conn] # <<>>
        /\ down' = [down EXCEPT ![conn] = Tail(@)]
    BY <1>1, <2>2, NextTakes
  <2>4. \A d \in Conns \ {conn} : down'[d] = down[d]
    BY <1>1, <2>3 DEF WireTyped
  <2> QED
    BY <2>1, <2>3, <2>4 DEF Fresh
<1>11. CASE FinishShowing
  <2>1. /\ UNCHANGED <<conn, task, down>>
        /\ worker = "showing" /\ worker' = "idle"
    BY <1>11 DEF FinishShowing, taskVars, wireVars
  <2>2. conn \in Conns /\ task[conn] \notin {"accepted", "subscribed"}
    BY <1>1, <2>1 DEF Fresh, WorkerTyped
  <2>3. conn # 0 /\ ~ (conn = 1 /\ task[1] \in {"accepted", "subscribed"})
    BY <1>1, <2>2
  <2> QED
    BY <2>1, <2>2, <2>3 DEF Fresh
<1> QED
  BY <1>3, <1>4, <1>5, <1>6, <1>7, <1>8, <1>9, <1>10, <1>11
     DEF DeliveryNext, Environment, System, Worker

\* A dismissal on its way to a task is overtaken by nothing.
LEMMA DismissalStays ==
  ASSUME WireTyped, NEW c \in Conns, Dismissing(c),
         \/ \E message \in BridgeClientMessage : up' = [up EXCEPT ![c] = Append(@, message)]
         \/ \E message : Read(c, message) /\ message # DismissLatest
  PROVE  Dismissing(c)'
<1>1. up[c] \in Seq(BridgeClientMessage)
  BY DEF WireTyped
<1>2. PICK i \in 1 .. Len(up[c]) : up[c][i] = DismissLatest
  BY DEF Dismissing
<1>3. ASSUME NEW message \in BridgeClientMessage, up' = [up EXCEPT ![c] = Append(@, message)]
      PROVE  Dismissing(c)'
  <2>1. up'[c] = Append(up[c], message)
    BY <1>3 DEF WireTyped
  <2>2. i \in 1 .. Len(up'[c]) /\ up'[c][i] = up[c][i]
    BY <1>1, <2>1, Appended
  <2> QED
    BY <1>2, <2>2 DEF Dismissing
<1>4. ASSUME NEW message, Read(c, message), message # DismissLatest
      PROVE  Dismissing(c)'
  <2>1. up[c] # <<>> /\ message = up[c][1] /\ up'[c] = Tail(up[c])
    BY <1>4, ReadTakes DEF WireTyped
  <2>2. i # 1
    BY <1>2, <1>4, <2>1
  <2>3. /\ Len(up[c]) \in Nat \ {0} /\ Len(up'[c]) = Len(up[c]) - 1
        /\ \A j \in 1 .. Len(up[c]) - 1 : up'[c][j] = up[c][j + 1]
    BY <1>1, <2>1, Taken
  <2>4. i - 1 \in 1 .. Len(up'[c]) /\ up'[c][i - 1] = up[c][i]
    BY <2>2, <2>3
  <2> QED
    BY <1>2, <2>4 DEF Dismissing
<1> QED
  BY <1>3, <1>4

\* A dismissal that has just been sent is on its way.
LEMMA DismissalSent ==
  ASSUME WireTyped, NEW c \in Conns, up' = [up EXCEPT ![c] = Append(@, DismissLatest)]
  PROVE  Dismissing(c)'
<1>1. up[c] \in Seq(BridgeClientMessage) /\ up'[c] = Append(up[c], DismissLatest)
  BY DEF WireTyped
<1>2. Len(up[c]) + 1 \in 1 .. Len(up'[c]) /\ up'[c][Len(up[c]) + 1] = DismissLatest
  BY <1>1, Messages, Appended
<1> QED
  BY <1>2 DEF Dismissing

\* What a message sent down leaves in flight.
LEMMA DownSent ==
  ASSUME WireTyped, NEW c \in Conns, NEW message \in Message,
         down' = [down EXCEPT ![c] = Append(@, message)]
  PROVE  down'[c] # <<>> /\ down'[c][Len(down'[c])] = message
<1>1. down[c] \in Seq(Message) /\ down'[c] = Append(down[c], message)
  BY DEF WireTyped
<1> QED
  BY <1>1, Appended

\* What the bridge takes from the wire leaves the last message there, or was it.
LEMMA DownTaken ==
  ASSUME WireTyped, WorkerTyped, NEW message, NextMessage(message)
  PROVE  \/ down'[conn] = <<>> /\ message = down[conn][Len(down[conn])]
         \/ down'[conn] # <<>> /\ down'[conn][Len(down'[conn])] = down[conn][Len(down[conn])]
<1>1. /\ conn \in Conns /\ down[conn] \in Seq(Message) /\ down[conn] # <<>>
      /\ message = down[conn][1] /\ down'[conn] = Tail(down[conn])
  BY NextTakes DEF WireTyped
<1>2. /\ Len(down[conn]) \in Nat \ {0} /\ Len(down'[conn]) = Len(down[conn]) - 1
      /\ \A i \in 1 .. Len(down[conn]) - 1 : down'[conn][i] = down[conn][i + 1]
      /\ down'[conn] \in Seq(Message)
  BY <1>1, Taken
<1>3. CASE Len(down[conn]) = 1
  BY <1>1, <1>2, <1>3
<1>4. CASE Len(down[conn]) # 1
  <2> DEFINE before == Len(down[conn])
             after  == Len(down'[conn])
  <2>1. /\ before \in Nat \ {0} /\ after = before - 1 /\ before # 1
        /\ \A i \in 1 .. before - 1 : down'[conn][i] = down[conn][i + 1]
    BY <1>2, <1>4
  <2>2. after # 0 => down'[conn] # <<>>
    OBVIOUS
  <2> HIDE DEF before, after
  <2>3. after \in 1 .. before - 1 /\ after # 0 /\ after + 1 = before
    BY <2>1
  <2>4. down'[conn] # <<>> /\ down'[conn][after] = down[conn][before]
    BY <2>1, <2>2, <2>3
  <2> QED
    BY <2>4 DEF before, after
<1> QED
  BY <1>3, <1>4

\* A bridge that is not caught up is promised nothing.
LEMMA Behind ==
  ASSUME \/ worker' = "offline" \/ task'[conn'] # "loop"
         \/ cursor'[conn'] # Len(announced') \/ ~ NoneOwed'
  PROVE  LatestArrives'
BY DEF LatestArrives, CaughtUp

\* What a step keeps, if the keyboard is left alone.
LEMMA ArrivesSame ==
  ASSUME LatestArrives, UNCHANGED <<slot, owed, announced, conn, showing, keyboard>>,
         worker' # "offline" =>
           /\ worker # "offline" /\ (worker' = "showing" <=> worker = "showing")
           /\ task'[conn] = task[conn] /\ cursor'[conn] = cursor[conn]
           /\ down'[conn] = down[conn]
           /\ Dismissing(conn) => Dismissing(conn)'
  PROVE  LatestArrives'
<1>1. CASE worker' = "offline"
  BY <1>1, Behind
<1>2. CASE worker' # "offline"
  <2>1. (CaughtUp' <=> CaughtUp) /\ SlotMessage' = SlotMessage /\ (Confused' <=> Confused)
    BY <1>2 DEF CaughtUp, NoneOwed, SlotMessage, Expired, Confused
  <2>2. LastWord' = LastWord /\ (Shown => Shown')
    BY <1>2 DEF Shown, LastWord
  <2>3. down'[conn'] = down[conn]
    BY <1>2
  <2> QED
    BY <1>2, <2>1, <2>2, <2>3 DEF LatestArrives, Telling
<1> QED
  BY <1>1, <1>2

\* What expires was announced last, if changes do not overlap.
LEMMA ArrivesExpired ==
  ASSUME BoardTyped, Serial => BoardInv, LatestArrives, Expiring,
         slot # None, slot' = None,
         UNCHANGED <<owed, announced, conn, worker, showing, keyboard, down>>,
         worker # "offline" =>
           /\ task'[conn] = task[conn] /\ cursor'[conn] = cursor[conn]
           /\ Dismissing(conn) => Dismissing(conn)'
  PROVE  LatestArrives'
<1>1. SUFFICES ASSUME CaughtUp', ~ Confused'
               PROVE  LatestArrives'
  BY DEF LatestArrives
<1>2. Serial /\ CaughtUp /\ ~ Confused /\ NoneOwed /\ ~ Expired
  BY <1>1 DEF Confused, Expired, CaughtUp, NoneOwed
<1>3. announced # <<>> /\ announced[Len(announced)] = EventMessage(slot)
  BY <1>2 DEF BoardInv, SlotMessage
<1>4. LastWord = slot /\ LastWord' = slot
  BY <1>3 DEF LastWord, EventMessage
<1>5. \A message : Telling(message) => Telling(message)'
  BY <1>3 DEF Telling, SlotMessage
<1>6. Shown => Shown'
  BY <1>1, <1>2, <1>4 DEF Shown, CaughtUp
<1> QED
  BY <1>2, <1>4, <1>5, <1>6 DEF LatestArrives

\* A message that tells the bridge reaches it in time.
LEMMA LatestSent ==
  ASSUME WireTyped, conn \in Conns, UNCHANGED <<slot, announced, conn>>,
         NEW message \in Message, Telling(message),
         down' = [down EXCEPT ![conn] = Append(@, message)]
  PROVE  LatestArrives'
<1>1. down'[conn] # <<>> /\ down'[conn][Len(down'[conn])] = message
  BY DownSent
<1>2. Telling(message)'
  BY DEF Telling, SlotMessage
<1> QED
  BY <1>1, <1>2 DEF LatestArrives

\* Neither a request nor an announcement leaves the bridge caught up.
LEMMA BoardArrives ==
  ASSUME Typed, Serial => BoardInv, LatestArrives,
         \/ \E p \in Posters : (\E e \in Event : PostEvent(p, e)) \/ DeleteLatest(p)
         \/ GetExpired \/ (\E c \in Client : Broadcast(c))
  PROVE  LatestArrives'
<1>1. BoardTyped /\ TaskTyped /\ WorkerTyped
  BY TypedParts
<1>2. /\ \A p \in Posters : p \in Client
      /\ None \notin Message /\ ClearMessage \in Message
      /\ \A e \in Event : EventMessage(e) \in Message
  BY DeliveryAssumption, BoardAssumption, Messages
<1>3. ASSUME NEW c \in Client, NEW message \in Message,
             owed' = [owed EXCEPT ![c] = message]
      PROVE  LatestArrives'
  <2>1. owed'[c] # None
    BY <1>1, <1>2, <1>3 DEF BoardTyped
  <2>2. ~ NoneOwed'
    BY <2>1 DEF NoneOwed
  <2> QED
    BY <2>2, Behind
<1>4. ASSUME NEW p \in Posters, NEW e \in Event, PostEvent(p, e)
      PROVE  LatestArrives'
  <2>1. slot' \in Event /\ owed' = [owed EXCEPT ![p] = EventMessage(slot')]
    BY <1>4 DEF PostEvent, Offer, Owe
  <2> QED
    BY <1>2, <1>3, <2>1
<1>5. ASSUME NEW p \in Posters, DeleteLatest(p)
      PROVE  LatestArrives'
  BY <1>2, <1>3, <1>5 DEF DeleteLatest, Dismiss, Owe
<1>6. CASE GetExpired
  <2>1. /\ Expiring /\ slot # None /\ slot' = None
        /\ UNCHANGED <<owed, announced, taskVars, up, down, bridgeVars>>
    BY <1>6 DEF GetExpired, Lapse, wireVars
  <2>2. UNCHANGED <<conn, worker, showing, keyboard, task, cursor>>
    BY <2>1 DEF bridgeVars, screenVars, taskVars
  <2>3. Dismissing(conn) => Dismissing(conn)'
    BY <2>1, <2>2 DEF Dismissing
  <2> QED
    BY <1>1, <2>1, <2>2, <2>3, ArrivesExpired
<1>7. ASSUME NEW c \in Client, Broadcast(c)
      PROVE  LatestArrives'
  <2>1. /\ announced' = Append(announced, owed[c]) /\ owed[c] \in Message
        /\ UNCHANGED <<conn, worker, cursor>>
    BY <1>1, <1>7 DEF Broadcast, Announce, BoardTyped, bridgeVars, taskVars
  <2>2. Len(announced) \in Nat /\ Len(announced') = Len(announced) + 1
    BY <1>1, <2>1, Appended DEF BoardTyped
  <2>3. worker # "offline" => cursor[conn] \in 0 .. Len(announced)
    BY <1>1 DEF TaskTyped, WorkerTyped
  <2>4. worker' = "offline" \/ cursor'[conn'] # Len(announced')
    BY <2>1, <2>2, <2>3
  <2> QED
    BY <2>4, Behind
<1> QED
  BY <1>4, <1>5, <1>6, <1>7

\* A socket task sends what the slot holds before it is caught up.
LEMMA TaskArrives ==
  ASSUME Typed, Serial => BoardInv, Unpaused, Fresh, LatestArrives,
         NEW c \in Conns, Task(c) \/ EndTask(c)
  PROVE  LatestArrives'
<1>1. BoardTyped /\ TaskTyped /\ WireTyped /\ WorkerTyped
  BY TypedParts
<1>2. /\ UNCHANGED <<conn, worker, showing, keyboard>>
      /\ \A d \in Conns \ {c} : /\ task'[d] = task[d] /\ cursor'[d] = cursor[d]
                                /\ up'[d] = up[d] /\ down'[d] = down[d]
  BY TaskAlone DEF bridgeVars, screenVars
<1>3. /\ Conns \subseteq Client /\ Capacity \in Nat \ {0}
      /\ None \notin Message /\ ClearMessage \in Message
      /\ \A e \in Event : EventMessage(e) \in Message
  BY DeliveryAssumption, BoardAssumption, Messages
<1>4. SlotMessage \in Message
  BY <1>1, <1>3 DEF SlotMessage, BoardTyped
<1>5. CASE worker = "offline"
  BY <1>2, <1>5, Behind
<1>6. CASE ReadDismissLatest(c) /\ slot # None
  <2>1. owed' = [owed EXCEPT ![c] = ClearMessage]
    BY <1>6 DEF ReadDismissLatest, Dismiss, Owe
  <2>2. owed'[c] # None /\ c \in Client
    BY <1>1, <1>3, <2>1 DEF BoardTyped
  <2> QED
    BY <2>2, Behind DEF NoneOwed
<1>8. CASE slot' # slot /\ ~ (ReadDismissLatest(c) /\ slot # None) /\ worker # "offline"
  <2>1. Snapshot(c) \/ ReadRequestLatest(c)
    <3>1. CASE ReadDismissLatest(c)
      BY <1>8, <3>1 DEF ReadDismissLatest, boardVars
    <3>2. CASE Subscribe(c) \/ ReadStatus(c) \/ Lag(c) \/ Forward(c) \/ EndTask(c)
      BY <1>8, <3>2 DEF Subscribe, ReadStatus, Lag, Forward, EndTask, boardVars
    <3> QED
      BY <3>1, <3>2 DEF Task
  <2>2. /\ SendLiveLatest(c) /\ UNCHANGED <<owed, announced, cursor>>
    BY <2>1 DEF Snapshot, ReadRequestLatest, taskVars
  <2>3. Expiring /\ slot # None /\ slot' = None /\ down' = down
    BY <1>8, <2>2, LiveSends
  <2>4. conn \in Conns
    BY <1>1, <1>8 DEF WorkerTyped
  <2>5. CASE Snapshot(c) /\ c = conn
    <3>1. down[conn] = <<>> /\ worker # "showing" /\ (keyboard = None \/ conn > 1)
      BY <1>8, <2>4, <2>5 DEF Snapshot, Fresh, Conns
    <3>2. Shown'
      BY <1>2, <2>3, <3>1 DEF Shown
    <3> QED
      BY <1>2, <2>3, <3>1, <3>2 DEF LatestArrives
  <2>6. CASE ~ (Snapshot(c) /\ c = conn)
    <3>1. task'[conn] = task[conn]
      BY <1>2, <2>1, <2>4, <2>6 DEF ReadRequestLatest, taskVars
    <3>2. Dismissing(conn) => Dismissing(conn)'
      <4>1. CASE c # conn \/ Snapshot(c)
        BY <1>2, <2>4, <4>1 DEF Dismissing, Snapshot
      <4>2. CASE c = conn /\ ReadRequestLatest(c)
        <5>1. Read(conn, RequestLatest) /\ RequestLatest # DismissLatest
          BY <4>2 DEF ReadRequestLatest, RequestLatest, DismissLatest
        <5> QED
          BY <1>1, <1>2, <2>4, <5>1, DismissalStays DEF Dismissing
      <4> QED
        BY <2>1, <4>1, <4>2
    <3> QED
      BY <1>1, <1>2, <2>2, <2>3, <3>1, <3>2, ArrivesExpired
  <2> QED
    BY <2>5, <2>6
<1>7. CASE slot' = slot /\ ~ (ReadDismissLatest(c) /\ slot # None) /\ worker # "offline"
  <2>1. UNCHANGED <<slot, owed, announced>>
    <3>1. CASE Snapshot(c) \/ ReadRequestLatest(c)
      BY <1>7, <3>1 DEF Snapshot, ReadRequestLatest
    <3>2. CASE ReadDismissLatest(c)
      BY <1>7, <3>2 DEF ReadDismissLatest, boardVars
    <3>3. CASE Subscribe(c) \/ ReadStatus(c) \/ Lag(c) \/ Forward(c) \/ EndTask(c)
      BY <3>3 DEF Subscribe, ReadStatus, Lag, Forward, EndTask, boardVars
    <3> QED
      BY <3>1, <3>2, <3>3 DEF Task
  <2>2. conn \in Conns
    BY <1>1, <1>7 DEF WorkerTyped
  <2>3. CASE c # conn
    <3>1. /\ task'[conn] = task[conn] /\ cursor'[conn] = cursor[conn]
          /\ up'[conn] = up[conn] /\ down'[conn] = down[conn]
      BY <1>2, <2>2, <2>3
    <3>2. Dismissing(conn) => Dismissing(conn)'
      BY <1>2, <3>1 DEF Dismissing
    <3> QED
      BY <1>2, <2>1, <3>1, <3>2, ArrivesSame
  <2>4. CASE c = conn
    <3>1. CASE Subscribe(c) \/ EndTask(c)
      <4>1. task'[conn] # "loop"
        BY <1>1, <2>2, <2>4, <3>1 DEF Subscribe, EndTask, TaskTyped
      <4> QED
        BY <1>2, <4>1, Behind
    <3>2. CASE Lag(c)
      <4>1. cursor'[conn] = Len(announced) - Capacity /\ Len(announced) \in Nat
        BY <1>1, <2>2, <2>4, <3>2 DEF Lag, TaskTyped, BoardTyped
      <4>2. cursor'[conn'] # Len(announced')
        BY <1>2, <1>3, <2>1, <4>1
      <4> QED
        BY <4>2, Behind
    <3>3. CASE Snapshot(c)
      <4>1. task[conn] = "subscribed" /\ SendLiveLatest(conn)
        BY <2>4, <3>3 DEF Snapshot
      <4>2. down[conn] = <<>> /\ worker # "showing"
        BY <1>7, <4>1 DEF Fresh
      <4>3. CASE slot = None /\ down' = down
        <5>1. keyboard = slot \/ conn > 1
          BY <2>2, <4>1, <4>3 DEF Fresh, Conns
        <5>2. Shown'
          BY <1>2, <2>1, <4>3, <5>1 DEF Shown
        <5> QED
          BY <1>2, <4>2, <4>3, <5>2 DEF LatestArrives
      <4>4. CASE slot \in Event /\ down' = [down EXCEPT ![conn] = Append(@, EventMessage(slot))]
        <5>1. SlotMessage = EventMessage(slot)
          BY <4>4, BoardAssumption DEF SlotMessage
        <5> QED
          BY <1>1, <1>2, <1>4, <2>1, <2>2, <4>4, <5>1, LatestSent DEF Telling
      <4> QED
        BY <1>7, <2>2, <4>1, <4>3, <4>4, LiveSends
    <3>4. CASE ReadStatus(c)
      <4>1. /\ \E message : Read(conn, message) /\ message # DismissLatest
            /\ UNCHANGED <<task, cursor, down>>
        BY <2>4, <3>4 DEF ReadStatus, Status, DismissLatest
      <4>2. Dismissing(conn) => Dismissing(conn)'
        BY <1>1, <1>2, <2>2, <4>1, DismissalStays DEF Dismissing
      <4> QED
        BY <1>2, <2>1, <4>1, <4>2, ArrivesSame
    <3>5. CASE ReadRequestLatest(c)
      <4>1. /\ Read(conn, RequestLatest) /\ RequestLatest # DismissLatest
            /\ UNCHANGED <<task, cursor>> /\ SendLiveLatest(conn)
        BY <2>4, <3>5 DEF ReadRequestLatest, RequestLatest, DismissLatest, taskVars
      <4>2. CASE down' = down
        <5>1. Dismissing(conn) => Dismissing(conn)'
          BY <1>1, <1>2, <2>2, <4>1, DismissalStays DEF Dismissing
        <5> QED
          BY <1>2, <2>1, <4>1, <4>2, <5>1, ArrivesSame
      <4>3. CASE slot \in Event /\ down' = [down EXCEPT ![conn] = Append(@, EventMessage(slot))]
        <5>1. SlotMessage = EventMessage(slot)
          BY <4>3, BoardAssumption DEF SlotMessage
        <5> QED
          BY <1>1, <1>2, <1>4, <2>1, <2>2, <4>3, <5>1, LatestSent DEF Telling
      <4> QED
        BY <1>7, <2>2, <4>1, <4>2, <4>3, LiveSends
    <3>6. CASE ReadDismissLatest(c)
      <4>1. slot = None /\ UNCHANGED <<task, cursor, down>>
        BY <1>7, <3>6 DEF ReadDismissLatest, taskVars
      <4>2. /\ CaughtUp' => CaughtUp
            /\ SlotMessage' = SlotMessage /\ LastWord' = LastWord
            /\ Confused' <=> Confused
        BY <1>2, <2>1, <4>1 DEF CaughtUp, NoneOwed, SlotMessage, LastWord, Confused, Expired
      <4>3. Shown => Shown'
        BY <1>2, <2>1, <4>1, <4>2 DEF Shown
      <4>4. \A message : Telling(message) => Telling(message)'
        BY <2>1, <4>2 DEF Telling
      <4> QED
        BY <1>2, <2>1, <4>1, <4>2, <4>3, <4>4 DEF LatestArrives
    <3>7. CASE Forward(c)
      <4>1. /\ cursor' = [cursor EXCEPT ![conn] = cursor[conn] + 1]
            /\ SendDown(conn, announced[cursor'[conn]])
            /\ Len(announced) - cursor[conn] \in 1 .. Capacity
        BY <2>2, <2>4, <3>7 DEF Forward, Unpaused
      <4>2. CASE NoneOwed /\ cursor'[conn] = Len(announced)
        <5>1. cursor[conn] \in Nat /\ Len(announced) \in Nat
          BY <1>1, <2>2 DEF TaskTyped, BoardTyped
        <5>2. Len(announced) # 0
          BY <1>3, <4>1, <5>1
        <5>3. /\ announced # <<>> /\ announced[Len(announced)] \in Message
              /\ Telling(announced[Len(announced)])
          BY <1>1, <5>1, <5>2 DEF BoardTyped, Telling
        <5>4. down' = [down EXCEPT ![conn] = Append(@, announced[Len(announced)])]
          BY <1>7, <4>1, <4>2 DEF SendDown
        <5> QED
          BY <1>1, <1>2, <2>1, <2>2, <5>3, <5>4, LatestSent
      <4>3. CASE ~ (NoneOwed /\ cursor'[conn] = Len(announced))
        <5>1. NoneOwed' <=> NoneOwed
          BY <2>1 DEF NoneOwed
        <5> QED
          BY <1>2, <2>1, <4>3, <5>1, Behind
      <4> QED
        BY <4>2, <4>3
    <3> QED
      BY <3>1, <3>2, <3>3, <3>4, <3>5, <3>6, <3>7 DEF Task
  <2> QED
    BY <2>3, <2>4
<1> QED
  BY <1>5, <1>6, <1>7, <1>8

\* The bridge puts on the keyboard what it was last sent.
LEMMA BridgeArrives ==
  ASSUME Undisturbed, Typed, Unpaused, LatestArrives,
         \/ Connect \/ ConnectFails \/ Hello \/ Ask \/ Disconnect
         \/ Heartbeat \/ SendStatus
         \/ HandleSetPaused \/ HandleTest \/ HandleDismiss \/ LoseDismiss
         \/ HandleReconnect
         \/ ReceiveEvent \/ FinishShowing \/ ReceiveClear
         \/ ClickPause \/ ClickItem \/ SendPaused
  PROVE  LatestArrives'
<1>1. /\ TaskTyped /\ WireTyped /\ WorkerTyped /\ ScreenTyped /\ MenuTyped
      /\ MaxConns \in Nat
  BY TypedParts, DeliveryAssumption
<1>2. UNCHANGED <<slot, owed, announced>>
  BY DEF Connect, ConnectFails, Hello, Ask, Disconnect, Heartbeat, SendStatus,
         HandleSetPaused, HandleTest, HandleDismiss, LoseDismiss, HandleReconnect,
         ReceiveEvent, FinishShowing, ReceiveClear, ClickPause, ClickItem, SendPaused, boardVars
<1>12. (Confused' <=> Confused) /\ SlotMessage' = SlotMessage /\ LastWord' = LastWord
  BY <1>2 DEF Confused, Expired, SlotMessage, LastWord
<1>13. \A message : Telling(message) => Telling(message)'
  BY <1>2, <1>12 DEF Telling
<1>3. CASE Connect
  <2>1. worker = "offline" /\ conn' = conn + 1 /\ conn < MaxConns
        /\ task' = [task EXCEPT ![conn'] = "accepted"]
    BY <1>3 DEF Connect
  <2>2. conn' \in Conns
    BY <1>1, <2>1 DEF WorkerTyped, Conns
  <2>3. task'[conn'] # "loop"
    BY <1>1, <2>1, <2>2 DEF TaskTyped
  <2> QED
    BY <2>3, Behind
<1>4. CASE ConnectFails \/ Disconnect \/ LoseDismiss \/ HandleReconnect
  BY <1>4, Behind DEF ConnectFails, Disconnect, LoseDismiss, HandleReconnect, Leave
<1>5. CASE Heartbeat \/ HandleSetPaused \/ ClickPause \/ ClickItem \/ SendPaused
  <2>1. /\ UNCHANGED <<task, cursor, up, down, conn, showing, keyboard>>
        /\ worker' = worker \/ (worker = "idle" /\ worker' = "status")
    BY <1>5 DEF Heartbeat, HandleSetPaused, Receive, ClickPause, ClickItem, SendPaused,
                taskVars, wireVars, screenVars
  <2>2. Dismissing(conn) => Dismissing(conn)'
    BY <2>1 DEF Dismissing
  <2> QED
    BY <1>2, <2>1, <2>2, ArrivesSame
<1>6. CASE Hello \/ Ask \/ SendStatus
  <2>1. /\ UNCHANGED <<task, cursor, down, conn, showing, keyboard>>
        /\ worker \notin {"offline", "showing"} /\ worker' \notin {"offline", "showing"}
        /\ \E message \in BridgeClientMessage : SendUp(message)
    BY <1>1, <1>6, Messages DEF Hello, Ask, SendStatus, taskVars, screenVars, MenuTyped
  <2>2. conn \in Conns
    BY <1>1, <2>1 DEF WorkerTyped
  <2>3. \/ up' = up
        \/ \E message \in BridgeClientMessage : up' = [up EXCEPT ![conn] = Append(@, message)]
    BY <2>1 DEF SendUp
  <2>4. Dismissing(conn) => Dismissing(conn)'
    <3>1. CASE up' = up
      BY <2>1, <3>1 DEF Dismissing
    <3>2. CASE \E message \in BridgeClientMessage : up' = [up EXCEPT ![conn] = Append(@, message)]
      <4>1. ASSUME Dismissing(conn)
            PROVE  \A d : d = conn => \E i \in 1 .. Len(up'[d]) : up'[d][i] = DismissLatest
        BY <1>1, <2>2, <3>2, <4>1, DismissalStays DEF Dismissing
      <4> QED
        BY <2>1, <4>1 DEF Dismissing
    <3> QED
      BY <2>3, <3>1, <3>2
  <2> QED
    BY <1>2, <2>1, <2>4, ArrivesSame
<1>7. CASE HandleTest
  <2>1. Receive(Choose("test")) /\ Choose("test").item = "test"
    BY <1>7 DEF HandleTest, Choose
  <2>2. 1 \in 1 .. Len(commands) /\ commands[1].item = "test"
    BY <1>1, <2>1, QueueShifts
  <2> QED
    BY <2>2 DEF Unpaused
<1>8. CASE HandleDismiss
  <2>1. /\ UNCHANGED <<task, cursor, down, conn>> /\ keyboard' = None
        /\ worker = "idle" /\ worker' = "status" /\ SendUp(DismissLatest)
    BY <1>8 DEF HandleDismiss, Receive, ClearDisplay, Write, taskVars, Undisturbed
  <2>2. conn \in Conns
    BY <1>1, <2>1 DEF WorkerTyped
  <2>3. SUFFICES ASSUME CaughtUp', ~ Confused
                 PROVE  LatestArrives'
    BY <1>12 DEF LatestArrives
  <2>4. CaughtUp /\ task[conn] = "loop"
    BY <1>2, <2>1, <2>3 DEF CaughtUp, NoneOwed
  <2>5. up' = [up EXCEPT ![conn] = Append(@, DismissLatest)]
    BY <2>1, <2>4 DEF SendUp
  <2>6. Dismissing(conn)'
    BY <1>1, <2>1, <2>2, <2>5, DismissalSent DEF Dismissing
  <2>7. Shown'
    BY <2>1, <2>6 DEF Shown
  <2> QED
    BY <1>12, <1>13, <2>1, <2>3, <2>4, <2>7 DEF LatestArrives
<1>9. CASE ReceiveEvent
  <2>1. PICK e \in Event : /\ NextMessage(EventMessage(e))
                           /\ worker' = "showing" /\ showing' = e
    BY <1>9 DEF ReceiveEvent, Unpaused
  <2>2. UNCHANGED <<task, cursor, conn>> /\ worker = "idle" /\ down[conn] # <<>>
    BY <1>9, <2>1 DEF ReceiveEvent, NextMessage, taskVars
  <2>3. SUFFICES ASSUME CaughtUp', ~ Confused
                 PROVE  LatestArrives'
    BY <1>12 DEF LatestArrives
  <2>4. CaughtUp
    BY <1>2, <2>2, <2>3 DEF CaughtUp, NoneOwed
  <2>5. Telling(down[conn][Len(down[conn])])
    BY <2>2, <2>3, <2>4 DEF LatestArrives
  <2>6. Telling(EventMessage(e)) => e \in {slot, LastWord}
    BY DEF Telling, LastWord, SlotMessage, EventMessage, ClearMessage
  <2> QED
    BY <1>1, <1>2, <1>12, <1>13, <2>1, <2>2, <2>5, <2>6, DownTaken DEF LatestArrives
<1>10. CASE ReceiveClear
  <2>1. /\ NextMessage(ClearMessage) /\ keyboard' = None /\ worker' = worker
        /\ UNCHANGED <<task, cursor, conn>> /\ worker = "idle" /\ down[conn] # <<>>
    BY <1>10 DEF ReceiveClear, NextMessage, ClearDisplay, Write, taskVars, Undisturbed
  <2>2. SUFFICES ASSUME CaughtUp', ~ Confused
                 PROVE  LatestArrives'
    BY <1>12 DEF LatestArrives
  <2>3. CaughtUp
    BY <1>2, <2>1, <2>2 DEF CaughtUp, NoneOwed
  <2>4. Telling(down[conn][Len(down[conn])])
    BY <2>1, <2>2, <2>3 DEF LatestArrives
  <2>5. Telling(ClearMessage) => None \in {slot, LastWord}
    BY DEF Telling, LastWord, SlotMessage, EventMessage, ClearMessage
  <2>6. None \in {slot, LastWord} => Shown'
    BY <1>2, <1>12, <2>1 DEF Shown
  <2> QED
    BY <1>1, <1>13, <2>1, <2>4, <2>5, <2>6, DownTaken DEF LatestArrives
<1>11. CASE FinishShowing
  <2>1. /\ UNCHANGED <<task, cursor, down, conn>> /\ keyboard' = showing
        /\ worker = "showing" /\ worker' = "idle"
    BY <1>11 DEF FinishShowing, Write, taskVars, wireVars, Undisturbed
  <2>2. SUFFICES ASSUME CaughtUp', ~ Confused
                 PROVE  LatestArrives'
    BY <1>12 DEF LatestArrives
  <2>3. CaughtUp
    BY <1>2, <2>1, <2>2 DEF CaughtUp, NoneOwed
  <2>4. showing \in {slot, LastWord} => Shown'
    BY <1>2, <1>12, <2>1 DEF Shown
  <2> QED
    BY <1>12, <1>13, <2>1, <2>2, <2>3, <2>4 DEF LatestArrives
<1> QED
  BY <1>3, <1>4, <1>5, <1>6, <1>7, <1>8, <1>9, <1>10, <1>11

\* What the keyboard shows follows from what is on its way there.
LEMMA AlwaysKeyboard ==
  ASSUME Undisturbed
  PROVE  DeliverySpec => []KeyboardInv
<1>1. DeliveryInit => KeyboardInv
  <2> SUFFICES ASSUME DeliveryInit
               PROVE  KeyboardInv
    OBVIOUS
  <2>1. BoardInv /\ Fresh /\ LatestArrives
    BY DEF DeliveryInit, BoardInit, BoardInv, Fresh, LatestArrives, CaughtUp
  <2>2. commands = <<>> /\ \A c \in Conns : up[c] = <<>> /\ mirror[c] = FALSE
    BY DEF DeliveryInit
  <2>3. Unpaused
    BY <2>2 DEF DeliveryInit, Unpaused
  <2> QED
    BY <2>1, <2>3 DEF KeyboardInv
<1>2. Typed /\ KeyboardInv /\ [DeliveryNext]_vars => KeyboardInv'
  <2> SUFFICES ASSUME Typed, KeyboardInv, [DeliveryNext]_vars
               PROVE  KeyboardInv'
    OBVIOUS
  <2>1. (Serial => BoardInv) /\ Unpaused /\ Fresh /\ LatestArrives
    BY DEF KeyboardInv
  <2>2. Serial => BoardInv'
    BY <2>1, BoardStep
  <2>3. Unpaused'
    BY <2>1, UnpausedStep
  <2>4. Fresh'
    BY <2>1, FreshStep
  <2>5. ASSUME UNCHANGED vars
        PROVE  LatestArrives'
    <3>1. UNCHANGED <<slot, owed, announced, task, cursor, up, down, conn, worker, showing,
                      keyboard>>
      BY <2>5 DEF vars, boardVars, taskVars, wireVars, bridgeVars, screenVars
    <3>2. Dismissing(conn) => Dismissing(conn)'
      BY <3>1 DEF Dismissing
    <3> QED
      BY <2>1, <3>1, <3>2, ArrivesSame
  <2>6. LatestArrives'
    BY <2>1, <2>5, BoardArrives, TaskArrives, BridgeArrives
       DEF DeliveryNext, Environment, System, Worker
  <2> QED
    BY <2>2, <2>3, <2>4, <2>6 DEF KeyboardInv
<1> QED
  BY <1>1, <1>2, AlwaysTyped, PTL DEF DeliverySpec

\* With nothing under way, the keyboard shows what it should.
LEMMA QuietShows ==
  ASSUME KeyboardInv, Quiet, ~ Confused
  PROVE  \/ keyboard \in {slot, LastWord}
         \/ slot = None /\ conn > 1
<1>1. CaughtUp /\ LatestArrives /\ down[conn] = <<>> /\ worker = "idle" /\ up[conn] = <<>>
  BY DEF Quiet, CaughtUp, NoneOwed, KeyboardInv
<1>2. ~ Dismissing(conn)
  BY <1>1 DEF Dismissing
<1> QED
  BY <1>1, <1>2 DEF LatestArrives, Shown

\* Whatever changes of the slot overlap, the bridge settles on what the server said
\* last: handle_bridge_socket and bridge_session lose nothing that counts.
THEOREM LastWordSettles ==
  ASSUME Undisturbed
  PROVE  DeliverySpec => []LastWordIsShown
<1>1. KeyboardInv => LastWordIsShown
  BY QuietShows DEF LastWordIsShown, Confused, Expired
<1> QED
  BY <1>1, AlwaysKeyboard, PTL

\* One change of the slot at a time, the keyboard ends up showing the latest event.
THEOREM KeyboardSettles ==
  ASSUME Undisturbed, Serial
  PROVE  DeliverySpec => []KeyboardAgrees
<1>1. KeyboardInv => KeyboardAgrees
  <2> SUFFICES ASSUME KeyboardInv, Quiet
               PROVE  keyboard = slot \/ (slot = None /\ (conn > 1 \/ keyboard = LastWord))
    BY DEF KeyboardAgrees
  <2>1. keyboard \in {slot, LastWord} \/ (slot = None /\ conn > 1)
    BY QuietShows DEF Confused
  <2>2. slot # None => announced # <<>> /\ announced[Len(announced)] = EventMessage(slot)
    BY DEF KeyboardInv, BoardInv, Expired, Quiet, NoneOwed, SlotMessage
  <2>3. slot # None => LastWord = slot
    BY <2>2 DEF LastWord, EventMessage
  <2> QED
    BY <2>1, <2>3
<1> QED
  BY <1>1, AlwaysKeyboard, PTL

\* handle_bridge_socket misses no event between its snapshot and the broadcasts, with
\* nothing of what the bridge asks for itself.
THEOREM MissesNothing ==
  ASSUME Undisturbed, Serial
  PROVE  DeliverySpec => []NothingMissed
<1>1. ASSUME KeyboardInv, CaughtUp, slot # None
      PROVE  \/ down[conn] # <<>> /\ down[conn][Len(down[conn])] = EventMessage(slot)
             \/ /\ down[conn] = <<>>
                /\ (IF worker = "showing" THEN showing ELSE keyboard) = slot
             \/ down[conn] = <<>> /\ Dismissing(conn)
  <2>1. announced # <<>> /\ announced[Len(announced)] = EventMessage(slot)
    BY <1>1 DEF KeyboardInv, BoardInv, CaughtUp, Expired, SlotMessage
  <2>2. LastWord = slot
    BY <2>1 DEF LastWord, EventMessage
  <2>3. SlotMessage = EventMessage(slot)
    BY <1>1 DEF SlotMessage
  <2>4. LatestArrives /\ ~ Confused
    BY <1>1 DEF KeyboardInv, Confused
  <2> QED
    BY <1>1, <2>1, <2>2, <2>3, <2>4 DEF LatestArrives, Telling, Shown
<1>2. KeyboardInv => NothingMissed
  BY <1>1 DEF NothingMissed
<1> QED
  BY <1>2, AlwaysKeyboard, PTL

---------------------------------------------------------------------------
(***************************************************************************)
(* The board                                                               *)
(***************************************************************************)

\* Every step of the delivery is a step of the board, or leaves it alone.
LEMMA StepOnBoard ==
  ASSUME Typed, [DeliveryNext]_vars
  PROVE  [BoardNext]_boardVars
<1>1. BoardTyped /\ WireTyped /\ WorkerTyped /\ Conns \subseteq Client /\ Posters \subseteq Client
  BY TypedParts, DeliveryAssumption
<1>2. CASE Elsewhere \/ UNCHANGED vars
  BY <1>2, ElsewhereBoard
<1>3. ASSUME NEW p \in Posters, NEW e \in Event, PostEvent(p, e)
      PROVE  BoardNext
  BY <1>1, <1>3 DEF PostEvent, BoardNext
<1>4. ASSUME NEW p \in Posters, DeleteLatest(p)
      PROVE  BoardNext
  BY <1>1, <1>4 DEF DeleteLatest, BoardNext
<1>5. CASE GetExpired
  BY <1>5 DEF GetExpired, BoardNext
<1>6. ASSUME NEW c \in Client, Broadcast(c)
      PROVE  BoardNext
  BY <1>6 DEF Broadcast, BoardNext
<1>7. ASSUME NEW c \in Conns, Snapshot(c) \/ ReadRequestLatest(c)
      PROVE  [BoardNext]_boardVars
  <2>1. slot' \in {slot, None} /\ UNCHANGED <<owed, announced>>
    BY <1>1, <1>7, LiveLatest DEF Snapshot, ReadRequestLatest
  <2>2. CASE slot' = slot
    BY <2>1, <2>2 DEF boardVars
  <2>3. CASE slot' # slot
    <3>1. Lapse
      BY <2>1, <2>3 DEF Lapse
    <3> QED
      BY <3>1 DEF BoardNext
  <2> QED
    BY <2>2, <2>3
<1>8. ASSUME NEW c \in Conns, ReadDismissLatest(c)
      PROVE  [BoardNext]_boardVars
  <2>1. Dismiss(c) \/ UNCHANGED boardVars
    BY <1>8 DEF ReadDismissLatest
  <2> QED
    BY <1>1, <2>1 DEF BoardNext
<1> QED
  BY <1>2, <1>3, <1>4, <1>5, <1>6, <1>7, <1>8
     DEF DeliveryNext, Environment, System, Task, Elsewhere

\* handle_bridge_socket keeps to what the board allows to any client of it, as
\* the HTTP handlers do: its snapshots and dismissals change the slot in no other
\* way, whatever the bridge sends.
THEOREM DeliveryKeepsBoard == DeliverySpec => BoardSpec
<1>1. DeliveryInit => BoardInit
  BY DEF DeliveryInit
<1> QED
  BY <1>1, StepOnBoard, AlwaysTyped, PTL DEF DeliverySpec, BoardSpec

=============================================================================
