--------------------------- MODULE BridgeDelivery ---------------------------
(***************************************************************************)
(* From the server's slot to the keyboard: the socket task that            *)
(* agent-notify-server runs per bridge connection (src/main.rs,            *)
(* handle_bridge_socket), the session that the bridge's worker runs at the *)
(* other end (agent-notify-bridge src/worker.rs, bridge_session), and the  *)
(* tray menu that commands the worker (src/tray.rs).                       *)
(*                                                                         *)
(* The HTTP side is a LatestBoard, which EventServer implements.  Socket   *)
(* tasks are clients of the board too, since a bridge may dismiss.         *)
(*                                                                         *)
(* Connection c is the c-th one the bridge makes.  A session that the      *)
(* bridge has left may have its socket task lingering on the server, still *)
(* reading what was sent before.                                           *)
(***************************************************************************)
EXTENDS LatestBoard, Integers

CONSTANTS
  StateOf,         (* the AgentState of each event                         *)
  TestEvent,       (* the synthetic event of the tray's Test item          *)
  Posters,         (* the HTTP clients                                     *)
  Capacity,        (* of the broadcast channel: 128 in the code            *)
  Serial,          (* whether changes of the slot never overlap            *)
  Expiring,        (* whether events expire                                *)
  MenuItems,       (* the tray menu items in use                           *)
  DisplayOutcomes, (* how a write to the keyboard may end                  *)
  MaxConns,        (* bound: connections, the last of which stays up       *)
  MaxClicks,       (* bound: tray menu clicks                              *)
  MaxDeletes,      (* bound: DELETE requests                               *)
  MaxBeats         (* bound: heartbeats                                    *)

Conns == 1 .. MaxConns

AgentState == {"running", "waiting_input", "done", "failed"}

ASSUME DeliveryAssumption ==
  /\ Client = Posters \cup Conns
  /\ TestEvent \notin Event \cup {None}
  /\ StateOf \in [Event \cup {TestEvent} -> AgentState]
  /\ Capacity \in Nat \ {0}
  /\ Serial \in BOOLEAN /\ Expiring \in BOOLEAN
  /\ MenuItems \subseteq {"test", "dismiss", "pause", "reconnect"}
  /\ "ok" \in DisplayOutcomes
  /\ DisplayOutcomes \subseteq {"ok", "failed", "unacked"}
  /\ {MaxConns, MaxClicks, MaxDeletes, MaxBeats} \subseteq Nat

VARIABLES
  posted,    (* the events posted so far                                   *)
  deletes,   (* how many DELETE requests were made                         *)
  task,      (* where the socket task of each connection stands            *)
  cursor,    (* position of each task's receiver in the broadcast channel  *)
  mirror,    (* each task's copy of the pause flag                         *)
  up,        (* in flight from the bridge, per connection                  *)
  down,      (* in flight to the bridge, per connection                    *)
  conn,      (* the connection of the running session, or the last one     *)
  worker,    (* where the worker stands                                    *)
  showing,   (* the event whose display is under way                       *)
  current,   (* current_state                                              *)
  icon,      (* the last icon given to icon_sink                           *)
  keyboard,  (* what the keyboard was last told to show                    *)
  flag,      (* BridgeRuntimeState.paused                                  *)
  commands,  (* the commands channel from the tray to the worker           *)
  menu,      (* whether the tray's pause item is checked                   *)
  tray,      (* where the tray's handler stands                            *)
  clicks,    (* how often the menu was used                                *)
  beats      (* how many heartbeats were sent                              *)

httpVars   == <<posted, deletes>>
taskVars   == <<task, cursor, mirror>>
wireVars   == <<up, down>>
screenVars == <<showing, current, icon, keyboard>>
trayVars   == <<menu, tray, clicks>>
bridgeVars == <<conn, worker, screenVars, flag, commands, trayVars, beats>>
vars       == <<boardVars, httpVars, taskVars, wireVars, bridgeVars>>

---------------------------------------------------------------------------

Status(paused) == [type |-> "status", paused |-> paused]
RequestLatest  == [type |-> "request_latest", paused |-> FALSE]
DismissLatest  == [type |-> "dismiss_latest", paused |-> FALSE]

BridgeClientMessage ==
  {Status(paused) : paused \in BOOLEAN} \cup {RequestLatest, DismissLatest}

SetPaused(paused) == [item |-> "pause", paused |-> paused]
Choose(item)      == [item |-> item, paused |-> FALSE]

BridgeCommand == {SetPaused(paused) : paused \in BOOLEAN}
                   \cup {Choose(item) : item \in {"test", "dismiss", "reconnect"}}

IconState == AgentState \cup {"idle", "paused"}

EffectiveIcon(state, paused) == IF paused THEN "paused"
                                ELSE IF state = None THEN "idle" ELSE state

DeliveryInit ==
  /\ BoardInit
  /\ posted = {} /\ deletes = 0
  /\ task = [c \in Conns |-> "none"]
  /\ cursor = [c \in Conns |-> 0]
  /\ mirror = [c \in Conns |-> FALSE]
  /\ up = [c \in Conns |-> <<>>]
  /\ down = [c \in Conns |-> <<>>]
  /\ conn = 0 /\ worker = "offline"
  /\ showing = None /\ current = None
  /\ icon = "idle" /\ keyboard = None
  /\ flag = FALSE /\ commands = <<>>
  /\ menu = FALSE /\ tray = "rest" /\ clicks = 0
  /\ beats = 0

---------------------------------------------------------------------------
(***************************************************************************)
(* The HTTP side of the board                                              *)
(***************************************************************************)

\* Serial: nobody changes the slot while an announcement is still owed.
MayChange == Serial => \A c \in Client : owed[c] = None

PostEvent(p, e) ==
  /\ MayChange
  /\ e \notin posted
  /\ posted' = posted \cup {e}
  /\ slot' \in {e, slot} \ {None}
  /\ Offer(p)
  /\ UNCHANGED <<deletes, taskVars, wireVars, bridgeVars>>

DeleteLatest(p) ==
  /\ MayChange
  /\ deletes < MaxDeletes
  /\ deletes' = deletes + 1
  /\ Dismiss(p)
  /\ UNCHANGED <<posted, taskVars, wireVars, bridgeVars>>

GetExpired ==
  /\ Expiring
  /\ Lapse
  /\ UNCHANGED <<httpVars, taskVars, wireVars, bridgeVars>>

\* state.tx.send, by whoever changed the slot.
Broadcast(c) ==
  /\ Announce(c)
  /\ UNCHANGED <<httpVars, taskVars, wireVars, bridgeVars>>

---------------------------------------------------------------------------
(***************************************************************************)
(* The socket task of connection c                                         *)
(***************************************************************************)

\* Mutated form of Subscribe: the receiver starts one message too far.
SubscribePastEnd(c) ==
  /\ task[c] = "accepted"
  /\ task' = [task EXCEPT ![c] = "subscribed"]
  /\ cursor' = [cursor EXCEPT ![c] = Len(announced) + 1]
  /\ UNCHANGED <<boardVars, httpVars, mirror, wireVars, bridgeVars>>

Subscribe(c) ==
  /\ task[c] = "accepted"
  /\ task' = [task EXCEPT ![c] = "subscribed"]
  /\ cursor' = [cursor EXCEPT ![c] = Len(announced)]
  /\ UNCHANGED <<boardVars, httpVars, mirror, wireVars, bridgeVars>>

\* What is sent to a bridge that has left goes nowhere.
SendDown(c, message) ==
  down' = IF c = conn /\ worker # "offline"
          THEN [down EXCEPT ![c] = Append(@, message)]
          ELSE down

\* live_latest, and sending what it returned.  The task does nothing else in
\* between, and its message may stay in flight for any time.
SendLiveLatest(c) ==
  \E live \in {slot} \cup (IF Expiring THEN {None} ELSE {}) :
    /\ slot' = live
    /\ IF live = None THEN UNCHANGED down ELSE SendDown(c, EventMessage(live))

Snapshot(c) ==
  /\ task[c] = "subscribed"
  /\ task' = [task EXCEPT ![c] = "loop"]
  /\ SendLiveLatest(c)
  /\ UNCHANGED <<owed, announced, httpVars, cursor, mirror, up, bridgeVars>>

\* The task is in its select!, not inside dismiss_latest.
Selecting(c) == task[c] = "loop" /\ owed[c] = None

Read(c, message) ==
  /\ Selecting(c)
  /\ up[c] # <<>>
  /\ Head(up[c]) = message
  /\ up' = [up EXCEPT ![c] = Tail(@)]

ReadStatus(c) ==
  /\ \E paused \in BOOLEAN : /\ Read(c, Status(paused))
                             /\ mirror' = [mirror EXCEPT ![c] = paused]
  /\ UNCHANGED <<boardVars, httpVars, task, cursor, down, bridgeVars>>

ReadRequestLatest(c) ==
  /\ Read(c, RequestLatest)
  /\ SendLiveLatest(c)
  /\ UNCHANGED <<owed, announced, httpVars, taskVars, bridgeVars>>

ReadDismissLatest(c) ==
  /\ Read(c, DismissLatest)
  /\ IF slot = None THEN UNCHANGED boardVars ELSE MayChange /\ Dismiss(c)
  /\ UNCHANGED <<httpVars, taskVars, down, bridgeVars>>

\* Mutated form of Lag: a receiver that lagged is replaced by a new one.
LagToEnd(c) ==
  /\ Selecting(c)
  /\ Len(announced) - cursor[c] > Capacity
  /\ cursor' = [cursor EXCEPT ![c] = Len(announced)]
  /\ UNCHANGED <<boardVars, httpVars, task, mirror, wireVars, bridgeVars>>

\* rx.recv(): a receiver left behind by more than the channel holds is told
\* that it lagged, and goes on with the oldest message kept.
Lag(c) ==
  /\ Selecting(c)
  /\ Len(announced) - cursor[c] > Capacity
  /\ cursor' = [cursor EXCEPT ![c] = Len(announced) - Capacity]
  /\ UNCHANGED <<boardVars, httpVars, task, mirror, wireVars, bridgeVars>>

Forward(c) ==
  /\ Selecting(c)
  /\ Len(announced) - cursor[c] \in 1 .. Capacity
  /\ cursor' = [cursor EXCEPT ![c] = @ + 1]
  /\ IF mirror[c] THEN UNCHANGED down ELSE SendDown(c, announced[cursor'[c]])
  /\ UNCHANGED <<boardVars, httpVars, task, mirror, up, bridgeVars>>

\* The peer has gone, or was silent for WS_IDLE_TIMEOUT; what the task has not
\* read is lost.
EndTask(c) ==
  /\ task[c] \in {"accepted", "subscribed", "loop"}
  /\ owed[c] = None
  /\ c # MaxConns
  /\ task' = [task EXCEPT ![c] = "ended"]
  /\ cursor' = [cursor EXCEPT ![c] = 0]
  /\ mirror' = [mirror EXCEPT ![c] = FALSE]
  /\ up' = [up EXCEPT ![c] = <<>>]
  /\ UNCHANGED <<boardVars, httpVars, down, bridgeVars>>

\* Mutated form of Task: the snapshot is taken before the subscription.
TaskSnapshotFirst(c) ==
  \/ /\ task[c] = "accepted"
     /\ task' = [task EXCEPT ![c] = "subscribed"]
     /\ SendLiveLatest(c)
     /\ UNCHANGED <<owed, announced, httpVars, cursor, mirror, up, bridgeVars>>
  \/ /\ task[c] = "subscribed"
     /\ task' = [task EXCEPT ![c] = "loop"]
     /\ cursor' = [cursor EXCEPT ![c] = Len(announced)]
     /\ UNCHANGED <<boardVars, httpVars, mirror, wireVars, bridgeVars>>
  \/ ReadStatus(c) \/ ReadRequestLatest(c) \/ ReadDismissLatest(c)
  \/ Lag(c) \/ Forward(c)

Task(c) ==
  \/ Subscribe(c) \/ Snapshot(c)
  \/ ReadStatus(c) \/ ReadRequestLatest(c) \/ ReadDismissLatest(c)
  \/ Lag(c) \/ Forward(c)

---------------------------------------------------------------------------
(***************************************************************************)
(* The bridge's session                                                    *)
(***************************************************************************)

SendUp(message) == up' = IF task[conn] = "ended"
                         THEN up
                         ELSE [up EXCEPT ![conn] = Append(@, message)]

\* The client end of the socket is dropped, with what was in flight to it.
Leave ==
  /\ worker' = "offline"
  /\ down' = [down EXCEPT ![conn] = <<>>]

Connect ==
  /\ worker = "offline"
  /\ conn < MaxConns
  /\ conn' = conn + 1
  /\ task' = [task EXCEPT ![conn'] = "accepted"]
  /\ worker' = "hello"
  /\ UNCHANGED <<boardVars, httpVars, cursor, mirror, wireVars, screenVars,
                 flag, commands, trayVars, beats>>

\* The server cannot be reached: the session ends before it has begun.
ConnectFails ==
  /\ worker = "offline"
  /\ icon' = "idle"
  /\ UNCHANGED <<boardVars, httpVars, taskVars, wireVars, conn, worker, showing,
                 current, keyboard, flag, commands, trayVars, beats>>

Hello ==
  /\ worker = "hello"
  /\ SendUp(Status(flag))
  /\ worker' = "ask"
  /\ UNCHANGED <<boardVars, httpVars, taskVars, down, conn, screenVars, flag,
                 commands, trayVars, beats>>

\* Mutated form of Ask: the pause flag is not looked at.
AskUnpaused ==
  /\ worker = "ask"
  /\ SendUp(RequestLatest)
  /\ current' = None
  /\ icon' = "idle"
  /\ worker' = "idle"
  /\ UNCHANGED <<boardVars, httpVars, taskVars, down, conn, showing, keyboard,
                 flag, commands, trayVars, beats>>

\* current_state starts from None, whatever the keyboard still shows.
Ask ==
  /\ worker = "ask"
  /\ SendUp(RequestLatest)
  /\ current' = None
  /\ icon' = EffectiveIcon(None, flag)
  /\ worker' = "idle"
  /\ UNCHANGED <<boardVars, httpVars, taskVars, down, conn, showing, keyboard,
                 flag, commands, trayVars, beats>>

\* The socket fails or is closed: a session that ends on its own.
Disconnect ==
  /\ worker \in {"hello", "ask", "idle", "status"}
  /\ conn < MaxConns
  /\ Leave
  /\ icon' = "idle"
  /\ UNCHANGED <<boardVars, httpVars, taskVars, up, conn, showing, current,
                 keyboard, flag, commands, trayVars, beats>>

Heartbeat ==
  /\ worker = "idle"
  /\ beats < MaxBeats
  /\ beats' = beats + 1
  /\ worker' = "status"
  /\ UNCHANGED <<boardVars, httpVars, taskVars, wireVars, conn, screenVars,
                 flag, commands, trayVars>>

\* send_status reads the flag anew.
SendStatus ==
  /\ worker = "status"
  /\ SendUp(Status(flag))
  /\ worker' = "idle"
  /\ UNCHANGED <<boardVars, httpVars, taskVars, down, conn, screenVars, flag,
                 commands, trayVars, beats>>

Receive(command) ==
  /\ worker = "idle"
  /\ commands # <<>>
  /\ Head(commands) = command
  /\ commands' = Tail(commands)

\* Mutated form of HandleSetPaused: no status is sent.
HandleSetPausedQuietly ==
  /\ \E paused \in BOOLEAN :
       /\ Receive(SetPaused(paused))
       /\ flag' = paused
       /\ icon' = EffectiveIcon(current, paused)
  /\ UNCHANGED <<boardVars, httpVars, taskVars, wireVars, conn, worker, showing,
                 current, keyboard, trayVars, beats>>

HandleSetPaused ==
  /\ \E paused \in BOOLEAN :
       /\ Receive(SetPaused(paused))
       /\ flag' = paused
       /\ icon' = EffectiveIcon(current, paused)
  /\ worker' = "status"
  /\ UNCHANGED <<boardVars, httpVars, taskVars, wireVars, conn, showing,
                 current, keyboard, trayVars, beats>>

\* A write to the keyboard: "unacked" when it is obeyed but reported as failed.
Write(content, outcome) ==
  keyboard' = IF outcome = "failed" THEN keyboard ELSE content

\* Test ends the session if the keyboard fails.
HandleTest ==
  /\ Receive(Choose("test"))
  /\ \E outcome \in DisplayOutcomes :
       /\ Write(TestEvent, outcome)
       /\ IF outcome = "ok"
          THEN /\ current' = StateOf[TestEvent]
               /\ icon' = EffectiveIcon(current', flag)
               /\ worker' = "status"
               /\ UNCHANGED down
          ELSE /\ conn < MaxConns
               /\ Leave
               /\ icon' = "idle"
               /\ UNCHANGED current
  /\ UNCHANGED <<boardVars, httpVars, taskVars, up, conn, showing, flag,
                 trayVars, beats>>

\* clear_display, after which the event is forgotten even if the write failed.
ClearDisplay ==
  /\ \E outcome \in DisplayOutcomes : Write(None, outcome)
  /\ current' = None
  /\ icon' = EffectiveIcon(None, flag)

HandleDismiss ==
  /\ Receive(Choose("dismiss"))
  /\ SendUp(DismissLatest)
  /\ ClearDisplay
  /\ worker' = "status"
  /\ UNCHANGED <<boardVars, httpVars, taskVars, down, conn, showing, flag,
                 trayVars, beats>>

\* The DismissLatest cannot be sent: the session ends and the command is lost.
LoseDismiss ==
  /\ Receive(Choose("dismiss"))
  /\ conn < MaxConns
  /\ Leave
  /\ icon' = "idle"
  /\ UNCHANGED <<boardVars, httpVars, taskVars, up, conn, showing, current,
                 keyboard, flag, trayVars, beats>>

HandleReconnect ==
  /\ Receive(Choose("reconnect"))
  /\ conn < MaxConns
  /\ Leave
  /\ UNCHANGED <<boardVars, httpVars, taskVars, up, conn, screenVars, flag,
                 trayVars, beats>>

NextMessage(message) ==
  /\ worker = "idle"
  /\ down[conn] # <<>>
  /\ Head(down[conn]) = message
  /\ down' = [down EXCEPT ![conn] = Tail(@)]

\* Mutated form of ReceiveEvent: pausing is left to the server.
ReceiveEventUnchecked ==
  /\ \E e \in Event : NextMessage(EventMessage(e)) /\ showing' = e
  /\ worker' = "showing"
  /\ UNCHANGED <<boardVars, httpVars, taskVars, up, conn, current, icon,
                 keyboard, flag, commands, trayVars, beats>>

ReceiveEvent ==
  /\ \E e \in Event :
       /\ NextMessage(EventMessage(e))
       /\ IF flag THEN UNCHANGED <<worker, showing>>
                  ELSE worker' = "showing" /\ showing' = e
  /\ UNCHANGED <<boardVars, httpVars, taskVars, up, conn, current, icon,
                 keyboard, flag, commands, trayVars, beats>>

\* Mutated form of FinishShowing: the icon changes even if the write failed.
FinishShowingAnyway ==
  /\ worker = "showing"
  /\ \E outcome \in DisplayOutcomes : Write(showing, outcome)
  /\ current' = StateOf[showing]
  /\ icon' = EffectiveIcon(current', FALSE)
  /\ worker' = "idle"
  /\ showing' = None
  /\ UNCHANGED <<boardVars, httpVars, taskVars, wireVars, conn, flag, commands,
                 trayVars, beats>>

\* display_event returns, some time after the flag was read.
FinishShowing ==
  /\ worker = "showing"
  /\ \E outcome \in DisplayOutcomes :
       /\ Write(showing, outcome)
       /\ IF outcome = "ok"
          THEN /\ current' = StateOf[showing]
               /\ icon' = EffectiveIcon(current', FALSE)
          ELSE UNCHANGED <<current, icon>>
  /\ worker' = "idle"
  /\ showing' = None
  /\ UNCHANGED <<boardVars, httpVars, taskVars, wireVars, conn, flag, commands,
                 trayVars, beats>>

ReceiveClear ==
  /\ NextMessage(ClearMessage)
  /\ ClearDisplay
  /\ UNCHANGED <<boardVars, httpVars, taskVars, up, conn, worker, showing, flag,
                 commands, trayVars, beats>>

Worker ==
  \/ Connect \/ Hello \/ Ask \/ SendStatus
  \/ HandleSetPaused \/ HandleTest \/ HandleDismiss \/ HandleReconnect
  \/ ReceiveEvent \/ FinishShowing \/ ReceiveClear

---------------------------------------------------------------------------
(***************************************************************************)
(* The tray menu                                                           *)
(***************************************************************************)

Click(item) ==
  /\ item \in MenuItems
  /\ tray = "rest"
  /\ clicks < MaxClicks
  /\ clicks' = clicks + 1

\* The flag is stored first, the command sent next.
ClickPause ==
  /\ Click("pause")
  /\ menu' = ~ menu
  /\ flag' = menu'
  /\ tray' = "stored"
  /\ UNCHANGED <<boardVars, httpVars, taskVars, wireVars, conn, worker,
                 screenVars, commands, beats>>

SendPaused ==
  /\ tray = "stored"
  /\ commands' = Append(commands, SetPaused(menu))
  /\ tray' = "rest"
  /\ UNCHANGED <<boardVars, httpVars, taskVars, wireVars, conn, worker,
                 screenVars, flag, menu, clicks, beats>>

ClickItem ==
  /\ \E item \in {"test", "dismiss", "reconnect"} :
       /\ Click(item)
       /\ commands' = Append(commands, Choose(item))
  /\ UNCHANGED <<boardVars, httpVars, taskVars, wireVars, conn, worker,
                 screenVars, flag, menu, tray, beats>>

---------------------------------------------------------------------------

Environment ==
  \/ \E p \in Posters : (\E e \in Event : PostEvent(p, e)) \/ DeleteLatest(p)
  \/ GetExpired
  \/ \E c \in Conns : EndTask(c)
  \/ ConnectFails \/ Disconnect \/ LoseDismiss
  \/ Heartbeat
  \/ ClickPause \/ ClickItem

System ==
  \/ \E c \in Client : Broadcast(c)
  \/ \E c \in Conns : Task(c)
  \/ Worker
  \/ SendPaused

DeliveryNext == Environment \/ System

DeliverySpec == DeliveryInit /\ [][DeliveryNext]_vars

\* The tokio runtimes and the tray's event loop keep scheduling their tasks,
\* and a worker whose socket is dead notices.
Fairness ==
  /\ \A c \in Client : WF_vars(Broadcast(c))
  /\ \A c \in Conns : WF_vars(Task(c))
  /\ WF_vars(Worker)
  /\ WF_vars(conn # 0 /\ task[conn] = "ended" /\ Disconnect)
  /\ WF_vars(SendPaused)

FairDelivery == DeliverySpec /\ Fairness

---------------------------------------------------------------------------
(***************************************************************************)
(* Properties                                                              *)
(***************************************************************************)

\* Every variable holds a value of its type.
DeliveryTypeOK ==
  /\ slot \in Event \cup {None}
  /\ owed \in [Client -> Message \cup {None}]
  /\ announced \in Seq(Message)
  /\ posted \subseteq Event /\ deletes \in Nat
  /\ task \in [Conns -> {"none", "accepted", "subscribed", "loop", "ended"}]
  /\ cursor \in [Conns -> 0 .. Len(announced)]
  /\ mirror \in [Conns -> BOOLEAN]
  /\ up \in [Conns -> Seq(BridgeClientMessage)]
  /\ down \in [Conns -> Seq(Message)]
  /\ conn \in 0 .. MaxConns
  /\ worker \in {"offline", "hello", "ask", "idle", "showing", "status"}
  /\ showing \in Event \cup {None}
  /\ current \in AgentState \cup {None}
  /\ icon \in IconState
  /\ keyboard \in Event \cup {TestEvent, None}
  /\ flag \in BOOLEAN /\ menu \in BOOLEAN
  /\ commands \in Seq(BridgeCommand)
  /\ tray \in {"rest", "stored"}
  /\ clicks \in Nat /\ beats \in Nat

\* The last use of the pause item has reached the worker.
PauseSettled ==
  /\ tray = "rest"
  /\ \A i \in 1 .. Len(commands) : commands[i].item # "pause"

\* Nothing is under way any more, and the bridge is connected.
Quiet ==
  /\ \A c \in Client : owed[c] = None
  /\ worker = "idle" /\ tray = "rest" /\ commands = <<>>
  /\ task[conn] = "loop"
  /\ cursor[conn] = Len(announced)
  /\ up[conn] = <<>> /\ down[conn] = <<>>

\* What was announced last.
LastWord == IF announced = <<>> THEN None ELSE announced[Len(announced)].event

(***************************************************************************)
(* When the slot changes one request at a time, nobody pauses and the      *)
(* keyboard obeys, everything the bridge missed (messages the channel      *)
(* overwrote, messages lost with a connection, changes between the         *)
(* snapshot and the subscription) is made up for: once nothing is under    *)
(* way, the keyboard shows the server's latest event.  Two exceptions are  *)
(* about an empty slot: an event dismissed while the bridge was between    *)
(* two connections may stay on the keyboard, and so may the last event     *)
(* announced, when that has expired.                                       *)
(***************************************************************************)
KeyboardAgrees ==
  Quiet => keyboard = slot \/ (slot = None /\ (conn > 1 \/ keyboard = LastWord))

(***************************************************************************)
(* When changes of the slot overlap, their announcements may come in the   *)
(* other order, and the keyboard may stay on an event that is not the      *)
(* latest (main.rs:130); but then on the one that was announced last, not  *)
(* on any other: no lag, lost connection or late answer adds to the harm.  *)
(***************************************************************************)
LastWordIsShown ==
  Quiet => \/ keyboard \in {slot, LastWord}
           \/ slot = None /\ (conn > 1 \/ Expiring)

\* Every announcement was made.
NoneOwed == \A c \in Client : owed[c] = None

\* The task of the running session has forwarded everything there is.
CaughtUp ==
  /\ worker # "offline" /\ task[conn] = "loop"
  /\ NoneOwed /\ cursor[conn] = Len(announced)

\* A dismissal by the bridge is on its way to socket task c.
Dismissing(c) == \E i \in 1 .. Len(up[c]) : up[c][i] = DismissLatest

(***************************************************************************)
(* When the slot changes one request at a time, a socket task that has     *)
(* forwarded all it received has told the bridge of the latest event, even *)
(* before it reads the bridge's RequestLatest: by a broadcast, or by the   *)
(* snapshot, which it takes after it has subscribed.  The event is the     *)
(* last message in flight, or being displayed, or on the keyboard, or the  *)
(* bridge has dismissed it.                                                *)
(***************************************************************************)
NothingMissed ==
  CaughtUp /\ slot # None =>
    \/ down[conn] # <<>> /\ down[conn][Len(down[conn])] = EventMessage(slot)
    \/ /\ down[conn] = <<>>
       /\ (IF worker = "showing" THEN showing ELSE keyboard) = slot
    \/ down[conn] = <<>> /\ Dismissing(conn)

(***************************************************************************)
(* When the slot changes one request at a time, every event that stays the *)
(* latest one is displayed, whatever the lags and lost connections before  *)
(* it: it is broadcast, or found in the slot by the snapshot of the next   *)
(* connection.                                                             *)
(***************************************************************************)
LatestIsShown == \A e \in Event : slot = e ~> keyboard = e \/ slot # e

(***************************************************************************)
(* Once the worker has handled the last use of the pause item, no event is *)
(* being put on the keyboard while the item is checked: not one whose      *)
(* display began before, nor one a stale command let through.              *)
(***************************************************************************)
PauseIsObeyed == menu /\ PauseSettled => worker # "showing"

(***************************************************************************)
(* The bridge owns the pause state (worker.rs:78): whatever toggles were   *)
(* queued while it was offline and whatever statuses were lost, the flag   *)
(* and the copy kept by the server's socket task end up as the menu says.  *)
(***************************************************************************)
MirrorFollowsMenu == Quiet => flag = menu /\ mirror[conn] = menu

(***************************************************************************)
(* An icon that names a state names the state of what the keyboard shows,  *)
(* through failed writes, tests, reconnections and dismissals, when a      *)
(* write that is reported as failed has not been obeyed.                   *)
(***************************************************************************)
IconNamesKeyboard ==
  icon \in AgentState => keyboard # None /\ StateOf[keyboard] = icon

(***************************************************************************)
(* Once the pause item has settled, a session shows the paused icon        *)
(* exactly when the item is checked.                                       *)
(***************************************************************************)
IconFollowsPause ==
  PauseSettled /\ worker \in {"idle", "status"} => (icon = "paused" <=> menu)

---------------------------------------------------------------------------
(***************************************************************************)
(* What the documentation says and the code does not do                    *)
(***************************************************************************)

(***************************************************************************)
(* worker.rs:206: "The server re-sends the latest event right after        *)
(* connecting, so starting from None (Idle) self-corrects within the first *)
(* round-trip".  With nothing under way, the icon is idle only when the    *)
(* keyboard shows nothing.                                                 *)
(***************************************************************************)
IdleSelfCorrects == Quiet /\ icon = "idle" => keyboard = None

(***************************************************************************)
(* README, Semantics and limits: "the bridge suppresses WebSocket          *)
(* deliveries while paused".  No display of a delivered event begins while *)
(* the pause item is checked and its handler has stored the flag.          *)
(***************************************************************************)
SuppressedWhilePaused ==
  [][worker' = "showing" /\ worker # "showing" => ~ menu]_vars

=============================================================================
