---------------------------- MODULE EventServer ----------------------------
(***************************************************************************)
(* The HTTP half of agent-notify-server (src/main.rs): the handlers of     *)
(* POST /v1/events, GET /v1/events/latest and DELETE /v1/events/latest,    *)
(* run concurrently by the multi-threaded tokio runtime.                   *)
(*                                                                         *)
(* A request is one of the values of Requests and is used once.  Its       *)
(* handler is cut into a step wherever another thread can observe or       *)
(* change what the next line depends on: reading the clock in into_event,  *)
(* seq.fetch_add, the critical section of state.latest, state.tx.send.     *)
(***************************************************************************)
EXTENDS AgentEvents, Sequences, FiniteSets

CONSTANTS
  Requests,     (* the HTTP requests of a behaviour                        *)
  Inputs,       (* what the clients may post                               *)
  MaxInFlight,  (* bound: handlers running at the same time                *)
  MaxClock,     (* bound: last value of the wall clock                     *)
  MaxJumps      (* bound: backward steps of the wall clock                 *)

ASSUME InputsAssumption == Inputs \subseteq AgentEventInput

ASSUME BoundsAssumption == /\ MaxInFlight \in Nat
                           /\ MaxClock \in Nat
                           /\ MaxJumps \in Nat

VARIABLES
  now,     (* SystemTime, in ticks                                         *)
  jumps,   (* how often the clock was set back                             *)
  latest,  (* AppState.latest, under its mutex                             *)
  seq,     (* AppState.seq                                                 *)
  sent,    (* every message given to AppState.tx, in the channel's order   *)
  pc,      (* where each handler stands                                    *)
  event,   (* the event each POST handler made of its input                *)
  chosen,  (* what each handler got out of the critical section            *)
  reply,   (* the answer to each request                                   *)
  seen     (* history: the requests already answered when this one began   *)

clockVars   == <<now, jumps>>
requestVars == <<pc, event, chosen, reply, seen>>
vars        == <<now, jumps, latest, seq, sent, pc, event, chosen, reply, seen>>

---------------------------------------------------------------------------

EventMessage(e) == [type |-> "event", event |-> e]
ClearMessage    == [type |-> "clear", event |-> None]

Message == [type : {"event"}, event : AgentEvent] \cup {ClearMessage}

ASSUME MessageAssumption == None \notin Message

Control == {"idle", "built", "stamped", "stored", "taken", "done"}

Reply == {"pending", "unauthorized", "bad_request", "event", "nothing",
          "dismissed", "not_dismissed"}

Init ==
  /\ now = 0
  /\ jumps = 0
  /\ latest = None
  /\ seq = 0
  /\ sent = <<>>
  /\ pc = [r \in Requests |-> "idle"]
  /\ event = [r \in Requests |-> None]
  /\ chosen = [r \in Requests |-> None]
  /\ reply = [r \in Requests |-> "pending"]
  /\ seen = [r \in Requests |-> {}]

Answered == {r \in Requests : pc[r] = "done"}
InFlight == {r \in Requests : pc[r] \notin {"idle", "done"}}

\* A handler starts: one more request is in flight.
Begin(r) ==
  /\ pc[r] = "idle"
  /\ Cardinality(InFlight) < MaxInFlight
  /\ seen' = [seen EXCEPT ![r] = Answered]

Answer(r, a) ==
  /\ pc' = [pc EXCEPT ![r] = "done"]
  /\ reply' = [reply EXCEPT ![r] = a]

\* require_auth fails, in any of the three handlers.
Unauthorized(r) ==
  /\ Begin(r)
  /\ Answer(r, "unauthorized")
  /\ UNCHANGED <<now, jumps, latest, seq, sent, event, chosen>>

---------------------------------------------------------------------------
(***************************************************************************)
(* post_event                                                              *)
(***************************************************************************)

RejectEvent(r, input) ==
  /\ Begin(r)
  /\ ~ input.valid
  /\ Answer(r, "bad_request")
  /\ UNCHANGED <<now, jumps, latest, seq, sent, event, chosen>>

BuildEvent(r, input) ==
  /\ Begin(r)
  /\ input.valid
  /\ event' = [event EXCEPT ![r] = IntoEvent(input, now)]
  /\ pc' = [pc EXCEPT ![r] = "built"]
  /\ UNCHANGED <<now, jumps, latest, seq, sent, chosen, reply>>

\* event.seq = state.seq.fetch_add(1)
StampSeq(r) ==
  /\ pc[r] = "built"
  /\ event' = [event EXCEPT ![r] = [@ EXCEPT !.seq = seq]]
  /\ seq' = seq + 1
  /\ pc' = [pc EXCEPT ![r] = "stamped"]
  /\ UNCHANGED <<now, jumps, latest, sent, chosen, reply, seen>>

\* The critical section: the clock is read again, by is_live.
StoreLatest(r) ==
  /\ pc[r] = "stamped"
  /\ latest' = ChooseLatest(latest, event[r], now)
  /\ chosen' = [chosen EXCEPT ![r] = latest']
  /\ pc' = [pc EXCEPT ![r] = "stored"]
  /\ UNCHANGED <<now, jumps, seq, sent, event, reply, seen>>

\* Mutated form of BroadcastEvent: the slot is read again after the mutex has
\* been released.
BroadcastSlot(r) ==
  /\ pc[r] = "stored"
  /\ sent' = Append(sent, EventMessage(latest))
  /\ Answer(r, "event")
  /\ UNCHANGED <<now, jumps, latest, seq, event, chosen, seen>>

\* state.tx.send, after the mutex has been released, and the answer.
BroadcastEvent(r) ==
  /\ pc[r] = "stored"
  /\ sent' = Append(sent, EventMessage(chosen[r]))
  /\ Answer(r, "event")
  /\ UNCHANGED <<now, jumps, latest, seq, event, chosen, seen>>

---------------------------------------------------------------------------
(***************************************************************************)
(* get_latest and delete_latest                                            *)
(***************************************************************************)

\* live_latest: what it returns is also what it leaves in the slot.
LiveLatest == IF latest # None /\ IsLive(latest, now) THEN latest ELSE None

GetLatest(r) ==
  /\ Begin(r)
  /\ latest' = LiveLatest
  /\ chosen' = [chosen EXCEPT ![r] = LiveLatest]
  /\ Answer(r, IF LiveLatest = None THEN "nothing" ELSE "event")
  /\ UNCHANGED <<now, jumps, seq, sent, event>>

\* Mutated form of TakeLatest: the event is copied, not taken.
PeekLatest(r) ==
  /\ Begin(r)
  /\ chosen' = [chosen EXCEPT ![r] = latest]
  /\ IF latest = None
     THEN Answer(r, "not_dismissed")
     ELSE /\ pc' = [pc EXCEPT ![r] = "taken"]
          /\ UNCHANGED reply
  /\ UNCHANGED <<now, jumps, latest, seq, sent, event>>

\* dismiss_latest: guard.take()
TakeLatest(r) ==
  /\ Begin(r)
  /\ latest' = None
  /\ chosen' = [chosen EXCEPT ![r] = latest]
  /\ IF latest = None
     THEN Answer(r, "not_dismissed")
     ELSE /\ pc' = [pc EXCEPT ![r] = "taken"]
          /\ UNCHANGED reply
  /\ UNCHANGED <<now, jumps, seq, sent, event>>

\* dismiss_latest: the Clear is sent outside the critical section.
BroadcastClear(r) ==
  /\ pc[r] = "taken"
  /\ sent' = Append(sent, ClearMessage)
  /\ Answer(r, "dismissed")
  /\ UNCHANGED <<now, jumps, latest, seq, event, chosen, seen>>

---------------------------------------------------------------------------
(***************************************************************************)
(* The wall clock: it advances, and NTP may set it back.                   *)
(***************************************************************************)

Tick ==
  /\ now < MaxClock
  /\ now' = now + 1
  /\ UNCHANGED <<jumps, latest, seq, sent, requestVars>>

JumpBack ==
  /\ jumps < MaxJumps
  /\ \E t \in 0 .. now - 1 : now' = t
  /\ jumps' = jumps + 1
  /\ UNCHANGED <<latest, seq, sent, requestVars>>

Handler(r) ==
  \/ Unauthorized(r)
  \/ \E input \in Inputs : RejectEvent(r, input) \/ BuildEvent(r, input)
  \/ StampSeq(r)
  \/ StoreLatest(r)
  \/ BroadcastEvent(r)
  \/ GetLatest(r)
  \/ TakeLatest(r)
  \/ BroadcastClear(r)

Next == (\E r \in Requests : Handler(r)) \/ Tick \/ JumpBack

Spec == Init /\ [][Next]_vars

---------------------------------------------------------------------------
(***************************************************************************)
(* Properties                                                              *)
(***************************************************************************)

\* Every variable holds a value of its type.
TypeOK ==
  /\ now \in Nat
  /\ jumps \in Nat
  /\ latest \in AgentEvent \cup {None}
  /\ seq \in Nat
  /\ sent \in Seq(Message)
  /\ pc \in [Requests -> Control]
  /\ event \in [Requests -> AgentEvent \cup {None}]
  /\ chosen \in [Requests -> AgentEvent \cup {None}]
  /\ reply \in [Requests -> Reply]
  /\ seen \in [Requests -> SUBSET Requests]

\* The POST handlers that have passed the critical section.
Stored == {r \in Requests : /\ event[r] # None
                            /\ pc[r] \in {"stored", "done"}}

\* The DELETE handlers that emptied the slot.
Dismissers == {r \in Requests : pc[r] = "taken" \/ reply[r] = "dismissed"}

StoredEvents == {event[r] : r \in Stored}

\* No two of the stored events are about the same work item.
Unrelated == \A q, r \in Stored : q # r => ~ SameWorkItem(event[q], event[r])

(***************************************************************************)
(* The order in which concurrent POST handlers win the mutex does not      *)
(* matter: among live events of different work items, none of them         *)
(* dismissed, the slot holds the one that ranks first by priority and      *)
(* acceptance order, whichever handler stored last.                        *)
(***************************************************************************)
RankWinner ==
  /\ jumps = 0
  /\ Dismissers = {}
  /\ Unrelated
  /\ \A r \in Stored : IsLive(event[r], now)
  => \A r \in Stored : /\ latest # None
                       /\ latest \in StoredEvents
                       /\ event[r] # latest => Outranks(latest, event[r])

(***************************************************************************)
(* Once a status is stored, the slot never again holds a status of the     *)
(* same work item that had been acknowledged before the newer one was      *)
(* even posted, whatever the priorities, dismissals and clock steps.       *)
(***************************************************************************)
AckedIsSuperseded ==
  \A r \in Stored : \A q \in seen[r] \cap Stored :
    SameWorkItem(event[q], event[r]) => latest # event[q]

(***************************************************************************)
(* A notification is dismissed at most once: two DELETEs that race on it   *)
(* never both report that they dismissed something.                        *)
(***************************************************************************)
DismissedOnce ==
  \A q, r \in Dismissers : q # r => chosen[q] # chosen[r]

(***************************************************************************)
(* A dismissed notification never comes back: no POST handler that was     *)
(* under way when it was dismissed puts it into the slot again.            *)
(***************************************************************************)
DismissedIsGone == \A d \in Dismissers : latest # chosen[d]

(***************************************************************************)
(* README, Semantics and limits: "New events replace earlier events from   *)
(* the same work item".  The slot never holds an event while a newer one   *)
(* of the same work item has been stored.                                  *)
(***************************************************************************)
NewestOfItem ==
  latest # None =>
    \A r \in Stored : SameWorkItem(event[r], latest) => event[r].seq <= latest.seq

---------------------------------------------------------------------------
(***************************************************************************)
(* The server as a board: a handler owes its message from the moment it    *)
(* leaves the critical section until tx.send.                              *)
(***************************************************************************)

Debt(r) == CASE pc[r] = "stored" -> EventMessage(chosen[r])
             [] pc[r] = "taken"  -> ClearMessage
             [] OTHER            -> None

Board == INSTANCE LatestBoard
           WITH Client    <- Requests,
                Event     <- AgentEvent,
                slot      <- latest,
                owed      <- [r \in Requests |-> Debt(r)],
                announced <- sent

(***************************************************************************)
(* The server keeps the promises of the board: every change of the slot by *)
(* post_event or dismiss_latest is broadcast exactly once with what the    *)
(* handler itself put there, whatever the other handlers do meanwhile; an  *)
(* expiry is the only change that is never broadcast.                      *)
(***************************************************************************)
ImplementsBoard == Board!BoardSpec

===========================================================================
