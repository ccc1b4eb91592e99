---------------------------- MODULE LatestBoard ----------------------------
(***************************************************************************)
(* What agent-notify-server promises to whoever reads and follows it       *)
(* (src/main.rs), with its clock, ranking and handlers left out: a board   *)
(* with one slot, and a channel on which every change is announced.        *)
(*                                                                         *)
(* A client that changes the slot owes one announcement of what it left    *)
(* there.  It announces it later, since state.tx.send runs after the mutex *)
(* of state.latest has been released, so announcements may come in another *)
(* order than the changes, but none is lost, repeated or made up.          *)
(***************************************************************************)
EXTENDS Sequences

CONSTANTS
  Client,  (* whoever may change the slot                                  *)
  Event,   (* what the slot may hold                                       *)
  None     (* the empty slot, and the absence of a debt                    *)

VARIABLES
  slot,      (* AppState.latest                                            *)
  owed,      (* the announcement each client still has to make             *)
  announced  (* everything announced so far, AppState.tx                   *)

boardVars == <<slot, owed, announced>>

EventMessage(e) == [type |-> "event", event |-> e]
ClearMessage    == [type |-> "clear", event |-> None]

Message == [type : {"event"}, event : Event] \cup {ClearMessage}

ASSUME BoardAssumption == None \notin Event \cup Message

BoardInit ==
  /\ slot = None
  /\ owed = [c \in Client |-> None]
  /\ announced = <<>>

Owe(c, message) ==
  /\ owed[c] = None
  /\ owed' = [owed EXCEPT ![c] = message]

\* post_event: a new event takes the slot, or loses to the one that is there.
Offer(c) ==
  /\ slot' \in Event
  /\ Owe(c, EventMessage(slot'))
  /\ UNCHANGED announced

\* dismiss_latest; an empty slot has nothing to announce.
Dismiss(c) ==
  /\ slot # None
  /\ slot' = None
  /\ Owe(c, ClearMessage)
  /\ UNCHANGED announced

\* live_latest finds that the TTL has passed, and says nothing.
Lapse ==
  /\ slot # None
  /\ slot' = None
  /\ UNCHANGED <<owed, announced>>

Announce(c) ==
  /\ owed[c] # None
  /\ announced' = Append(announced, owed[c])
  /\ owed' = [owed EXCEPT ![c] = None]
  /\ UNCHANGED slot

BoardNext ==
  \/ \E c \in Client : Offer(c) \/ Dismiss(c) \/ Announce(c)
  \/ Lapse

BoardSpec == BoardInit /\ [][BoardNext]_boardVars

===========================================================================
