---------------------------- MODULE AgentEvents ----------------------------
(***************************************************************************)
(* The events of agent-notify-core (crates/agent-notify-core/src/lib.rs):  *)
(* what a client posts, what the server makes of it, and the rule that     *)
(* decides which of two events is the one to show.                         *)
(*                                                                         *)
(* Texts are values of a set RawField.  The agent, host and repo of an     *)
(* event are only ever compared together, so one value, "item", stands for *)
(* the triple.  The uuid of an event is left out: seq already identifies   *)
(* it.  Its summary, received_at_unix_ms and ttl_seconds are left out too, *)
(* since nothing reads them once expires_at_unix_ms has been computed.     *)
(***************************************************************************)
EXTENDS Integers

CONSTANTS
  None,            (* Option::None                                         *)
  RawField,        (* texts as clients write them                          *)
  Field,           (* texts after normalize_field                          *)
  NormalizeField,  (* RawField -> Field: runs of white space become one    *)
  DefaultTtl,      (* DEFAULT_TTL_SECONDS, in ticks of the clock           *)
  MaxTtl           (* the upper clamp of ttl_seconds, in ticks             *)

ASSUME TextAssumption == NormalizeField \in [RawField -> Field]

ASSUME TtlAssumption == /\ DefaultTtl \in Nat
                        /\ MaxTtl \in Nat
                        /\ 1 <= DefaultTtl
                        /\ DefaultTtl <= MaxTtl

AgentState == {"running", "waiting_input", "done", "failed"}

Priority == 0 .. 255   \* u8

\* "valid" abstracts the five length and blankness checks of into_event.
AgentEventInput == [valid    : BOOLEAN,
                    item     : RawField,
                    run      : RawField \cup {None},
                    state    : AgentState,
                    priority : Priority \cup {None},
                    ttl      : Nat \cup {None}]

AgentEvent == [item     : Field,
               run      : Field \cup {None},
               state    : AgentState,
               priority : Priority,
               expires  : Nat,
               seq      : Nat]

\* None marks the absence of an event, of a run_id, of a priority and of a TTL.
ASSUME NoneAssumption == /\ None \notin AgentEvent
                         /\ None \notin Field
                         /\ None \notin RawField
                         /\ None \notin Priority
                         /\ None \notin Nat

---------------------------------------------------------------------------

DefaultPriority(state) == CASE state = "waiting_input" -> 90
                            [] state = "failed"        -> 80
                            [] state = "done"          -> 50
                            [] state = "running"       -> 20

ClampTtl(ttl) == CASE ttl < 1      -> 1
                   [] ttl > MaxTtl -> MaxTtl
                   [] OTHER        -> ttl

\* Mutated form of IntoEvent: the default priority of the state is forgotten.
IntoEventWithoutDefault(input, clock) ==
  [item     |-> NormalizeField[input.item],
   run      |-> IF input.run = None THEN None ELSE NormalizeField[input.run],
   state    |-> input.state,
   priority |-> input.priority,
   expires  |-> clock + ClampTtl(IF input.ttl = None THEN DefaultTtl
                                                     ELSE input.ttl),
   seq      |-> 0]

\* The event an accepted input becomes; clock is the wall clock when it is read.
IntoEvent(input, clock) ==
  [item     |-> NormalizeField[input.item],
   run      |-> IF input.run = None THEN None ELSE NormalizeField[input.run],
   state    |-> input.state,
   priority |-> IF input.priority = None THEN DefaultPriority(input.state)
                                         ELSE input.priority,
   expires  |-> clock + ClampTtl(IF input.ttl = None THEN DefaultTtl
                                                     ELSE input.ttl),
   seq      |-> 0]

IsLive(event, clock) == event.expires > clock

SameWorkItem(left, right) == \/ left.run # None /\ left.run = right.run
                             \/ left.item = right.item

\* (a.priority, a.seq) > (b.priority, b.seq)
Outranks(a, b) == \/ a.priority > b.priority
                  \/ a.priority = b.priority /\ a.seq > b.seq

\* Mutated forms of ChooseLatest: ties of priority go to whoever stores last;
\* an event has to outrank even an older one of its own work item.
ChooseLatestIgnoringSeq(current, next, clock) ==
  IF /\ current # None
     /\ ~ SameWorkItem(current, next)
     /\ IsLive(current, clock)
     /\ current.priority > next.priority
  THEN current
  ELSE next

ChooseLatestIgnoringItem(current, next, clock) ==
  IF /\ current # None
     /\ IsLive(current, clock)
     /\ Outranks(current, next)
  THEN current
  ELSE next

ChooseLatest(current, next, clock) ==
  IF /\ current # None
     /\ ~ SameWorkItem(current, next)
     /\ IsLive(current, clock)
     /\ Outranks(current, next)
  THEN current
  ELSE next

===========================================================================
