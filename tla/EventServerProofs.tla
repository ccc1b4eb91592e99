------------------------- MODULE EventServerProofs -------------------------
(***************************************************************************)
(* Proofs about EventServer, for any number of requests, any inputs and    *)
(* any bounds.                                                             *)
(*                                                                         *)
(* The inductive invariant is TypeOK /\ Shape /\ Stamps /\ Origin:         *)
(* what a handler holds at each of its lines, that accepted events carry   *)
(* distinct sequence numbers, and that whatever is or was in the slot is   *)
(* an event some POST handler put there.  The properties follow from it,   *)
(* each by an induction of its own.                                        *)
(***************************************************************************)
EXTENDS EventServer, TLAPS

\* What a handler holds at each of its lines.
Shape ==
  \A r \in Requests :
    /\ pc[r] \in {"built", "stamped", "stored"} => event[r] \in AgentEvent
    /\ pc[r] \in {"stored", "taken"} => chosen[r] \in AgentEvent
    /\ pc[r] \in {"idle", "taken"} => event[r] = None
    /\ reply[r] # "pending" <=> pc[r] = "done"
    /\ reply[r] = "dismissed" => event[r] = None /\ chosen[r] \in AgentEvent
    /\ seen[r] \subseteq Answered

\* The handlers that have been given a sequence number.
Stamped == {r \in Requests : /\ event[r] # None
                             /\ pc[r] \in {"stamped", "stored", "done"}}

\* Sequence numbers are never given twice.
Stamps ==
  /\ \A r \in Stamped : event[r].seq < seq
  /\ \A q, r \in Stamped : q # r => event[q].seq # event[r].seq

\* What is or was in the slot was stored there by some POST handler.
Origin ==
  /\ latest # None => latest \in StoredEvents
  /\ \A d \in Dismissers : chosen[d] \in StoredEvents

IInv == TypeOK /\ Shape /\ Stamps /\ Origin

---------------------------------------------------------------------------
(***************************************************************************)
(* What the operators on events return                                     *)
(***************************************************************************)

\* into_event makes a well-formed event of every input it accepts.
LEMMA IntoEventType ==
  ASSUME NEW input \in AgentEventInput, NEW clock \in Nat
  PROVE  IntoEvent(input, clock) \in AgentEvent
<1>1. /\ input.item \in RawField
      /\ input.run \in RawField \cup {None}
      /\ input.state \in AgentState
      /\ input.priority \in Priority \cup {None}
      /\ input.ttl \in Nat \cup {None}
  BY DEF AgentEventInput
<1>2. NormalizeField[input.item] \in Field
  BY <1>1, TextAssumption
<1>3. (IF input.run = None THEN None ELSE NormalizeField[input.run])
        \in Field \cup {None}
  BY <1>1, TextAssumption
<1>4. DefaultPriority(input.state) \in Priority
  BY <1>1 DEF AgentState, DefaultPriority, Priority
<1>5. (IF input.priority = None THEN DefaultPriority(input.state)
                                ELSE input.priority) \in Priority
  BY <1>1, <1>4
<1>6. \A ttl \in Nat : ClampTtl(ttl) \in Nat
  BY TtlAssumption DEF ClampTtl
<1>7. clock + ClampTtl(IF input.ttl = None THEN DefaultTtl ELSE input.ttl) \in Nat
  BY <1>1, <1>6, TtlAssumption
<1> QED
  BY <1>1, <1>2, <1>3, <1>5, <1>7 DEF IntoEvent, AgentEvent

\* choose_latest returns one of its arguments.
LEMMA ChooseLatestIsOne ==
  ASSUME NEW current, NEW next, NEW clock
  PROVE  ChooseLatest(current, next, clock) \in {current, next} \ ({None} \ {next})
BY DEF ChooseLatest

\* Ranking by priority and acceptance order is transitive.
LEMMA OutranksTransitive ==
  ASSUME NEW a \in AgentEvent, NEW b \in AgentEvent, NEW c \in AgentEvent,
         Outranks(a, b), Outranks(b, c)
  PROVE  Outranks(a, c)
<1>1. \A e \in AgentEvent : e.priority \in Int /\ e.seq \in Int
  BY DEF AgentEvent, Priority
<1>2. /\ a.priority \in Int /\ a.seq \in Int
      /\ b.priority \in Int /\ b.seq \in Int
      /\ c.priority \in Int /\ c.seq \in Int
  BY <1>1
<1> QED
  BY <1>2 DEF Outranks

---------------------------------------------------------------------------
(***************************************************************************)
(* The inductive invariant                                                 *)
(***************************************************************************)

LEMMA InitIInv == Init => IInv
<1> SUFFICES ASSUME Init PROVE IInv
  OBVIOUS
<1>1. TypeOK
  BY DEF Init, TypeOK, Control, Reply
<1>2. Shape
  BY DEF Init, Shape
<1>3. Stamped = {} /\ StoredEvents = {} /\ Dismissers = {}
  BY DEF Init, Stamped, StoredEvents, Stored, Dismissers
<1>4. Stamps /\ Origin
  BY <1>3 DEF Init, Stamps, Origin
<1> QED
  BY <1>1, <1>2, <1>4 DEF IInv

\* One handler step moves one handler, and never back from "done".
LEMMA NextIInv == IInv /\ [Next]_vars => IInv'
<1> SUFFICES ASSUME IInv, [Next]_vars PROVE IInv'
  OBVIOUS
<1> USE DEF IInv
<1>1. ASSUME NEW r \in Requests, Unauthorized(r) PROVE IInv'
  <2>1. TypeOK'
    BY <1>1 DEF TypeOK, Unauthorized, Begin, Answer, Control, Reply, Answered
  <2>2. Shape'
    BY <1>1 DEF TypeOK, Shape, Unauthorized, Begin, Answer, Answered
  <2>3. Stamped' = Stamped /\ StoredEvents' = StoredEvents /\ Dismissers' = Dismissers
    BY <1>1 DEF TypeOK, Shape, Unauthorized, Begin, Answer, Stamped, Stored,
                StoredEvents, Dismissers
  <2> QED
    BY <1>1, <2>1, <2>2, <2>3 DEF Stamps, Origin, Unauthorized
<1>2. ASSUME NEW r \in Requests, NEW input \in Inputs, RejectEvent(r, input)
      PROVE  IInv'
  <2>1. TypeOK'
    BY <1>2 DEF TypeOK, RejectEvent, Begin, Answer, Control, Reply, Answered
  <2>2. Shape'
    BY <1>2 DEF TypeOK, Shape, RejectEvent, Begin, Answer, Answered
  <2>3. Stamped' = Stamped /\ StoredEvents' = StoredEvents /\ Dismissers' = Dismissers
    BY <1>2 DEF TypeOK, Shape, RejectEvent, Begin, Answer, Stamped, Stored,
                StoredEvents, Dismissers
  <2> QED
    BY <1>2, <2>1, <2>2, <2>3 DEF Stamps, Origin, RejectEvent
<1>3. ASSUME NEW r \in Requests, NEW input \in Inputs, BuildEvent(r, input)
      PROVE  IInv'
  <2>1. IntoEvent(input, now) \in AgentEvent
    BY IntoEventType, InputsAssumption DEF TypeOK
  <2>2. TypeOK'
    BY <1>3, <2>1 DEF TypeOK, BuildEvent, Begin, Control, Answered
  <2>3. Shape'
    BY <1>3, <2>1 DEF TypeOK, Shape, BuildEvent, Begin, Answered
  <2>4. Stamped' = Stamped /\ StoredEvents' = StoredEvents /\ Dismissers' = Dismissers
    BY <1>3 DEF TypeOK, Shape, BuildEvent, Begin, Stamped, Stored,
                StoredEvents, Dismissers
  <2>5. \A q \in Stamped : event'[q] = event[q]
    BY <1>3 DEF TypeOK, BuildEvent, Begin, Stamped
  <2>6. \A d \in Dismissers : chosen'[d] = chosen[d]
    BY <1>3 DEF BuildEvent
  <2> QED
    BY <1>3, <2>2, <2>3, <2>4, <2>5, <2>6 DEF Stamps, Origin, BuildEvent
<1>4. ASSUME NEW r \in Requests, StampSeq(r) PROVE IInv'
  <2>1. /\ event[r] \in AgentEvent
        /\ event'[r] = [event[r] EXCEPT !.seq = seq]
        /\ event'[r] \in AgentEvent
        /\ event'[r].seq = seq
        /\ \A q \in Requests : q # r => event'[q] = event[q] /\ pc'[q] = pc[q]
        /\ pc'[r] = "stamped"
    BY <1>4 DEF TypeOK, Shape, StampSeq, AgentEvent
  <2>2. TypeOK'
    BY <1>4, <2>1 DEF TypeOK, StampSeq, Control
  <2>3. Shape'
    BY <1>4, <2>1 DEF TypeOK, Shape, StampSeq, Answered
  <2>4. r \notin Stamped /\ Stamped' = Stamped \cup {r}
    <3>1. pc[r] = "built" /\ event'[r] # None
      BY <1>4, <2>1, NoneAssumption DEF StampSeq
    <3> QED
      BY <2>1, <3>1 DEF Stamped
  <2>5. Stored' = Stored /\ r \notin Stored /\ Dismissers' = Dismissers
    BY <1>4, <2>1 DEF TypeOK, StampSeq, Stored, Dismissers
  <2>6. StoredEvents' = StoredEvents
    BY <2>1, <2>5 DEF StoredEvents, Stored
  <2>7. seq' = seq + 1 /\ seq \in Nat
    BY <1>4 DEF TypeOK, StampSeq
  <2>8. \A q \in Stamped : event[q].seq \in Nat /\ event[q].seq < seq
    BY NoneAssumption DEF Stamps, Stamped, TypeOK, AgentEvent
  <2>9. Stamps'
    <3>1. \A q \in Stamped : q # r /\ event'[q] = event[q]
      BY <2>1, <2>4 DEF Stamped
    <3>2. \A q \in Stamped : event'[q].seq \in Nat /\ event'[q].seq < seq
      BY <2>8, <3>1
    <3>3. ASSUME NEW n \in Nat, n < seq PROVE n < seq + 1 /\ n # seq
      BY <2>7, <3>3
    <3>4. \A q \in Stamped : event'[q].seq < seq + 1 /\ event'[q].seq # seq
      BY <3>2, <3>3
    <3>5. seq < seq + 1
      BY <2>7
    <3>6. \A q \in Stamped' : event'[q].seq < seq'
      BY <2>1, <2>4, <2>7, <3>4, <3>5, Zenon
    <3>7. \A p, q \in Stamped : p # q => event'[p].seq # event'[q].seq
      BY <3>1 DEF Stamps
    <3>8. \A p, q \in Stamped' : p # q => event'[p].seq # event'[q].seq
      BY <2>1, <2>4, <3>4, <3>7, Zenon
    <3> QED
      BY <3>6, <3>8 DEF Stamps
  <2>10. Origin'
    BY <1>4, <2>5, <2>6 DEF Origin, StampSeq
  <2> QED
    BY <2>2, <2>3, <2>9, <2>10
<1>5. ASSUME NEW r \in Requests, StoreLatest(r) PROVE IInv'
  <2>1. /\ event[r] \in AgentEvent
        /\ latest' \in {latest, event[r]}
        /\ latest' \in AgentEvent
        /\ chosen'[r] = latest'
    BY <1>5, ChooseLatestIsOne, NoneAssumption DEF TypeOK, Shape, StoreLatest
  <2>2. TypeOK'
    BY <1>5, <2>1 DEF TypeOK, StoreLatest, Control
  <2>3. Shape'
    BY <1>5, <2>1 DEF TypeOK, Shape, StoreLatest, Answered
  <2>4. Stamped' = Stamped
    BY <1>5, <2>1 DEF TypeOK, StoreLatest, Stamped
  <2>5. Stored' = Stored \cup {r} /\ Dismissers' = Dismissers /\ r \notin Dismissers
    BY <1>5, <2>1, NoneAssumption DEF TypeOK, Shape, StoreLatest, Stored, Dismissers
  <2>6. StoredEvents' = StoredEvents \cup {event[r]}
    BY <1>5, <2>5 DEF StoredEvents, StoreLatest
  <2>7. \A d \in Dismissers : chosen'[d] = chosen[d]
    BY <1>5, <2>5 DEF StoreLatest
  <2>8. Stamps'
    BY <1>5, <2>4 DEF Stamps, StoreLatest
  <2>9. Origin'
    BY <2>1, <2>5, <2>6, <2>7 DEF Origin
  <2> QED
    BY <2>2, <2>3, <2>8, <2>9
<1>6. ASSUME NEW r \in Requests, BroadcastEvent(r) PROVE IInv'
  <2>1. EventMessage(chosen[r]) \in Message
    BY <1>6 DEF Shape, BroadcastEvent, EventMessage, Message
  <2>2. TypeOK'
    BY <1>6, <2>1 DEF TypeOK, BroadcastEvent, Answer, Control, Reply
  <2>3. Shape'
    BY <1>6 DEF TypeOK, Shape, BroadcastEvent, Answer, Answered
  <2>4. Stamped' = Stamped /\ Stored' = Stored /\ Dismissers' = Dismissers
    BY <1>6 DEF TypeOK, Shape, BroadcastEvent, Answer, Stamped, Stored, Dismissers
  <2> QED
    BY <1>6, <2>2, <2>3, <2>4 DEF Stamps, Origin, StoredEvents, BroadcastEvent
<1>7. ASSUME NEW r \in Requests, GetLatest(r) PROVE IInv'
  <2>1. LiveLatest \in {latest, None}
    BY DEF LiveLatest
  <2>2. TypeOK'
    BY <1>7, <2>1 DEF TypeOK, GetLatest, Begin, Answer, Control, Reply, Answered
  <2>3. Shape'
    BY <1>7 DEF TypeOK, Shape, GetLatest, Begin, Answer, Answered
  <2>4. Stamped' = Stamped /\ Stored' = Stored /\ Dismissers' = Dismissers
    BY <1>7 DEF TypeOK, Shape, GetLatest, Begin, Answer, Stamped, Stored, Dismissers
  <2>5. r \notin Dismissers
    BY <1>7 DEF Shape, GetLatest, Begin, Dismissers
  <2> QED
    BY <1>7, <2>1, <2>2, <2>3, <2>4, <2>5 DEF Stamps, Origin, StoredEvents, GetLatest
<1>8. ASSUME NEW r \in Requests, TakeLatest(r) PROVE IInv'
  <2>1. TypeOK'
    BY <1>8 DEF TypeOK, TakeLatest, Begin, Answer, Control, Reply, Answered
  <2>2. Shape'
    BY <1>8 DEF TypeOK, Shape, TakeLatest, Begin, Answer, Answered
  <2>3. event[r] = None /\ event' = event
    BY <1>8 DEF Shape, TakeLatest, Begin
  <2>4. Stamped' = Stamped /\ Stored' = Stored
    BY <1>8, <2>3 DEF TypeOK, Shape, TakeLatest, Begin, Answer, Stamped, Stored
  <2>5. Dismissers' = IF latest = None THEN Dismissers ELSE Dismissers \cup {r}
    BY <1>8 DEF TypeOK, Shape, TakeLatest, Begin, Answer, Dismissers
  <2>6. r \notin Dismissers
    BY <1>8 DEF Shape, TakeLatest, Begin, Dismissers
  <2>7. chosen'[r] = latest /\ latest' = None
    BY <1>8 DEF TypeOK, TakeLatest
  <2>8. \A d \in Dismissers : chosen'[d] = chosen[d]
    BY <1>8, <2>6 DEF TakeLatest
  <2>9. Origin'
    BY <2>3, <2>4, <2>5, <2>7, <2>8 DEF Origin, StoredEvents
  <2>10. Stamps'
    BY <1>8, <2>4 DEF Stamps, TakeLatest
  <2> QED
    BY <2>1, <2>2, <2>9, <2>10
<1>9. ASSUME NEW r \in Requests, BroadcastClear(r) PROVE IInv'
  <2>1. TypeOK'
    BY <1>9 DEF TypeOK, BroadcastClear, Answer, Control, Reply, Message
  <2>2. Shape'
    BY <1>9 DEF TypeOK, Shape, BroadcastClear, Answer, Answered
  <2>3. Stamped' = Stamped /\ Stored' = Stored /\ Dismissers' = Dismissers
    BY <1>9 DEF TypeOK, Shape, BroadcastClear, Answer, Stamped, Stored, Dismissers
  <2> QED
    BY <1>9, <2>1, <2>2, <2>3 DEF Stamps, Origin, StoredEvents, BroadcastClear
<1>10. CASE Tick \/ JumpBack \/ UNCHANGED vars
  <2>1. /\ now' \in Nat
        /\ jumps' \in Nat
        /\ UNCHANGED <<latest, seq, sent, requestVars>>
    BY <1>10 DEF TypeOK, Tick, JumpBack, vars, requestVars
  <2> QED
    BY <2>1 DEF TypeOK, Shape, Stamps, Origin, Stamped, Stored, StoredEvents,
                Dismissers, Answered, requestVars
<1> QED
  BY <1>1, <1>2, <1>3, <1>4, <1>5, <1>6, <1>7, <1>8, <1>9, <1>10
     DEF Next, Handler

THEOREM InductiveInvariant == Spec => []IInv
<1> QED
  BY InitIInv, NextIInv, PTL DEF Spec

\* Every variable holds a value of its type, in every reachable state.
THEOREM TypeCorrect == Spec => []TypeOK
<1>1. IInv => TypeOK
  BY DEF IInv
<1> QED
  BY <1>1, InductiveInvariant, PTL

---------------------------------------------------------------------------
(***************************************************************************)
(* What a step does to the slot                                            *)
(***************************************************************************)

Unchanging == Stored' = Stored /\ Dismissers' = Dismissers

\* The critical section of post_event.
Stores(r) == /\ r \in Stamped \ Stored
             /\ Stored' = Stored \cup {r}
             /\ Dismissers' = Dismissers
             /\ event'[r] = event[r]
             /\ seen'[r] = seen[r]
             /\ r \notin seen[r]
             /\ \A q \in Stored : r \notin seen[q]
             /\ latest' = ChooseLatest(latest, event[r], now)
             /\ now' = now

\* The critical section of dismiss_latest, when there is something to take.
Takes(r) == /\ r \in Requests \ Dismissers
            /\ Stored' = Stored
            /\ Dismissers' = Dismissers \cup {r}
            /\ chosen'[r] = latest
            /\ latest # None
            /\ latest' = None

Keeps == Unchanging /\ latest' = latest

\* live_latest, when the event in the slot has expired.
Lapses == /\ Unchanging
          /\ latest # None => ~ IsLive(latest, now)
          /\ latest' = None
          /\ now' = now

\* Every step leaves what was stored or dismissed as it was, and changes the
\* slot in one of four ways.
LEMMA SlotStep ==
  ASSUME IInv, [Next]_vars
  PROVE  /\ \A r \in Stored : event'[r] = event[r] /\ seen'[r] = seen[r]
         /\ \A d \in Dismissers : chosen'[d] = chosen[d]
         /\ jumps' = 0 => jumps = 0 /\ now <= now'
         /\ \/ Keeps
            \/ Lapses
            \/ \E r \in Requests : Stores(r) \/ Takes(r)
<1> USE DEF IInv
<1>1. ASSUME NEW r \in Requests, \/ Unauthorized(r)
                                 \/ \E input \in Inputs : RejectEvent(r, input)
      PROVE  /\ Keeps
             /\ \A q \in Stored : event'[q] = event[q] /\ seen'[q] = seen[q]
             /\ \A d \in Dismissers : chosen'[d] = chosen[d]
             /\ UNCHANGED <<now, jumps>>
  BY <1>1 DEF TypeOK, Shape, Unauthorized, RejectEvent, Begin, Answer, Stored,
              Dismissers, Keeps, Unchanging
<1>2. ASSUME NEW r \in Requests, NEW input \in Inputs, BuildEvent(r, input)
      PROVE  /\ Keeps
             /\ \A q \in Stored : event'[q] = event[q] /\ seen'[q] = seen[q]
             /\ \A d \in Dismissers : chosen'[d] = chosen[d]
             /\ UNCHANGED <<now, jumps>>
  BY <1>2 DEF TypeOK, Shape, BuildEvent, Begin, Stored, Dismissers, Keeps, Unchanging
<1>3. ASSUME NEW r \in Requests, StampSeq(r)
      PROVE  /\ Keeps
             /\ \A q \in Stored : event'[q] = event[q] /\ seen'[q] = seen[q]
             /\ \A d \in Dismissers : chosen'[d] = chosen[d]
             /\ UNCHANGED <<now, jumps>>
  BY <1>3 DEF TypeOK, Shape, StampSeq, Stored, Dismissers, Keeps, Unchanging
<1>4. ASSUME NEW r \in Requests, StoreLatest(r)
      PROVE  /\ Stores(r)
             /\ \A q \in Stored : event'[q] = event[q] /\ seen'[q] = seen[q]
             /\ \A d \in Dismissers : chosen'[d] = chosen[d]
             /\ UNCHANGED <<now, jumps>>
  <2>1. event[r] # None /\ pc[r] = "stamped" /\ pc'[r] = "stored" /\ event' = event
    BY <1>4, NoneAssumption DEF TypeOK, Shape, StoreLatest
  <2>2. r \in Stamped \ Stored /\ Stored' = Stored \cup {r}
    BY <1>4, <2>1 DEF TypeOK, Stamped, Stored, StoreLatest
  <2>3. Dismissers' = Dismissers /\ r \notin Dismissers
    BY <1>4 DEF TypeOK, Shape, StoreLatest, Dismissers
  <2>4. \A q \in Requests : r \notin seen[q]
    BY <2>1 DEF Shape, Answered
  <2> QED
    BY <1>4, <2>1, <2>2, <2>3, <2>4 DEF Stores, StoreLatest, Stored
<1>5. ASSUME NEW r \in Requests, BroadcastEvent(r) \/ BroadcastClear(r)
      PROVE  /\ Keeps
             /\ \A q \in Stored : event'[q] = event[q] /\ seen'[q] = seen[q]
             /\ \A d \in Dismissers : chosen'[d] = chosen[d]
             /\ UNCHANGED <<now, jumps>>
  BY <1>5 DEF TypeOK, Shape, BroadcastEvent, BroadcastClear, Answer, Stored,
              Dismissers, Keeps, Unchanging
<1>6. ASSUME NEW r \in Requests, GetLatest(r)
      PROVE  /\ Keeps \/ Lapses
             /\ \A q \in Stored : event'[q] = event[q] /\ seen'[q] = seen[q]
             /\ \A d \in Dismissers : chosen'[d] = chosen[d]
             /\ UNCHANGED <<now, jumps>>
  <2>1. Unchanging
    BY <1>6 DEF TypeOK, Shape, GetLatest, Begin, Answer, Stored, Dismissers, Unchanging
  <2>2. r \notin Dismissers /\ r \notin Stored
    BY <1>6 DEF Shape, GetLatest, Begin, Dismissers, Stored
  <2>3. Keeps \/ Lapses
    BY <1>6, <2>1 DEF GetLatest, LiveLatest, Keeps, Lapses
  <2> QED
    BY <1>6, <2>2, <2>3 DEF TypeOK, GetLatest, Begin, Stored, Dismissers
<1>7. ASSUME NEW r \in Requests, TakeLatest(r)
      PROVE  /\ Keeps \/ Takes(r)
             /\ \A q \in Stored : event'[q] = event[q] /\ seen'[q] = seen[q]
             /\ \A d \in Dismissers : chosen'[d] = chosen[d]
             /\ UNCHANGED <<now, jumps>>
  <2>1. r \notin Dismissers /\ r \notin Stored
    BY <1>7 DEF Shape, TakeLatest, Begin, Dismissers, Stored
  <2>2. Stored' = Stored
    BY <1>7 DEF TypeOK, Shape, TakeLatest, Begin, Answer, Stored
  <2>3. CASE latest = None
    <3>1. Dismissers' = Dismissers
      BY <1>7, <2>3 DEF TypeOK, Shape, TakeLatest, Begin, Answer, Dismissers
    <3> QED
      BY <1>7, <2>1, <2>2, <2>3, <3>1 DEF TypeOK, TakeLatest, Begin, Keeps,
              Unchanging, Stored, Dismissers
  <2>4. CASE latest # None
    <3>1. Dismissers' = Dismissers \cup {r}
      BY <1>7, <2>4 DEF TypeOK, Shape, TakeLatest, Begin, Answer, Dismissers
    <3> QED
      BY <1>7, <2>1, <2>2, <2>4, <3>1 DEF TypeOK, TakeLatest, Begin, Takes,
              Stored, Dismissers
  <2> QED
    BY <2>3, <2>4
<1>8. CASE Tick \/ JumpBack \/ UNCHANGED vars
  BY <1>8 DEF TypeOK, Tick, JumpBack, vars, requestVars, Keeps, Unchanging,
              Stored, Dismissers
<1>9. now \in Nat /\ jumps \in Nat
  BY DEF TypeOK
<1> QED
  BY <1>1, <1>2, <1>3, <1>4, <1>5, <1>6, <1>7, <1>8, <1>9 DEF Next, Handler

---------------------------------------------------------------------------
(***************************************************************************)
(* The properties                                                          *)
(***************************************************************************)

\* Stored events are told apart by their sequence numbers.
LEMMA StoredFacts ==
  ASSUME IInv
  PROVE  /\ Stored \subseteq Stamped
         /\ \A r \in Stamped : event[r] \in AgentEvent
         /\ \A q, r \in Stamped : q # r => event[q] # event[r]
         /\ None \notin StoredEvents
BY NoneAssumption DEF IInv, TypeOK, Shape, Stamps, Stored, Stamped, StoredEvents

\* A dismissed notification never comes back, and is dismissed once.
THEOREM DismissedForGood == Spec => [](DismissedIsGone /\ DismissedOnce)
<1> DEFINE Gone == DismissedIsGone /\ DismissedOnce
<1>1. Init => Gone
  BY DEF Init, DismissedIsGone, DismissedOnce, Dismissers
<1>2. IInv /\ Gone /\ [Next]_vars => Gone'
  <2> SUFFICES ASSUME IInv, Gone, [Next]_vars PROVE Gone'
    OBVIOUS
  <2>1. \A d \in Dismissers : chosen'[d] = chosen[d] /\ chosen[d] # None
                                                     /\ chosen[d] \in StoredEvents
    BY SlotStep, StoredFacts DEF IInv, Origin
  <2>2. CASE Keeps \/ Lapses
    BY <2>1, <2>2 DEF Keeps, Lapses, Unchanging, DismissedIsGone, DismissedOnce
  <2>3. ASSUME NEW r \in Requests, Stores(r) PROVE Gone'
    <3>1. latest' \in {latest, event[r]}
      BY <2>3, ChooseLatestIsOne DEF Stores
    <3>2. event[r] \notin StoredEvents
      BY <2>3, StoredFacts DEF Stores, StoredEvents
    <3> QED
      BY <2>1, <2>3, <3>1, <3>2 DEF Stores, DismissedIsGone, DismissedOnce
  <2>4. ASSUME NEW r \in Requests, Takes(r) PROVE Gone'
    BY <2>1, <2>4 DEF Takes, DismissedIsGone, DismissedOnce
  <2> QED
    BY <2>2, <2>3, <2>4, SlotStep
<1> QED
  BY <1>1, <1>2, InductiveInvariant, PTL DEF Spec

\* The slot never holds an event that a DELETE or a bridge has dismissed: the
\* part of DismissedForGood that take() in dismiss_latest is there for.
THEOREM DismissedStaysGone == Spec => []DismissedIsGone
BY DismissedForGood, PTL

\* An acknowledged status is never in the slot once a later status of its
\* work item has been stored.
THEOREM AckedStaysSuperseded == Spec => []AckedIsSuperseded
<1>1. Init => AckedIsSuperseded
  BY DEF Init, AckedIsSuperseded, Stored
<1>2. IInv /\ AckedIsSuperseded /\ [Next]_vars => AckedIsSuperseded'
  <2> SUFFICES ASSUME IInv, AckedIsSuperseded, [Next]_vars,
                      NEW r \in Stored', NEW q \in seen'[r] \cap Stored',
                      SameWorkItem(event'[q], event'[r])
               PROVE  latest' # event'[q]
    BY DEF AckedIsSuperseded
  <2>1. \A p \in Stored : /\ event'[p] = event[p] /\ seen'[p] = seen[p]
                          /\ event[p] # None
    BY SlotStep DEF Stored
  <2>2. CASE Keeps \/ Lapses
    BY <2>1, <2>2 DEF Keeps, Lapses, Unchanging, AckedIsSuperseded
  <2>3. ASSUME NEW s \in Requests, Stores(s) PROVE latest' # event'[q]
    <3>1. q # s /\ q \in Stored
      BY <2>1, <2>3 DEF Stores
    <3>2. event[q] # event[s] /\ event'[q] = event[q]
      BY <2>1, <2>3, <3>1, StoredFacts DEF Stores
    <3>3. latest' \in {latest, event[s]}
      BY <2>3, ChooseLatestIsOne DEF Stores
    <3>4. CASE r = s
      \* The newcomer replaces an event of its own work item.
      BY <2>3, <3>2, <3>4 DEF Stores, ChooseLatest
    <3>5. CASE r # s
      <4>1. r \in Stored /\ latest # event[q]
        BY <2>1, <2>3, <3>1, <3>2, <3>5 DEF Stores, AckedIsSuperseded
      <4> QED
        BY <3>2, <3>3, <4>1
    <3> QED
      BY <3>4, <3>5
  <2>4. ASSUME NEW s \in Requests, Takes(s) PROVE latest' # event'[q]
    BY <2>1, <2>4 DEF Takes
  <2> QED
    BY <2>2, <2>3, <2>4, SlotStep
<1> QED
  BY <1>1, <1>2, InductiveInvariant, PTL DEF Spec

\* Among live events of different work items the slot holds the one of the
\* highest rank, whatever the order in which the handlers stored them.
THEOREM RankIsRespected == Spec => []RankWinner
<1> DEFINE Calm(time) == /\ Unrelated
                         /\ \A p \in Stored : IsLive(event[p], time)
           Winner(e) == \A p \in Stored : /\ e # None
                                          /\ e \in StoredEvents
                                          /\ event[p] # e => Outranks(e, event[p])
<1>1. Init => RankWinner
  BY DEF Init, RankWinner, Stored
<1>2. IInv /\ RankWinner /\ [Next]_vars => RankWinner'
  <2> SUFFICES ASSUME IInv, RankWinner, [Next]_vars,
                      (jumps = 0)', (Dismissers = {})', Unrelated',
                      (\A p \in Stored : IsLive(event[p], now))',
                      NEW r \in Stored'
               PROVE  /\ latest' # None
                      /\ latest' \in StoredEvents'
                      /\ event'[r] # latest' => Outranks(latest', event'[r])
    BY DEF RankWinner
  <2>1. /\ \A p \in Stored : event'[p] = event[p] /\ event[p] \in AgentEvent
        /\ jumps = 0
        /\ now <= now'
        /\ now \in Int /\ now' \in Int
    BY SlotStep, StoredFacts, NextIInv DEF IInv, TypeOK
  <2>2. ASSUME Stored \subseteq Stored' PROVE Calm(now)
    <3>1. \A p \in Stored : p \in Stored' /\ event'[p].expires > now'
      BY <2>2 DEF IsLive
    <3>2. \A p \in Stored : event[p].expires > now' /\ event[p].expires \in Int
      BY <2>1, <3>1 DEF AgentEvent
    <3>3. \A x \in Int : x > now' => x > now
      BY <2>1
    <3>4. Unrelated
      BY <2>1, <2>2 DEF Unrelated
    <3> QED
      BY <3>2, <3>3, <3>4 DEF IsLive
  <2>3. ASSUME Stored \subseteq Stored', Dismissers = {} PROVE Winner(latest)
    BY <2>1, <2>2, <2>3 DEF RankWinner
  <2>4. CASE Keeps
    <3>1. Stored' = Stored /\ Dismissers = {} /\ latest' = latest
      BY <2>4 DEF Keeps, Unchanging
    <3>2. StoredEvents' = StoredEvents
      BY <2>1, <3>1 DEF StoredEvents
    <3> QED
      BY <2>1, <2>3, <3>1, <3>2
  <2>5. CASE Lapses
    <3>1. Stored' = Stored /\ Dismissers = {} /\ latest' = None /\ r \in Stored
      BY <2>5 DEF Lapses, Unchanging
    <3>2. latest # None /\ latest \in StoredEvents
      BY <2>3, <3>1
    <3>3. IsLive(latest, now)
      BY <2>2, <3>1, <3>2 DEF StoredEvents
    <3> QED
      BY <2>5, <3>2, <3>3 DEF Lapses
  <2>6. ASSUME NEW s \in Requests, Stores(s)
        PROVE  /\ latest' # None
               /\ latest' \in StoredEvents'
               /\ event'[r] # latest' => Outranks(latest', event'[r])
    <3>1. /\ Stored' = Stored \cup {s} /\ Dismissers = {}
          /\ event'[s] = event[s] /\ event[s] \in AgentEvent /\ event[s] # None
      BY <2>6, StoredFacts, NoneAssumption DEF Stores
    <3>2. StoredEvents' = StoredEvents \cup {event[s]}
      BY <2>1, <3>1 DEF StoredEvents
    <3>3. CASE Stored = {}
      <4>1. latest = None /\ r = s
        BY <3>1, <3>3 DEF IInv, Origin, StoredEvents
      <4> QED
        BY <2>6, <3>1, <3>2, <4>1 DEF Stores, ChooseLatest
    <3>4. CASE Stored # {}
      <4>1. Winner(latest) /\ Calm(now)
        BY <2>2, <2>3, <3>1
      <4>2. PICK p \in Stored : latest = event[p]
        BY <3>4, <4>1 DEF StoredEvents
      <4>3. /\ latest \in AgentEvent
            /\ IsLive(latest, now)
            /\ ~ SameWorkItem(latest, event[s])
        <5>1. p # s /\ p \in Stored' /\ s \in Stored'
          BY <2>6, <3>1 DEF Stores
        <5> QED
          BY <2>1, <3>1, <4>1, <4>2, <5>1 DEF Unrelated
      <4>4. latest' = IF Outranks(latest, event[s]) THEN latest ELSE event[s]
        BY <2>6, <4>1, <4>2, <4>3 DEF Stores, ChooseLatest
      <4>5. Outranks(latest, event[s]) \/ Outranks(event[s], latest)
        <5>1. event[p].seq # event[s].seq
          BY <2>6, StoredFacts DEF Stores, IInv, Stamps
        <5>2. /\ latest.priority \in Int /\ latest.seq \in Int
              /\ event[s].priority \in Int /\ event[s].seq \in Int
          BY <3>1, <4>3 DEF AgentEvent, Priority
        <5> QED
          BY <4>2, <5>1, <5>2 DEF Outranks
      <4>6. CASE Outranks(latest, event[s])
        BY <2>1, <3>1, <3>2, <4>1, <4>4, <4>6, <4>2
      <4>7. CASE ~ Outranks(latest, event[s])
        <5>1. latest' = event[s] /\ Outranks(event[s], latest)
          BY <4>4, <4>5, <4>7
        <5>2. \A q \in Stored : Outranks(event[s], event[q])
          BY <2>1, <3>1, <4>1, <4>3, <5>1, OutranksTransitive
        <5> QED
          BY <2>1, <3>1, <3>2, <5>1, <5>2
      <4> QED
        BY <4>6, <4>7
    <3> QED
      BY <3>3, <3>4
  <2>7. ASSUME NEW s \in Requests, Takes(s) PROVE FALSE
    BY <2>7 DEF Takes
  <2> QED
    BY <2>4, <2>5, <2>6, <2>7, SlotStep
<1> QED
  BY <1>1, <1>2, InductiveInvariant, PTL DEF Spec

---------------------------------------------------------------------------
(***************************************************************************)
(* The server implements the board                                         *)
(***************************************************************************)

Debts == [r \in Requests |-> Debt(r)]

\* A step that moves one handler changes the debts in one place only.
LEMMA OneDebt ==
  ASSUME NEW r \in Requests,
         \A q \in Requests \ {r} : pc'[q] = pc[q] /\ chosen'[q] = chosen[q]
  PROVE  Debts' = [Debts EXCEPT ![r] = Debt(r)']
<1>1. \A q \in Requests \ {r} : Debt(q)' = Debt(q)
  BY DEF Debt
<1> QED
  BY <1>1 DEF Debts

\* Every change of the slot is broadcast once, an expiry excepted, and what is
\* broadcast is what the handler left in the slot.
THEOREM ServerImplementsBoard == Spec => ImplementsBoard
<1>1. Init => Board!BoardInit
  <2> SUFFICES ASSUME Init PROVE Board!BoardInit
    OBVIOUS
  <2>1. \A r \in Requests : Debt(r) = None
    BY DEF Init, Debt
  <2> QED
    BY <2>1 DEF Init, Board!BoardInit
<1>2. IInv /\ [Next]_vars => [Board!BoardNext]_(Board!boardVars)
  <2> SUFFICES ASSUME IInv, [Next]_vars
               PROVE  Board!BoardNext \/ UNCHANGED <<latest, Debts, sent>>
    BY DEF Board!boardVars, Debts
  <2> USE DEF IInv
  <2>1. ASSUME NEW r \in Requests, \/ Unauthorized(r)
                                   \/ \E input \in Inputs : \/ RejectEvent(r, input)
                                                            \/ BuildEvent(r, input)
                                   \/ StampSeq(r)
        PROVE  UNCHANGED <<latest, Debts, sent>>
    <3>1. \A q \in Requests : Debt(q)' = Debt(q)
      BY <2>1 DEF TypeOK, Unauthorized, RejectEvent, BuildEvent, StampSeq, Begin,
                  Answer, Debt
    <3> QED
      BY <2>1, <3>1 DEF Unauthorized, RejectEvent, BuildEvent, StampSeq, Debts
  <2>2. ASSUME NEW r \in Requests, StoreLatest(r) PROVE Board!Offer(r)
    <3>1. /\ latest' \in AgentEvent
          /\ chosen'[r] = latest'
          /\ pc[r] = "stamped" /\ pc'[r] = "stored"
          /\ \A q \in Requests \ {r} : pc'[q] = pc[q] /\ chosen'[q] = chosen[q]
      BY <2>2, ChooseLatestIsOne, NoneAssumption DEF TypeOK, Shape, StoreLatest
    <3>2. Debt(r) = None /\ Debt(r)' = Board!EventMessage(latest')
      BY <3>1 DEF Debt, EventMessage, Board!EventMessage
    <3>3. Debts' = [Debts EXCEPT ![r] = Board!EventMessage(latest')]
      BY <3>1, <3>2, OneDebt
    <3> QED
      BY <2>2, <3>1, <3>2, <3>3 DEF Board!Offer, Board!Owe, Debts, StoreLatest
  <2>3. ASSUME NEW r \in Requests, GetLatest(r)
        PROVE  Board!Lapse \/ UNCHANGED <<latest, Debts, sent>>
    <3>1. \A q \in Requests : Debt(q)' = Debt(q)
      BY <2>3 DEF TypeOK, GetLatest, Begin, Answer, Debt
    <3>2. latest' \in {latest, None} /\ sent' = sent /\ Debts' = Debts
      BY <2>3, <3>1 DEF GetLatest, LiveLatest, Debts
    <3> QED
      BY <3>2 DEF Board!Lapse, Debts
  <2>4. ASSUME NEW r \in Requests, TakeLatest(r)
        PROVE  Board!Dismiss(r) \/ UNCHANGED <<latest, Debts, sent>>
    <3>1. /\ pc[r] = "idle" /\ latest' = None /\ sent' = sent
          /\ \A q \in Requests \ {r} : pc'[q] = pc[q] /\ chosen'[q] = chosen[q]
          /\ pc'[r] = IF latest = None THEN "done" ELSE "taken"
      BY <2>4 DEF TypeOK, TakeLatest, Begin, Answer
    <3>2. Debts' = [Debts EXCEPT ![r] = Debt(r)']
      BY <3>1, OneDebt
    <3>3. Debt(r) = None
      BY <3>1 DEF Debt
    <3>4. CASE latest = None
      <4>1. Debt(r)' = None
        BY <3>1, <3>4 DEF Debt
      <4>2. Debts' = Debts
        BY <3>2, <3>3, <4>1 DEF Debts
      <4> QED
        BY <3>1, <3>4, <4>2
    <3>5. CASE latest # None
      <4>1. Debt(r)' = Board!ClearMessage
        BY <3>1, <3>5 DEF Debt, ClearMessage, Board!ClearMessage
      <4> QED
        BY <3>1, <3>2, <3>3, <3>5, <4>1 DEF Board!Dismiss, Board!Owe, Debts
    <3> QED
      BY <3>4, <3>5
  <2>5. ASSUME NEW r \in Requests, BroadcastEvent(r) \/ BroadcastClear(r)
        PROVE  Board!Announce(r)
    <3>1. /\ pc'[r] = "done" /\ latest' = latest
          /\ sent' = Append(sent, Debt(r))
          /\ Debt(r) \in {EventMessage(chosen[r]), ClearMessage}
          /\ \A q \in Requests \ {r} : pc'[q] = pc[q] /\ chosen'[q] = chosen[q]
      BY <2>5 DEF TypeOK, BroadcastEvent, BroadcastClear, Answer, Debt
    <3>2. Debt(r)' = None
      BY <3>1 DEF Debt
    <3>3. Debts' = [Debts EXCEPT ![r] = None]
      BY <3>1, <3>2, OneDebt
    <3>4. Debt(r) \in Message
      BY <2>5 DEF Shape, BroadcastEvent, BroadcastClear, EventMessage, Message, Debt
    <3>5. Debt(r) # None
      BY <3>4, MessageAssumption
    <3> QED
      BY <3>1, <3>3, <3>5 DEF Board!Announce, Debts
  <2>6. CASE Tick \/ JumpBack \/ UNCHANGED vars
    BY <2>6 DEF Tick, JumpBack, vars, requestVars, Debts, Debt
  <2> QED
    BY <2>1, <2>2, <2>3, <2>4, <2>5, <2>6 DEF Next, Handler, Board!BoardNext
<1> QED
  BY <1>1, <1>2, InductiveInvariant, PTL DEF Spec, ImplementsBoard, Board!BoardSpec

=============================================================================
