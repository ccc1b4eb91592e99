-------------------------- MODULE HidBrokerProofs --------------------------
(***************************************************************************)
(* Theorems about HidBroker, for any events and any number of calls and    *)
(* faults.                                                                 *)
(***************************************************************************)
EXTENDS HidBroker, SequenceTheorems, TLAPS

\* The broker works on the request of the running call, and on nothing else.
Pipes ==
  /\ stdin \in {<<>>, <<request>>}
  /\ stdout \in {<<>>} \cup {<<a>> : a \in HidBrokerResponse}
  /\ stdin # <<>> => broker = "running" /\ client = "receive" /\ stdout = <<>>
  /\ stdout # <<>> => client = "receive"
  /\ serving # "reading" => stdin = <<request>>
  /\ serving \in {"open", "awaiting"} => request # ProbeKeyboard
  /\ broker # "running" => serving = "reading"
  /\ broker = "none" => stdout = <<>>
  /\ client = "start" => stdout = <<>>
  /\ client = "send" => broker # "none"
  /\ client = "receive" => broker # "none"
  /\ client # "rest" => answer = "none"
  /\ acks # <<>> => serving \in {"open", "awaiting"}

\* A second attempt follows a fault, or a broker that was dead from the start
\* and has not written anything for this call.
Attempts ==
  /\ broker = "dead" /\ attempt = 2 /\ client # "rest" => faulted
  /\ broker = "dead" /\ client = "receive" => faulted
  /\ client = "start" /\ attempt = 2 => broker = "none"
  /\ answer = "ipc_error" => faulted

\* The current attempt has not written a report.
Unwritten == \/ client \in {"start", "send"}
             \/ client = "receive" /\ stdin # <<>> /\ serving # "awaiting"

\* How many reports an earlier attempt may have written.
Earlier == IF attempt = 2 /\ faulted THEN 1 ELSE 0

Writes ==
  /\ written <= Earlier + 1
  /\ Unwritten => written <= Earlier

\* What the keyboard will show once it has caught up, if it refuses nothing.
Final == IF reports = <<>> THEN shown ELSE reports[Len(reports)]

\* The call has been answered with a success, or is about to be.
Succeeded ==
  \/ answer = "ok"
  \/ stdout = <<"ok">>
  \/ serving = "awaiting" /\ acks # <<>> /\ acks[1] = "obeyed"

Screen ==
  /\ written > 0 /\ ~ refused => Final = request.content
  /\ Succeeded => written > 0
  /\ Succeeded /\ ~ crossed => reports = <<>> /\ shown = request.content
  /\ serving = "awaiting" /\ acks # <<>> /\ ~ crossed => reports = <<>>
  /\ serving = "awaiting" /\ acks = <<>> /\ ~ crossed => reports = <<request.content>>
  /\ serving = "awaiting" => written > 0

IInv == TypeOK /\ Pipes /\ Attempts /\ Writes /\ Screen

---------------------------------------------------------------------------

\* A queue may be empty.
LEMMA Empty == ASSUME NEW S PROVE <<>> \in Seq(S)
  OBVIOUS

\* What the operations on queues make of a queue of one.
LEMMA Singleton == ASSUME NEW S, NEW x \in S
                   PROVE  /\ <<x>> \in Seq(S)
                          /\ <<x>> # <<>>
                          /\ Append(<<>>, x) = <<x>>
                          /\ Head(<<x>>) = x
                          /\ Tail(<<x>>) = <<>>
  OBVIOUS

\* Appending and taking keep a queue a queue.
LEMMA Queue == ASSUME NEW S, NEW q \in Seq(S), NEW x \in S
               PROVE  /\ Append(q, x) \in Seq(S)
                      /\ Append(q, x) # <<>>
                      /\ q # <<>> => Head(q) \in S /\ Tail(q) \in Seq(S)
  OBVIOUS

\* What is appended becomes the last element.
LEMMA LastOfAppend == ASSUME NEW S, NEW q \in Seq(S), NEW x \in S
                      PROVE  Append(q, x)[Len(Append(q, x))] = x
  OBVIOUS

\* The empty queue is the one of length 0.
LEMMA LengthZero == /\ Len(<<>>) = 0
                    /\ \A S : \A q \in Seq(S) : Len(q) = 0 => q = <<>>
  OBVIOUS

\* The last element stays the last when the first one is taken.
LEMMA LastOfTail == ASSUME NEW S, NEW q \in Seq(S), q # <<>>
                    PROVE  /\ Tail(q) = <<>> => Head(q) = q[Len(q)]
                           /\ Tail(q) # <<>> => Tail(q)[Len(Tail(q))] = q[Len(q)]
  <1>1. Len(q) \in Nat /\ Len(q) # 0 /\ Head(q) = q[1]
    OBVIOUS
  <1>2. /\ Len(Tail(q)) = Len(q) - 1
        /\ \A i \in 1 .. Len(Tail(q)) : Tail(q)[i] = q[i + 1]
    BY HeadTailProperties
  <1>3. Tail(q) \in Seq(S) /\ Len(Tail(q)) \in Nat
    BY HeadTailProperties
  <1>4. CASE Tail(q) = <<>>
    <2>1. Len(Tail(q)) = 0
      BY <1>4, LengthZero, Zenon
    <2>2. Len(q) = 1
      BY <2>1, <1>1, <1>2
    <2>3. Head(q) = q[Len(q)]
      BY <2>2, <1>1
    <2> QED BY <2>3, <1>4
  <1>5. CASE Tail(q) # <<>>
    <2>1. Len(Tail(q)) # 0
      BY <1>3, <1>5, LengthZero
    <2>2. Len(Tail(q)) \in 1 .. Len(Tail(q)) /\ Len(Tail(q)) + 1 = Len(q)
      BY <2>1, <1>1, <1>2
    <2>3. Tail(q)[Len(Tail(q))] = q[Len(Tail(q)) + 1]
      BY <2>2, <1>2, Zenon
    <2>4. Tail(q)[Len(Tail(q))] = q[Len(q)]
      BY <2>2, <2>3, Zenon
    <2> QED BY <2>4, <1>5
  <1> QED BY <1>4, <1>5

\* A reply is the only message in the pipes.
LEMMA ReplyIs == ASSUME Pipes, serving # "reading",
                        NEW a \in HidBrokerResponse, Reply(a)
                 PROVE  /\ stdin = <<request>> /\ stdin' = <<>>
                        /\ stdout' = <<a>>
                        /\ serving' = "reading"
  <1>1. stdin = <<request>> /\ stdin # <<>>
    BY Singleton DEF Pipes
  <1>2. stdout = <<>>
    BY <1>1 DEF Pipes
  <1> QED BY <1>1, <1>2, Singleton DEF Reply

---------------------------------------------------------------------------

\* The part of the type invariant that is not about histories of Booleans.
Typed ==
  /\ client \in {"rest", "start", "send", "receive"}
  /\ request \in HidBrokerRequest
  /\ attempt \in {1, 2}
  /\ answer \in HidBrokerResponse \cup {"none", "ipc_error"}
  /\ broker \in {"none", "running", "dead"}
  /\ stdin \in Seq(HidBrokerRequest) /\ stdout \in Seq(HidBrokerResponse)
  /\ serving \in {"reading", "handling", "open", "awaiting"}
  /\ reports \in Seq(Event \cup {None})
  /\ acks \in Seq({"obeyed", "refused"})
  /\ shown \in Event \cup {None}
  /\ calls \in Nat /\ faults \in Nat /\ written \in Nat

Flags == faulted \in BOOLEAN /\ crossed \in BOOLEAN /\ refused \in BOOLEAN

\* TypeOK, in the two parts that are shown apart.
LEMMA TypeParts == TypeOK <=> Typed /\ Flags
  BY Zenon DEF TypeOK, Typed, Flags

\* The Boolean histories stay Boolean.
LEMMA FlagsStep == Flags /\ Next => Flags'
  <1> USE DEF Flags
  <1>1. ASSUME Flags, NEW r \in HidBrokerRequest, Call(r) PROVE Flags'
    BY <1>1, Zenon DEF Call
  <1>2. Flags /\ SpawnFails => Flags'
    BY Zenon DEF SpawnFails, Fault, pastVars
  <1>3. Flags /\ (Adapter \/ EndSession \/ TakeRequest \/ Probe \/ OpenDevice \/ NoDevice \/ ReadStatus \/ NoStatus) => Flags'
    BY Zenon DEF Adapter, Spawn, Reuse, Send, Receive, PipeFails, EndSession, TakeRequest,
       Probe, OpenDevice, NoDevice, ReadStatus, NoStatus, faultVars, pastVars
  <1>4. Flags /\ WriteReport => Flags'
    BY Zenon DEF WriteReport, faultVars
  <1>5. Flags /\ Crash => Flags'
    BY Zenon DEF Crash, Fault, pastVars
  <1>6. Flags /\ Execute => Flags'
    BY Zenon DEF Execute, faultVars
  <1> QED BY <1>1, <1>2, <1>3, <1>4, <1>5, <1>6, Zenon DEF Next, Serve

\* The adapter starts with no broker, no call and an empty display.
LEMMA InitIInv == Init => IInv
  <1> SUFFICES ASSUME Init PROVE IInv
    OBVIOUS
  <1>1. Typed
    BY Empty DEF Init, Typed, HidBrokerRequest
  <1>2. Flags
    BY Zenon DEF Init, Flags
  <1>3. Pipes /\ Attempts /\ Writes /\ Screen
    BY DEF Init, Pipes, Attempts, Writes, Unwritten, Earlier, Screen, Succeeded
  <1> QED BY <1>1, <1>2, <1>3, TypeParts DEF IInv

\* Types are kept; a queue is only taken from when it holds something.
LEMMA TypedStep == Typed /\ Pipes /\ Next => Typed'
  <1> SUFFICES ASSUME Typed, Pipes, Next PROVE Typed'
    OBVIOUS
  <1> USE DEF Typed
  <1>1. ASSUME NEW r \in HidBrokerRequest, Call(r) PROVE Typed'
    BY <1>1 DEF Call, brokerVars, deviceVars
  <1>2. CASE Spawn
    BY <1>2 DEF Spawn, deviceVars, faultVars, pastVars
  <1>3. CASE SpawnFails
    <2>1. CASE attempt = 1
      BY <1>3, <2>1, Empty DEF SpawnFails, Fault, FailAttempt, Drop, pastVars
    <2>2. CASE attempt # 1
      BY <1>3, <2>2 DEF SpawnFails, Fault, FailAttempt, brokerVars, pastVars
    <2> QED BY <2>1, <2>2
  <1>4. CASE Reuse
    BY <1>4 DEF Reuse, brokerVars, deviceVars, faultVars, pastVars
  <1>5. CASE Send
    BY <1>5, Queue DEF Send, deviceVars, faultVars, pastVars
  <1>6. CASE Receive
    BY <1>6, Queue DEF Receive, deviceVars, faultVars, pastVars
  <1>7. CASE PipeFails
    BY <1>7, Empty DEF PipeFails, FailAttempt, Drop, brokerVars, faultVars, pastVars
  <1>8. CASE EndSession
    BY <1>8, Empty DEF EndSession, Drop, adapterVars, faultVars, pastVars
  <1>9. CASE TakeRequest \/ OpenDevice
    BY <1>9 DEF TakeRequest, OpenDevice, adapterVars, deviceVars, faultVars, pastVars
  <1>10. ASSUME NEW a \in HidBrokerResponse, serving # "reading", Reply(a)
         PROVE  /\ stdin' \in Seq(HidBrokerRequest) /\ stdout' \in Seq(HidBrokerResponse)
                /\ serving' \in {"reading", "handling", "open", "awaiting"}
    BY <1>10, ReplyIs, Empty, Singleton
  <1>11. {"ok", "present", "absent", "error"} \subseteq HidBrokerResponse
    BY DEF HidBrokerResponse
  <1>12. CASE Probe
    BY <1>12, <1>10, <1>11 DEF Probe, Handling, adapterVars, deviceVars, faultVars, pastVars
  <1>13. CASE NoDevice
    BY <1>13, <1>10, <1>11, Empty DEF NoDevice, Handling, adapterVars, faultVars, pastVars
  <1>14. CASE WriteReport
    <2>1. stdin = <<request>>
      BY <1>14 DEF WriteReport, Pipes
    <2>2. Head(stdin).content \in Event \cup {None}
      BY <2>1, Singleton DEF HidBrokerRequest, SetDisplay, Clear, ProbeKeyboard
    <2>3. Append(reports, Head(stdin).content) \in Seq(Event \cup {None})
      BY <2>2, Queue
    <2> QED BY <1>14, <2>3 DEF WriteReport, adapterVars, faultVars
  <1>15. CASE ReadStatus
    BY <1>15, <1>10, <1>11, Empty DEF ReadStatus, Awaiting, adapterVars, faultVars, pastVars
  <1>16. CASE NoStatus
    BY <1>16, <1>10, <1>11, Empty DEF NoStatus, Awaiting, adapterVars, faultVars, pastVars
  <1>17. CASE Crash
    BY <1>17, Empty DEF Crash, Fault, adapterVars, pastVars
  <1>18. CASE Execute
    BY <1>18, Queue DEF Execute, adapterVars, brokerVars, faultVars
  <1> QED BY <1>1, <1>2, <1>3, <1>4, <1>5, <1>6, <1>7, <1>8, <1>9, <1>12, <1>13, <1>14, <1>15, <1>16, <1>17, <1>18
         DEF Next, Adapter, Serve

---------------------------------------------------------------------------

\* At most one message is in the pipes, and it belongs to the running call.
LEMMA PipesStep == Typed /\ Pipes /\ Next => Pipes'
  <1> SUFFICES ASSUME Typed, Pipes, Next PROVE Pipes'
    OBVIOUS
  <1> USE DEF Pipes
  <1>1. ASSUME NEW r \in HidBrokerRequest, Call(r) PROVE Pipes'
    BY <1>1 DEF Call, brokerVars, deviceVars
  <1>2. CASE Spawn
    BY <1>2 DEF Spawn, deviceVars, faultVars, pastVars
  <1>3. CASE SpawnFails
    <2>1. CASE attempt = 1
      BY <1>3, <2>1 DEF SpawnFails, Fault, FailAttempt, Drop, pastVars
    <2>2. CASE attempt # 1
      BY <1>3, <2>2 DEF SpawnFails, Fault, FailAttempt, brokerVars, pastVars
    <2> QED BY <2>1, <2>2
  <1>4. CASE Reuse
    BY <1>4 DEF Reuse, brokerVars, deviceVars, faultVars, pastVars
  <1>5. CASE Send
    <2>1. stdin = <<>> /\ stdout = <<>> /\ acks = <<>> /\ serving = "reading"
      BY <1>5, Singleton DEF Send
    <2>2. stdin' = <<request>>
      BY <1>5, <2>1, Singleton DEF Send
    <2> QED BY <1>5, <2>1, <2>2 DEF Send, deviceVars, faultVars, pastVars
  <1>6. CASE Receive
    <2>1. stdin = <<>> /\ serving = "reading" /\ acks = <<>>
      BY <1>6, Singleton DEF Receive
    <2>2. stdout' = <<>>
      BY <1>6, Singleton DEF Receive
    <2> QED BY <1>6, <2>1, <2>2 DEF Receive, deviceVars, faultVars, pastVars
  <1>7. CASE PipeFails
    <2>1. CASE attempt = 1
      BY <1>7, <2>1 DEF PipeFails, FailAttempt, Drop, faultVars, pastVars
    <2>2. CASE attempt # 1
      BY <1>7, <2>2 DEF PipeFails, FailAttempt, brokerVars, faultVars, pastVars
    <2> QED BY <2>1, <2>2
  <1>8. CASE EndSession
    BY <1>8 DEF EndSession, Drop, adapterVars, faultVars, pastVars
  <1>9. CASE TakeRequest
    BY <1>9, Singleton DEF TakeRequest, adapterVars, deviceVars, faultVars, pastVars
  <1>19. CASE OpenDevice
    <2>1. stdin = <<request>> /\ request # ProbeKeyboard
      BY <1>19, Singleton DEF OpenDevice, Handling, ProbeKeyboard
    <2> QED BY <1>19, <2>1 DEF OpenDevice, Handling, adapterVars, deviceVars, faultVars, pastVars
  <1>10. ASSUME serving # "reading", NEW a \in HidBrokerResponse, Reply(a),
                UNCHANGED <<adapterVars, broker>>, acks' = <<>>
         PROVE  Pipes'
    BY <1>10, ReplyIs, Singleton DEF adapterVars
  <1>11. {"ok", "present", "absent", "error"} \subseteq HidBrokerResponse
    BY DEF HidBrokerResponse
  <1>12. CASE Probe
    BY <1>12, <1>10, <1>11 DEF Probe, Handling, deviceVars
  <1>13. CASE NoDevice
    BY <1>13, <1>10, <1>11 DEF NoDevice, Handling
  <1>14. CASE WriteReport
    BY <1>14 DEF WriteReport, adapterVars, faultVars
  <1>15. CASE ReadStatus
    BY <1>15, <1>10, <1>11 DEF ReadStatus, Awaiting
  <1>16. CASE NoStatus
    BY <1>16, <1>10, <1>11 DEF NoStatus, Awaiting
  <1>17. CASE Crash
    BY <1>17 DEF Crash, Fault, adapterVars, pastVars
  <1>18. CASE Execute
    BY <1>18 DEF Execute, HandleOpen, adapterVars, brokerVars, faultVars
  <1> QED BY <1>1, <1>2, <1>3, <1>4, <1>5, <1>6, <1>7, <1>8, <1>9, <1>12, <1>13, <1>14, <1>15, <1>16, <1>17, <1>18, <1>19
         DEF Next, Adapter, Serve

\* The broker's steps leave the adapter and the life of the broker alone.
LEMMA ServeKeeps == Serve => UNCHANGED <<adapterVars, broker, faultVars>>
  BY DEF Serve, TakeRequest, Probe, OpenDevice, NoDevice, WriteReport, ReadStatus, NoStatus,
     deviceVars, pastVars

\* A dead broker that a call started or used died during that call.
LEMMA AttemptsStep == Typed /\ Flags /\ Pipes /\ Attempts /\ Next => Attempts'
  <1> SUFFICES ASSUME Typed, Flags, Pipes, Attempts, Next PROVE Attempts'
    OBVIOUS
  <1> USE DEF Attempts
  <1>1. ASSUME NEW r \in HidBrokerRequest, Call(r) PROVE Attempts'
    BY <1>1 DEF Call, brokerVars
  <1>2. CASE Spawn
    BY <1>2 DEF Spawn, faultVars
  <1>3. CASE SpawnFails
    BY <1>3 DEF SpawnFails, Fault, FailAttempt, Drop, brokerVars
  <1>4. CASE Reuse
    BY <1>4 DEF Reuse, brokerVars, faultVars
  <1>5. CASE Send
    BY <1>5 DEF Send, faultVars
  <1>6. CASE Receive
    <2>1. answer' # "ipc_error"
      BY <1>6, Singleton DEF Receive, Pipes, HidBrokerResponse
    <2> QED BY <1>6, <2>1 DEF Receive, faultVars
  <1>7. CASE PipeFails
    BY <1>7 DEF PipeFails, FailAttempt, Drop, brokerVars, faultVars, Typed, Pipes
  <1>8. CASE EndSession
    BY <1>8 DEF EndSession, Drop, adapterVars, faultVars
  <1>9. CASE Serve
    BY <1>9, ServeKeeps DEF adapterVars, faultVars
  <1>10. CASE Crash
    BY <1>10 DEF Crash, Fault, adapterVars
  <1>11. CASE Execute
    BY <1>11 DEF Execute, adapterVars, brokerVars, faultVars
  <1> QED BY <1>1, <1>2, <1>3, <1>4, <1>5, <1>6, <1>7, <1>8, <1>9, <1>10, <1>11
         DEF Next, Adapter

\* An attempt writes at most one report.
LEMMA WritesStep == Typed /\ Flags /\ Pipes /\ Attempts /\ Writes /\ Next => Writes'
  <1> SUFFICES ASSUME Typed, Flags, Pipes, Attempts, Writes, Next PROVE Writes'
    OBVIOUS
  <1>0. attempt \in {1, 2} /\ written \in Nat
    BY DEF Typed
  <1> USE DEF Writes, Earlier, Unwritten
  <1>1. ASSUME NEW r \in HidBrokerRequest, Call(r) PROVE Writes'
    BY <1>1 DEF Call
  <1>2. CASE Spawn
    BY <1>0, <1>2 DEF Spawn, faultVars, pastVars
  <1>3. CASE SpawnFails
    BY <1>0, <1>3 DEF SpawnFails, Fault, FailAttempt, Drop, brokerVars, pastVars
  <1>4. CASE Reuse
    BY <1>0, <1>4 DEF Reuse, brokerVars, faultVars, pastVars
  <1>5. CASE Send
    BY <1>0, <1>5 DEF Send, faultVars, pastVars
  <1>6. CASE Receive
    BY <1>0, <1>6 DEF Receive, faultVars, pastVars
  <1>7. CASE PipeFails
    <2>1. attempt = 1 /\ ~ faulted => written <= 0
      BY <1>0, <1>7 DEF PipeFails, Pipes, Attempts
    <2> QED BY <1>0, <1>7, <2>1 DEF PipeFails, FailAttempt, Drop, brokerVars, faultVars, pastVars
  <1>8. CASE EndSession
    BY <1>0, <1>8 DEF EndSession, Drop, adapterVars, faultVars, pastVars
  <1>9. CASE TakeRequest \/ OpenDevice
    BY <1>0, <1>9 DEF TakeRequest, OpenDevice, Handling, adapterVars, faultVars, pastVars
  <1>10. CASE Probe \/ NoDevice
    BY <1>0, <1>10, ReplyIs, Singleton DEF Probe, NoDevice, Handling, adapterVars, faultVars, pastVars, HidBrokerResponse, Pipes
  <1>11. CASE WriteReport
    <2>1. client = "receive" /\ stdin # <<>> /\ serving # "awaiting"
      BY <1>11, Singleton DEF WriteReport, Pipes
    <2>2. ~ Unwritten'
      BY <1>11, <2>1 DEF WriteReport, adapterVars
    <2>3. Earlier' = Earlier /\ Earlier \in Nat
      BY <1>11 DEF WriteReport, adapterVars, faultVars
    <2>4. written <= Earlier /\ written' = written + 1
      BY <1>11, <2>1 DEF WriteReport
    <2>5. written' <= Earlier' + 1
      <3> HIDE DEF Earlier
      <3> QED BY <1>0, <2>3, <2>4
    <2> QED BY <2>2, <2>5
  <1>12. CASE ReadStatus \/ NoStatus
    BY <1>0, <1>12, ReplyIs, Singleton DEF ReadStatus, NoStatus, Awaiting, adapterVars, faultVars, pastVars, HidBrokerResponse, Pipes
  <1>13. CASE Crash
    BY <1>0, <1>13 DEF Crash, Fault, adapterVars, pastVars, Pipes
  <1>14. CASE Execute
    BY <1>0, <1>14 DEF Execute, adapterVars, brokerVars, faultVars
  <1> QED BY <1>1, <1>2, <1>3, <1>4, <1>5, <1>6, <1>7, <1>8, <1>9, <1>10, <1>11, <1>12, <1>13, <1>14
         DEF Next, Adapter, Serve

---------------------------------------------------------------------------

\* A report that is written decides what will be shown in the end.
LEMMA FinalWritten == ASSUME Typed, NEW c \in Event \cup {None}, reports' = Append(reports, c)
                      PROVE  Final' = c
  <1>1. reports' # <<>> /\ reports'[Len(reports')] = c
    BY Queue, LastOfAppend DEF Typed
  <1> QED BY <1>1, Zenon DEF Final

\* The keyboard obeying a report changes nothing about the end.
LEMMA FinalExecuted == ASSUME Typed, reports # <<>>, reports' = Tail(reports),
                              shown' = Head(reports)
                       PROVE  Final' = Final
  <1>1. Final = reports[Len(reports)]
    BY DEF Final
  <1>2. CASE Tail(reports) = <<>>
    <2>1. Head(reports) = reports[Len(reports)]
      BY <1>2, LastOfTail DEF Typed
    <2> QED BY <1>1, <1>2, <2>1, Zenon DEF Final
  <1>3. CASE Tail(reports) # <<>>
    <2>1. Tail(reports)[Len(Tail(reports))] = reports[Len(reports)]
      BY <1>3, LastOfTail DEF Typed
    <2> QED BY <1>1, <1>3, <2>1, Zenon DEF Final
  <1> QED BY <1>2, <1>3

\* A step that touches neither the keyboard nor a status, and answers nothing.
LEMMA ScreenFrame ==
  ASSUME Screen, UNCHANGED <<request, reports, shown, written, crossed, refused>>,
         Succeeded' => Succeeded,
         acks' # <<>> => acks' = acks,
         serving' = "awaiting" => serving = "awaiting" /\ acks' = acks
  PROVE  Screen'
  <1>1. Final' = Final
    BY DEF Final
  <1> QED BY <1>1 DEF Screen

\* What is on the screen is untouched by a call's attempts and their failures.
LEMMA ScreenAdapter ==
  ASSUME Typed, Pipes, Screen,
         Adapter \/ SpawnFails \/ EndSession \/ Crash \/ TakeRequest \/ OpenDevice
  PROVE  Screen'
  <1>1. CASE Spawn \/ Reuse \/ Send \/ TakeRequest \/ OpenDevice
    BY <1>1, ScreenFrame DEF Spawn, Reuse, Send, TakeRequest, OpenDevice, Succeeded,
       adapterVars, brokerVars, deviceVars, pastVars
  <1>2. CASE Receive
    <2>1. answer' = "ok" => stdout = <<"ok">>
      BY <1>2, Singleton DEF Receive, Pipes
    <2>2. stdout' = <<>>
      BY <1>2, Singleton DEF Receive, Pipes
    <2>3. UNCHANGED <<request, reports, shown, written, crossed, refused, acks, serving>>
      BY <1>2 DEF Receive, deviceVars, pastVars
    <2>4. Succeeded' => Succeeded
      BY <2>1, <2>2, <2>3, Singleton DEF Succeeded
    <2> QED BY <2>3, <2>4, ScreenFrame
  <1>3. ASSUME FailAttempt, UNCHANGED <<request, reports, shown, pastVars>>
        PROVE  Screen'
    <2>1. UNCHANGED <<request, reports, shown, written, crossed, refused>>
      BY <1>3 DEF pastVars
    <2>2. Succeeded' => Succeeded
      BY <1>3, Singleton DEF FailAttempt, Drop, brokerVars, Succeeded
    <2>3. /\ acks' # <<>> => acks' = acks
          /\ serving' = "awaiting" => serving = "awaiting" /\ acks' = acks
      BY <1>3 DEF FailAttempt, Drop, brokerVars
    <2> QED BY <2>1, <2>2, <2>3, ScreenFrame
  <1>4. CASE SpawnFails \/ PipeFails
    BY <1>4, <1>3 DEF SpawnFails, PipeFails
  <1>5. CASE EndSession \/ Crash
    <2>1. UNCHANGED <<request, answer, reports, shown, written, crossed, refused>>
      BY <1>5 DEF EndSession, Crash, adapterVars, pastVars
    <2>2. acks' = <<>> /\ serving' = "reading" /\ (stdout' = <<>> \/ stdout' = stdout)
      BY <1>5 DEF EndSession, Crash, Drop
    <2>3. Succeeded' => Succeeded
      BY <2>1, <2>2, Singleton DEF Succeeded
    <2> QED BY <2>1, <2>2, <2>3, ScreenFrame
  <1> QED BY <1>1, <1>2, <1>4, <1>5 DEF Adapter

LEMMA ScreenAnswer ==
  ASSUME Typed, Pipes, Screen, Probe \/ NoDevice \/ ReadStatus \/ NoStatus
  PROVE  Screen'
  <1>1. ASSUME serving # "reading", NEW a \in HidBrokerResponse, Reply(a),
               UNCHANGED <<request, answer, reports, shown, written, crossed, refused>>,
               a = "ok" => serving = "awaiting" /\ acks # <<>> /\ acks[1] = "obeyed",
               acks' = <<>>
        PROVE  Screen'
    <2>1. stdout' = <<a>> /\ serving' = "reading"
      BY <1>1, ReplyIs
    <2>2. Succeeded' => Succeeded
      BY <1>1, <2>1, Singleton DEF Succeeded
    <2> QED BY <1>1, <2>1, <2>2, ScreenFrame
  <1>2. {"ok", "present", "absent", "error"} \subseteq HidBrokerResponse
    BY DEF HidBrokerResponse
  <1>3. CASE Probe
    <2>1. acks = <<>>
      BY <1>3 DEF Probe, Handling, Pipes
    <2> QED BY <1>3, <2>1, <1>1, <1>2 DEF Probe, Handling, adapterVars, deviceVars, pastVars
  <1>4. CASE NoDevice
    BY <1>4, <1>1, <1>2 DEF NoDevice, Handling, adapterVars, pastVars
  <1>5. CASE ReadStatus
    <2>1. Head(acks) = acks[1]
      BY <1>5 DEF ReadStatus, Typed
    <2> QED BY <1>5, <2>1, <1>1, <1>2 DEF ReadStatus, Awaiting, adapterVars, pastVars
  <1>6. CASE NoStatus
    BY <1>6, <1>1, <1>2 DEF NoStatus, Awaiting, adapterVars, pastVars
  <1> QED BY <1>3, <1>4, <1>5, <1>6

\* A success stands for what is shown.
LEMMA ScreenStep == Typed /\ Flags /\ Pipes /\ Screen /\ Next => Screen'
  <1> SUFFICES ASSUME Typed, Flags, Pipes, Screen, Next PROVE Screen'
    OBVIOUS
  <1>1. ASSUME NEW r \in HidBrokerRequest, Call(r) PROVE Screen'
    <2>1. stdin = <<>> /\ stdout = <<>> /\ serving = "reading" /\ acks = <<>>
      BY <1>1, Singleton DEF Call, Pipes
    <2>2. UNCHANGED <<stdin, stdout, serving, acks>> /\ answer' = "none" /\ written' = 0
      BY <1>1 DEF Call, brokerVars, deviceVars
    <2>3. ~ Succeeded'
      BY <2>1, <2>2, Singleton DEF Succeeded
    <2> QED BY <2>1, <2>2, <2>3 DEF Screen
  <1>2. CASE WriteReport
    <2> DEFINE c == request.content
    <2>1. stdin = <<request>> /\ stdout = <<>> /\ answer = "none"
      BY <1>2, Singleton DEF WriteReport, Pipes
    <2>2. /\ reports' = Append(reports, c) /\ serving' = "awaiting"
          /\ written' = written + 1
          /\ crossed' = (crossed \/ reports # <<>> \/ acks # <<>>)
          /\ UNCHANGED <<request, answer, stdout, acks, shown, refused>>
      BY <1>2, <2>1, Singleton DEF WriteReport, adapterVars
    <2>3. c \in Event \cup {None}
      BY DEF Typed, HidBrokerRequest, SetDisplay, Clear, ProbeKeyboard
    <2>4. Final' = c
      BY <2>2, <2>3, FinalWritten
    <2>5. ~ crossed' => acks' = <<>> /\ ~ Succeeded'
      BY <2>1, <2>2, Singleton DEF Succeeded
    <2>6. written' > 0
      BY <2>2 DEF Typed
    <2>7. ~ crossed' => reports' = <<c>>
      BY <2>2, <2>3, Singleton
    <2> QED BY <2>2, <2>4, <2>5, <2>6, <2>7 DEF Screen
  <1>3. CASE Execute
    <2> DEFINE c == request.content
    <2>1. PICK status \in {"obeyed", "refused"} :
             /\ shown' = IF status = "obeyed" THEN Head(reports) ELSE shown
             /\ acks' = IF HandleOpen THEN Append(acks, status) ELSE acks
             /\ refused' = (refused \/ status = "refused")
      BY <1>3 DEF Execute
    <2>2. /\ reports # <<>> /\ reports' = Tail(reports)
          /\ UNCHANGED <<request, answer, stdout, serving, broker, written, crossed>>
      BY <1>3 DEF Execute, adapterVars, brokerVars
    <2>3. ~ refused' => ~ refused /\ Final' = Final
      BY <2>1, <2>2, FinalExecuted
    <2>4. CASE crossed
      <3>1. Succeeded' => written > 0
        BY <2>2 DEF Succeeded, Screen
      <3> QED BY <2>2, <2>3, <2>4, <3>1 DEF Screen
    <2>5. CASE ~ crossed /\ serving = "awaiting"
      <3>1. acks = <<>> /\ reports = <<c>> /\ HandleOpen
        BY <2>2, <2>5 DEF Screen, HandleOpen, Pipes
      <3>2. acks' = <<status>> /\ acks' # <<>> /\ acks'[1] = status
        BY <2>1, <3>1, Singleton
      <3>3. reports' = <<>> /\ Head(reports) = c
        BY <2>2, <3>1, Singleton
      <3>4. answer # "ok" /\ stdout # <<"ok">>
        BY <2>5, Singleton DEF Pipes
      <3>5. Succeeded' => shown' = c
        BY <2>1, <2>2, <3>2, <3>3, <3>4 DEF Succeeded
      <3>6. written > 0
        BY <2>5 DEF Screen
      <3> QED BY <2>2, <2>3, <3>2, <3>3, <3>5, <3>6 DEF Screen
    <2>6. CASE ~ crossed /\ serving # "awaiting"
      <3>1. ~ Succeeded
        BY <2>2, <2>6 DEF Screen
      <3>2. ~ Succeeded'
        BY <2>2, <2>6, <3>1 DEF Succeeded
      <3> QED BY <2>2, <2>3, <2>6, <3>2 DEF Screen
    <2> QED BY <2>4, <2>5, <2>6 DEF Flags
  <1> QED BY <1>1, <1>2, <1>3, ScreenAdapter, ScreenAnswer DEF Next, Serve

---------------------------------------------------------------------------

\* The invariant speaks of the variables only.
LEMMA Stutter == IInv /\ UNCHANGED vars => IInv'
  <1> SUFFICES ASSUME IInv, UNCHANGED vars PROVE IInv'
    OBVIOUS
  <1>1. UNCHANGED <<client, request, attempt, answer, broker, stdin, stdout, serving,
                    reports, acks, shown, calls, faults, written, faulted, crossed, refused>>
    BY DEF vars, adapterVars, brokerVars, deviceVars, faultVars, pastVars
  <1>2. TypeOK'
    <2>1. Typed /\ Flags
      BY TypeParts DEF IInv
    <2>2. Typed'
      BY <1>1, <2>1 DEF Typed
    <2>3. Flags'
      BY <1>1, <2>1, Zenon DEF Flags
    <2> QED BY <2>2, <2>3, Zenon DEF TypeOK, Typed, Flags
  <1>3. Pipes' /\ Attempts'
    BY <1>1 DEF IInv, Pipes, Attempts
  <1>4. Writes'
    BY <1>1 DEF IInv, Writes, Unwritten, Earlier
  <1>5. Screen'
    BY <1>1, ScreenFrame DEF IInv, Succeeded
  <1> QED BY <1>2, <1>3, <1>4, <1>5 DEF IInv

\* The invariant the properties follow from.
THEOREM Invariance == Spec => []IInv
  <1>1. Init => IInv
    BY InitIInv
  <1>2. IInv /\ [Next]_vars => IInv'
    <2>1. IInv /\ Next => IInv'
      <3> SUFFICES ASSUME IInv, Next PROVE IInv'
        OBVIOUS
      <3>1. Typed /\ Flags /\ Pipes /\ Attempts /\ Writes /\ Screen
        BY TypeParts, Zenon DEF IInv
      <3>2. Typed' /\ Flags'
        BY <3>1, FlagsStep, TypedStep, Zenon
      <3>3. TypeOK'
        BY <3>2, Zenon DEF TypeOK, Typed, Flags
      <3>4. Pipes' /\ Attempts' /\ Writes' /\ Screen'
        BY <3>1, PipesStep, AttemptsStep, WritesStep, ScreenStep, Zenon
      <3> QED BY <3>3, <3>4, Zenon DEF IInv
    <2> QED BY <2>1, Stutter, Zenon
  <1> QED BY <1>1, <1>2, PTL DEF Spec

\* Every variable of the adapter, the broker and the keyboard keeps its type;
\* no pipe is read beyond its end.
THEOREM TypeCorrect == Spec => []TypeOK
  <1>1. IInv => TypeOK
    BY DEF IInv
  <1> QED BY <1>1, Invariance, PTL

\* PlatformDisplayAdapter::request retries on a new broker, so a call fails over
\* IPC only if the broker crashed or could not be started during that call.
THEOREM RetryHeals == Spec => []HealsInOneCall
  <1>1. IInv => HealsInOneCall
    BY DEF IInv, Attempts, HealsInOneCall
  <1> QED BY <1>1, Invariance, PTL

\* A call writes its report once, and a second time only after a crash.
THEOREM FewWrites == Spec => []WrittenAtMostTwice
  <1>1. IInv => WrittenAtMostTwice
    <2> SUFFICES ASSUME IInv PROVE WrittenAtMostTwice
      OBVIOUS
    <2>1. written \in Nat /\ written <= Earlier + 1
      BY TypeParts DEF IInv, Typed, Writes
    <2>2. CASE faulted
      BY <2>1, <2>2 DEF Earlier, WrittenAtMostTwice
    <2>3. CASE ~ faulted
      BY <2>1, <2>3 DEF Earlier, WrittenAtMostTwice
    <2> QED BY <2>2, <2>3
  <1> QED BY <1>1, Invariance, PTL

\* A success that display_macro_command reported is on the keyboard, now or as
\* soon as the keyboard has caught up, as the property says.
THEOREM SuccessIsShown == Spec => []OkMeansShown
  <1>1. IInv => OkMeansShown
    BY DEF IInv, Screen, Succeeded, Final, OkMeansShown
  <1> QED BY <1>1, Invariance, PTL

---------------------------------------------------------------------------
(***************************************************************************)
(* The abstract call                                                       *)
(***************************************************************************)

\* A request is answered in kind: what is in the pipe from the broker is an
\* answer to the request of the running call.
Kind == \A a \in HidBrokerResponse :
          stdout = <<a>> => IF request = ProbeKeyboard THEN a \in {"present", "absent"}
                                                       ELSE a \in {"ok", "error"}

LEMMA KindInit == Init => Kind
  BY Singleton DEF Init, Kind

LEMMA KindStep == TypeOK /\ Pipes /\ Kind /\ [Next]_vars => Kind'
  <1> SUFFICES ASSUME TypeOK, Pipes, Kind, [Next]_vars PROVE Kind'
    OBVIOUS
  <1>1. ASSUME stdout' = <<>> PROVE Kind'
    BY <1>1, Singleton DEF Kind
  <1>2. ASSUME UNCHANGED <<request, stdout>> PROVE Kind'
    BY <1>2 DEF Kind
  <1>3. ASSUME NEW a \in HidBrokerResponse, serving # "reading", Reply(a),
               UNCHANGED adapterVars,
               IF request = ProbeKeyboard THEN a \in {"present", "absent"}
                                          ELSE a \in {"ok", "error"}
        PROVE  Kind'
    <2>1. stdout' = <<a>> /\ request' = request
      BY <1>3, ReplyIs DEF adapterVars
    <2>2. \A b \in HidBrokerResponse : <<b>> = <<a>> => b = a
      OBVIOUS
    <2> QED BY <1>3, <2>1, <2>2 DEF Kind
  <1>4. {"ok", "present", "absent", "error"} \subseteq HidBrokerResponse
    BY DEF HidBrokerResponse
  <1>5. ASSUME NEW r \in HidBrokerRequest, Call(r) PROVE Kind'
    <2>1. stdout = <<>> /\ stdout' = stdout
      BY <1>5 DEF Call, Pipes, brokerVars
    <2> QED BY <2>1, <1>1
  <1>6. CASE Spawn \/ Reuse \/ Send
    BY <1>6, <1>2 DEF Spawn, Reuse, Send, brokerVars
  <1>7. CASE SpawnFails \/ PipeFails
    <2>1. request' = request /\ FailAttempt
      BY <1>7 DEF SpawnFails, PipeFails
    <2>2. stdout' = <<>> \/ stdout' = stdout
      BY <2>1 DEF FailAttempt, Drop, brokerVars
    <2> QED BY <2>1, <2>2, <1>1, <1>2
  <1>8. CASE Receive
    <2>1. stdout' = <<>>
      BY <1>8, Singleton DEF Receive, Pipes
    <2> QED BY <2>1, <1>1
  <1>9. CASE EndSession
    BY <1>9, <1>1 DEF EndSession, Drop
  <1>10. CASE TakeRequest \/ OpenDevice \/ WriteReport \/ Crash \/ Execute
    BY <1>10, <1>2 DEF TakeRequest, OpenDevice, WriteReport, Crash, Execute,
       adapterVars, brokerVars
  <1>11. CASE Probe
    <2>1. serving # "reading" /\ Head(stdin).type = "probe"
      BY <1>11 DEF Probe, Handling
    <2>2. request = ProbeKeyboard
      BY <2>1, Singleton DEF Pipes, TypeOK, HidBrokerRequest, ProbeKeyboard, Clear, SetDisplay
    <2> QED BY <1>11, <2>1, <2>2, <1>3, <1>4 DEF Probe
  <1>12. CASE NoDevice \/ ReadStatus \/ NoStatus
    <2>1. serving # "reading" /\ UNCHANGED adapterVars
      BY <1>12 DEF NoDevice, ReadStatus, NoStatus, Handling, Awaiting
    <2>2. request # ProbeKeyboard
      <3>1. CASE serving = "handling"
        <4>1. Head(stdin).type # "probe"
          BY <1>12, <3>1 DEF NoDevice, ReadStatus, NoStatus, Handling, Awaiting
        <4> QED BY <4>1, <3>1, Singleton DEF Pipes, ProbeKeyboard
      <3> QED BY <2>1, <3>1 DEF Pipes, TypeOK
    <2>3. Reply("ok") \/ Reply("error")
      BY <1>12 DEF NoDevice, ReadStatus, NoStatus
    <2> QED BY <2>1, <2>2, <2>3, <1>3, <1>4
  <1>13. CASE UNCHANGED vars
    BY <1>13, <1>2 DEF vars, adapterVars, brokerVars
  <1> QED BY <1>5, <1>6, <1>7, <1>8, <1>9, <1>10, <1>11, <1>12, <1>13 DEF Next, Adapter, Serve

\* A step that the abstract call does not see.
LEMMA Hidden ==
  ASSUME UNCHANGED <<request, answer, reports, shown, written, faulted, crossed>>,
         (client # "rest") = (client' # "rest")
  PROVE  UNCHANGED Display!displayVars
  BY DEF Display!displayVars

\* A call that ends with a failure over IPC.
LEMMA FailsOverIPC ==
  ASSUME IInv, client # "rest", FailAttempt,
         UNCHANGED <<request, reports, shown, written, crossed>>,
         faulted' \in {faulted, TRUE}, attempt # 1 => faulted'
  PROVE  \/ \E a \in Display!Answers(request) : Display!Return(a)
         \/ client' # "rest" /\ answer' = answer
  <1>1. CASE attempt = 1
    BY <1>1 DEF FailAttempt
  <1>2. CASE attempt # 1
    <2>1. client' = "rest" /\ answer' = "ipc_error"
      BY <1>2 DEF FailAttempt
    <2>2. "ipc_error" \in Display!Answers(request)
      BY DEF Display!Answers
    <2>3. Display!Return("ipc_error")
      BY <1>2, <2>1 DEF Display!Return
    <2> QED BY <2>2, <2>3
  <1> QED BY <1>1, <1>2

\* Every step of the adapter, the broker and the keyboard is a step of the
\* abstract call, or hidden from it.
LEMMA StepIsDisplayed ==
  IInv /\ Kind /\ [Next]_vars => [Display!DisplayNext]_(Display!displayVars)
  <1> SUFFICES ASSUME IInv, Kind, [Next]_vars
               PROVE  Display!DisplayNext \/ UNCHANGED Display!displayVars
    OBVIOUS
  <1>1. ASSUME NEW r \in HidBrokerRequest, Call(r) PROVE Display!DisplayNext
    <2>1. Display!Begin(r)
      BY <1>1 DEF Call, Display!Begin, deviceVars
    <2> QED BY <2>1 DEF Display!DisplayNext
  <1>2. CASE Spawn \/ Reuse \/ Send
    BY <1>2, Hidden DEF Spawn, Reuse, Send, deviceVars, faultVars, pastVars
  <1>3. CASE SpawnFails
    <2>1. /\ client # "rest" /\ FailAttempt /\ faulted' = TRUE
          /\ UNCHANGED <<request, reports, shown, written, crossed>>
      BY <1>3 DEF SpawnFails, Fault, pastVars
    <2>2. CASE client' # "rest" /\ answer' = answer
      <3>1. Display!Break
        BY <2>1, <2>2 DEF Display!Break
      <3> QED BY <3>1 DEF Display!DisplayNext
    <2> QED BY <2>1, <2>2, FailsOverIPC DEF Display!DisplayNext
  <1>4. CASE PipeFails
    <2>1. /\ client # "rest" /\ FailAttempt /\ faulted' = faulted /\ broker = "dead"
          /\ UNCHANGED <<request, reports, shown, written, crossed>>
      BY <1>4 DEF PipeFails, faultVars, pastVars
    <2>2. attempt # 1 => faulted
      BY <2>1 DEF IInv, Attempts, TypeOK
    <2>3. CASE client' # "rest" /\ answer' = answer
      BY <2>1, <2>3, Hidden
    <2> QED BY <2>1, <2>2, <2>3, FailsOverIPC DEF Display!DisplayNext
  <1>5. CASE Receive
    <2>1. PICK a \in HidBrokerResponse : stdout = <<a>>
      BY <1>5 DEF Receive, IInv, Pipes
    <2>2. /\ client # "rest" /\ client' = "rest" /\ answer' = a
          /\ UNCHANGED <<request, reports, shown, written, faulted, crossed>>
      BY <1>5, <2>1, Singleton DEF Receive, deviceVars, faultVars, pastVars
    <2>3. a \in Display!Answers(request)
      BY <2>1 DEF Kind, Display!Answers
    <2>4. a = "ok" => Succeeded
      BY <2>1 DEF Succeeded
    <2>5. a = "ok" => written > 0 /\ (crossed \/ (reports = <<>> /\ shown = request.content))
      BY <2>4 DEF IInv, Screen, TypeOK
    <2>6. a # "ipc_error"
      BY DEF HidBrokerResponse
    <2>7. Display!Return(a)
      BY <2>2, <2>5, <2>6 DEF Display!Return
    <2> QED BY <2>3, <2>7 DEF Display!DisplayNext
  <1>6. CASE EndSession \/ TakeRequest \/ OpenDevice \/ Probe \/ NoDevice \/ ReadStatus \/ NoStatus
    BY <1>6, Hidden DEF EndSession, TakeRequest, OpenDevice, Probe, NoDevice, ReadStatus,
       NoStatus, adapterVars, deviceVars, faultVars, pastVars
  <1>7. CASE WriteReport
    <2>1. /\ stdin = <<request>> /\ client = "receive" /\ request # ProbeKeyboard
          /\ serving # "awaiting"
      BY <1>7, Singleton DEF WriteReport, IInv, Pipes
    <2>2. /\ reports' = Append(reports, request.content) /\ written' = written + 1
          /\ crossed' = (crossed \/ reports # <<>> \/ acks # <<>>)
          /\ UNCHANGED <<client, request, answer, shown, faulted>>
      BY <1>7, <2>1, Singleton DEF WriteReport, adapterVars, faultVars
    <2>3. written < IF faulted THEN 2 ELSE 1
      <3>1. written \in Nat /\ written <= Earlier
        BY <2>1, Singleton DEF IInv, TypeOK, Writes, Unwritten
      <3>2. CASE faulted
        BY <3>1, <3>2 DEF Earlier
      <3>3. CASE ~ faulted
        BY <3>1, <3>3 DEF Earlier
      <3> QED BY <3>2, <3>3
    <2>4. crossed' \in {crossed \/ reports # <<>>, TRUE}
      BY <2>2, Zenon
    <2>5. Display!Deliver
      BY <2>1, <2>2, <2>3, <2>4 DEF Display!Deliver
    <2> QED BY <2>5 DEF Display!DisplayNext
  <1>8. CASE Crash
    <2>1. Display!Break
      BY <1>8 DEF Crash, Fault, Display!Break, adapterVars, pastVars
    <2> QED BY <2>1 DEF Display!DisplayNext
  <1>9. CASE Execute
    <2>1. Display!TakeOver
      BY <1>9 DEF Execute, Display!TakeOver, adapterVars, faultVars
    <2> QED BY <2>1 DEF Display!DisplayNext
  <1>10. CASE UNCHANGED vars
    BY <1>10, Hidden DEF vars, adapterVars, deviceVars, faultVars, pastVars
  <1> QED BY <1>1, <1>2, <1>3, <1>4, <1>5, <1>6, <1>7, <1>8, <1>9, <1>10
         DEF Next, Adapter, Serve

\* PlatformDisplayAdapter and the broker process implement the abstract call:
\* nothing but the running call's content reaches the keyboard, at most twice,
\* and never after the call has been answered, in kind.
THEOREM BrokerImplementsCall == Spec => ImplementsDisplayCall
  <1>1. Init => Display!DisplayInit
    BY DEF Init, Display!DisplayInit
  <1>2. IInv => TypeOK /\ Pipes
    BY DEF IInv
  <1>3. Spec => []Kind
    BY <1>2, KindInit, KindStep, Invariance, PTL DEF Spec
  <1> QED BY <1>1, <1>3, StepIsDisplayed, Invariance, PTL
         DEF Spec, ImplementsDisplayCall, Display!DisplaySpec

---------------------------------------------------------------------------
(***************************************************************************)
(* Waiting                                                                 *)
(***************************************************************************)

\* Nothing is in the pipes at the start, and nobody waits.
LEMMA NobodyWaitsInit == Init => NobodyWaitsInVain
  BY DEF Init, NobodyWaitsInVain

\* Whoever takes something off a pipe leaves the other side something to do.
LEMMA NobodyWaitsStep == Pipes /\ NobodyWaitsInVain /\ [Next]_vars => NobodyWaitsInVain'
  <1> SUFFICES ASSUME Pipes, NobodyWaitsInVain, [Next]_vars PROVE NobodyWaitsInVain'
    OBVIOUS
  <1> USE DEF NobodyWaitsInVain
  <1>1. ASSUME NEW r \in HidBrokerRequest, Call(r) PROVE NobodyWaitsInVain'
    BY <1>1 DEF Call, brokerVars
  <1>2. CASE Spawn
    BY <1>2 DEF Spawn
  <1>3. CASE SpawnFails \/ PipeFails
    BY <1>3 DEF SpawnFails, PipeFails, FailAttempt, Drop, brokerVars
  <1>4. CASE Reuse
    BY <1>4 DEF Reuse, brokerVars
  <1>5. CASE Send
    <2>1. stdin = <<>>
      BY <1>5, Singleton DEF Send, Pipes
    <2>2. stdin' # <<>>
      BY <1>5, <2>1, Singleton DEF Send
    <2> QED BY <1>5, <2>2 DEF Send
  <1>6. CASE Receive
    BY <1>6 DEF Receive
  <1>7. CASE EndSession
    BY <1>7 DEF EndSession, Drop, adapterVars
  <1>8. CASE TakeRequest \/ OpenDevice
    BY <1>8, Singleton DEF TakeRequest, OpenDevice, Handling, Pipes, adapterVars
  <1>9. ASSUME serving # "reading", NEW a \in HidBrokerResponse, Reply(a),
               UNCHANGED <<adapterVars, broker>>
        PROVE  NobodyWaitsInVain'
    BY <1>9, ReplyIs, Singleton DEF Pipes, adapterVars
  <1>10. {"ok", "present", "absent", "error"} \subseteq HidBrokerResponse
    BY DEF HidBrokerResponse
  <1>11. CASE Probe \/ NoDevice \/ ReadStatus \/ NoStatus
    BY <1>9, <1>10, <1>11 DEF Probe, NoDevice, ReadStatus, NoStatus, Handling, Awaiting
  <1>12. CASE WriteReport
    BY <1>12 DEF WriteReport, adapterVars
  <1>13. CASE Crash
    BY <1>13 DEF Crash, adapterVars
  <1>14. CASE Execute \/ UNCHANGED vars
    BY <1>14 DEF Execute, vars, adapterVars, brokerVars
  <1> QED BY <1>1, <1>2, <1>3, <1>4, <1>5, <1>6, <1>7, <1>8, <1>11, <1>12, <1>13, <1>14
         DEF Next, Adapter, Serve

\* PlatformDisplayAdapter::request and the broker's loop never wait for each
\* other, whatever crashes in between.
THEOREM NobodyWaits == Spec => []NobodyWaitsInVain
  <1>1. IInv => Pipes
    BY DEF IInv
  <1> QED BY <1>1, NobodyWaitsInit, NobodyWaitsStep, Invariance, PTL DEF Spec

\* How much is left of an attempt, read off the state.
LEMMA LeftIs ==
  ASSUME TypeOK
  PROVE  /\ client = "start" => Left = 7
         /\ client = "send" => Left = 6
         /\ client = "receive" /\ (stdout # <<>> \/ broker = "dead") => Left = 1
         /\ client = "receive" /\ stdout = <<>> /\ broker # "dead" =>
              /\ serving = "reading" => Left = 5
              /\ serving = "handling" => Left = 4
              /\ serving = "open" => Left = 3
              /\ serving = "awaiting" => Left = 2
  BY DEF TypeOK, Left

\* The bounds of what is left.
LEMMA LeftRange == ASSUME TypeOK, client # "rest" PROVE Left \in 1 .. 7
  BY LeftIs DEF TypeOK

\* They hold after a step as well.
LEMMA LeftRangeNext == ASSUME TypeOK', client' # "rest" PROVE Left' \in 1 .. 7
  <1>1. /\ client' \in {"start", "send", "receive"}
        /\ serving' \in {"reading", "handling", "open", "awaiting"}
    BY DEF TypeOK
  <1>2. CASE client' # "receive" \/ stdout' # <<>> \/ broker' = "dead"
    BY <1>1, <1>2 DEF Left
  <1>3. CASE client' = "receive" /\ stdout' = <<>> /\ broker' # "dead"
    BY <1>1, <1>3 DEF Left
  <1> QED BY <1>2, <1>3

\* An attempt that fails leaves the second attempt, or nothing.
LEMMA FailingAdvances ==
  ASSUME TypeOK, TypeOK', client # "rest", FailAttempt
  PROVE  Work' \in 0 .. Work /\ Work' < Work
  <1>1. Left \in 1 .. 7 /\ attempt \in {1, 2}
    BY LeftRange DEF TypeOK
  <1>2. CASE attempt = 1
    <2>1. client' = "start" /\ attempt' = 2
      BY <1>2 DEF FailAttempt
    <2>2. Left' = 7
      BY <2>1 DEF Left
    <2> QED BY <1>1, <1>2, <2>1, <2>2 DEF Work
  <1>3. CASE attempt # 1
    <2>1. client' = "rest"
      BY <1>3 DEF FailAttempt
    <2> QED BY <1>1, <1>3, <2>1 DEF Work
  <1> QED BY <1>2, <1>3

\* A step within an attempt leaves less to do if it leaves less of the attempt.
LEMMA WithinAttempt ==
  ASSUME TypeOK, TypeOK', client # "rest", client' # "rest", attempt' = attempt,
         Left' <= Left
  PROVE  Work' \in 0 .. Work /\ (Left' < Left => Work' < Work)
  <1>1. Left \in 1 .. 7 /\ Left' \in 1 .. 7 /\ attempt \in {1, 2}
    BY LeftRange, LeftRangeNext DEF TypeOK
  <1>2. Work = 8 * (2 - attempt) + Left /\ Work' = 8 * (2 - attempt) + Left'
    BY Zenon DEF Work
  <1>3. \A n, m \in 1 .. 7 : \A k \in {1, 2} :
          m <= n => /\ 8 * (2 - k) + m \in 0 .. 8 * (2 - k) + n
                    /\ m < n => 8 * (2 - k) + m < 8 * (2 - k) + n
    OBVIOUS
  <1> QED BY <1>1, <1>2, <1>3, Zenon

\* Each step of a call leaves it with less to do.
LEMMA OwnStep ==
  ASSUME IInv, IInv', client # "rest", Adapter \/ SpawnFails \/ Serve
  PROVE  Work' \in 0 .. Work /\ Work' < Work
  <1>0. TypeOK /\ TypeOK' /\ Pipes /\ Pipes'
    BY DEF IInv
  <1>1. CASE Spawn \/ Reuse
    <2>1. client = "start" /\ client' = "send" /\ attempt' = attempt
      BY <1>1 DEF Spawn, Reuse
    <2>2. Left = 7 /\ Left' = 6
      BY <2>1 DEF Left
    <2> QED BY <1>0, <2>1, <2>2, WithinAttempt
  <1>2. CASE Send
    <2>1. client = "send" /\ client' = "receive" /\ attempt' = attempt
      BY <1>2 DEF Send
    <2>2. stdout' = <<>> /\ broker' # "dead" /\ serving' = "reading"
      BY <1>0, <1>2, Singleton DEF Send, Pipes
    <2>3. Left = 6 /\ Left' = 5
      BY <2>1, <2>2 DEF Left
    <2> QED BY <1>0, <2>1, <2>3, WithinAttempt
  <1>3. CASE Receive
    <2>1. client' = "rest" /\ Left \in 1 .. 7 /\ attempt \in {1, 2}
      BY <1>0, <1>3, LeftRange DEF Receive, TypeOK
    <2> QED BY <2>1 DEF Work
  <1>4. CASE SpawnFails \/ PipeFails
    <2>1. FailAttempt
      BY <1>4 DEF SpawnFails, PipeFails
    <2> QED BY <1>0, <2>1, FailingAdvances
  <1>5. CASE Serve
    <2>1. /\ client = "receive" /\ client' = "receive" /\ attempt' = attempt
          /\ stdout = <<>> /\ broker = "running" /\ broker' = "running"
      <3>1. broker = "running" /\ stdin # <<>>
        BY <1>0, <1>5, Singleton DEF Serve, TakeRequest, Probe, OpenDevice, NoDevice,
           WriteReport, ReadStatus, NoStatus, Handling, Awaiting, Pipes
      <3> QED BY <1>0, <1>5, <3>1, ServeKeeps DEF Pipes, adapterVars
    <2>2. Left' < Left
      <3>1. CASE TakeRequest
        <4>1. serving = "reading" /\ serving' = "handling" /\ stdout' = <<>>
          BY <2>1, <3>1 DEF TakeRequest
        <4> QED BY <2>1, <4>1 DEF Left
      <3>2. CASE OpenDevice
        <4>1. serving = "handling" /\ serving' = "open" /\ stdout' = <<>>
          BY <2>1, <3>2 DEF OpenDevice, Handling
        <4> QED BY <2>1, <4>1 DEF Left
      <3>3. CASE WriteReport
        <4>1. serving = "open" /\ serving' = "awaiting" /\ stdout' = <<>>
          BY <2>1, <3>3 DEF WriteReport
        <4> QED BY <2>1, <4>1 DEF Left
      <3>4. CASE Probe \/ NoDevice \/ ReadStatus \/ NoStatus
        <4>1. serving \in {"handling", "open", "awaiting"}
          BY <3>4 DEF Probe, NoDevice, ReadStatus, NoStatus, Handling, Awaiting
        <4>2. PICK a \in HidBrokerResponse : Reply(a)
          BY <3>4 DEF Probe, NoDevice, ReadStatus, NoStatus, HidBrokerResponse
        <4>3. stdout' # <<>>
          BY <1>0, <4>1, <4>2, ReplyIs, Singleton
        <4> QED BY <2>1, <4>1, <4>3 DEF Left
      <3> QED BY <1>5, <3>1, <3>2, <3>3, <3>4 DEF Serve
    <2>3. Left \in 1 .. 7 /\ Left' \in 1 .. 7
      BY <1>0, <2>1, LeftRange, LeftRangeNext
    <2> QED BY <1>0, <2>1, <2>2, <2>3, WithinAttempt
  <1> QED BY <1>1, <1>2, <1>3, <1>4, <1>5 DEF Adapter

\* What is left to do is read off the adapter, the broker and the pipes.
LEMMA SameWork ==
  ASSUME IInv, UNCHANGED <<client, attempt, broker, stdout, serving>>
  PROVE  Work' \in 0 .. Work
  <1>1. Left' = Left /\ Work' = Work
    BY DEF Left, Work
  <1>2. client # "rest" => Left \in 1 .. 7
    BY LeftRange DEF IInv
  <1> QED BY <1>1, <1>2 DEF Work, IInv, TypeOK

\* No other step of the system gives the running call more to do.
LEMMA OtherStep ==
  ASSUME IInv, IInv', client # "rest", [Next]_vars
  PROVE  Work' \in 0 .. Work
  <1>0. TypeOK /\ TypeOK'
    BY DEF IInv
  <1>1. CASE Crash
    <2>1. /\ client' = client /\ attempt' = attempt /\ stdout' = stdout
          /\ broker' = "dead"
      BY <1>1 DEF Crash, adapterVars
    <2>2. Left' <= Left
      BY <1>0, <2>1, LeftRange DEF Left, TypeOK
    <2> QED BY <1>0, <2>1, <2>2, WithinAttempt
  <1>2. CASE Execute \/ UNCHANGED vars
    BY <1>2, SameWork DEF Execute, vars, adapterVars, brokerVars
  <1> QED BY <1>1, <1>2, OwnStep DEF Next, Call, EndSession

\* Each step of the adapter or the broker uses up a part of what the running
\* call has left to do, of which nothing makes more: request has two attempts,
\* and request_once no loop.
THEOREM CallsAdvance == Spec => CallAdvances
  <1>1. IInv /\ IInv' /\ [Next]_vars =>
          [client # "rest" => /\ Work' \in 0 .. Work
                              /\ Adapter \/ SpawnFails \/ Serve => Work' < Work]_vars
    BY OwnStep, OtherStep
  <1> QED BY <1>1, Invariance, PTL DEF Spec, CallAdvances

=============================================================================
