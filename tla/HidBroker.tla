----------------------------- MODULE HidBroker -----------------------------
(***************************************************************************)
(* How a display call of the bridge reaches the keyboard on Windows        *)
(* (agent-notify-bridge): the PlatformDisplayAdapter with its one retry    *)
(* (src/display.rs), the broker process at the other end of two pipes      *)
(* (src/hid_broker.rs, src/ipc.rs) and the HID reports it exchanges with   *)
(* the keyboard (src/uhk.rs).                                              *)
(*                                                                         *)
(* The adapter runs one call at a time and keeps at most one broker, so    *)
(* one variable each stands for the child process and its pipes.           *)
(***************************************************************************)
EXTENDS Integers, Sequences

CONSTANTS
  Event,      (* what may be displayed                                     *)
  None,       (* the cleared display, and the absence of a request         *)
  MaxCalls,   (* bound: calls of the adapter                               *)
  MaxFaults   (* bound: crashes of the broker, and failures to start it    *)

ASSUME BrokerAssumption == /\ None \notin Event
                           /\ {MaxCalls, MaxFaults} \subseteq Nat

VARIABLES
  client,    (* where the adapter stands                                   *)
  request,   (* the request of the running call, or of the last one        *)
  attempt,   (* which request_once of the call is running                  *)
  answer,    (* how the last call ended                                    *)
  broker,    (* self.broker: none, running, or dead and not yet noticed    *)
  stdin,     (* the pipe to the broker                                     *)
  stdout,    (* the pipe from the broker                                   *)
  serving,   (* where the broker stands                                    *)
  reports,   (* HID reports the keyboard has not executed yet              *)
  acks,      (* statuses received by the HID handle that is open           *)
  shown,     (* what the keyboard shows                                    *)
  calls,     (* how many calls were made                                   *)
  faults,    (* how many faults there were                                 *)
  written,   (* history: reports written for the running call              *)
  faulted,   (* history: whether there was a fault during the call         *)
  crossed,   (* history: whether a report was written before the status    *)
             (* of an earlier one had been received or missed              *)
  refused    (* history: whether the keyboard has refused a report         *)

adapterVars == <<client, request, attempt, answer>>
brokerVars  == <<broker, stdin, stdout, serving>>
deviceVars  == <<reports, acks, shown>>
faultVars   == <<faults, faulted>>
pastVars    == <<calls, written, crossed, refused>>
vars == <<adapterVars, brokerVars, deviceVars, faultVars, pastVars>>

---------------------------------------------------------------------------

ProbeKeyboard    == [type |-> "probe", content |-> None]
SetDisplay(e)    == [type |-> "set_display", content |-> e]
Clear            == [type |-> "clear", content |-> None]
HidBrokerRequest == {ProbeKeyboard, Clear} \cup {SetDisplay(e) : e \in Event}

\* What the broker answers; every error of display_macro_command is "error".
HidBrokerResponse == {"ok", "present", "absent", "error"}

Init ==
  /\ client = "rest" /\ request = ProbeKeyboard /\ attempt = 1 /\ answer = "none"
  /\ broker = "none" /\ stdin = <<>> /\ stdout = <<>> /\ serving = "reading"
  /\ reports = <<>> /\ acks = <<>> /\ shown = None
  /\ faults = 0 /\ faulted = FALSE
  /\ calls = 0 /\ written = 0 /\ crossed = FALSE /\ refused = FALSE

---------------------------------------------------------------------------
(***************************************************************************)
(* The adapter                                                             *)
(***************************************************************************)

Call(r) ==
  /\ client = "rest"
  /\ calls < MaxCalls
  /\ calls' = calls + 1
  /\ client' = "start" /\ request' = r /\ attempt' = 1 /\ answer' = "none"
  /\ written' = 0 /\ faulted' = FALSE
  /\ UNCHANGED <<brokerVars, deviceVars, faults, crossed, refused>>

\* The client is dropped: Shutdown is sent, the child killed and waited for.
Drop ==
  /\ broker' = "none"
  /\ stdin' = <<>> /\ stdout' = <<>>
  /\ serving' = "reading"
  /\ acks' = <<>>

\* Mutated forms of FailAttempt: the retry goes to the same broker; one try
\* too many.
FailAttemptKeeping ==
  IF attempt = 1
  THEN /\ client' = "start" /\ attempt' = 2
       /\ UNCHANGED <<brokerVars, answer, acks>>
  ELSE /\ client' = "rest" /\ answer' = "ipc_error"
       /\ UNCHANGED <<brokerVars, attempt, acks>>

FailAttemptOnceMore ==
  IF attempt <= 2
  THEN /\ client' = "start" /\ attempt' = attempt + 1
       /\ Drop
       /\ UNCHANGED answer
  ELSE /\ client' = "rest" /\ answer' = "ipc_error"
       /\ UNCHANGED <<brokerVars, attempt, acks>>

\* The first failure drops the broker; the second one leaves it where it is.
FailAttempt ==
  IF attempt = 1
  THEN /\ client' = "start" /\ attempt' = 2
       /\ Drop
       /\ UNCHANGED answer
  ELSE /\ client' = "rest" /\ answer' = "ipc_error"
       /\ UNCHANGED <<brokerVars, attempt, acks>>

Fault ==
  /\ faults < MaxFaults
  /\ faults' = faults + 1
  /\ faulted' = TRUE

Spawn ==
  /\ client = "start"
  /\ broker = "none"
  /\ client' = "send" /\ broker' = "running"
  /\ UNCHANGED <<request, attempt, answer, stdin, stdout, serving, deviceVars,
                 faultVars, pastVars>>

SpawnFails ==
  /\ client = "start"
  /\ broker = "none"
  /\ Fault
  /\ FailAttempt
  /\ UNCHANGED <<request, reports, shown, pastVars>>

Reuse ==
  /\ client = "start"
  /\ broker # "none"
  /\ client' = "send"
  /\ UNCHANGED <<request, attempt, answer, brokerVars, deviceVars, faultVars,
                 pastVars>>

Send ==
  /\ client = "send"
  /\ broker = "running"
  /\ stdin' = Append(stdin, request)
  /\ client' = "receive"
  /\ UNCHANGED <<request, attempt, answer, broker, stdout, serving, deviceVars,
                 faultVars, pastVars>>

Receive ==
  /\ client = "receive"
  /\ stdout # <<>>
  /\ answer' = Head(stdout)
  /\ stdout' = Tail(stdout)
  /\ client' = "rest"
  /\ UNCHANGED <<request, attempt, broker, stdin, serving, deviceVars,
                 faultVars, pastVars>>

\* The pipe is broken, or at its end before an answer came.
PipeFails ==
  /\ client = "send" \/ (client = "receive" /\ stdout = <<>>)
  /\ broker = "dead"
  /\ FailAttempt
  /\ UNCHANGED <<request, reports, shown, faultVars, pastVars>>

\* bridge_session ends, and drops its DisplayAdapter.
EndSession ==
  /\ client = "rest"
  /\ broker # "none"
  /\ Drop
  /\ UNCHANGED <<adapterVars, reports, shown, faultVars, pastVars>>

Adapter == Spawn \/ Reuse \/ Send \/ Receive \/ PipeFails

---------------------------------------------------------------------------
(***************************************************************************)
(* The broker                                                              *)
(***************************************************************************)

\* read_message returns the request that handle_request then works on.
TakeRequest ==
  /\ broker = "running" /\ serving = "reading"
  /\ stdin # <<>>
  /\ serving' = "handling"
  /\ UNCHANGED <<adapterVars, broker, stdin, stdout, deviceVars, faultVars,
                 pastVars>>

\* Mutated form of Reply: the request is not taken off the pipe.
ReplyAgain(response) ==
  /\ stdout' = Append(stdout, response)
  /\ serving' = "reading"
  /\ UNCHANGED stdin

\* write_message(writer, &response), and on to the next request.
Reply(response) ==
  /\ stdout' = Append(stdout, response)
  /\ stdin' = Tail(stdin)
  /\ serving' = "reading"

Handling(type) ==
  /\ broker = "running" /\ serving = "handling"
  /\ Head(stdin).type \in type

Probe ==
  /\ Handling({"probe"})
  /\ \E response \in {"present", "absent"} : Reply(response)
  /\ UNCHANGED <<adapterVars, broker, deviceVars, faultVars, pastVars>>

\* A handle is opened, on which nothing has been received.
OpenDevice ==
  /\ Handling({"set_display", "clear"})
  /\ serving' = "open"
  /\ UNCHANGED <<adapterVars, broker, stdin, stdout, deviceVars, faultVars,
                 pastVars>>

\* The keyboard is not there, or cannot be opened or written to.
NoDevice ==
  /\ Handling({"set_display", "clear"}) \/ (broker = "running" /\ serving = "open")
  /\ Reply("error")
  /\ acks' = <<>>
  /\ UNCHANGED <<adapterVars, broker, reports, shown, faultVars, pastVars>>

WriteReport ==
  /\ broker = "running" /\ serving = "open"
  /\ reports' = Append(reports, Head(stdin).content)
  /\ serving' = "awaiting"
  /\ written' = written + 1
  /\ crossed' = (crossed \/ reports # <<>> \/ acks # <<>>)
  /\ UNCHANGED <<adapterVars, broker, stdin, stdout, acks, shown, faultVars, calls,
                 refused>>

Awaiting == broker = "running" /\ serving = "awaiting"

\* Mutated forms of ReadStatus: the status is not looked at; a report that is
\* refused gets no answer.
ReadStatusBlindly ==
  /\ Awaiting
  /\ acks # <<>>
  /\ Reply("ok")
  /\ acks' = <<>>
  /\ UNCHANGED <<adapterVars, broker, reports, shown, faultVars, pastVars>>

ReadStatusSilently ==
  /\ Awaiting
  /\ acks # <<>>
  /\ IF Head(acks) = "obeyed"
     THEN Reply("ok")
     ELSE serving' = "reading" /\ stdin' = Tail(stdin) /\ UNCHANGED stdout
  /\ acks' = <<>>
  /\ UNCHANGED <<adapterVars, broker, reports, shown, faultVars, pastVars>>

\* The first status received on the handle counts, whichever report it is for.
ReadStatus ==
  /\ Awaiting
  /\ acks # <<>>
  /\ Reply(IF Head(acks) = "obeyed" THEN "ok" ELSE "error")
  /\ acks' = <<>>
  /\ UNCHANGED <<adapterVars, broker, reports, shown, faultVars, pastVars>>

\* No status within a second, or the handle cannot be read.
NoStatus ==
  /\ Awaiting
  /\ Reply("error")
  /\ acks' = <<>>
  /\ UNCHANGED <<adapterVars, broker, reports, shown, faultVars, pastVars>>

Serve == \/ TakeRequest \/ Probe \/ OpenDevice \/ NoDevice
         \/ WriteReport \/ ReadStatus \/ NoStatus

\* The process dies: its handle is closed, what it has answered can be read.
Crash ==
  /\ broker = "running"
  /\ Fault
  /\ broker' = "dead"
  /\ stdin' = <<>> /\ acks' = <<>>
  /\ serving' = "reading"
  /\ UNCHANGED <<adapterVars, stdout, reports, shown, pastVars>>

---------------------------------------------------------------------------
(***************************************************************************)
(* The keyboard executes its reports in order and sends a status for each, *)
(* which only a handle that is open at that moment receives.               *)
(***************************************************************************)

HandleOpen == broker = "running" /\ serving \in {"open", "awaiting"}

Execute ==
  /\ reports # <<>>
  /\ \E status \in {"obeyed", "refused"} :
       /\ shown' = IF status = "obeyed" THEN Head(reports) ELSE shown
       /\ acks' = IF HandleOpen THEN Append(acks, status) ELSE acks
       /\ refused' = (refused \/ status = "refused")
  /\ reports' = Tail(reports)
  /\ UNCHANGED <<adapterVars, brokerVars, faultVars, calls, written, crossed>>

---------------------------------------------------------------------------

Next ==
  \/ \E r \in HidBrokerRequest : Call(r)
  \/ Adapter \/ SpawnFails \/ EndSession
  \/ Serve \/ Crash
  \/ Execute

Spec == Init /\ [][Next]_vars

\* The bridge's thread and the broker run, and each HID call of the broker
\* returns.  Nothing is asked of the keyboard.
FairSpec == Spec /\ WF_vars(Adapter) /\ WF_vars(Serve)

---------------------------------------------------------------------------
(***************************************************************************)
(* The abstract call                                                       *)
(***************************************************************************)

Display == INSTANCE DisplayCall
             WITH Request    <- HidBrokerRequest,
                  Probe      <- ProbeKeyboard,
                  Nothing    <- None,
                  busy       <- client # "rest",
                  queue      <- reports,
                  display    <- shown,
                  delivered  <- written,
                  broken     <- faulted,
                  overlapped <- crossed

---------------------------------------------------------------------------
(***************************************************************************)
(* Properties                                                              *)
(***************************************************************************)

\* Every variable holds a value of its type.
TypeOK ==
  /\ client \in {"rest", "start", "send", "receive"}
  /\ request \in HidBrokerRequest
  /\ attempt \in {1, 2}
  /\ answer \in HidBrokerResponse \cup {"none", "ipc_error"}
  /\ broker \in {"none", "running", "dead"}
  /\ stdin \in Seq(HidBrokerRequest) /\ stdout \in Seq(HidBrokerResponse)
  /\ serving \in {"reading", "handling", "open", "awaiting"}
  /\ reports \in Seq(Event \cup {None})
  /\ acks \in Seq({"obeyed", "refused"})
  /\ shown \in Event \cup {None}
  /\ calls \in Nat /\ faults \in Nat /\ written \in Nat
  /\ faulted \in BOOLEAN /\ crossed \in BOOLEAN /\ refused \in BOOLEAN

(***************************************************************************)
(* A call that reports success, after crashes, a retry or a new broker as  *)
(* well, has put its content on the keyboard: at once if no report was     *)
(* ever written while the status of an earlier one was still to come, for  *)
(* it may then be that status which is read, and in any case once the      *)
(* keyboard has caught up, if it refuses nothing.                          *)
(***************************************************************************)
OkMeansShown ==
  /\ client = "rest"
  /\ answer = "ok"
  /\ ~ crossed \/ (reports = <<>> /\ ~ refused)
  => shown = request.content

(***************************************************************************)
(* The retry heals: whatever happened to the broker before, a call fails   *)
(* over IPC only if the broker crashed or could not be started during it.  *)
(***************************************************************************)
HealsInOneCall == client = "rest" /\ answer = "ipc_error" => faulted

(***************************************************************************)
(* A call writes its report at most twice, and twice only if the broker    *)
(* crashed: an error the broker reports is not retried.                    *)
(***************************************************************************)
WrittenAtMostTwice == written <= IF faulted THEN 2 ELSE 1

(***************************************************************************)
(* The adapter, the broker and the pipes implement the abstract call: only *)
(* the running call's content is ever handed to the keyboard, never after  *)
(* the call was answered, whichever process died or was killed; each       *)
(* request is answered in kind, so that the adapter's "unexpected          *)
(* response" arms (display.rs:113, 125) are never taken.                   *)
(***************************************************************************)
ImplementsDisplayCall == Display!DisplaySpec

(***************************************************************************)
(* The adapter and the broker never both wait: while a call is running,    *)
(* there is a broker to send to, and once the request is sent, the broker  *)
(* has it to work on, or there is something for the adapter to read, an    *)
(* answer or the end of the pipe (display.rs:140, hid_broker.rs:79).       *)
(***************************************************************************)
NobodyWaitsInVain ==
  /\ client = "send" => broker # "none"
  /\ client = "receive" => stdin # <<>> \/ stdout # <<>> \/ broker = "dead"
  /\ serving # "reading" => stdin # <<>>

\* How many steps an attempt has left, and how many the running call has.
Left ==
  CASE client = "start"   -> 7
    [] client = "send"    -> 6
    [] client = "receive" ->
         IF stdout # <<>> \/ broker = "dead" THEN 1
         ELSE [reading |-> 5, handling |-> 4, open |-> 3, awaiting |-> 2][serving]

Work == IF client = "rest" THEN 0 ELSE 8 * (2 - attempt) + Left

(***************************************************************************)
(* A call cannot go on for ever: whatever the broker answers, each step of *)
(* the adapter or the broker leaves the call with less to do, and neither  *)
(* a crash nor the keyboard gives it more to do.                           *)
(***************************************************************************)
CallAdvances ==
  [][client # "rest" => /\ Work' \in 0 .. Work
                        /\ Adapter \/ SpawnFails \/ Serve => Work' < Work]_vars

(***************************************************************************)
(* Every call returns, also when the broker dies under it or the keyboard  *)
(* never answers.                                                          *)
(***************************************************************************)
CallReturns == client # "rest" ~> client = "rest"

=============================================================================
