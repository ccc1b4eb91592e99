---------------------------- MODULE DisplayCall ----------------------------
(***************************************************************************)
(* What a call of the DisplayAdapter promises to bridge_session            *)
(* (agent-notify-bridge src/display.rs), with processes, pipes, HID        *)
(* handles and retries left out: one call runs at a time, it hands its     *)
(* content to the keyboard at most once, or twice if something broke       *)
(* meanwhile, and nothing of it arrives after it has returned.             *)
(***************************************************************************)
EXTENDS Integers, Sequences

CONSTANTS
  Request,  (* what may be asked for, each with the content to be shown    *)
  Probe,    (* the request that only asks whether the keyboard is there    *)
  Nothing   (* the cleared display                                         *)

VARIABLES
  busy,       (* whether a call is running                                 *)
  request,    (* the request of the running call, or of the last one       *)
  answer,     (* how the last call ended                                   *)
  queue,      (* contents the keyboard has still to take over              *)
  display,    (* what the keyboard shows                                   *)
  delivered,  (* how often the running or last call has delivered          *)
  broken,     (* whether something broke during the call                   *)
  overlapped  (* whether a content was ever delivered before the fate of   *)
              (* an earlier one was known                                  *)

displayVars == <<busy, request, answer, queue, display, delivered, broken, overlapped>>

DisplayInit ==
  /\ busy = FALSE /\ request = Probe /\ answer = "none"
  /\ queue = <<>> /\ display = Nothing
  /\ delivered = 0 /\ broken = FALSE /\ overlapped = FALSE

Begin(r) ==
  /\ ~ busy
  /\ busy' = TRUE /\ request' = r /\ answer' = "none"
  /\ delivered' = 0 /\ broken' = FALSE
  /\ UNCHANGED <<queue, display, overlapped>>

Break ==
  /\ broken' = TRUE
  /\ UNCHANGED <<busy, request, answer, queue, display, delivered, overlapped>>

Deliver ==
  /\ busy /\ request # Probe
  /\ delivered < IF broken THEN 2 ELSE 1
  /\ delivered' = delivered + 1
  /\ queue' = Append(queue, request.content)
  /\ overlapped' \in {overlapped \/ queue # <<>>, TRUE}
  /\ UNCHANGED <<busy, request, answer, display, broken>>

\* The keyboard shows a content, or refuses it.
TakeOver ==
  /\ queue # <<>>
  /\ queue' = Tail(queue)
  /\ display' \in {display, Head(queue)}
  /\ UNCHANGED <<busy, request, answer, delivered, broken, overlapped>>

\* A request is answered in kind, or fails for want of a broker.
Answers(r) == (IF r = Probe THEN {"present", "absent"} ELSE {"ok", "error"})
                \cup {"ipc_error"}

\* A success is a promise about the display, a failure is none.
Return(a) ==
  /\ busy
  /\ a = "ok" => /\ delivered > 0
                 /\ overlapped \/ (queue = <<>> /\ display = request.content)
  /\ a = "ipc_error" => broken'
  /\ broken' \in {broken, TRUE}
  /\ busy' = FALSE /\ answer' = a
  /\ UNCHANGED <<request, queue, display, delivered, overlapped>>

DisplayNext ==
  \/ \E r \in Request : Begin(r)
  \/ Break \/ Deliver \/ TakeOver
  \/ \E a \in Answers(request) : Return(a)

DisplaySpec == DisplayInit /\ [][DisplayNext]_displayVars

=============================================================================
