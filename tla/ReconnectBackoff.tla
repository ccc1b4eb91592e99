------------------------- MODULE ReconnectBackoff --------------------------
(***************************************************************************)
(* The outer loop of the bridge's worker (agent-notify-bridge              *)
(* src/worker.rs, run_bridge_worker): connection attempts, sessions and    *)
(* the waits between them.  What happens inside a session is the subject   *)
(* of BridgeDelivery; here it ends in one of four ways.                    *)
(*                                                                         *)
(* Time passes in ticks.  Durations are measured by counters that stop at  *)
(* Horizon, a length beyond every limit of the code, so that the state     *)
(* space is finite although the loop runs forever.                         *)
(***************************************************************************)
EXTENDS Integers, Sequences

CONSTANTS
  Base,      (* RECONNECT_BASE, 500 ms                                     *)
  Max,       (* RECONNECT_MAX, 30 s                                        *)
  Stable,    (* STABLE_SESSION, 10 s                                       *)
  MaxU32,    (* u32::MAX                                                   *)
  Horizon,   (* where the measuring of durations stops                     *)
  MaxQueued  (* bound: commands waiting in the channel                     *)

ASSUME BackoffAssumption ==
  /\ {Base, Max, Stable, MaxU32, Horizon, MaxQueued} \subseteq Nat
  /\ 1 <= Base /\ Base <= Stable /\ Base <= Max
  /\ 1 <= MaxU32
  /\ Max <= Horizon /\ Stable <= Horizon

VARIABLES
  pc,         (* where the loop stands                                     *)
  failures,   (* failures                                                  *)
  remaining,  (* what is left of the sleep                                 *)
  since,      (* started.elapsed(), that is, since the last attempt began  *)
  connected,  (* history: how long the session has been connected          *)
  commands,   (* the Reconnect and Quit commands in the channel            *)
  due,        (* history: the delay that the bad attempts since the last   *)
              (* good one call for                                         *)
  exempt      (* history: the next attempt follows no other, or Reconnect  *)

vars == <<pc, failures, remaining, since, connected, commands, due, exempt>>

Min(a, b) == IF a <= b THEN a ELSE b

---------------------------------------------------------------------------

\* 1u32 << exp, for exp in 0 ..= 16
Shift == <<1, 2, 4, 8, 16, 32, 64, 128, 256, 512, 1024, 2048, 4096, 8192,
           16384, 32768, 65536>>

\* The delay reaches its cap before the shift, or the count of failures, stops.
ASSUME CapAssumption == Max <= Base * Shift[Min(MaxU32, 17)]

\* Mutated forms of Backoff: without the cap; growing by Base, not doubling.
BackoffUncapped(f) ==
  LET exp == Min(IF f = 0 THEN 0 ELSE f - 1, 16)
  IN  Base * Shift[exp + 1]

BackoffLinear(f) == Min(Base * f, Max)

\* reconnect_delay without its jitter; exp = failures.saturating_sub(1).min(16)
Backoff(f) ==
  LET exp == Min(IF f = 0 THEN 0 ELSE f - 1, 16)
  IN  Min(Base * Shift[exp + 1], Max)

\* Mutated form of SaturatingSucc: a plain addition.
PlainSucc(f) == f + 1

SaturatingSucc(f) == Min(f + 1, MaxU32)

\* Mutated form of NextFailures: any session at all counts as healthy.
NextFailuresAlwaysZero(f, session) == 0

NextFailures(f, session) == IF session >= Stable THEN 0 ELSE SaturatingSucc(f)

\* What one more bad attempt makes of the delay that is due.
Doubled(delay) == IF delay = 0 THEN Base ELSE Min(2 * delay, Max)

Init ==
  /\ pc = "top"
  /\ failures = 0
  /\ remaining = 0
  /\ since = 0
  /\ connected = 0
  /\ commands = <<>>
  /\ due = 0
  /\ exempt = TRUE

\* A delay is due before the next attempt; jitter adds less than Base to it.
Sleep ==
  /\ pc = "top"
  /\ failures > 0
  /\ \E jitter \in 0 .. Base - 1 : remaining' = Backoff(failures) + jitter
  /\ pc' = "sleeping"
  /\ UNCHANGED <<failures, since, connected, commands, due, exempt>>

\* bridge_session is called, with a fresh start time.
Attempt ==
  /\ \/ pc = "top" /\ failures = 0
     \/ pc = "sleeping" /\ remaining = 0
  /\ pc' = "connecting"
  /\ since' = 0
  /\ connected' = 0
  /\ exempt' = FALSE
  /\ UNCHANGED <<failures, remaining, commands, due>>

ConnectOk ==
  /\ pc = "connecting"
  /\ pc' = "session"
  /\ UNCHANGED <<failures, remaining, since, connected, commands, due, exempt>>

\* bridge_session returns an error: it could not connect, a send failed, the
\* socket reported an error instead of a close, or the test could not be shown.
Fail ==
  /\ pc \in {"connecting", "session"}
  /\ pc' = "top"
  /\ failures' = SaturatingSucc(failures)
  /\ due' = Doubled(due)
  /\ UNCHANGED <<remaining, since, connected, commands, exempt>>

\* The server closes the socket: BridgeExit::Disconnected.
Disconnected ==
  /\ pc = "session"
  /\ pc' = "top"
  /\ failures' = NextFailures(failures, since)
  /\ due' = IF since >= Stable THEN 0 ELSE Doubled(due)
  /\ UNCHANGED <<remaining, since, connected, commands, exempt>>

\* Mutated form of HandleReconnect: it drains the channel.
HandleReconnectDraining ==
  /\ pc = "session"
  /\ commands # <<>> /\ Head(commands) = "reconnect"
  /\ commands' = <<>>
  /\ pc' = "top"
  /\ failures' = 0
  /\ due' = 0
  /\ exempt' = TRUE
  /\ UNCHANGED <<remaining, since, connected>>

\* Commands are only read inside a session.
HandleReconnect ==
  /\ pc = "session"
  /\ commands # <<>> /\ Head(commands) = "reconnect"
  /\ commands' = Tail(commands)
  /\ pc' = "top"
  /\ failures' = 0
  /\ due' = 0
  /\ exempt' = TRUE
  /\ UNCHANGED <<remaining, since, connected>>

HandleQuit ==
  /\ pc = "session"
  /\ commands # <<>> /\ Head(commands) = "quit"
  /\ commands' = Tail(commands)
  /\ pc' = "stopped"
  /\ UNCHANGED <<failures, remaining, since, connected, due, exempt>>

\* The user clicks in the tray menu, or presses Ctrl-C.
Command(command) ==
  /\ Len(commands) < MaxQueued
  /\ commands' = Append(commands, command)
  /\ UNCHANGED <<pc, failures, remaining, since, connected, due, exempt>>

Tick ==
  /\ pc \in {"sleeping", "connecting", "session"}
  /\ pc = "sleeping" => remaining > 0
  /\ since' = Min(since + 1, Horizon)
  /\ remaining' = IF pc = "sleeping" THEN remaining - 1 ELSE remaining
  /\ connected' = IF pc = "session" THEN Min(connected + 1, Horizon) ELSE connected
  /\ UNCHANGED <<pc, failures, commands, due, exempt>>

\* The worker has returned: nothing happens any more.
Stopped == pc = "stopped" /\ UNCHANGED vars

Next ==
  \/ Sleep \/ Attempt \/ ConnectOk \/ Fail \/ Disconnected
  \/ HandleReconnect \/ HandleQuit
  \/ \E command \in {"reconnect", "quit"} : Command(command)
  \/ Tick
  \/ Stopped

Spec == Init /\ [][Next]_vars

\* Time passes, the worker is scheduled, every connection attempt comes to an
\* end, and select! does not ignore a waiting command forever.
Fairness ==
  /\ WF_vars(Sleep \/ Attempt)
  /\ WF_vars(pc = "sleeping" /\ Tick)
  /\ WF_vars(pc = "connecting" /\ (ConnectOk \/ Fail))
  /\ SF_vars(HandleReconnect \/ HandleQuit)

FairSpec == Spec /\ Fairness

\* A server that can be reached again and again.
ReachableSpec == FairSpec /\ SF_vars(ConnectOk)

---------------------------------------------------------------------------
(***************************************************************************)
(* Properties                                                              *)
(***************************************************************************)

\* Every variable holds a value of its type.
TypeOK ==
  /\ pc \in {"top", "sleeping", "connecting", "session", "stopped"}
  /\ failures \in 0 .. MaxU32
  /\ remaining \in Nat
  /\ since \in 0 .. Horizon
  /\ connected \in 0 .. Horizon
  /\ commands \in Seq({"reconnect", "quit"})
  /\ due \in 0 .. Max
  /\ exempt \in BOOLEAN

\* A connection attempt that the user has not asked for, and not the first.
Retries == pc' = "connecting" /\ pc # "connecting" /\ ~ exempt

(***************************************************************************)
(* The server is never hammered: unless the user asked for it, an attempt  *)
(* begins at least one base delay after the one before it began, whatever  *)
(* mixture of refusals, errors, quick closes and long sessions they end    *)
(* in.                                                                     *)
(***************************************************************************)
Spaced == [][Retries => since >= Base]_vars

(***************************************************************************)
(* Each bad attempt in a row doubles the delay before the next one, from   *)
(* Base up to Max, however many there are: reconnect_delay's shift of a    *)
(* count that stops at u32::MAX makes the delays that doubling would.      *)
(***************************************************************************)
BacksOff == [][Retries => since >= due]_vars

(***************************************************************************)
(* The backoff never exceeds its cap, jitter included, and no arithmetic   *)
(* on the count of failures overflows.                                     *)
(***************************************************************************)
DelayCapped == pc = "sleeping" => remaining < Max + Base

(***************************************************************************)
(* While the server can be reached again and again, a Quit is obeyed: it   *)
(* survives the sleeps, failed attempts and sessions that end before it is *)
(* read, and the Reconnects in front of it.                                *)
(***************************************************************************)
QuitIsObeyed ==
  (\E i \in 1 .. Len(commands) : commands[i] = "quit") ~> pc = "stopped"

---------------------------------------------------------------------------
(***************************************************************************)
(* What the comments say and the code does not do                          *)
(***************************************************************************)

(***************************************************************************)
(* worker.rs:23: "A session that stayed connected at least this long       *)
(* counts as healthy, so a drop afterwards reconnects promptly".           *)
(***************************************************************************)
HealthyDropIsPrompt ==
  [][pc = "session" /\ pc' = "top" /\ connected >= Stable => failures' = 0]_vars

===========================================================================
