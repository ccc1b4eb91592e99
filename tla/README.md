# agent-notify: specification and verification

agent-notify carries notifications from coding agents to the display of a UHK80
keyboard. Agents post events to a server over HTTP; the server keeps the one
latest event and pushes it over a WebSocket to a bridge that runs next to the
keyboard, with a tray menu to pause, test, dismiss and reconnect. This directory
holds TLA+ models of that path, the TLC runs that check them and the theorems
proved about them with TLAPS.

## Inventory

| Component | State it keeps | Operations | Interacts with |
|---|---|---|---|
| Event model, `agent-notify-core/src/lib.rs` | none | `into_event`, `is_live`, `choose_latest`, macro formatting | called by the server and by the display |
| HTTP server, `agent-notify-server/src/main.rs` | `latest` (mutex), `seq` (atomic), `tx` (broadcast channel of 128) | POST, GET, DELETE | the socket tasks, through `latest` and `tx` |
| Socket task, same file | receiver position, `paused` mirror, `last_seen` | subscribe, snapshot, read Status, RequestLatest, DismissLatest, forward, keepalive | one bridge session, over one WebSocket |
| Bridge session, `agent-notify-bridge/src/worker.rs` | `current_state`, `last_display`, the shared `paused` flag | connect, heartbeat, five commands, two server messages | socket task; tray through the command channel and the flag; display |
| Reconnection loop, same file | `failures`, `started` | back off, attempt, classify the end of a session | bridge session |
| Tray, `tray.rs` | the check mark of the pause item, the icon | menu clicks, icon updates | worker, through the channel and the flag |
| Display adapter and HID broker, `display.rs`, `hid_broker.rs`, `ipc.rs` | child process and its pipes | request with one retry, serve, shut down | keyboard |
| HID access, `uhk.rs` | none | probe, write and await the acknowledgement | keyboard |
| Settings, `settings.rs`, `url.rs`, `main.rs` | `bridge.toml` at one of several paths | search, read, overlay, override, validate | bridge start; installer and user, who edit the file |
| Clients, `agent-notify-cli` (Rust and TypeScript) | none | parse the command line, infer the host name, send one HTTP request | server; hooks, through the exit code |

What is hard here is concurrency and time. Handlers run on several threads and
interleave at four points; the server changes the slot under a mutex and
announces the change after releasing it; the broadcast channel drops the oldest
messages of a slow receiver; a connection takes its messages with it when it
dies, and the socket task it leaves behind goes on reading; the pause flag has
two writers; a write to the keyboard may fail; commands queue up while the worker
sleeps; the wall clock may be set back. Starting is hard in another way: four layers
of configuration with different notions of a missing value, a file that may change
between being found and being read, and two clients, written in two languages, that
are meant to be interchangeable. `PROJECT.json` lists each hazard at its
line.

## Modules

* `AgentEvents`: the pure operators of `agent-notify-core`. An event is a record
  without its texts; the agent, host and repo of an event are one value, since
  the code compares them only together.
* `LatestBoard`: the abstract server. One slot, and a channel of announcements;
  whoever changes the slot owes an announcement of what it left there.
* `EventServer`: the HTTP handlers. A request is a process, cut where another
  thread can interleave: building the event (reads the clock), `fetch_add`, the
  critical section (reads the clock again), `tx.send`. The clock ticks, and may be
  set back. It implements `LatestBoard`: `ImplementsBoard` maps the debt of a
  client to a handler that has left the critical section and not sent yet.
* `EventServerProofs`: theorems about `EventServer`.
* `BridgeDelivery`: extends `LatestBoard` (which stands for the HTTP side) with the
  socket tasks, the sockets, the bridge's session and the tray. Connection `c` is
  the `c`-th the bridge makes; the task of an earlier one may linger. `keyboard` is
  what the keyboard was last told to show: what the firmware itself does with a
  `notify` after a while is not in the code.
* `DeliveryProofs`: theorems about `BridgeDelivery`.
* `ReconnectBackoff`: the loop around the sessions, with time in ticks. The history
  `due` is the delay by plain doubling, to hold the code's shift of a saturating
  count against.
* `BackoffProofs`: theorems about `ReconnectBackoff`.
* `HidBroker`: one display call on its way to the keyboard, on Windows. The
  adapter runs `request_once` at most twice and keeps at most one broker, so one
  variable each stands for the child process and its two pipes. The broker takes a
  request, opens a handle, writes the report and reads one status; the keyboard
  executes reports in order and its status reaches whatever handle is open then.
* `DisplayCall`: the abstract call: what `bridge_session` may expect of its
  `DisplayAdapter`. Attempts, processes, pipes and handles are gone; what is left is
  that only the running call hands its content to the keyboard, once, or twice if
  something broke, and that a success promises something about the display.
  `HidBroker` implements it (`ImplementsDisplayCall`). `BridgeDelivery` has such a
  call in one step, `Write`: its outcome "ok" is a `Return("ok")` without overlap,
  "failed" and "unacked" are the other answers, before or after `TakeOver`.
* `HidBrokerProofs`: theorems about `HidBroker`.
* `MacroCommand`: how an event's texts become a macro command: tokens, printable
  characters, and the loop that escapes character by character while the payload
  has room. A character is one of eight classes; all limits are those of the code.
  `ReadString` is the firmware's side: a recursive function that reads the command's
  string back.
* `MacroProofs`: theorems about `MacroCommand`.
* `Environment`: what a program finds where it is started: the `AGENT_NOTIFY_`
  variables and, in the order in which they are looked at, the places a host name
  may come from, with the two searches through them.
* `BridgeSettings`: the start of the bridge. Finding a path and reading it are two
  steps, between which the file may be written or removed (`EditFile`).
* `AgentClients`: the Rust and the TypeScript client, started with the same command
  line. The TypeScript one is modelled argument by argument as its loop runs; clap
  is not in this repository and is modelled from the `Args` it is derived from. A
  request may be obeyed and its answer lost. Before its loop, the TypeScript client
  compares what was loaded with what was called (`NodeEntry`): see "The TypeScript
  client behind a link" below.
* `Startup`: puts the bridge, or the clients, into one environment.
* `StartupProofs`: theorems about `Startup`.
* `MCEventServer`, `MCBridgeDelivery`, `MCMacroCommand`, `MCStartup`: instances for
  TLC.

## Runs

| Run | What it shows | Bounds |
|---|---|---|
| `EventServer` | types; rank decides whatever the order of the handlers; superseded and dismissed events stay away; refinement of the board | 3 requests, 6 inputs, clock to 1, set back once |
| `DeliveryAgreement` | types; once nothing is under way, the keyboard shows the latest event or what was announced last, although changes overlap | 2 events, 2 connections, capacity 1, one tray command (dismiss or reconnect), one DELETE, late acknowledgements |
| `DeliveryMenu` | pauses are obeyed; flag and mirror follow the menu; the icon tells the truth | 1 event, 2 connections, 3 clicks on pause and test, failing writes |
| `DeliveryLive` | liveness: the latest event is shown; a task that has caught up has told the bridge of it; keyboard and server agree once nothing is under way, although events expire | 2 events, one change at a time, 2 connections, capacity 1, expiry, one heartbeat |
| `ReconnectBackoff` | spacing, doubling, cap, no overflow; a Quit is obeyed | backoff 2, 4, 8, 9; stable 5; 6 for `u32::MAX` |
| `HidBroker` | a retry heals a broken broker, writes at most twice, a success is on the display; adapter and broker never both wait, and each step of theirs brings the call nearer to its end; refinement of the abstract call; liveness: every call returns | 2 events, 3 calls, 2 crashes or failed starts |
| `MacroCommand` | the command fits; its string reads back as the beginning of the text; the state's label survives | 6 texts in 4 places, 4 states, the code's limits |
| `Startup` | types; the highest layer wins field by field; refusals are for want of a value; clients that run send the same, and 0 means done | 3 paths, 1 edit, 4 places for a host name, all command lines of up to 3 of 19 arguments; 5 command lines through a link |
| `EventServerNewest` | violation: an older event of a work item may stay | 2 requests |
| `DeliveryReconnect` | violation: an event dismissed between connections stays on the keyboard | 1 event, 2 connections |
| `DeliveryStalePause` | violation: a queued command overrides a newer pause | 1 event, 3 clicks |
| `ReconnectHealthy` | violation: a long session that ends in an error counts as failed | short durations |

A third request is enough for every race the handlers have: each property relates
at most two requests, and the third one disturbs them. Two connections are enough
because a session and a task interact only with their own and the one lingering
from before. A channel of capacity 1 lags at the second message. The last
connection stays up, so that the runs can speak of a bridge that is connected in
the end. Clicks, DELETEs and heartbeats are bounded by guards, which is why these
runs say CHECK_DEADLOCK FALSE: the modelled environment stops. `ReconnectBackoff`
needs no such bound and is checked for deadlock.

Three calls are enough for `HidBroker`: the first may leave a dead broker or a late
status behind, the second meets it, the third meets what the second left. Its six
texts give `MacroCommand` tokens that are cut, blank, trimmed, made printable,
fully escaped, and, for two of them together, nine quotes before the label, which
is the most the 34 bytes behind `setLedTxt 0 notification` can take. It stops when
the command is built, and `HidBroker` when its calls are used up.

`Startup` has four places for a host name, a variable, a file and two commands,
because the two searches differ in how they treat blanks before the commands and
among them. Three arguments are a flag, its value and whatever comes after it; the
command lines that matter for the environment are run in every one. It stops when
the programs have started or exited.

`post_event` broadcasts after it has released the mutex (main.rs:130), and so do the
other two who change the slot. So the announcements of two overlapping changes may come
in the other order, and the bridge stays on what is not the latest until the next
change. `DeliveryAgreement` lets the changes of an HTTP client overlap those of the
tray's Dismiss: `KeyboardAgrees` fails there, and `LastWordIsShown` bounds the harm. The
keyboard is then on what was announced last, not on any other event, whatever lags and
lost connections come on top. `DeliveryLive` assumes that changes do not overlap
(`Serial`). `KeyboardAgrees` makes two exceptions, both for an empty slot: `conn > 1` is
what `DeliveryReconnect` shows, and `keyboard = LastWord` is the last event announced,
which stays on the keyboard when it expires, because an expiry is never announced. `NothingMissed` is about the order of
`subscribe` and snapshot (main.rs:176): it looks before the bridge's RequestLatest is
read, which would hide what was missed between the two. All
three are proved for any number of HTTP clients, and for tray commands, DELETEs,
expiry and late acknowledgements together, of which each run has some.

`IconNamesKeyboard` is
checked for writes that really fail when they are reported as failed; `uhk.rs`
may also report a write whose acknowledgement is late, and nothing in the code
makes up for that.

Other departures of the same kind, seen while modelling and not given a run of
their own: events accepted during a pause are not sent again after it
(worker.rs:224-228); an expiry is never announced, so the keyboard keeps an
expired event (main.rs:276); the icon of a paused bridge turns idle when its
connection drops (worker.rs:144 and 149); a Quit given while no server can be
reached is not read (worker.rs:128-136); `started` includes the time of connecting
(worker.rs:135).

Departures seen while modelling the start: a blank `hostname` in `bridge.toml`
replaces the environment's, although settings.rs:50 says that fields the file
"leaves blank" keep the environment value; a file without `server_url` does not
parse, so it cannot leave the server to the environment (settings.rs:11); a blank
`AGENT_NOTIFY_SERVER` is not replaced by the default server but refused
(settings.rs:42); a file removed between `exists()` and `read_to_string` fails the
start instead of letting the search go on (settings.rs:75-76). A blank
`COMPUTERNAME` ends the Rust search for a host name and not the TypeScript one, the
TypeScript client refuses inline values that begin with two dashes and takes the
last of a repeated flag, which clap refuses; a bare `--` ends the options for clap, so
that `--state done --` is obeyed, and is an unknown flag for index.ts:71.
`NodeKeepsUp` and `SameRequest` say what is left of "mirrors the Rust
`agent-notify-cli` command".

### The TypeScript client behind a link

index.ts:275 calls `runCli` only if `fileURLToPath(import.meta.url)` is
`process.argv[1]`. Node resolves links in the former, and only makes the latter
absolute. On Unix npm installs the package's `bin` (package.json:12) as a link, both
for `npm install -g` and for `npx`, so there the two differ, `runCli` is not called,
and the process ends with code 0, having sent nothing and said nothing. That is how
both READMEs start it (README.md:41 and 55, and the hooks from line 88 on;
clients/typescript/agent-notify-cli/README.md:10 to 82). The tests do not see it:
they import the module and call its functions. On Windows npm writes a wrapper that
starts the script. `entry = "link"` models such a start: `NodeKeepsUp` and
`ZeroMeansDone` except it by name and are violated without the exception. Nothing
else of what the run `Startup` says of the TypeScript client depends on it, since a
client that does not run asks for nothing.

`OkMeansShown` names the limit of the acknowledgement: `uhk.rs` takes the first
status it receives for that of its own report. If a report was written while the
status of an earlier one was outstanding (the broker died between the two, or gave
up waiting), a success may be that of the earlier report; the display is then right
once the keyboard has caught up, unless it refused one.

### Fairness

`DeliveryLive` assumes weak fairness of every socket task, of the worker, of each
owed broadcast and of the tray's second half of a click: these are tasks of a
tokio runtime and an event loop that keep scheduling them. It also assumes that a
session whose socket task has ended notices, as the heartbeat's send fails. There
is no fairness for the environment: nobody has to post, click or disconnect.
`ReconnectBackoff` assumes that time passes, that an attempt ends, and, strongly,
that `select!` does not ignore a waiting command forever (it polls its branches in
random order); QuitIsObeyed also needs a server that can be reached again and
again, since commands are read in sessions only. `HidBroker` assumes that the
bridge's thread and the broker process run, and that each HID call returns
(`read_timeout` gives up after a second); nothing is asked of the keyboard.

## Proofs

`EventServerProofs` proves, for all sets of requests, inputs and texts and all
bounds:

* `TypeCorrect`, `InductiveInvariant`: the invariant `IInv` is TypeOK; `Shape` (what
  each handler's variables hold at each step); `Stamps` (every stamped event has a
  number below `seq`, and no two the same one); `Origin` (whatever the slot or a
  handler holds was stored by some handler, and not after a dismissal of it).
* `AckedStaysSuperseded`, `RankIsRespected`, `DismissedForGood`: the safety
  properties of the run. None is inductive by itself: they rest on `Stamps`, which
  identifies an event by its number, and on `Origin`.
* `ServerImplementsBoard`: the refinement, step by step: BuildEvent, StampSeq,
  Unauthorized, ticks and reads of a live event stutter; StoreLatest is Offer,
  TakeLatest is Dismiss, GetLatest of an expired event is Lapse, and the two
  broadcasts are Announce.

`BackoffProofs` proves the type invariant with DelayCapped, Spaced and BacksOff, for
all durations. What is inductive is `Accounted` (the time since the last attempt and
what is left of the sleep add up to a base delay, and to what is due) and `Agreed` (the
delay that is due is the one the code computes). The lemma `BackoffDoubles` carries
`Agreed` over a failure: a shift of `failures - 1` by at most 16, of a count that stops at
`u32::MAX`, multiplies the delay by two, also where either stops, because the cap has
been reached before (`CapAssumption`, 30 s against 500 ms shifted by 16).

`HidBrokerProofs` proves every safety property of its run, for any events and any
number of calls and faults. The properties speak of calls that have ended; what is
inductive speaks of the ones under way:

* `Pipes`: at most one message is in the two pipes, it belongs to the running call,
  and the broker works on that one or none. This is why an answer is never taken
  for the answer to another request.
* `Attempts`: a dead broker that this call started or used died during the call.
* `Writes`: an attempt that has not written leaves the count at what the earlier
  attempt accounts for.
* `Screen`: `Final`, what the keyboard will show once it has executed all its
  reports, is the content of the running call once that has written; and while no
  statuses have crossed, an outstanding report is the only one.

`Invariance` is their conjunction; `TypeCorrect`, `RetryHeals`, `FewWrites` and
`SuccessIsShown` follow from it without further induction.

The refinement `BrokerImplementsCall` needs one more invariant, `Kind`: what is in the
pipe from the broker answers the running call's kind of request. A call ends by
`Return`, a fault is `Break`, `WriteReport` is `Deliver` and is allowed by `Writes`, and
everything else the adapter and the broker do is hidden from the abstract call.

`NobodyWaits` and `CallsAdvance` are the safety that `CallReturns` rests on, for any
number of calls and faults: in a running call the adapter or the broker has something
to do, and each thing they do lowers `Work`, a natural number that nothing raises. So a
call is over after at most 15 of their steps; that they take them is fairness, and
putting the two together is left to TLC.

`DeliveryProofs` proves every safety property of `BridgeDelivery` that the runs
check, for any events, clients, connections and channel capacity, and any number
of clicks and heartbeats:

* `DeliveryTypes`. The types are inductive with `Session`: who is not offline has a
  connection, and who shows something has an event.
* `PauseObeyed`, `PausedIcon`, from `PauseInv`: the last pause command in the queue is
  what the menu says (`LastPauseIsMenu`), and once the queue holds none, flag, icon
  and what is being shown agree with the menu.
* `IconIsTrue`, from `IconInv`: the icon and `current_state`, where they name a state,
  name the one the keyboard shows. It assumes that "unacked" is not an outcome.
* `MirrorSettles`, from `MirrorInv`: while the pause item is settled, the task either
  knows the flag and no status in flight says otherwise, or the last status in flight
  says it.
* `KeyboardSettles`, `MissesNothing` and `LastWordSettles`, from `KeyboardInv`: `Unpaused`, `Fresh`
  (nothing is left of an earlier connection) and `LatestArrives`: when the task has
  caught up, the last message on its way to the bridge tells what the slot holds or is
  the one announced last (`Telling`); with none on its way, the display under way shows
  that, and with none under way the keyboard does (`Shown`). That is all there is to say
  when changes overlap, except that an expiry on top (`Confused`) leaves nothing certain
  until the next announcement. When they do not, `BoardInv` (at most one announcement is
  owed, and the last one made says what the slot holds, until that expires) makes the
  two one. The three theorems assume `Undisturbed`: no pauses or tests, and a
  keyboard that obeys, if only after its acknowledgement is given up;
  `KeyboardSettles` and `MissesNothing` assume `Serial` too. TLC has checked `KeyboardInv` on the instances
  `DeliveryAgreement` and `DeliveryLive`.
* `DeliveryKeepsBoard`: with the socket tasks as its clients too, the board stays the
  `LatestBoard` that `EventServer` implements for the HTTP handlers: a snapshot or a
  RequestLatest that meets an expired event is Lapse, a DismissLatest is Dismiss.

`StartupProofs` proves every property of the run `Startup`, for any number of paths,
places and edits, any texts, and command lines of any length:

* `HighestLayer`, `OnlyWantRefuses`: the configuration at every stage is what the layers
  make of it (`SettingsInv`), field by field.
* `ClientsAgree`, `NodeStandsIn`: the TypeScript loop has collected at `at` what the
  arguments before it say (`NodeScanned`), and clap collects the same from a command
  line that it accepts; then the two ways to a host name agree where both find one.
  `NodeStandsIn` is about a TypeScript client that runs, with no bare `--` and no
  value that begins with two dashes.
* `NoBlankInferred`, `StartupTypes`, `ExitCodes` follow from the same invariants;
  `ExitCodes` except for the code 0 of a start through a link.

`MacroProofs` proves every property of the run `MacroCommand`, for any texts and limits.
`MInv`, the invariant of the loop that escapes and truncates, is

* TypeOK, and that the loop runs over the display text; `Fitting` (the string stays
  within the budget that the command around it leaves); `Counted` (the string is as long
  as the characters taken and the quotes among them: a display text has no backslash);
* `Readable`: the firmware reads the string so far back as the text so far, with no
  escape left open, so that the closing quote closes;
* `Full`: the loop has stopped only at the end of the text or where the next character
  does not fit.

`AlwaysFits`, `StringIsText`, `MacroTypes` and `LabelSurvives` follow. The last one counts:
the tokens of host and agent, each character escaped, and the label fit into the
budget for every state but waiting_input (`RoomAssumption`). Behind the longer prefix of
waiting_input they fit if at most nine characters have to be escaped; with more, the
label may be cut, and the theorem says nothing.

These proofs need inductions over the text, and the library's induction theorems take
an operator, which the provers cannot instantiate. `UpTo` takes their place: it is about
the set of the numbers that have the property, and is derived from the fact that strict
inclusion of finite sets is well founded. The proof that reading is what its recursion
says found an ambiguity of the model, a CASE with two arms true at once, since removed.

Assumptions are those named in the modules: NormalizeField maps texts to texts,
the TTL limits are in order, None is not a value, the durations are naturals with
Base <= Stable and Base <= Max and a cap that the shift reaches, the payload holds the
longer prefix and, with the shorter one, two tokens of escaped characters before a
label, blank texts are no words. TLC evaluates them in the runs.

Every invariant and action property of a passing run is stated by a theorem. Only
model-checked is liveness, which is beyond the prover: `LatestIsShown`, `QuitIsObeyed`,
`CallReturns`.

## Plan

The order was: the server's races first, then the delivery to the keyboard, the
reconnection, the broker, the formatting, and the start of the programs; then the
proofs. What could still be added:

1. `BridgeDelivery` over `DisplayCall` instead of `Write`, so that a display under way
   interleaves with the keyboard; `KeyboardAgrees` would then need the keyboard to
   have caught up.
2. A measure for `LatestIsShown`, as `Work` is one for `CallReturns`.

## Not modelled

Logging, HID enumeration, TLS and URL building, the JSON of the messages (`ipc.rs`
bounds their size, and the program's own stay below it). `icons.rs` decodes embedded
images and reads the theme once: it has neither state nor an order that matters.
Building the tray and the event loop are calls into libraries. Authentication appears
as its two outcomes.

In `AgentClients`, `--summary` stands for every option that is passed on as it is and
`--priority` for both numbers. Left out are arguments and values that begin with a
single dash (`-h`) and numbers written with a sign, where clap's own rules decide, TTLs
between 2^53 and 2^64, host names that are not UTF-8, texts that are blank in one of the
two languages only (U+FEFF and U+0085, on which JavaScript's `\s` and Rust's
`is_whitespace` differ), and the warnings of `--dismiss`.

In `BridgeDelivery`, the last write of a display and the icon after it are one step
(worker.rs:263-275): between the two, `IconNamesKeyboard` does not look.
