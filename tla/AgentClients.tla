---------------------------- MODULE AgentClients ----------------------------
(***************************************************************************)
(* The two hook senders: the Rust client (agent-notify-cli src/main.rs)    *)
(* and the TypeScript one (clients/typescript, src/index.ts), started      *)
(* with the same command line in the same environment.  Each sends at most *)
(* one request to the server and reports its fate in its exit code.        *)
(*                                                                         *)
(* Of the options that are only passed on, --summary stands for all, and   *)
(* --priority for the two that must be numbers.  An argument that begins   *)
(* with two dashes has a flag, and a text if it goes on with "=".  Any     *)
(* other argument is a text without a flag.                                *)
(***************************************************************************)
EXTENDS Environment, Sequences

CONSTANTS
  Dashed,         (* the texts that begin with two dashes                  *)
  StateArg,       (* the texts that name a state                           *)
  Number,         (* the texts that are numbers in range                   *)
  ServerUrl,      (* where the server is                                   *)
  ServerToken,    (* the server's token                                    *)
  ClientLaunches  (* the circumstances of a start                          *)

Client == {"rust", "node"}

ValueFlag   == {"server", "token", "host", "state", "summary", "priority"}
BooleanFlag == {"dismiss", "help", "version"}

\* The bare "--", which is no flag.
Escape == [flag |-> "escape", text |-> None]

Argument == [flag : ValueFlag \cup BooleanFlag \cup {"other", None},
             text : Optional] \cup {Escape}

\* What process.argv[1] names: the script, or the link to it that npm makes for
\* the package's bin (package.json:12), for npx too.
Entry == {"script", "link"}

ASSUME ClientAssumption ==
  /\ Dashed \subseteq Word /\ StateArg \subseteq Word /\ Number \subseteq Word
  /\ ServerUrl \in Word /\ ServerToken \in Word
  /\ None \notin ValueFlag \cup BooleanFlag \cup {"other", "escape"}
  /\ None \notin 0 .. 2
  /\ \A launch \in ClientLaunches :
       /\ launch.env \in [server : Optional, token : Optional, host : Optional]
       /\ launch.machine \in [1 .. Places -> Optional]
       /\ launch.argv \in Seq(Argument)
       /\ launch.entry \in Entry

VARIABLES
  entry,      (* how the TypeScript client was started                     *)
  argv,       (* the command line                                          *)
  pc,         (* where each client stands, "off" before it is started      *)
  at,         (* the argument the TypeScript client looks at               *)
  values,     (* what each client found for each flag that takes a value   *)
  dismissing, (* whether each client found --dismiss                       *)
  request,    (* what each client sends                                    *)
  executed,   (* whether the server has obeyed it                          *)
  code        (* each client's exit code                                   *)

clientVars == <<entry, argv, pc, at, values, dismissing, request, executed, code>>

Event(host, vals) == [method |-> "post", host |-> host, state |-> vals["state"],
                      summary |-> vals["summary"], priority |-> vals["priority"]]

Dismissal == [method |-> "delete"]

NoRequest == [method |-> "none"]

---------------------------------------------------------------------------

ClientsAt(places, line) ==
  /\ argv = line
  /\ pc = places
  /\ at = 1
  /\ values = [c \in Client |-> [f \in ValueFlag |-> None]]
  /\ dismissing = [c \in Client |-> FALSE]
  /\ request = [c \in Client |-> NoRequest]
  /\ executed = [c \in Client |-> FALSE]
  /\ code = [c \in Client |-> None]

StartClients(launch) ==
  /\ env = launch.env /\ machine = launch.machine
  /\ entry = launch.entry
  /\ ClientsAt([c \in Client |-> IF c = "rust" THEN "parse" ELSE "load"], launch.argv)

ClientsOff == entry = "script" /\ ClientsAt([c \in Client |-> "off"], <<>>)

Exit(c, status) ==
  /\ pc' = [pc EXCEPT ![c] = "exited"]
  /\ code' = [code EXCEPT ![c] = status]

\* What the argument at i gives its flag: its own text, or the next argument.
TextAt(i) == IF argv[i].text # None THEN argv[i].text
             ELSE IF i < Len(argv) /\ argv[i + 1].flag = None THEN argv[i + 1].text
             ELSE None

\* Whether the argument at i takes the next one as its text.
TakesNext(i) == argv[i].flag \in ValueFlag /\ argv[i].text = None

\* A flag's value, or else its environment variable.
OrEnv(value, field) ==
  IF value = None /\ field \in {"server", "token", "host"} THEN env[field]
                                                          ELSE value

Setting(c, field) == OrEnv(values[c][field], field)

Valid(field, text) == /\ field = "state" => text \in StateArg
                      /\ field = "priority" => text \in Number

---------------------------------------------------------------------------
(***************************************************************************)
(* The Rust client                                                         *)
(***************************************************************************)

\* The arguments clap refuses.  It takes a bare "--" for the end of the options,
\* and Args has nothing that may follow them.
Refused(i) ==
  \/ \E j \in 1 .. i - 1 : argv[j] = Escape
  \/ argv[i].flag \in {"other", "version"}
  \/ argv[i].flag = None /\ (i = 1 \/ ~ TakesNext(i - 1))
  \/ argv[i].flag \in BooleanFlag /\ argv[i].text # None
  \/ argv[i].flag \in ValueFlag /\ ~ (TextAt(i) # None /\ Valid(argv[i].flag, TextAt(i)))
  \/ argv[i].flag # None /\ \E j \in 1 .. i - 1 : argv[j].flag = argv[i].flag

\* Args::parse: the first --help or refused argument decides.
RustParse ==
  /\ pc["rust"] = "parse"
  /\ LET ends  == {i \in 1 .. Len(argv) : Refused(i) \/ argv[i].flag = "help"}
         given == [f \in ValueFlag |->
                     LET found == {i \in 1 .. Len(argv) : argv[i].flag = f}
                     IN  IF found = {} THEN None ELSE TextAt(Min(found))]
     IN  IF ends # {}
         THEN /\ Exit("rust", IF Refused(Min(ends)) THEN 2 ELSE 0)
              /\ UNCHANGED <<values, dismissing>>
         ELSE /\ values' = [values EXCEPT !["rust"] = given]
              /\ dismissing' = [dismissing EXCEPT !["rust"] =
                   \E i \in 1 .. Len(argv) : argv[i].flag = "dismiss"]
              /\ IF \E f \in {"server", "token"} : OrEnv(given[f], f) = None
                 THEN Exit("rust", 2)
                 ELSE pc' = [pc EXCEPT !["rust"] = "resolve"] /\ UNCHANGED code
  /\ UNCHANGED <<argv, at, request, executed>>

Ask(c, message) ==
  /\ request' = [request EXCEPT ![c] = message]
  /\ pc' = [pc EXCEPT ![c] = "send"]
  /\ UNCHANGED code

RustHost == IF Setting("rust", "host") # None THEN Setting("rust", "host")
                                              ELSE LocalHostname

\* The host is looked for before the state is asked for.
RustResolve ==
  /\ pc["rust"] = "resolve"
  /\ IF dismissing["rust"] THEN Ask("rust", Dismissal)
     ELSE IF None \in {RustHost, values["rust"]["state"]}
          THEN Exit("rust", 1) /\ UNCHANGED request
          ELSE Ask("rust", Event(RustHost, values["rust"]))
  /\ UNCHANGED <<argv, at, values, dismissing, executed>>

---------------------------------------------------------------------------
(***************************************************************************)
(* The TypeScript client                                                   *)
(***************************************************************************)

\* The module's last lines, which compare what was loaded, any link resolved, with
\* process.argv[1]: where they differ, nothing is left to do.
NodeEntry ==
  /\ pc["node"] = "load"
  /\ IF entry = "script" THEN pc' = [pc EXCEPT !["node"] = "parse"] /\ UNCHANGED code
                         ELSE Exit("node", 0)
  /\ UNCHANGED <<argv, at, values, dismissing, request, executed>>

Scanning == pc["node"] = "parse" /\ at <= Len(argv)

\* Mutated form of NodeFlag: the value of the next argument is not skipped.
NodeFlagUnskipped ==
  /\ Scanning
  /\ argv[at].flag \in ValueFlag
  /\ TextAt(at) \notin Dashed \cup {None}
  /\ values' = [values EXCEPT !["node"][argv[at].flag] = TextAt(at)]
  /\ at' = at + 1
  /\ UNCHANGED <<argv, pc, dismissing, request, executed, code>>

\* A flag with a value; of a flag given twice the last value stays.
NodeFlag ==
  /\ Scanning
  /\ argv[at].flag \in ValueFlag
  /\ TextAt(at) \notin Dashed \cup {None}
  /\ values' = [values EXCEPT !["node"][argv[at].flag] = TextAt(at)]
  /\ at' = IF TakesNext(at) THEN at + 2 ELSE at + 1
  /\ UNCHANGED <<argv, pc, dismissing, request, executed, code>>

NodeDismiss ==
  /\ Scanning
  /\ argv[at] = [flag |-> "dismiss", text |-> None]
  /\ dismissing' = [dismissing EXCEPT !["node"] = TRUE]
  /\ at' = at + 1
  /\ UNCHANGED <<argv, pc, values, request, executed, code>>

NodeHelp ==
  /\ Scanning
  /\ argv[at].flag \in {"help", "version"} /\ argv[at].text = None
  /\ Exit("node", 0)
  /\ UNCHANGED <<argv, at, values, dismissing, request, executed>>

NodeUsageError ==
  /\ Scanning
  /\ \/ argv[at].flag \in {"other", "escape", None}
     \/ argv[at].flag \in BooleanFlag /\ argv[at].text # None
     \/ argv[at].flag \in ValueFlag /\ TextAt(at) \in Dashed \cup {None}
  /\ Exit("node", 2)
  /\ UNCHANGED <<argv, at, values, dismissing, request, executed>>

\* What parseCliArgs asks of the options, of a dismissal's state and numbers too.
Complete ==
  /\ Setting("node", "server") \notin {Empty, None}
  /\ Setting("node", "token") \notin {Empty, None}
  /\ dismissing["node"] \/ values["node"]["state"] # None
  /\ \A f \in ValueFlag : values["node"][f] # None => Valid(f, values["node"][f])

NodeCheck ==
  /\ pc["node"] = "parse" /\ at > Len(argv)
  /\ IF Complete
     THEN pc' = [pc EXCEPT !["node"] = "resolve"] /\ UNCHANGED code
     ELSE Exit("node", 2)
  /\ UNCHANGED <<argv, at, values, dismissing, request, executed>>

NodeHost == IF Setting("node", "host") # None THEN Setting("node", "host")
                                              ELSE NodeLocalHostname

\* runCli: an empty host is not replaced, and not sent either.
NodeResolve ==
  /\ pc["node"] = "resolve"
  /\ IF dismissing["node"] THEN Ask("node", Dismissal)
     ELSE IF NodeHost \in {Empty, None} THEN Exit("node", 1) /\ UNCHANGED request
          ELSE Ask("node", Event(NodeHost, values["node"]))
  /\ UNCHANGED <<argv, at, values, dismissing, executed>>

---------------------------------------------------------------------------
(***************************************************************************)
(* The request                                                             *)
(***************************************************************************)

\* require_auth, and into_event of what a client may get wrong.
Accepted(c) ==
  /\ Setting(c, "token") = ServerToken
  /\ request[c].method = "post" => request[c].host \notin Blank

Reachable(c) == Setting(c, "server") = ServerUrl

\* Mutated form of Answered: the status of the response is not looked at.
AnsweredAnyhow(c) ==
  /\ pc[c] = "send" /\ Reachable(c)
  /\ executed' = [executed EXCEPT ![c] = Accepted(c)]
  /\ Exit(c, 0)
  /\ UNCHANGED <<argv, at, values, dismissing, request>>

Answered(c) ==
  /\ pc[c] = "send" /\ Reachable(c)
  /\ executed' = [executed EXCEPT ![c] = Accepted(c)]
  /\ Exit(c, IF Accepted(c) THEN 0 ELSE 1)
  /\ UNCHANGED <<argv, at, values, dismissing, request>>

\* No answer comes: the server was not reached, or its answer is lost.
Unanswered(c) ==
  /\ pc[c] = "send"
  /\ executed' \in {executed, [executed EXCEPT ![c] = Reachable(c) /\ Accepted(c)]}
  /\ Exit(c, 1)
  /\ UNCHANGED <<argv, at, values, dismissing, request>>

ClientsNext ==
  /\ \/ RustParse \/ RustResolve
     \/ NodeEntry \/ NodeFlag \/ NodeDismiss \/ NodeHelp \/ NodeUsageError \/ NodeCheck
     \/ NodeResolve
     \/ \E c \in Client : Answered(c) \/ Unanswered(c)
  /\ UNCHANGED <<entry, environmentVars>>

---------------------------------------------------------------------------
(***************************************************************************)
(* Properties                                                              *)
(***************************************************************************)

\* Every variable holds a value of its type.
ClientsTypeOK ==
  /\ entry \in Entry /\ argv \in Seq(Argument)
  /\ pc \in [Client -> {"off", "load", "parse", "resolve", "send", "exited"}]
  /\ at \in 1 .. Len(argv) + 1
  /\ values \in [Client -> [ValueFlag -> Optional]]
  /\ dismissing \in [Client -> BOOLEAN]
  /\ request \in [Client -> {NoRequest, Dismissal} \cup
                             [method : {"post"}, host : Text, state : Optional,
                              summary : Optional, priority : Optional]]
  /\ executed \in [Client -> BOOLEAN]
  /\ code \in [Client -> {None, 0, 1, 2}]

(***************************************************************************)
(* clients/typescript README: the package "mirrors the Rust                *)
(* agent-notify-cli command".  When both clients send anything, they send  *)
(* the same request with the same token to the same server: two parsers,   *)
(* two ways through the environment and two searches for the host name     *)
(* agree on it.                                                            *)
(***************************************************************************)
SameRequest ==
  (\A c \in Client : request[c] # NoRequest) =>
    /\ request["rust"] = request["node"]
    /\ \A field \in {"server", "token"} : Setting("rust", field) = Setting("node", field)

(***************************************************************************)
(* Whatever the Rust client gets the server to do, the TypeScript client   *)
(* asks for as well, if it comes to run at all: not when it is started     *)
(* through a link (see NodeEntry).  It does not understand a bare "--",    *)
(* and takes no value that begins with dashes.  The converse is not true:  *)
(* a blank place ends only the Rust client's search for a host.            *)
(***************************************************************************)
NodeKeepsUp ==
  /\ executed["rust"] /\ entry = "script"
  /\ \A i \in 1 .. Len(argv) : argv[i] # Escape /\ argv[i].text \notin Dashed
  => ~ (pc["node"] = "exited" /\ request["node"] = NoRequest)

(***************************************************************************)
(* An exit code of 0 tells a hook that the server did what was asked; a    *)
(* client that sent nothing says so, unless it was asked for help, or is   *)
(* the TypeScript one started through a link: then 0 tells nothing.  With  *)
(* another code the server may have obeyed, but only if its answer was     *)
(* lost: see Unanswered.                                                   *)
(***************************************************************************)
ZeroMeansDone ==
  \A c \in Client :
    code[c] = 0 =>
      \/ executed[c]
      \/ /\ request[c] = NoRequest
         /\ \/ \E i \in 1 .. Len(argv) : argv[i].flag \in {"help", "version"}
            \/ c = "node" /\ entry = "link"

=============================================================================
