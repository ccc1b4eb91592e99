--------------------------- MODULE BridgeSettings ---------------------------
(***************************************************************************)
(* The start of the bridge (agent-notify-bridge src/main.rs and            *)
(* src/settings.rs): the configuration is searched for and read, layered   *)
(* over the environment, overridden by the command line and validated.     *)
(* Meanwhile the installer or the user may write and remove files.         *)
(*                                                                         *)
(* Path 0 is the one given with --config; the others are searched for.     *)
(* A file that does not parse, or that has no server_url, is Malformed:    *)
(* serde has a default for the token and for mock_display only.            *)
(***************************************************************************)
EXTENDS Environment

CONSTANTS
  DefaultServer,   (* DEFAULT_SERVER                                       *)
  UnknownHost,     (* "unknown"                                            *)
  Candidates,      (* how many paths config_search_paths returns           *)
  Absent,          (* no such file                                         *)
  Malformed,       (* a file that read_config rejects                      *)
  BridgeLaunches,  (* the circumstances of a start                         *)
  Edits,           (* what may be written to a file meanwhile              *)
  MaxEdits         (* bound: changes of files                              *)

Paths == 0 .. Candidates

BridgeConfig == [server : Text, token : Text, hostname : Optional,
                 mock_display : BOOLEAN]

FileContent == BridgeConfig \cup {Absent, Malformed}

BridgeArgs == [config : BOOLEAN, server : Optional, token : Optional,
               mock_display : BOOLEAN]

ASSUME SettingsAssumption ==
  /\ DefaultServer \in Word /\ UnknownHost \in Word
  /\ Candidates \in Nat
  /\ Absent # Malformed /\ {Absent, Malformed, None} \cap BridgeConfig = {}
  /\ \A launch \in BridgeLaunches :
       /\ launch.env \in [server : Optional, token : Optional, host : Optional]
       /\ launch.machine \in [1 .. Places -> Optional]
       /\ launch.files \in [Paths -> FileContent]
       /\ launch.args \in BridgeArgs
  /\ Edits \subseteq FileContent
  /\ MaxEdits \in Nat

VARIABLES
  files,  (* what each path holds                                          *)
  args,   (* the bridge's command line                                     *)
  stage,  (* how far the start has come, "off" without one                 *)
  path,   (* the path being looked at                                      *)
  file,   (* the file's layer, None without a file                         *)
  config, (* the configuration, from "loaded" on                           *)
  edits   (* how often a file was changed                                  *)

settingsVars == <<files, args, stage, path, file, config, edits>>

---------------------------------------------------------------------------

EnvConfig ==
  [server       |-> IF env.server = None THEN DefaultServer ELSE env.server,
   token        |-> IF env.token = None THEN Empty ELSE env.token,
   hostname     |-> env.host,
   mock_display |-> FALSE]

NoConfig == [server |-> Empty, token |-> Empty, hostname |-> None,
             mock_display |-> FALSE]

\* Mutated form of OverlayFile: the file shadows the environment wholesale.
OverlayFileWhole(base, layer) == layer

OverlayFile(base, layer) ==
  [server       |-> IF layer.server \in Blank THEN base.server ELSE layer.server,
   token        |-> IF layer.token \in Blank THEN base.token ELSE layer.token,
   hostname     |-> IF layer.hostname = None THEN base.hostname ELSE layer.hostname,
   mock_display |-> base.mock_display \/ layer.mock_display]

\* Mutated form of Overridden: a flag that is not given counts as given.
OverriddenAlways(base) ==
  [base EXCEPT !.server = args.server, !.token = args.token]

Overridden(base) ==
  [server       |-> IF args.server = None THEN base.server ELSE args.server,
   token        |-> IF args.token = None THEN base.token ELSE args.token,
   hostname     |-> base.hostname,
   mock_display |-> base.mock_display \/ args.mock_display]

StartBridge(launch) ==
  /\ env = launch.env /\ machine = launch.machine
  /\ files = launch.files /\ args = launch.args
  /\ IF args.config THEN stage = "read" /\ path = 0
                    ELSE stage = "search" /\ path = 1
  /\ file = None
  /\ config = NoConfig
  /\ edits = 0

BridgeOff ==
  /\ files = [p \in Paths |-> Absent]
  /\ args = [config |-> FALSE, server |-> None, token |-> None,
             mock_display |-> FALSE]
  /\ stage = "off" /\ path = 1
  /\ file = None
  /\ config = NoConfig
  /\ edits = 0

\* candidate.exists(): the first path that does is read, in a step of its own.
Search ==
  /\ stage = "search"
  /\ path <= Candidates
  /\ IF files[path] = Absent THEN path' = path + 1 /\ UNCHANGED stage
                             ELSE stage' = "read" /\ UNCHANGED path
  /\ UNCHANGED <<files, args, file, config, edits>>

\* No config file is present.
LoadEnvironment ==
  /\ stage = "search"
  /\ path > Candidates
  /\ config' = EnvConfig
  /\ stage' = "loaded"
  /\ UNCHANGED <<files, args, path, file, edits>>

\* read_config, of what the path holds by now, and load_config's overlay.
ReadConfig ==
  /\ stage = "read"
  /\ files[path] \in BridgeConfig
  /\ file' = files[path]
  /\ config' = OverlayFile(EnvConfig, files[path])
  /\ stage' = "loaded"
  /\ UNCHANGED <<files, args, path, edits>>

\* An error ends the start, whatever the command line would have supplied.
ReadFails ==
  /\ stage = "read"
  /\ files[path] \notin BridgeConfig
  /\ stage' = "failed"
  /\ UNCHANGED <<files, args, path, file, config, edits>>

\* main: the flags, blank ones included.
Override ==
  /\ stage = "loaded"
  /\ config' = Overridden(config)
  /\ stage' = "merged"
  /\ UNCHANGED <<files, args, path, file, edits>>

\* Mutated form of Validate: only the token is looked at.
ValidateToken ==
  /\ stage = "merged"
  /\ stage' = IF config.token \in Blank THEN "refused" ELSE "running"
  /\ UNCHANGED <<files, args, path, file, config, edits>>

Validate ==
  /\ stage = "merged"
  /\ stage' = IF Blank \cap {config.server, config.token} # {} THEN "refused"
                                                           ELSE "running"
  /\ UNCHANGED <<files, args, path, file, config, edits>>

\* A file is written or removed while the bridge starts.
EditFile ==
  /\ stage \in {"search", "read"}
  /\ edits < MaxEdits
  /\ edits' = edits + 1
  /\ \E p \in Paths, content \in Edits : files' = [files EXCEPT ![p] = content]
  /\ UNCHANGED <<args, stage, path, file, config>>

SettingsNext ==
  /\ \/ Search \/ LoadEnvironment \/ ReadConfig \/ ReadFails
     \/ Override \/ Validate
     \/ EditFile
  /\ UNCHANGED environmentVars

\* The host of the running bridge's statuses and of its test notification.
BridgeHost ==
  IF config.hostname # None THEN config.hostname
  ELSE IF LocalHostname # None THEN LocalHostname
  ELSE UnknownHost

---------------------------------------------------------------------------
(***************************************************************************)
(* Properties                                                              *)
(***************************************************************************)

\* Every variable holds a value of its type.
SettingsTypeOK ==
  /\ files \in [Paths -> FileContent]
  /\ args \in BridgeArgs
  /\ stage \in {"off", "search", "read", "loaded", "merged", "failed", "refused",
                "running"}
  /\ path \in 0 .. Candidates + 1
  /\ file \in BridgeConfig \cup {None}
  /\ config \in BridgeConfig
  /\ edits \in Nat

\* What each layer says of a field, from the highest: the command line, the
\* file, the environment, and the default.
Layers(field) ==
  <<args[field],
    IF file = None THEN None ELSE file[field],
    env[field],
    IF field = "server" THEN DefaultServer ELSE None>>

(***************************************************************************)
(* The fields are layered one by one (settings.rs:23): a bridge that runs  *)
(* uses, for the server and for the token, what the highest layer says     *)
(* that does not leave the field blank.  A file that sets one of them      *)
(* never hides the other from the environment, and no blank of a layer     *)
(* gets past validation.                                                   *)
(***************************************************************************)
RunsOnTheHighestLayer ==
  stage = "running" =>
    \A field \in {"server", "token"} :
      LET spoken == {i \in 1 .. 4 : Layers(field)[i] \in Word}
      IN  spoken # {} /\ config[field] = Layers(field)[Min(spoken)]

(***************************************************************************)
(* A start is refused only for want of a value: some field is blanked by   *)
(* the command line, or is blank in the environment and not set above it.  *)
(* In particular a token from any one layer is enough (main.rs:25).        *)
(***************************************************************************)
RefusedForWant ==
  stage = "refused" =>
    \E field \in {"server", "token"} :
      \/ args[field] \in Blank
      \/ /\ Layers(field)[1] = None
         /\ Layers(field)[2] \in Blank \cup {None}
         /\ \/ env[field] \in Blank
            \/ env[field] = None /\ field = "token"

=============================================================================
