------------------------------ MODULE Startup ------------------------------
(***************************************************************************)
(* agent-notify's programs started in one environment: either the bridge,  *)
(* or the two clients with one command line.                               *)
(***************************************************************************)
EXTENDS BridgeSettings, AgentClients

StartupInit ==
  \/ ClientsOff /\ \E launch \in BridgeLaunches : StartBridge(launch)
  \/ BridgeOff /\ \E launch \in ClientLaunches : StartClients(launch)

StartupNext ==
  \/ SettingsNext /\ UNCHANGED clientVars
  \/ ClientsNext /\ UNCHANGED settingsVars

startupVars == <<environmentVars, settingsVars, clientVars>>

StartupSpec == StartupInit /\ [][StartupNext]_startupVars

---------------------------------------------------------------------------
(***************************************************************************)
(* Properties                                                              *)
(***************************************************************************)

\* Every variable holds a value of its type.
TypeOK == EnvironmentTypeOK /\ SettingsTypeOK /\ ClientsTypeOK

(***************************************************************************)
(* A blank host makes the server refuse an event, and makes the bridge's   *)
(* own test notification invalid.  No program infers one: a host is blank  *)
(* only if the file, the command line or AGENT_NOTIFY_HOST says so.        *)
(***************************************************************************)
BlankHostWasGiven ==
  /\ stage = "running" /\ BridgeHost \in Blank =>
       IF file # None /\ file.hostname # None THEN file.hostname \in Blank
                                              ELSE env.host \in Blank
  /\ \A c \in Client :
       /\ request[c].method = "post"
       /\ request[c].host \in Blank
       => Setting(c, "host") \in Blank

=============================================================================
