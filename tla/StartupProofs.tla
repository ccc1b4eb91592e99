--------------------------- MODULE StartupProofs ---------------------------
(***************************************************************************)
(* Theorems about Startup, for all texts, command lines, files and places. *)
(***************************************************************************)
EXTENDS Startup, WellFoundedInduction, TLAPS

\* A set of numbers that is not empty has a least element, which is its Min.
LEMMA LeastIsMin ==
  ASSUME NEW S \in SUBSET Nat, S # {}
  PROVE  Min(S) \in S /\ \A y \in S : Min(S) <= y
<1> DEFINE Less == OpToRel(<, Nat)
<1>1. PICK x \in S : \A y \in S : ~ (<<y, x>> \in Less)
  BY NatLessThanWellFounded, WFMin
<1>2. \A z, y \in Nat : <<y, z>> \in Less <=> y < z
  BY DEF OpToRel
<1> HIDE DEF Less
<1>3. ASSUME NEW y \in S
      PROVE  x <= y
  <2>1. x \in Nat /\ y \in Nat
    OBVIOUS
  <2>2. ~ (y < x)
    BY <1>1, <1>2, <2>1
  <2> QED
    BY <2>1, <2>2
<1> QED
  BY <1>3, Zenon DEF Min

\* The least element is the one below all others.
LEMMA MinIs ==
  ASSUME NEW S \in SUBSET Nat, NEW x \in S, \A y \in S : x <= y
  PROVE  Min(S) = x
<1>1. PICK least \in S : least = Min(S) /\ \A y \in S : least <= y
  BY LeastIsMin
<1>2. least <= x /\ x <= least /\ least \in Nat /\ x \in Nat
  BY <1>1
<1> QED
  BY <1>1, <1>2

---------------------------------------------------------------------------
(***************************************************************************)
(* The bridge's settings                                                   *)
(***************************************************************************)

\* What load_config returns, from the environment and the file it read.
Loaded == IF file = None THEN EnvConfig ELSE OverlayFile(EnvConfig, file)

(***************************************************************************)
(* From "loaded" on the configuration is a function of the three layers:   *)
(* whatever became of the files since, nothing but the file that was read  *)
(* is in it.                                                               *)
(***************************************************************************)
SettingsInv ==
  /\ stage \in {"search", "read"} => file = None
  /\ stage = "search" => path \in 1 .. Candidates + 1
  /\ stage = "read" => path \in Paths
  /\ stage = "loaded" => config = Loaded
  /\ stage \in {"merged", "refused", "running"} => config = Overridden(Loaded)
  /\ stage = "running" => Blank \cap {config.server, config.token} = {}
  /\ stage = "refused" => Blank \cap {config.server, config.token} # {}

SettingsIInv == EnvironmentTypeOK /\ SettingsTypeOK /\ SettingsInv

\* The layers and what they are merged into are configurations.
LEMMA ConfigTypes ==
  ASSUME EnvironmentTypeOK, args \in BridgeArgs
  PROVE  /\ EnvConfig \in BridgeConfig
         /\ \A base, layer \in BridgeConfig : OverlayFile(base, layer) \in BridgeConfig
         /\ \A base \in BridgeConfig : Overridden(base) \in BridgeConfig
<1>1. EnvConfig \in BridgeConfig
  BY EnvironmentAssumption, SettingsAssumption
     DEF EnvironmentTypeOK, EnvConfig, BridgeConfig, Text, Optional, Blank
<1>2. ASSUME NEW base \in BridgeConfig, NEW layer \in BridgeConfig
      PROVE  OverlayFile(base, layer) \in BridgeConfig
  BY DEF OverlayFile, BridgeConfig, Optional
<1>3. ASSUME NEW base \in BridgeConfig
      PROVE  Overridden(base) \in BridgeConfig
  BY DEF Overridden, BridgeConfig, BridgeArgs, Optional
<1> QED
  BY <1>1, <1>2, <1>3

\* Every start is in order.
LEMMA SettingsInit == StartupInit => SettingsIInv
<1> SUFFICES ASSUME StartupInit
             PROVE  SettingsIInv
  OBVIOUS
<1>0. NoConfig \in BridgeConfig
  BY DEF NoConfig, BridgeConfig, Text, Optional, Blank
<1>1. CASE \E launch \in BridgeLaunches : StartBridge(launch)
  <2>1. PICK launch \in BridgeLaunches : StartBridge(launch)
    BY <1>1
  <2>2. /\ launch.env \in [server : Optional, token : Optional, host : Optional]
        /\ launch.machine \in [1 .. Places -> Optional]
        /\ launch.files \in [Paths -> FileContent]
        /\ launch.args \in BridgeArgs
    BY SettingsAssumption
  <2>3. Candidates \in Nat
    BY SettingsAssumption
  <2>4. EnvironmentTypeOK
    BY <2>1, <2>2 DEF EnvironmentTypeOK, StartBridge
  <2>5. SettingsTypeOK
    BY <1>0, <2>1, <2>2, <2>3 DEF SettingsTypeOK, StartBridge
  <2>6. SettingsInv
    BY <2>1, <2>3 DEF SettingsInv, StartBridge, Paths
  <2> QED
    BY <2>4, <2>5, <2>6 DEF SettingsIInv
<1>2. CASE BridgeOff /\ \E launch \in ClientLaunches : StartClients(launch)
  <2>1. PICK launch \in ClientLaunches : StartClients(launch)
    BY <1>2
  <2>2. /\ launch.env \in [server : Optional, token : Optional, host : Optional]
        /\ launch.machine \in [1 .. Places -> Optional]
    BY ClientAssumption
  <2>3. Candidates \in Nat
    BY SettingsAssumption
  <2>4. EnvironmentTypeOK
    BY <2>1, <2>2 DEF EnvironmentTypeOK, StartClients
  <2>5. SettingsTypeOK
    BY <1>0, <1>2, <2>3 DEF SettingsTypeOK, BridgeOff, FileContent, BridgeArgs, Optional
  <2>6. SettingsInv
    BY <1>2 DEF SettingsInv, BridgeOff
  <2> QED
    BY <2>4, <2>5, <2>6 DEF SettingsIInv
<1> QED
  BY <1>1, <1>2 DEF StartupInit

\* No step of a program changes the environment it was started in.
LEMMA EnvironmentStays ==
  ASSUME EnvironmentTypeOK, [StartupNext]_startupVars
  PROVE  UNCHANGED environmentVars /\ EnvironmentTypeOK'
BY DEF StartupNext, SettingsNext, ClientsNext, startupVars, environmentVars,
       EnvironmentTypeOK

\* The settings stay in order.
LEMMA SettingsStep == SettingsIInv /\ [StartupNext]_startupVars => SettingsIInv'
<1> SUFFICES ASSUME SettingsIInv, [StartupNext]_startupVars
             PROVE  SettingsIInv'
  OBVIOUS
<1> USE DEF SettingsIInv
<1>1. UNCHANGED environmentVars /\ EnvironmentTypeOK'
  BY EnvironmentStays
<1>2. UNCHANGED EnvConfig
  BY <1>1 DEF EnvConfig, environmentVars
<1>3. EnvConfig \in BridgeConfig /\ config \in BridgeConfig /\ args \in BridgeArgs
  BY ConfigTypes DEF SettingsTypeOK
<1>4. Candidates \in Nat /\ None \notin BridgeConfig
  BY SettingsAssumption
<1>5. CASE Search
  BY <1>1, <1>4, <1>5 DEF Search, SettingsTypeOK, SettingsInv, Paths
<1>6. CASE LoadEnvironment
  BY <1>1, <1>2, <1>3, <1>6 DEF LoadEnvironment, SettingsTypeOK, SettingsInv, Loaded
<1>7. CASE ReadConfig
  <2>1. OverlayFile(EnvConfig, files[path]) \in BridgeConfig
    BY <1>3, <1>7, ConfigTypes DEF ReadConfig
  <2>2. Loaded' = OverlayFile(EnvConfig, files[path])
    BY <1>2, <1>4, <1>7 DEF ReadConfig, Loaded, OverlayFile
  <2> QED
    BY <1>1, <1>7, <2>1, <2>2 DEF ReadConfig, SettingsTypeOK, SettingsInv
<1>8. CASE ReadFails
  BY <1>1, <1>8 DEF ReadFails, SettingsTypeOK, SettingsInv
<1>9. CASE Override
  <2>1. Overridden(config) \in BridgeConfig
    BY <1>3, ConfigTypes
  <2>2. Overridden(Loaded)' = Overridden(config)
    BY <1>2, <1>9 DEF Override, Loaded, OverlayFile, Overridden, SettingsInv
  <2> QED
    BY <1>1, <1>9, <2>1, <2>2 DEF Override, SettingsTypeOK, SettingsInv
<1>10. CASE Validate
  <2>1. UNCHANGED Overridden(Loaded)
    BY <1>2, <1>10 DEF Validate, Loaded, OverlayFile, Overridden
  <2> QED
    BY <1>1, <1>10, <2>1 DEF Validate, SettingsTypeOK, SettingsInv
<1>11. CASE EditFile
  <2>1. files' \in [Paths -> FileContent]
    BY <1>11, SettingsAssumption DEF EditFile, SettingsTypeOK
  <2> QED
    BY <1>1, <1>11, <2>1 DEF EditFile, SettingsTypeOK, SettingsInv
<1>12. CASE UNCHANGED settingsVars
  <2>1. UNCHANGED <<Loaded, Overridden(Loaded)>>
    BY <1>2, <1>12 DEF settingsVars, Loaded, OverlayFile, Overridden
  <2> QED
    BY <1>1, <1>12, <2>1 DEF settingsVars, SettingsTypeOK, SettingsInv
<1> QED
  BY <1>5, <1>6, <1>7, <1>8, <1>9, <1>10, <1>11, <1>12
     DEF StartupNext, SettingsNext, startupVars

\* SettingsIInv holds throughout.
LEMMA SettingsHold == StartupSpec => []SettingsIInv
BY SettingsInit, SettingsStep, PTL DEF StartupSpec

\* What each layer says is a text, or nothing.
LEMMA LayersSay ==
  ASSUME SettingsIInv, NEW field \in {"server", "token"}
  PROVE  /\ Layers(field)[1] = args[field]
         /\ Layers(field)[2] = IF file = None THEN None ELSE file[field]
         /\ Layers(field)[3] = env[field]
         /\ Layers(field)[4] = IF field = "server" THEN DefaultServer ELSE None
         /\ args[field] \in Optional
         /\ env[field] \in Optional
         /\ file # None => file[field] \in Text
         /\ None \notin Word
BY EnvironmentAssumption
   DEF Layers, SettingsIInv, EnvironmentTypeOK, SettingsTypeOK, BridgeArgs,
       BridgeConfig, Text

\* The merged field, layer by layer.
LEMMA MergedField ==
  ASSUME SettingsIInv, NEW field \in {"server", "token"}
  PROVE  Overridden(Loaded)[field] =
           IF args[field] # None THEN args[field]
           ELSE IF file # None /\ file[field] \notin Blank THEN file[field]
           ELSE IF env[field] # None THEN env[field]
           ELSE IF field = "server" THEN DefaultServer
           ELSE Empty
BY DEF Overridden, Loaded, OverlayFile, EnvConfig

(***************************************************************************)
(* A running bridge uses the highest layer that speaks, for every field    *)
(* and every history of the files.                                         *)
(***************************************************************************)
THEOREM HighestLayer == StartupSpec => []RunsOnTheHighestLayer
<1>1. ASSUME SettingsIInv, stage = "running", NEW field \in {"server", "token"}
      PROVE  LET spoken == {i \in 1 .. 4 : Layers(field)[i] \in Word}
             IN  spoken # {} /\ config[field] = Layers(field)[Min(spoken)]
  <2> DEFINE spoken == {i \in 1 .. 4 : Layers(field)[i] \in Word}
  <2>1. /\ config[field] = Overridden(Loaded)[field]
        /\ config[field] \in Word
    BY <1>1 DEF SettingsIInv, SettingsInv, SettingsTypeOK, BridgeConfig, Text
  <2>2. Empty \notin Word /\ None \notin Word /\ DefaultServer \in Word
    BY EnvironmentAssumption, SettingsAssumption DEF Blank, Text
  <2>3. PICK top \in 1 .. 4 :
          /\ Layers(field)[top] \in Word
          /\ config[field] = Layers(field)[top]
          /\ \A i \in 1 .. 4 : i < top => Layers(field)[i] \notin Word
    <3>1. CASE args[field] # None
      BY <1>1, <2>1, <2>2, <3>1, LayersSay, MergedField
    <3>2. CASE args[field] = None /\ file # None /\ file[field] \notin Blank
      BY <1>1, <2>1, <2>2, <3>2, LayersSay, MergedField
    <3>3. CASE /\ args[field] = None
               /\ file = None \/ file[field] \in Blank
               /\ env[field] # None
      <4>1. Layers(field)[2] \notin Word
        BY <1>1, <2>2, <3>3, LayersSay, EnvironmentAssumption
      <4> QED
        BY <1>1, <2>1, <2>2, <3>3, <4>1, LayersSay, MergedField
    <3>4. CASE /\ args[field] = None
               /\ file = None \/ file[field] \in Blank
               /\ env[field] = None
      <4>1. Layers(field)[2] \notin Word
        BY <1>1, <2>2, <3>4, LayersSay, EnvironmentAssumption
      <4> QED
        BY <1>1, <2>1, <2>2, <3>4, <4>1, LayersSay, MergedField
    <3> QED
      BY <3>1, <3>2, <3>3, <3>4
  <2>4. top \in spoken /\ spoken \in SUBSET Nat
    BY <2>3
  <2>5. \A i \in spoken : top <= i
    BY <2>3
  <2> HIDE DEF spoken
  <2>6. Min(spoken) = top
    BY <2>4, <2>5, MinIs
  <2> QED
    BY <2>3, <2>4, <2>6 DEF spoken
<1>2. SettingsIInv => RunsOnTheHighestLayer
  BY <1>1 DEF RunsOnTheHighestLayer
<1> QED
  BY <1>2, SettingsHold, PTL

\* No start is refused that has a token and a server in some layer.
THEOREM OnlyWantRefuses == StartupSpec => []RefusedForWant
<1>1. ASSUME SettingsIInv, stage = "refused"
      PROVE  RefusedForWant
  <2>1. PICK field \in {"server", "token"} : config[field] \in Blank
    BY <1>1 DEF SettingsIInv, SettingsInv
  <2>2. config[field] = Overridden(Loaded)[field]
    BY <1>1, <2>1 DEF SettingsIInv, SettingsInv
  <2>3. DefaultServer \notin Blank /\ None \notin Blank
    BY EnvironmentAssumption, SettingsAssumption DEF Text
  <2> QED
    BY <1>1, <2>1, <2>2, <2>3, LayersSay, MergedField DEF RefusedForWant
<1>2. SettingsIInv => RefusedForWant
  BY <1>1 DEF RefusedForWant
<1> QED
  BY <1>2, SettingsHold, PTL

---------------------------------------------------------------------------
(***************************************************************************)
(* The search for the host name                                            *)
(***************************************************************************)

\* The first place that is not skipped is where First looks.
LEMMA FirstIs ==
  ASSUME NEW places \in SUBSET Nat, NEW skipped, NEW p \in places,
         machine[p] \notin skipped,
         \A q \in places : q < p => machine[q] \in skipped
  PROVE  First(places, skipped) = machine[p]
<1> DEFINE found == {q \in places : machine[q] \notin skipped}
<1>1. found \in SUBSET Nat /\ p \in found
  OBVIOUS
<1>2. \A q \in found : p <= q
  OBVIOUS
<1> HIDE DEF found
<1>3. Min(found) = p
  BY <1>1, <1>2, MinIs
<1> QED
  BY <1>1, <1>3 DEF First, found

\* Without such a place it finds nothing.
LEMMA FirstOfNone ==
  ASSUME NEW places \in SUBSET Nat, NEW skipped,
         \A q \in places : machine[q] \in skipped
  PROVE  First(places, skipped) = None
BY DEF First

\* What First finds is in a place with nothing but skipped ones before it.
LEMMA FirstFinds ==
  ASSUME NEW places \in SUBSET Nat, NEW skipped, First(places, skipped) # None
  PROVE  \E p \in places : /\ machine[p] \notin skipped
                           /\ First(places, skipped) = machine[p]
                           /\ \A q \in places : q < p => machine[q] \in skipped
<1> DEFINE found == {q \in places : machine[q] \notin skipped}
<1>1. found # {} /\ First(places, skipped) = machine[Min(found)]
  BY DEF First
<1>2. Min(found) \in found /\ \A y \in found : Min(found) <= y
  <2>1. found \in SUBSET Nat
    OBVIOUS
  <2> HIDE DEF found
  <2> QED
    BY <1>1, <2>1, LeastIsMin
<1> DEFINE p == Min(found)
<1>3. p \in places /\ machine[p] \notin skipped
  BY <1>2
<1>4. ASSUME NEW q \in places, q < p
      PROVE  machine[q] \in skipped
  <2>1. q \in Nat /\ p \in Nat
    BY <1>3
  <2> HIDE DEF p
  <2> QED
    BY <1>2, <1>4, <2>1 DEF p
<1> QED
  BY <1>1, <1>3, <1>4

\* No search ends in a blank host name.
LEMMA HostTypes ==
  ASSUME EnvironmentTypeOK
  PROVE  LocalHostname \in Word \cup {None} /\ NodeLocalHostname \in Word \cup {None}
<1>1. ASSUME NEW places \in SUBSET (1 .. Places), NEW skipped
      PROVE  First(places, skipped) \in Optional
  <2>1. Places \in Nat
    BY EnvironmentAssumption
  <2>2. CASE First(places, skipped) = None
    BY <2>2 DEF Optional
  <2>3. CASE First(places, skipped) # None
    <3>1. places \in SUBSET Nat
      BY <2>1
    <3>2. PICK p \in places : First(places, skipped) = machine[p]
      BY <2>3, <3>1, FirstFinds
    <3> QED
      BY <3>2 DEF EnvironmentTypeOK
  <2> QED
    BY <2>2, <2>3
<1>2. ASSUME NEW text \in Optional
      PROVE  NonBlank(text) \in Word \cup {None}
  BY DEF NonBlank, Optional, Text
<1>3. LocalHostname \in Word \cup {None}
  BY <1>1, <1>2 DEF LocalHostname
<1>4. NodeLocalHostname \in Word \cup {None}
  <2>1. Places \in Nat /\ FirstCommand \in 1 .. Places
    BY EnvironmentAssumption
  <2> DEFINE written == First(1 .. FirstCommand - 1, Blank \cup {None})
             command == First(FirstCommand .. Places, {None})
  <2>2. 1 .. FirstCommand - 1 \in SUBSET (1 .. Places)
        /\ FirstCommand .. Places \in SUBSET (1 .. Places)
    BY <2>1
  <2>3. written \in Optional /\ NonBlank(command) \in Word \cup {None}
    BY <1>1, <1>2, <2>2
  <2>4. written # None => written \in Word
    <3>1. SUFFICES ASSUME written # None
                   PROVE  written \notin Blank
      BY <2>3 DEF Optional, Text
    <3>2. 1 .. FirstCommand - 1 \in SUBSET Nat
      BY <2>1
    <3>3. PICK p \in 1 .. FirstCommand - 1 :
            machine[p] \notin Blank \cup {None} /\ written = machine[p]
      BY <3>1, <3>2, FirstFinds
    <3> QED
      BY <3>3
  <2> QED
    BY <2>3, <2>4 DEF NodeLocalHostname
<1> QED
  BY <1>3, <1>4

(***************************************************************************)
(* Where the Rust search finds a name, the TypeScript search finds the     *)
(* same: the two differ only in that a blank place ends the former.        *)
(***************************************************************************)
LEMMA HostAgrees ==
  ASSUME EnvironmentTypeOK, LocalHostname # None
  PROVE  NodeLocalHostname = LocalHostname
<1>1. Places \in Nat /\ FirstCommand \in 1 .. Places /\ None \notin Blank
  BY EnvironmentAssumption DEF Text
<1>2. /\ 1 .. Places \in SUBSET Nat
      /\ 1 .. FirstCommand - 1 \in SUBSET Nat
      /\ FirstCommand .. Places \in SUBSET Nat
  BY <1>1
<1>3. /\ First(1 .. Places, {None}) # None
      /\ First(1 .. Places, {None}) \notin Blank
      /\ LocalHostname = First(1 .. Places, {None})
  BY DEF LocalHostname, NonBlank
<1>4. PICK p \in 1 .. Places :
        /\ machine[p] # None
        /\ First(1 .. Places, {None}) = machine[p]
        /\ \A q \in 1 .. Places : q < p => machine[q] = None
  <2> DEFINE all == 1 .. Places
             none == {None}
  <2>1. all \in SUBSET Nat /\ First(all, none) # None
    BY <1>2, <1>3
  <2>2. \A x : x \in none <=> x = None
    OBVIOUS
  <2> HIDE DEF all, none
  <2>3. PICK p \in all : /\ machine[p] \notin none
                         /\ First(all, none) = machine[p]
                         /\ \A q \in all : q < p => machine[q] \in none
    BY <2>1, FirstFinds
  <2> QED
    BY <2>2, <2>3, Zenon DEF all, none
<1>5. LocalHostname = machine[p] /\ machine[p] \notin Blank \cup {None}
  BY <1>3, <1>4
<1>6. CASE p < FirstCommand
  <2>1. p \in 1 .. FirstCommand - 1
        /\ \A q \in 1 .. FirstCommand - 1 : q < p => machine[q] \in Blank \cup {None}
    BY <1>1, <1>4, <1>6
  <2>2. First(1 .. FirstCommand - 1, Blank \cup {None}) = machine[p]
    <3> DEFINE some == 1 .. FirstCommand - 1
               skip == Blank \cup {None}
    <3>1. /\ some \in SUBSET Nat /\ p \in some /\ machine[p] \notin skip
          /\ \A q \in some : q < p => machine[q] \in skip
      BY <1>2, <1>5, <2>1
    <3> HIDE DEF some, skip
    <3>2. First(some, skip) = machine[p]
      BY <3>1, FirstIs
    <3> QED
      BY <3>2 DEF some, skip
  <2> QED
    BY <1>5, <2>2 DEF NodeLocalHostname
<1>7. CASE p >= FirstCommand
  <2>1. /\ p \in FirstCommand .. Places
        /\ \A q \in FirstCommand .. Places : q < p => machine[q] \in {None}
        /\ \A q \in 1 .. FirstCommand - 1 : machine[q] \in Blank \cup {None}
    BY <1>1, <1>4, <1>7
  <2>2. First(1 .. FirstCommand - 1, Blank \cup {None}) = None
    BY <1>2, <2>1, FirstOfNone
  <2>3. First(FirstCommand .. Places, {None}) = machine[p]
    <3> DEFINE rest == FirstCommand .. Places
               none == {None}
    <3>1. /\ rest \in SUBSET Nat /\ p \in rest /\ machine[p] \notin none
          /\ \A q \in rest : q < p => machine[q] \in none
      BY <1>2, <1>4, <2>1
    <3> HIDE DEF rest, none
    <3>2. First(rest, none) = machine[p]
      BY <3>1, FirstIs
    <3> QED
      BY <3>2 DEF rest, none
  <2> QED
    BY <1>5, <2>2, <2>3 DEF NodeLocalHostname, NonBlank
<1> QED
  BY <1>1, <1>6, <1>7

---------------------------------------------------------------------------
(***************************************************************************)
(* The clients                                                             *)
(***************************************************************************)

(***************************************************************************)
(* What a client knows of the first n arguments is exactly what they say;  *)
(* a value is that of some argument with its flag.                         *)
(***************************************************************************)
Collected(c, n) ==
  /\ \A f \in ValueFlag :
       \/ values[c][f] = None /\ \A i \in 1 .. n : argv[i].flag # f
       \/ /\ values[c][f] # None
          /\ \E i \in 1 .. n : argv[i].flag = f /\ values[c][f] = TextAt(i)
  /\ dismissing[c] <=> \E i \in 1 .. n : argv[i].flag = "dismiss"

\* The TypeScript client's scan skips values only.
NodeScanned ==
  /\ at > 1 => ~ TakesNext(at - 1)
  /\ Collected("node", at - 1)

\* What makes clap accept a command line.
RustAccepts ==
  /\ \A i \in 1 .. Len(argv) : ~ Refused(i) /\ argv[i].flag # "help"
  /\ Collected("rust", Len(argv))

RustParsed ==
  /\ pc["rust"] \in {"resolve", "send"} => RustAccepts
  /\ request["rust"] # NoRequest =>
       /\ RustAccepts
       /\ ~ dismissing["rust"] => None \notin {RustHost, values["rust"]["state"]}
       /\ request["rust"] = IF dismissing["rust"] THEN Dismissal
                            ELSE Event(RustHost, values["rust"])

NodeParsed ==
  /\ pc["node"] \in {"resolve", "send"} => at = Len(argv) + 1 /\ Complete
  /\ request["node"] # NoRequest =>
       /\ at = Len(argv) + 1
       /\ ~ dismissing["node"] => NodeHost \notin {Empty, None}
       /\ request["node"] = IF dismissing["node"] THEN Dismissal
                            ELSE Event(NodeHost, values["node"])

\* The only ways in which the TypeScript client ends without a request.
NodeGivesUp ==
  pc["node"] = "exited" /\ request["node"] = NoRequest =>
    \/ entry = "link"
    \/ \E i \in 1 .. Len(argv) : \/ Refused(i) \/ argv[i].flag = "help"
                                 \/ argv[i] = Escape \/ argv[i].text \in Dashed
    \/ /\ at = Len(argv) + 1
       /\ \/ ~ Complete
          \/ ~ dismissing["node"] /\ NodeHost \in {Empty, None}

\* What a client has done by where it stands, and what its exit code says.
FateOf(c) ==
  /\ pc[c] \in {"off", "load", "parse", "resolve"} => request[c] = NoRequest
  /\ pc[c] = "send" => request[c] # NoRequest
  /\ pc[c] # "exited" => code[c] = None /\ executed[c] = FALSE
  /\ executed[c] => request[c] # NoRequest /\ Reachable(c) /\ Accepted(c)
  /\ code[c] = 0 => \/ executed[c]
                    \/ /\ request[c] = NoRequest
                       /\ \/ \E i \in 1 .. Len(argv) : argv[i].flag \in {"help", "version"}
                          \/ c = "node" /\ entry = "link"

Fate == \A c \in Client : FateOf(c)

ClientsInv == NodeScanned /\ RustParsed /\ NodeParsed /\ NodeGivesUp /\ Fate

ClientsIInv == EnvironmentTypeOK /\ ClientsTypeOK /\ ClientsInv

\* Where clap accepts, both clients collect the same: no flag comes twice.
LEMMA SameValues ==
  ASSUME ClientsTypeOK, RustAccepts, Collected("node", Len(argv))
  PROVE  /\ values["node"] = values["rust"]
         /\ dismissing["node"] = dismissing["rust"]
<1> DEFINE n == Len(argv)
<1>1. n \in Nat
  BY DEF ClientsTypeOK
<1>2. values["node"] \in [ValueFlag -> Optional] /\ values["rust"] \in [ValueFlag -> Optional]
  BY DEF ClientsTypeOK, Client
<1>3. ASSUME NEW i \in 1 .. n, NEW j \in 1 .. n, argv[i].flag = argv[j].flag,
             argv[i].flag \in ValueFlag
      PROVE  i = j
  <2>1. argv[i].flag # None
    BY <1>3, ClientAssumption
  <2>2. ~ (i < j) /\ ~ (j < i)
    BY <1>1, <1>3, <2>1 DEF RustAccepts, Refused
  <2> QED
    BY <1>1, <2>2
<1>4. ASSUME NEW f \in ValueFlag
      PROVE  values["node"][f] = values["rust"][f]
  <2>1. CASE values["node"][f] = None
    BY <2>1 DEF RustAccepts, Collected
  <2>2. CASE values["node"][f] # None
    <3>1. PICK i \in 1 .. n : argv[i].flag = f /\ values["node"][f] = TextAt(i)
      BY <2>2 DEF Collected
    <3>2. PICK j \in 1 .. n : argv[j].flag = f /\ values["rust"][f] = TextAt(j)
      BY <3>1 DEF RustAccepts, Collected
    <3>3. i = j
      BY <1>3, <3>1, <3>2
    <3> QED
      BY <3>1, <3>2, <3>3
  <2> QED
    BY <2>1, <2>2
<1>5. values["node"] = values["rust"]
  BY <1>2, <1>4
<1>6. dismissing["node"] = dismissing["rust"]
  <2>1. dismissing["node"] \in BOOLEAN /\ dismissing["rust"] \in BOOLEAN
    BY DEF ClientsTypeOK, Client
  <2>2. dismissing["node"] <=> dismissing["rust"]
    BY Zenon DEF RustAccepts, Collected
  <2> QED
    BY <2>1, <2>2
<1> QED
  BY <1>5, <1>6

\* Both clients that ask for something ask for the same.
LEMMA AskTheSame ==
  ASSUME ClientsIInv
  PROVE  SameRequest
<1> SUFFICES ASSUME \A c \in Client : request[c] # NoRequest
             PROVE  /\ request["rust"] = request["node"]
                    /\ \A field \in {"server", "token"} :
                         Setting("rust", field) = Setting("node", field)
  BY DEF SameRequest
<1>0. "rust" \in Client /\ "node" \in Client
  BY DEF Client
<1>1. RustAccepts /\ at = Len(argv) + 1
  BY <1>0 DEF ClientsIInv, ClientsInv, RustParsed, NodeParsed
<1>2. Collected("node", Len(argv))
  <2>1. at - 1 = Len(argv)
    BY <1>1 DEF ClientsIInv, ClientsTypeOK
  <2> QED
    BY <2>1 DEF ClientsIInv, ClientsInv, NodeScanned
<1>3. values["node"] = values["rust"] /\ dismissing["node"] = dismissing["rust"]
  BY <1>1, <1>2, SameValues DEF ClientsIInv
<1>4. ASSUME NEW field
      PROVE  Setting("rust", field) = Setting("node", field)
  BY <1>3 DEF Setting
<1>5. request["rust"] = request["node"]
  <2>1. CASE dismissing["rust"]
    BY <1>0, <1>3, <2>1 DEF ClientsIInv, ClientsInv, RustParsed, NodeParsed
  <2>2. CASE ~ dismissing["rust"]
    <3>1. RustHost # None
      BY <1>0, <2>2 DEF ClientsIInv, ClientsInv, RustParsed
    <3>2. RustHost = NodeHost
      BY <1>4, <3>1, HostAgrees DEF RustHost, NodeHost, ClientsIInv
    <3> QED
      BY <1>0, <1>3, <2>2, <3>2 DEF ClientsIInv, ClientsInv, RustParsed, NodeParsed
  <2> QED
    BY <2>1, <2>2
<1> QED
  BY <1>4, <1>5

\* What the Rust client got obeyed, the TypeScript client does not give up.
LEMMA NeverGivesUp ==
  ASSUME ClientsIInv
  PROVE  NodeKeepsUp
<1> SUFFICES ASSUME executed["rust"], entry = "script",
                    \A i \in 1 .. Len(argv) :
                      argv[i] # Escape /\ argv[i].text \notin Dashed,
                    pc["node"] = "exited", request["node"] = NoRequest
             PROVE  FALSE
  BY DEF NodeKeepsUp
<1>0. "rust" \in Client /\ "node" \in Client
  BY DEF Client
<1>1. request["rust"] # NoRequest /\ Reachable("rust") /\ Accepted("rust")
  BY <1>0 DEF ClientsIInv, ClientsInv, Fate, FateOf
<1>2. /\ RustAccepts
      /\ ~ dismissing["rust"] => None \notin {RustHost, values["rust"]["state"]}
      /\ request["rust"] = IF dismissing["rust"] THEN Dismissal
                           ELSE Event(RustHost, values["rust"])
  BY <1>1 DEF ClientsIInv, ClientsInv, RustParsed
<1>3. /\ at = Len(argv) + 1
      /\ \/ ~ Complete
         \/ ~ dismissing["node"] /\ NodeHost \in {Empty, None}
  <2>1. \A i \in 1 .. Len(argv) : ~ Refused(i) /\ argv[i].flag # "help"
    BY <1>2 DEF RustAccepts
  <2>2. NodeGivesUp
    BY DEF ClientsIInv, ClientsInv
  <2>3. entry # "link"
    OBVIOUS
  <2> QED
    BY <2>1, <2>2, <2>3, Zenon DEF NodeGivesUp
<1>4. Collected("node", Len(argv))
  <2>1. at - 1 = Len(argv)
    BY <1>3 DEF ClientsIInv, ClientsTypeOK
  <2> QED
    BY <2>1 DEF ClientsIInv, ClientsInv, NodeScanned
<1>5. values["node"] = values["rust"] /\ dismissing["node"] = dismissing["rust"]
  BY <1>2, <1>4, SameValues DEF ClientsIInv
<1>6. ASSUME NEW field
      PROVE  Setting("rust", field) = Setting("node", field)
  BY <1>5 DEF Setting
<1>7. None \notin Word /\ Empty \in Blank /\ Empty \notin Word /\ Empty # None
  BY EnvironmentAssumption DEF Text, Blank
<1>8. Complete
  <2>1. /\ Setting("node", "server") \notin {Empty, None}
        /\ Setting("node", "token") \notin {Empty, None}
    BY <1>1, <1>6, <1>7, ClientAssumption DEF Reachable, Accepted
  <2>2. dismissing["node"] \/ values["node"]["state"] # None
    BY <1>2, <1>5
  <2>3. ASSUME NEW f \in ValueFlag, values["node"][f] # None
        PROVE  Valid(f, values["node"][f])
    <3>1. PICK i \in 1 .. Len(argv) : argv[i].flag = f /\ values["node"][f] = TextAt(i)
      BY <1>4, <2>3 DEF Collected
    <3>2. ~ Refused(i)
      BY <1>2 DEF RustAccepts
    <3> QED
      BY <3>1, <3>2 DEF Refused
  <2> QED
    BY <2>1, <2>2, <2>3 DEF Complete
<1>9. ~ dismissing["node"] => NodeHost \notin {Empty, None}
  <2> SUFFICES ASSUME ~ dismissing["node"]
               PROVE  NodeHost \notin {Empty, None}
    OBVIOUS
  <2>1. RustHost # None /\ RustHost \notin Blank
    BY <1>1, <1>2, <1>5 DEF Accepted, Event
  <2>2. NodeHost = RustHost
    BY <1>6, <2>1, HostAgrees DEF RustHost, NodeHost, ClientsIInv
  <2> QED
    BY <1>7, <2>1, <2>2
<1> QED
  BY <1>3, <1>8, <1>9

\* A blank host of a request was given.
LEMMA BlankHosts ==
  ASSUME SettingsIInv, ClientsIInv
  PROVE  BlankHostWasGiven
<1>1. LocalHostname \notin Blank /\ NodeLocalHostname \notin Blank /\ UnknownHost \notin Blank
  BY HostTypes, EnvironmentAssumption, SettingsAssumption DEF SettingsIInv, Text
<1>2. ASSUME NEW c \in Client, request[c].method = "post", request[c].host \in Blank
      PROVE  Setting(c, "host") \in Blank
  <2>1. request[c] # NoRequest
    BY <1>2 DEF NoRequest
  <2>2. CASE c = "rust"
    <3>1. request["rust"] = IF dismissing["rust"] THEN Dismissal
                            ELSE Event(RustHost, values["rust"])
      BY <2>1, <2>2 DEF ClientsIInv, ClientsInv, RustParsed
    <3>2. RustHost \in Blank
      BY <1>2, <2>2, <3>1 DEF Dismissal, Event
    <3> QED
      BY <1>1, <2>2, <3>2 DEF RustHost
  <2>3. CASE c = "node"
    <3>1. request["node"] = IF dismissing["node"] THEN Dismissal
                            ELSE Event(NodeHost, values["node"])
      BY <2>1, <2>3 DEF ClientsIInv, ClientsInv, NodeParsed
    <3>2. NodeHost \in Blank
      BY <1>2, <2>3, <3>1 DEF Dismissal, Event
    <3> QED
      BY <1>1, <2>3, <3>2 DEF NodeHost
  <2> QED
    BY <2>2, <2>3 DEF Client
<1>3. ASSUME stage = "running", BridgeHost \in Blank
      PROVE  IF file # None /\ file.hostname # None THEN file.hostname \in Blank
                                                    ELSE env.host \in Blank
  <2>1. config.hostname \in Blank
    BY <1>1, <1>3 DEF BridgeHost
  <2>2. config.hostname = Overridden(Loaded).hostname
    BY <1>3 DEF SettingsIInv, SettingsInv
  <2> QED
    BY <2>1, <2>2 DEF Overridden, Loaded, OverlayFile, EnvConfig
<1> QED
  BY <1>2, <1>3 DEF BlankHostWasGiven

\* Every start of the clients is in order.
LEMMA ClientsInit == StartupInit => ClientsIInv
<1> SUFFICES ASSUME StartupInit
             PROVE  ClientsIInv
  OBVIOUS
<1>1. EnvironmentTypeOK
  BY SettingsInit DEF SettingsIInv
<1>2. PICK places \in [Client -> {"off", "load", "parse"}], line \in Seq(Argument) :
        ClientsAt(places, line) /\ entry \in Entry
  <2>1. CASE ClientsOff
    <3>1. <<>> \in Seq(Argument)
      OBVIOUS
    <3> QED
      BY <2>1, <3>1 DEF ClientsOff, Entry
  <2>2. CASE \E launch \in ClientLaunches : StartClients(launch)
    BY <2>2, ClientAssumption DEF StartClients
  <2> QED
    BY <2>1, <2>2 DEF StartupInit
<1>3. Len(argv) \in Nat /\ None \in Optional
  BY <1>2 DEF ClientsAt, Optional
<1>4. ClientsTypeOK
  BY <1>2, <1>3 DEF ClientsAt, ClientsTypeOK
<1>5. \A c \in Client : /\ pc[c] \in {"off", "load", "parse"} /\ request[c] = NoRequest
                        /\ values[c] = [f \in ValueFlag |-> None]
                        /\ dismissing[c] = FALSE /\ executed[c] = FALSE
                        /\ code[c] = None
  BY <1>2 DEF ClientsAt
<1>6. at = 1 /\ "rust" \in Client /\ "node" \in Client
  BY <1>2 DEF ClientsAt, Client
<1>7. NodeScanned
  BY <1>5, <1>6 DEF NodeScanned, Collected
<1>8. RustParsed /\ NodeParsed /\ NodeGivesUp /\ Fate
  BY <1>5, <1>6, ClientAssumption DEF RustParsed, NodeParsed, NodeGivesUp, Fate, FateOf
<1> QED
  BY <1>1, <1>4, <1>7, <1>8 DEF ClientsIInv, ClientsInv

\* A client that a step leaves alone.
Idle(c) == UNCHANGED <<pc[c], values[c], dismissing[c], request[c], executed[c], code[c]>>

\* How the TypeScript client was started does not change.
LEMMA EntryStays ==
  ASSUME [StartupNext]_startupVars
  PROVE  entry' = entry
BY DEF StartupNext, ClientsNext, startupVars, clientVars

\* A step of the system is one of at most one client, which keeps the command line.
LEMMA ClientActs ==
  ASSUME ClientsTypeOK, [StartupNext]_startupVars
  PROVE  /\ argv' = argv
         /\ \/ Idle("rust")
            \/ RustParse \/ RustResolve \/ Answered("rust") \/ Unanswered("rust")
         /\ \/ Idle("node") /\ at' = at
            \/ NodeEntry \/ NodeFlag \/ NodeDismiss \/ NodeHelp \/ NodeUsageError
            \/ NodeCheck \/ NodeResolve \/ Answered("node") \/ Unanswered("node")
<1> USE DEF Client, ClientsTypeOK
<1>1. CASE UNCHANGED clientVars
  BY <1>1 DEF clientVars, Idle
<1>2. CASE RustParse
  BY <1>2 DEF RustParse, Exit, Idle
<1>3. CASE RustResolve
  BY <1>3 DEF RustResolve, Ask, Exit, Idle
<1>4. CASE NodeFlag
  BY <1>4 DEF NodeFlag, Idle
<1>5. CASE NodeDismiss
  BY <1>5 DEF NodeDismiss, Idle
<1>6. CASE NodeHelp
  BY <1>6 DEF NodeHelp, Exit, Idle
<1>7. CASE NodeUsageError
  BY <1>7 DEF NodeUsageError, Exit, Idle
<1>8. CASE NodeCheck
  BY <1>8 DEF NodeCheck, Exit, Idle
<1>9. CASE NodeResolve
  BY <1>9 DEF NodeResolve, Ask, Exit, Idle
<1>10. ASSUME NEW c \in Client, Answered(c) \/ Unanswered(c)
       PROVE  /\ argv' = argv
              /\ Idle("rust") \/ Answered("rust") \/ Unanswered("rust")
              /\ (Idle("node") /\ at' = at) \/ Answered("node") \/ Unanswered("node")
  BY <1>10 DEF Answered, Unanswered, Exit, Idle
<1>11. CASE NodeEntry
  BY <1>11 DEF NodeEntry, Exit, Idle
<1> QED
  BY <1>1, <1>2, <1>3, <1>4, <1>5, <1>6, <1>7, <1>8, <1>9, <1>10, <1>11, Zenon
     DEF StartupNext, ClientsNext, startupVars

\* What is said of the command line is said for good.
LEMMA ArgvFrame ==
  ASSUME argv' = argv
  PROVE  \A i : /\ TextAt(i)' = TextAt(i)
                /\ TakesNext(i)' <=> TakesNext(i)
                /\ Refused(i)' <=> Refused(i)
BY DEF TextAt, TakesNext, Refused, Valid

\* What is said of a client's options holds as long as they stay.
LEMMA OptionsFrame ==
  ASSUME argv' = argv, UNCHANGED environmentVars, NEW c \in Client,
         UNCHANGED <<values[c], dismissing[c]>>
  PROVE  /\ \A n : Collected(c, n)' <=> Collected(c, n)
         /\ \A field : Setting(c, field)' = Setting(c, field)
BY DEF Collected, Setting, OrEnv, TextAt, environmentVars

LEMMA RustFrame ==
  ASSUME argv' = argv, UNCHANGED environmentVars,
         UNCHANGED <<values["rust"], dismissing["rust"]>>
  PROVE  /\ RustAccepts' <=> RustAccepts
         /\ RustHost' = RustHost
<1>1. RustAccepts' <=> RustAccepts
  BY ArgvFrame DEF RustAccepts, Collected
<1>2. RustHost' = RustHost
  BY DEF RustHost, Setting, OrEnv, environmentVars, LocalHostname, First
<1> QED
  BY <1>1, <1>2

LEMMA NodeFrame ==
  ASSUME argv' = argv, UNCHANGED environmentVars,
         UNCHANGED <<values["node"], dismissing["node"]>>
  PROVE  /\ Complete' <=> Complete
         /\ NodeHost' = NodeHost
BY DEF Complete, Valid, NodeHost, Setting, OrEnv, environmentVars,
       NodeLocalHostname, First

\* TextAt is a text or nothing.
LEMMA TextTypes ==
  ASSUME ClientsTypeOK, NEW i \in 1 .. Len(argv)
  PROVE  TextAt(i) \in Optional /\ argv[i] \in Argument
<1>1. \A j \in 1 .. Len(argv) : argv[j] \in Argument
  BY DEF ClientsTypeOK
<1>2. i < Len(argv) => i + 1 \in 1 .. Len(argv)
  BY DEF ClientsTypeOK
<1>3. \A argument \in Argument : argument.text \in Optional
  BY DEF Argument, Escape, Optional
<1> QED
  BY <1>1, <1>2, <1>3 DEF TextAt, Optional

\* What RustParse gathers is what the command line says.
LEMMA RustParses ==
  ASSUME ClientsIInv, RustParse, argv' = argv,
         values'["rust"] # values["rust"] \/ pc'["rust"] = "resolve"
  PROVE  RustAccepts'
<1> DEFINE n     == Len(argv)
           ends  == {i \in 1 .. n : Refused(i) \/ argv[i].flag = "help"}
           given == [f \in ValueFlag |->
                       LET found == {i \in 1 .. n : argv[i].flag = f}
                       IN  IF found = {} THEN None ELSE TextAt(Min(found))]
<1>0. n \in Nat /\ "rust" \in Client /\ pc \in [Client -> {"off", "load", "parse", "resolve", "send", "exited"}]
      /\ values \in [Client -> [ValueFlag -> Optional]] /\ dismissing \in [Client -> BOOLEAN]
  BY DEF ClientsIInv, ClientsTypeOK, Client
<1>1. /\ ends = {}
      /\ values' = [values EXCEPT !["rust"] = given]
      /\ dismissing' = [dismissing EXCEPT !["rust"] = \E i \in 1 .. n : argv[i].flag = "dismiss"]
  <2>1. CASE ends = {}
    BY <2>1 DEF RustParse
  <2>2. CASE ends # {}
    <3>1. pc' = [pc EXCEPT !["rust"] = "exited"] /\ UNCHANGED values
      BY <2>2 DEF RustParse, Exit
    <3> QED
      BY <1>0, <3>1
  <2> QED
    BY <2>1, <2>2
<1>2. \A i \in 1 .. n : ~ Refused(i) /\ argv[i].flag # "help"
  BY <1>1
<1>3. ASSUME NEW f \in ValueFlag
      PROVE  \/ given[f] = None /\ \A i \in 1 .. n : argv[i].flag # f
             \/ given[f] # None /\ \E i \in 1 .. n : argv[i].flag = f /\ given[f] = TextAt(i)
  <2> DEFINE found == {i \in 1 .. n : argv[i].flag = f}
  <2>1. CASE found = {}
    BY <2>1
  <2>2. CASE found # {}
    <3>1. found \in SUBSET Nat
      BY <1>0
    <3>2. Min(found) \in found
      <4> HIDE DEF found
      <4> QED
        BY <2>2, <3>1, LeastIsMin
    <3>3. PICK i \in 1 .. n : i = Min(found) /\ argv[i].flag = f
      BY <3>2
    <3>4. TextAt(i) # None
      BY <1>2, <3>3 DEF Refused
    <3>5. given[f] = TextAt(i)
      BY <2>2, <3>3
    <3> QED
      BY <3>3, <3>4, <3>5
  <2> QED
    BY <2>1, <2>2
<1> HIDE DEF given
<1>4. values'["rust"] = given
  BY <1>0, <1>1
<1>5. dismissing'["rust"] <=> \E i \in 1 .. n : argv[i].flag = "dismiss"
  BY <1>0, <1>1
<1>6. /\ \A i : TextAt(i)' = TextAt(i)
      /\ \A i : Refused(i)' <=> Refused(i)
  BY ArgvFrame
<1>7. Collected("rust", Len(argv))'
  BY <1>3, <1>4, <1>5, <1>6 DEF Collected
<1> QED
  BY <1>2, <1>6, <1>7 DEF RustAccepts

\* The Rust client's part of the invariant is kept.
LEMMA RustStep ==
  ASSUME ClientsIInv, [StartupNext]_startupVars
  PROVE  RustParsed'
<1>1. argv' = argv /\ UNCHANGED environmentVars
  BY ClientActs, EnvironmentStays DEF ClientsIInv
<1>2. RustParsed /\ Fate
  BY DEF ClientsIInv, ClientsInv
<1>3. "rust" \in Client
  BY DEF Client
<1>4. CASE UNCHANGED <<pc["rust"], values["rust"], dismissing["rust"], request["rust"]>>
  BY <1>1, <1>2, <1>4, RustFrame DEF RustParsed
<1>5. CASE RustParse
  <2>1. UNCHANGED request["rust"] /\ request["rust"] = NoRequest
    BY <1>2, <1>3, <1>5 DEF RustParse, Fate, FateOf
  <2>2. pc'["rust"] # "send"
    BY <1>5 DEF RustParse, Exit, ClientsIInv, ClientsTypeOK, Client
  <2>3. pc'["rust"] = "resolve" => RustAccepts'
    BY <1>1, <1>5, RustParses
  <2> QED
    BY <2>1, <2>2, <2>3 DEF RustParsed
<1>6. CASE RustResolve
  <2>1. RustAccepts
    BY <1>2, <1>6 DEF RustResolve, RustParsed
  <2>2. UNCHANGED <<values["rust"], dismissing["rust"]>>
    BY <1>6 DEF RustResolve
  <2>3. request'["rust"] # NoRequest =>
          /\ ~ dismissing["rust"] => None \notin {RustHost, values["rust"]["state"]}
          /\ request'["rust"] = IF dismissing["rust"] THEN Dismissal
                                ELSE Event(RustHost, values["rust"])
    BY <1>2, <1>3, <1>6 DEF RustResolve, Ask, Exit, Fate, FateOf, ClientsIInv, ClientsTypeOK
  <2> QED
    BY <1>1, <2>1, <2>2, <2>3, RustFrame DEF RustParsed
<1>7. CASE Answered("rust") \/ Unanswered("rust")
  <2>1. /\ UNCHANGED <<values["rust"], dismissing["rust"], request["rust"]>>
        /\ pc'["rust"] = "exited"
    BY <1>3, <1>7 DEF Answered, Unanswered, Exit, ClientsIInv, ClientsTypeOK
  <2> QED
    BY <1>1, <1>2, <2>1, RustFrame DEF RustParsed
<1> QED
  BY <1>4, <1>5, <1>6, <1>7, ClientActs DEF ClientsIInv, Idle

\* A flag's argument extends what was collected; what it skips says nothing.
LEMMA NodeScanStep ==
  ASSUME ClientsIInv, [StartupNext]_startupVars
  PROVE  NodeScanned'
<1>1. argv' = argv /\ UNCHANGED environmentVars
  BY ClientActs, EnvironmentStays DEF ClientsIInv
<1>2. NodeScanned /\ "node" \in Client
  BY DEF ClientsIInv, ClientsInv, Client
<1>3. /\ at \in 1 .. Len(argv) + 1 /\ Len(argv) \in Nat
      /\ values \in [Client -> [ValueFlag -> Optional]]
      /\ dismissing \in [Client -> BOOLEAN]
  BY DEF ClientsIInv, ClientsTypeOK
<1>4. \A i : TextAt(i)' = TextAt(i) /\ (TakesNext(i)' <=> TakesNext(i))
  BY <1>1, ArgvFrame
<1>5. None \notin ValueFlag /\ "dismiss" # None /\ "dismiss" \notin ValueFlag
  BY ClientAssumption DEF ValueFlag, BooleanFlag
<1>6. CASE UNCHANGED <<values["node"], dismissing["node"], at>>
  BY <1>1, <1>2, <1>4, <1>6 DEF NodeScanned, Collected
<1>7. CASE NodeFlag
  <2> DEFINE flag == argv[at].flag
             text == TextAt(at)
  <2>1. /\ at \in 1 .. Len(argv) /\ flag \in ValueFlag /\ text # None
        /\ values' = [values EXCEPT !["node"][flag] = text]
        /\ UNCHANGED dismissing
    BY <1>3, <1>7 DEF NodeFlag, Scanning
  <2>2. /\ values'["node"][flag] = text
        /\ \A f \in ValueFlag \ {flag} : values'["node"][f] = values["node"][f]
    BY <1>2, <1>3, <2>1
  <2>3. CASE TakesNext(at)
    <3>1. at' = at + 2 /\ at < Len(argv) /\ argv[at + 1].flag = None
      BY <1>7, <2>1, <2>3 DEF NodeFlag, TakesNext, TextAt
    <3>2. \A i \in 1 .. at' - 1 : i \in 1 .. at - 1 \/ i = at \/ argv[i].flag = None
      BY <1>3, <3>1
    <3>3. at \in 1 .. at' - 1 /\ \A i \in 1 .. at - 1 : i \in 1 .. at' - 1
      BY <1>3, <3>1
    <3>4. ~ TakesNext(at' - 1)
      BY <1>3, <1>5, <3>1 DEF TakesNext
    <3>5. Collected("node", at - 1)'
      <4>1. ASSUME NEW f \in ValueFlag, f # flag
            PROVE  \/ values'["node"][f] = None /\ \A i \in 1 .. at' - 1 : argv[i].flag # f
                   \/ /\ values'["node"][f] # None
                      /\ \E i \in 1 .. at' - 1 : argv[i].flag = f /\ values'["node"][f] = TextAt(i)
        BY <1>2, <1>5, <2>2, <3>2, <3>3, <4>1 DEF NodeScanned, Collected
      <4>2. \E i \in 1 .. at' - 1 : argv[i].flag = flag /\ values'["node"][flag] = TextAt(i)
        BY <2>2, <3>3
      <4>3. dismissing'["node"] <=> \E i \in 1 .. at' - 1 : argv[i].flag = "dismiss"
        BY <1>2, <1>5, <2>1, <3>2, <3>3 DEF NodeScanned, Collected
      <4> QED
        BY <1>1, <1>4, <2>1, <2>2, <4>1, <4>2, <4>3 DEF Collected
    <3> QED
      BY <1>1, <1>4, <3>4, <3>5 DEF NodeScanned, Collected, TakesNext
  <2>4. CASE ~ TakesNext(at)
    <3>1. at' = at + 1
      BY <1>7, <2>4 DEF NodeFlag
    <3>2. \A i \in 1 .. at' - 1 : i \in 1 .. at - 1 \/ i = at
      BY <1>3, <3>1
    <3>3. at \in 1 .. at' - 1 /\ \A i \in 1 .. at - 1 : i \in 1 .. at' - 1
      BY <1>3, <3>1
    <3>4. at' - 1 = at
      BY <1>3, <3>1
    <3>5. Collected("node", at - 1)'
      <4>1. ASSUME NEW f \in ValueFlag, f # flag
            PROVE  \/ values'["node"][f] = None /\ \A i \in 1 .. at' - 1 : argv[i].flag # f
                   \/ /\ values'["node"][f] # None
                      /\ \E i \in 1 .. at' - 1 : argv[i].flag = f /\ values'["node"][f] = TextAt(i)
        BY <1>2, <2>2, <3>2, <3>3, <4>1 DEF NodeScanned, Collected
      <4>2. \E i \in 1 .. at' - 1 : argv[i].flag = flag /\ values'["node"][flag] = TextAt(i)
        BY <2>2, <3>3
      <4>3. dismissing'["node"] <=> \E i \in 1 .. at' - 1 : argv[i].flag = "dismiss"
        BY <1>2, <1>5, <2>1, <3>2, <3>3 DEF NodeScanned, Collected
      <4> QED
        BY <1>1, <1>4, <2>1, <2>2, <4>1, <4>2, <4>3 DEF Collected
    <3> QED
      BY <1>1, <1>4, <2>4, <3>4, <3>5 DEF NodeScanned, Collected, TakesNext
  <2> QED
    BY <2>3, <2>4
<1>8. CASE NodeDismiss
  <2>1. /\ at \in 1 .. Len(argv) /\ argv[at].flag = "dismiss" /\ at' = at + 1
        /\ UNCHANGED values /\ dismissing'["node"]
    BY <1>2, <1>3, <1>8 DEF NodeDismiss, Scanning
  <2>2. at' - 1 = at /\ ~ TakesNext(at)
    BY <1>5, <2>1 DEF TakesNext
  <2>3. \A i \in 1 .. at' - 1 : i \in 1 .. at - 1 \/ i = at
    BY <2>1
  <2>4. at \in 1 .. at' - 1 /\ \A i \in 1 .. at - 1 : i \in 1 .. at' - 1
    BY <2>1
  <2>5. ASSUME NEW f \in ValueFlag
        PROVE  \/ values'["node"][f] = None /\ \A i \in 1 .. at' - 1 : argv[i].flag # f
               \/ /\ values'["node"][f] # None
                  /\ \E i \in 1 .. at' - 1 : argv[i].flag = f /\ values'["node"][f] = TextAt(i)
    BY <1>2, <1>5, <2>1, <2>3, <2>4 DEF NodeScanned, Collected
  <2>6. dismissing'["node"] <=> \E i \in 1 .. at' - 1 : argv[i].flag = "dismiss"
    BY <2>1, <2>4
  <2> QED
    BY <1>1, <1>4, <2>2, <2>5, <2>6 DEF NodeScanned, Collected, TakesNext
<1>9. CASE \/ NodeEntry \/ NodeHelp \/ NodeUsageError \/ NodeCheck
           \/ NodeResolve \/ Answered("node") \/ Unanswered("node")
  <2>1. UNCHANGED <<values, dismissing, at>>
    BY <1>9 DEF NodeEntry, NodeHelp, NodeUsageError, NodeCheck, NodeResolve, Answered, Unanswered
  <2> QED
    BY <1>6, <2>1
<1> QED
  BY <1>6, <1>7, <1>8, <1>9, ClientActs DEF ClientsIInv, Idle

\* The TypeScript client stops at an argument for a reason.
LEMMA NodeRefuses ==
  ASSUME ClientsIInv, NodeHelp \/ NodeUsageError
  PROVE  \E i \in 1 .. Len(argv) : \/ Refused(i) \/ argv[i].flag = "help"
                                   \/ argv[i] = Escape \/ argv[i].text \in Dashed
<1>1. at \in 1 .. Len(argv) /\ Len(argv) \in Nat
  BY DEF NodeHelp, NodeUsageError, Scanning, ClientsIInv, ClientsTypeOK
<1>2. /\ None \notin Dashed /\ None \notin ValueFlag /\ None \notin BooleanFlag
      /\ BooleanFlag = {"dismiss", "help", "version"}
  BY EnvironmentAssumption, ClientAssumption DEF Text, BooleanFlag
<1>3. CASE NodeHelp
  BY <1>1, <1>3 DEF NodeHelp, Refused
<1>4. CASE NodeUsageError /\ argv[at].flag \in {"other", None}
  <2>1. at > 1 => ~ TakesNext(at - 1)
    BY DEF ClientsIInv, ClientsInv, NodeScanned
  <2> QED
    BY <1>1, <1>4, <2>1 DEF Refused
<1>5. CASE argv[at].flag \in BooleanFlag /\ argv[at].text # None
  BY <1>1, <1>5 DEF Refused
<1>6. CASE argv[at].flag \in ValueFlag /\ TextAt(at) \in Dashed \cup {None}
  <2>1. CASE TextAt(at) = None
    BY <1>1, <1>6, <2>1 DEF Refused
  <2>2. CASE TextAt(at) \in Dashed
    <3>1. \/ argv[at].text \in Dashed
          \/ at < Len(argv) /\ argv[at + 1].text \in Dashed
      BY <1>2, <2>2 DEF TextAt
    <3>2. at < Len(argv) => at + 1 \in 1 .. Len(argv)
      BY <1>1
    <3> QED
      BY <1>1, <3>1, <3>2
  <2> QED
    BY <1>6, <2>1, <2>2
<1>7. CASE argv[at].flag = "escape"
  <2>1. argv[at] \in Argument
    BY <1>1, TextTypes DEF ClientsIInv
  <2>2. "escape" \notin ValueFlag \cup BooleanFlag \cup {"other", None}
    BY ClientAssumption DEF ValueFlag, BooleanFlag
  <2> QED
    BY <1>1, <1>7, <2>1, <2>2 DEF Argument
<1> QED
  BY <1>3, <1>4, <1>5, <1>6, <1>7 DEF NodeUsageError

\* The TypeScript client's requests, and its reasons for sending none.
LEMMA NodeStep ==
  ASSUME ClientsIInv, [StartupNext]_startupVars
  PROVE  NodeParsed' /\ NodeGivesUp'
<1>1. argv' = argv /\ entry' = entry /\ UNCHANGED environmentVars
  BY EntryStays, ClientActs, EnvironmentStays DEF ClientsIInv
<1>2. NodeParsed /\ NodeGivesUp /\ Fate /\ "node" \in Client
  BY DEF ClientsIInv, ClientsInv, Client
<1>3. /\ at \in 1 .. Len(argv) + 1 /\ Len(argv) \in Nat
      /\ pc \in [Client -> {"off", "load", "parse", "resolve", "send", "exited"}]
  BY DEF ClientsIInv, ClientsTypeOK
<1>4. \A i : Refused(i)' <=> Refused(i)
  BY <1>1, ArgvFrame
<1>5. CASE UNCHANGED <<pc["node"], values["node"], dismissing["node"], request["node"], at>>
  BY <1>1, <1>2, <1>4, <1>5, NodeFrame DEF NodeParsed, NodeGivesUp
<1>6. CASE NodeFlag \/ NodeDismiss
  <2>1. pc'["node"] = "parse" /\ request'["node"] = NoRequest
    BY <1>2, <1>6 DEF NodeFlag, NodeDismiss, Scanning, Fate, FateOf
  <2> QED
    BY <2>1 DEF NodeParsed, NodeGivesUp
<1>7. CASE NodeHelp \/ NodeUsageError
  <2>1. pc'["node"] = "exited" /\ request'["node"] = NoRequest
    BY <1>2, <1>3, <1>7 DEF NodeHelp, NodeUsageError, Scanning, Exit, Fate, FateOf
  <2>2. \E i \in 1 .. Len(argv) : \/ Refused(i) \/ argv[i].flag = "help"
                                  \/ argv[i] = Escape \/ argv[i].text \in Dashed
    BY <1>7, NodeRefuses
  <2> QED
    BY <1>1, <1>4, <2>1, <2>2 DEF NodeParsed, NodeGivesUp
<1>8. CASE NodeCheck
  <2>1. /\ at = Len(argv) + 1 /\ request'["node"] = NoRequest
        /\ UNCHANGED <<at, values["node"], dismissing["node"]>>
        /\ \/ Complete /\ pc'["node"] = "resolve"
           \/ ~ Complete /\ pc'["node"] = "exited"
    BY <1>2, <1>3, <1>8 DEF NodeCheck, Exit, Fate, FateOf
  <2> QED
    BY <1>1, <2>1, NodeFrame DEF NodeParsed, NodeGivesUp
<1>9. CASE NodeResolve
  <2>1. /\ at = Len(argv) + 1 /\ Complete
        /\ UNCHANGED <<at, values["node"], dismissing["node"]>>
    BY <1>2, <1>9 DEF NodeResolve, NodeParsed
  <2>2. CASE dismissing["node"]
    <3>1. request'["node"] = Dismissal /\ pc'["node"] = "send"
      BY <1>2, <1>3, <1>9, <2>2 DEF NodeResolve, Ask, ClientsIInv, ClientsTypeOK
    <3> QED
      BY <1>1, <2>1, <2>2, <3>1, NodeFrame DEF NodeParsed, NodeGivesUp
  <2>3. CASE ~ dismissing["node"] /\ NodeHost \in {Empty, None}
    <3>1. request'["node"] = NoRequest /\ pc'["node"] = "exited"
      BY <1>2, <1>3, <1>9, <2>3 DEF NodeResolve, Exit, Fate, FateOf
    <3> QED
      BY <1>1, <2>1, <2>3, <3>1, NodeFrame DEF NodeParsed, NodeGivesUp
  <2>4. CASE ~ dismissing["node"] /\ NodeHost \notin {Empty, None}
    <3>1. request'["node"] = Event(NodeHost, values["node"]) /\ pc'["node"] = "send"
      BY <1>2, <1>3, <1>9, <2>4 DEF NodeResolve, Ask, ClientsIInv, ClientsTypeOK
    <3> QED
      BY <1>1, <2>1, <2>4, <3>1, NodeFrame DEF NodeParsed, NodeGivesUp
  <2> QED
    BY <2>2, <2>3, <2>4
<1>10. CASE Answered("node") \/ Unanswered("node")
  <2>1. /\ UNCHANGED <<at, values["node"], dismissing["node"], request["node"]>>
        /\ pc'["node"] = "exited" /\ request["node"] # NoRequest
    BY <1>2, <1>3, <1>10 DEF Answered, Unanswered, Exit, Fate, FateOf
  <2> QED
    BY <1>1, <1>2, <2>1, NodeFrame DEF NodeParsed, NodeGivesUp
<1>11. CASE NodeEntry
  <2>1. request'["node"] = NoRequest
    BY <1>2, <1>11 DEF NodeEntry, Fate, FateOf
  <2>2. pc'["node"] = "parse" \/ (pc'["node"] = "exited" /\ entry = "link")
    BY <1>2, <1>3, <1>11 DEF NodeEntry, Exit, ClientsIInv, ClientsTypeOK, Entry
  <2> QED
    BY <1>1, <2>1, <2>2 DEF NodeParsed, NodeGivesUp
<1> QED
  BY <1>5, <1>6, <1>7, <1>8, <1>9, <1>10, <1>11, ClientActs DEF ClientsIInv, Idle

\* What is known of an executed request stays so.
LEMMA FateFrame ==
  ASSUME UNCHANGED <<argv, entry>>, UNCHANGED environmentVars, NEW c \in Client, FateOf(c),
         UNCHANGED <<pc[c], values[c], request[c], executed[c], code[c]>>
  PROVE  FateOf(c)'
BY DEF FateOf, Reachable, Accepted, Setting, OrEnv, environmentVars

\* A step in which a client goes on, asks, or ends without asking.
Undone(c) ==
  /\ executed'[c] = FALSE
  /\ \/ pc'[c] \in {"parse", "resolve"} /\ request'[c] = NoRequest /\ code'[c] = None
     \/ pc'[c] = "send" /\ request'[c] # NoRequest /\ code'[c] = None
     \/ pc'[c] = "exited" /\ code'[c] \in {1, 2}
     \/ /\ pc'[c] = "exited" /\ request'[c] = NoRequest
        /\ \/ \E i \in 1 .. Len(argv) : argv[i].flag \in {"help", "version"}
           \/ c = "node" /\ entry = "link"

LEMMA FateBefore ==
  ASSUME UNCHANGED <<argv, entry>>, NEW c \in Client, Undone(c)
  PROVE  FateOf(c)'
<1>1. None # 0
  BY ClientAssumption
<1> QED
  BY <1>1 DEF Undone, FateOf

\* A step in which a request meets its end.
LEMMA FateAfter ==
  ASSUME ClientsIInv, UNCHANGED <<argv, entry>>, UNCHANGED environmentVars, NEW c \in Client,
         Answered(c) \/ Unanswered(c)
  PROVE  FateOf(c)'
<1>1. /\ FateOf(c) /\ pc[c] = "send" /\ request[c] # NoRequest
  BY DEF ClientsIInv, ClientsInv, Fate, FateOf, Answered, Unanswered
<1>2. /\ UNCHANGED <<values, request>> /\ pc'[c] = "exited"
      /\ code'[c] = 0 => executed'[c]
      /\ executed'[c] => Reachable(c) /\ Accepted(c)
  <2>1. /\ DOMAIN pc = Client /\ DOMAIN code = Client /\ DOMAIN executed = Client
        /\ executed[c] = FALSE
    BY <1>1 DEF ClientsIInv, ClientsTypeOK, FateOf
  <2>2. /\ UNCHANGED <<values, request>>
        /\ \E status \in 0 .. 2 : pc' = [pc EXCEPT ![c] = "exited"]
                                 /\ code' = [code EXCEPT ![c] = status]
    BY DEF Answered, Unanswered, Exit
  <2>3. pc'[c] = "exited"
    BY <2>2 DEF ClientsIInv, ClientsTypeOK
  <2>4. CASE Answered(c)
    BY <2>1, <2>2, <2>3, <2>4 DEF Answered, Exit, ClientsIInv, ClientsTypeOK
  <2>5. CASE Unanswered(c)
    BY <2>1, <2>2, <2>3, <2>5 DEF Unanswered, Exit, ClientsIInv, ClientsTypeOK
  <2> QED
    BY <2>4, <2>5
<1>3. Reachable(c)' <=> Reachable(c)
  BY <1>2 DEF Reachable, Setting, OrEnv, environmentVars
<1>4. Accepted(c)' <=> Accepted(c)
  BY <1>2 DEF Accepted, Setting, OrEnv, environmentVars
<1> QED
  BY <1>1, <1>2, <1>3, <1>4 DEF FateOf

LEMMA FateStep ==
  ASSUME ClientsIInv, [StartupNext]_startupVars
  PROVE  Fate'
<1>1. UNCHANGED <<argv, entry>> /\ UNCHANGED environmentVars
  BY EntryStays, ClientActs, EnvironmentStays DEF ClientsIInv
<1>2. FateOf("rust") /\ FateOf("node") /\ "rust" \in Client /\ "node" \in Client
  BY DEF ClientsIInv, ClientsInv, Fate, Client
<1> USE DEF ClientsIInv, ClientsTypeOK
<1>3. FateOf("rust")'
  <2>1. CASE Idle("rust")
    BY <1>1, <1>2, <2>1, FateFrame DEF Idle
  <2>2. CASE RustParse
    <3>1. /\ UNCHANGED <<request, executed>>
          /\ request["rust"] = NoRequest /\ code["rust"] = None /\ executed["rust"] = FALSE
      BY <1>2, <2>2 DEF RustParse, FateOf
    <3>2. \/ pc'["rust"] = "resolve" /\ code'["rust"] = None
          \/ pc'["rust"] = "exited" /\ code'["rust"] = 2
          \/ /\ pc'["rust"] = "exited"
             /\ \E i \in 1 .. Len(argv) : argv[i].flag = "help"
      <4> DEFINE ends == {i \in 1 .. Len(argv) : Refused(i) \/ argv[i].flag = "help"}
      <4>1. CASE ends = {}
        BY <1>2, <2>2, <3>1, <4>1 DEF RustParse, Exit
      <4>2. CASE ends # {}
        <5>1. pc'["rust"] = "exited" /\ code'["rust"] = IF Refused(Min(ends)) THEN 2 ELSE 0
          BY <1>2, <2>2, <4>2 DEF RustParse, Exit
        <5>2. Min(ends) \in ends
          <6>1. ends \in SUBSET Nat
            OBVIOUS
          <6> HIDE DEF ends
          <6> QED
            BY <4>2, <6>1, LeastIsMin
        <5> QED
          BY <5>1, <5>2
      <4> QED
        BY <4>1, <4>2
    <3>3. Undone("rust")
      BY <3>1, <3>2 DEF Undone
    <3> QED
      BY <1>1, <1>2, <3>3, FateBefore
  <2>3. CASE RustResolve
    <3>1. UNCHANGED executed /\ executed["rust"] = FALSE
          /\ request["rust"] = NoRequest /\ code["rust"] = None
      BY <1>2, <2>3 DEF RustResolve, FateOf
    <3>2. \/ pc'["rust"] = "send" /\ request'["rust"] # NoRequest /\ code'["rust"] = None
          \/ pc'["rust"] = "exited" /\ code'["rust"] = 1
      BY <1>2, <2>3, <3>1 DEF RustResolve, Ask, Exit, Dismissal, Event, NoRequest
    <3>3. Undone("rust")
      BY <3>1, <3>2 DEF Undone
    <3> QED
      BY <1>1, <1>2, <3>3, FateBefore
  <2>4. CASE Answered("rust") \/ Unanswered("rust")
    BY <1>1, <1>2, <2>4, FateAfter
  <2> QED
    BY <2>1, <2>2, <2>3, <2>4, ClientActs
<1>4. FateOf("node")'
  <2>1. CASE Idle("node")
    BY <1>1, <1>2, <2>1, FateFrame DEF Idle
  <2>2. CASE NodeFlag \/ NodeDismiss
    <3>1. /\ UNCHANGED <<pc, request, executed, code>>
          /\ pc["node"] = "parse" /\ request["node"] = NoRequest
          /\ code["node"] = None /\ executed["node"] = FALSE
      BY <1>2, <2>2 DEF NodeFlag, NodeDismiss, Scanning, FateOf
    <3>3. Undone("node")
      BY <3>1 DEF Undone
    <3> QED
      BY <1>1, <1>2, <3>3, FateBefore
  <2>3. CASE NodeHelp \/ NodeUsageError \/ NodeCheck
    <3>1. /\ UNCHANGED <<request, executed>>
          /\ request["node"] = NoRequest /\ executed["node"] = FALSE /\ code["node"] = None
      BY <1>2, <2>3 DEF NodeHelp, NodeUsageError, NodeCheck, Scanning, FateOf
    <3>2. \/ pc'["node"] = "resolve" /\ code'["node"] = None
          \/ pc'["node"] = "exited" /\ code'["node"] = 2
          \/ /\ pc'["node"] = "exited"
             /\ at \in 1 .. Len(argv) /\ argv[at].flag \in {"help", "version"}
      BY <1>2, <2>3, <3>1 DEF NodeHelp, NodeUsageError, NodeCheck, Scanning, Exit
    <3>3. Undone("node")
      BY <3>1, <3>2 DEF Undone
    <3> QED
      BY <1>1, <1>2, <3>3, FateBefore
  <2>4. CASE NodeResolve
    <3>1. UNCHANGED executed /\ executed["node"] = FALSE
          /\ request["node"] = NoRequest /\ code["node"] = None
      BY <1>2, <2>4 DEF NodeResolve, FateOf
    <3>2. \/ pc'["node"] = "send" /\ request'["node"] # NoRequest /\ code'["node"] = None
          \/ pc'["node"] = "exited" /\ code'["node"] = 1
      BY <1>2, <2>4, <3>1 DEF NodeResolve, Ask, Exit, Dismissal, Event, NoRequest
    <3>3. Undone("node")
      BY <3>1, <3>2 DEF Undone
    <3> QED
      BY <1>1, <1>2, <3>3, FateBefore
  <2>5. CASE Answered("node") \/ Unanswered("node")
    BY <1>1, <1>2, <2>5, FateAfter
  <2>6. CASE NodeEntry
    <3>1. /\ UNCHANGED <<request, executed>>
          /\ request["node"] = NoRequest /\ executed["node"] = FALSE /\ code["node"] = None
      BY <1>2, <2>6 DEF NodeEntry, FateOf
    <3>2. \/ pc'["node"] = "parse" /\ code'["node"] = None
          \/ pc'["node"] = "exited" /\ entry = "link"
      BY <1>2, <2>6, <3>1 DEF NodeEntry, Exit, Entry
    <3>3. Undone("node")
      BY <3>1, <3>2 DEF Undone
    <3> QED
      BY <1>1, <1>2, <3>3, FateBefore
  <2> QED
    BY <2>1, <2>2, <2>3, <2>4, <2>5, <2>6, ClientActs
<1> QED
  BY <1>3, <1>4 DEF Fate, Client

\* Requests are of the right type.
LEMMA EventTypes ==
  ASSUME EnvironmentTypeOK, ClientsTypeOK
  PROVE  /\ RustHost \in Optional /\ NodeHost \in Optional
         /\ \A c \in Client, host \in Text :
              Event(host, values[c]) \in [method : {"post"}, host : Text,
                                         state : Optional, summary : Optional,
                                         priority : Optional]
<1>1. \A c \in Client : Setting(c, "host") \in Optional
  BY DEF Setting, OrEnv, EnvironmentTypeOK, ClientsTypeOK, ValueFlag
<1>2. RustHost \in Optional /\ NodeHost \in Optional
  BY <1>1, HostTypes DEF RustHost, NodeHost, Optional, Text, Client
<1>3. ASSUME NEW c \in Client, NEW host \in Text
      PROVE  Event(host, values[c]) \in [method : {"post"}, host : Text,
                                         state : Optional, summary : Optional,
                                         priority : Optional]
  BY DEF Event, ClientsTypeOK, ValueFlag
<1> QED
  BY <1>2, <1>3

\* The clients' variables keep their types.
LEMMA ClientTypeStep ==
  ASSUME ClientsIInv, [StartupNext]_startupVars
  PROVE  ClientsTypeOK'
<1> DEFINE Request == {NoRequest, Dismissal} \cup
                      [method : {"post"}, host : Text, state : Optional,
                       summary : Optional, priority : Optional]
<1>1. UNCHANGED <<argv, entry>> /\ EnvironmentTypeOK /\ ClientsTypeOK
  BY EntryStays, ClientActs DEF ClientsIInv
<1>2. Len(argv) \in Nat /\ "rust" \in Client /\ "node" \in Client
  BY <1>1 DEF ClientsTypeOK, Client
<1>3. /\ RustHost # None => Event(RustHost, values["rust"]) \in Request
      /\ NodeHost # None => Event(NodeHost, values["node"]) \in Request
      /\ Dismissal \in Request
  BY <1>1, <1>2, EventTypes DEF Optional
<1> HIDE DEF Request
<1>4. /\ argv \in Seq(Argument)
      /\ pc \in [Client -> {"off", "load", "parse", "resolve", "send", "exited"}]
      /\ at \in 1 .. Len(argv) + 1
      /\ values \in [Client -> [ValueFlag -> Optional]]
      /\ dismissing \in [Client -> BOOLEAN]
      /\ request \in [Client -> Request]
      /\ executed \in [Client -> BOOLEAN]
      /\ code \in [Client -> {None, 0, 1, 2}]
  BY <1>1 DEF ClientsTypeOK, Request
<1>5. /\ pc' \in [Client -> {"off", "load", "parse", "resolve", "send", "exited"}]
      /\ at' \in 1 .. Len(argv) + 1
      /\ values' \in [Client -> [ValueFlag -> Optional]]
      /\ dismissing' \in [Client -> BOOLEAN]
      /\ request' \in [Client -> Request]
      /\ executed' \in [Client -> BOOLEAN]
      /\ code' \in [Client -> {None, 0, 1, 2}]
  <2>1. CASE UNCHANGED clientVars
    BY <1>4, <2>1 DEF clientVars
  <2>2. CASE RustParse
    <3> DEFINE given == [f \in ValueFlag |->
                           LET found == {i \in 1 .. Len(argv) : argv[i].flag = f}
                           IN  IF found = {} THEN None ELSE TextAt(Min(found))]
    <3>1. ASSUME NEW f \in ValueFlag
          PROVE  given[f] \in Optional
      <4> DEFINE found == {i \in 1 .. Len(argv) : argv[i].flag = f}
      <4>1. CASE found = {}
        BY <4>1 DEF Optional
      <4>2. CASE found # {}
        <5>1. found \in SUBSET Nat
          BY <1>2
        <5>2. Min(found) \in found
          <6> HIDE DEF found
          <6> QED
            BY <4>2, <5>1, LeastIsMin
        <5>3. PICK i \in 1 .. Len(argv) : i = Min(found)
          BY <5>2
        <5> QED
          BY <1>1, <4>2, <5>3, TextTypes
      <4> QED
        BY <4>1, <4>2
    <3>2. given \in [ValueFlag -> Optional]
      BY <3>1
    <3>3. /\ UNCHANGED <<at, request, executed>>
          /\ UNCHANGED values \/ values' = [values EXCEPT !["rust"] = given]
          /\ \/ UNCHANGED dismissing
             \/ dismissing' = [dismissing EXCEPT !["rust"] =
                                 \E i \in 1 .. Len(argv) : argv[i].flag = "dismiss"]
      BY <2>2 DEF RustParse
    <3>4. /\ \/ pc' = [pc EXCEPT !["rust"] = "exited"]
             \/ pc' = [pc EXCEPT !["rust"] = "resolve"]
          /\ \/ UNCHANGED code
             \/ code' = [code EXCEPT !["rust"] = 0]
             \/ code' = [code EXCEPT !["rust"] = 2]
      BY <2>2 DEF RustParse, Exit
    <3> HIDE DEF given
    <3>5. values' \in [Client -> [ValueFlag -> Optional]]
      BY <1>4, <3>2, <3>3
    <3>6. dismissing' \in [Client -> BOOLEAN]
      BY <1>4, <3>3
    <3>7. /\ pc' \in [Client -> {"off", "load", "parse", "resolve", "send", "exited"}]
          /\ code' \in [Client -> {None, 0, 1, 2}]
      BY <1>4, <3>4
    <3> QED
      BY <1>4, <3>3, <3>5, <3>6, <3>7
  <2>3. CASE RustResolve
    <3>1. /\ UNCHANGED <<at, values, dismissing, executed>>
          /\ \/ pc' = [pc EXCEPT !["rust"] = "exited"]
             \/ pc' = [pc EXCEPT !["rust"] = "send"]
          /\ UNCHANGED code \/ code' = [code EXCEPT !["rust"] = 1]
          /\ \/ UNCHANGED request
             \/ request' = [request EXCEPT !["rust"] = Dismissal]
             \/ /\ RustHost # None
                /\ request' = [request EXCEPT !["rust"] = Event(RustHost, values["rust"])]
      BY <2>3 DEF RustResolve, Ask, Exit
    <3>2. request' \in [Client -> Request]
      BY <1>3, <1>4, <3>1
    <3> QED
      BY <1>4, <3>1, <3>2
  <2>4. CASE NodeFlag
    <3>1. /\ at \in 1 .. Len(argv) /\ argv[at].flag \in ValueFlag
          /\ TakesNext(at) => at < Len(argv)
      BY <1>4, <2>4 DEF NodeFlag, Scanning, TakesNext, TextAt
    <3>2. TextAt(at) \in Optional
      BY <1>1, <3>1, TextTypes
    <3> QED
      BY <1>2, <1>4, <2>4, <3>1, <3>2 DEF NodeFlag
  <2>5. CASE NodeDismiss
    BY <1>2, <1>4, <2>5 DEF NodeDismiss, Scanning
  <2>6. CASE NodeEntry \/ NodeHelp \/ NodeUsageError \/ NodeCheck
    BY <1>2, <1>4, <2>6 DEF NodeEntry, NodeHelp, NodeUsageError, NodeCheck, Exit
  <2>7. CASE NodeResolve
    BY <1>2, <1>3, <1>4, <2>7 DEF NodeResolve, Ask, Exit
  <2>8. CASE \E c \in Client : Answered(c) \/ Unanswered(c)
    <3>1. PICK c \in Client : Answered(c) \/ Unanswered(c)
      BY <2>8
    <3>2. /\ UNCHANGED <<at, values, dismissing, request>>
          /\ pc' = [pc EXCEPT ![c] = "exited"]
          /\ \/ code' = [code EXCEPT ![c] = 0]
             \/ code' = [code EXCEPT ![c] = 1]
          /\ \/ UNCHANGED executed
             \/ executed' = [executed EXCEPT ![c] = Accepted(c)]
             \/ executed' = [executed EXCEPT ![c] = Reachable(c) /\ Accepted(c)]
      BY <3>1 DEF Answered, Unanswered, Exit
    <3>3. Reachable(c) \in BOOLEAN /\ Accepted(c) \in BOOLEAN
      BY DEF Reachable, Accepted
    <3>4. executed' \in [Client -> BOOLEAN]
      BY <1>4, <3>2, <3>3
    <3>5. /\ pc' \in [Client -> {"off", "load", "parse", "resolve", "send", "exited"}]
          /\ code' \in [Client -> {None, 0, 1, 2}]
      BY <1>4, <3>2
    <3> QED
      BY <1>4, <3>2, <3>4, <3>5
  <2> QED
    BY <2>1, <2>2, <2>3, <2>4, <2>5, <2>6, <2>7, <2>8
       DEF StartupNext, ClientsNext, startupVars
<1> QED
  BY <1>1, <1>5 DEF ClientsTypeOK, Request

\* ClientsIInv holds throughout.
LEMMA ClientsHold == StartupSpec => []ClientsIInv
<1>1. ClientsIInv /\ [StartupNext]_startupVars => ClientsIInv'
  BY EnvironmentStays, ClientTypeStep, NodeScanStep, RustStep, NodeStep, FateStep
     DEF ClientsIInv, ClientsInv
<1> QED
  BY <1>1, ClientsInit, PTL DEF StartupSpec

---------------------------------------------------------------------------
(***************************************************************************)
(* Theorems                                                                *)
(***************************************************************************)

\* Startup's variables have their types, for every command line and file.
THEOREM StartupTypes == StartupSpec => []TypeOK
<1>1. SettingsIInv /\ ClientsIInv => TypeOK
  BY DEF SettingsIInv, ClientsIInv, TypeOK
<1> QED
  BY <1>1, SettingsHold, ClientsHold, PTL

(***************************************************************************)
(* No program infers a blank host name, whatever the places hold: what     *)
(* local_hostname and the TypeScript search return is never blank.         *)
(***************************************************************************)
THEOREM NoBlankInferred == StartupSpec => []BlankHostWasGiven
<1>1. SettingsIInv /\ ClientsIInv => BlankHostWasGiven
  BY BlankHosts
<1> QED
  BY <1>1, SettingsHold, ClientsHold, PTL

(***************************************************************************)
(* The two clients never send different requests, for command lines of any *)
(* length and any number of places for a host name.                        *)
(***************************************************************************)
THEOREM ClientsAgree == StartupSpec => []SameRequest
<1>1. ClientsIInv => SameRequest
  BY AskTheSame
<1> QED
  BY <1>1, ClientsHold, PTL

(***************************************************************************)
(* The TypeScript client can stand in for the Rust client where it runs at *)
(* all, which it does not if it is started through a link: it asks for all *)
(* that the Rust client got done, but for command lines with a bare "--"   *)
(* and for values that begin with two dashes.                              *)
(***************************************************************************)
THEOREM NodeStandsIn == StartupSpec => []NodeKeepsUp
<1>1. ClientsIInv => NodeKeepsUp
  BY NeverGivesUp
<1> QED
  BY <1>1, ClientsHold, PTL

(***************************************************************************)
(* A hook that sees exit code 0 has been obeyed, or asked for help, or     *)
(* started the TypeScript client through a link: then nothing was sent.    *)
(***************************************************************************)
THEOREM ExitCodes == StartupSpec => []ZeroMeansDone
<1>1. ClientsIInv => ZeroMeansDone
  BY DEF ClientsIInv, ClientsInv, Fate, FateOf, ZeroMeansDone
<1> QED
  BY <1>1, ClientsHold, PTL

=============================================================================
