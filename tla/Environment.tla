---------------------------- MODULE Environment ----------------------------
(***************************************************************************)
(* What agent-notify's programs find where they are started: the           *)
(* AGENT_NOTIFY_ variables, and the places a host name is looked for in    *)
(* (agent-notify-core src/lib.rs, local_hostname, and the TypeScript       *)
(* client's src/hostname.ts).                                              *)
(*                                                                         *)
(* The places are COMPUTERNAME, HOSTNAME, on Linux two files, and then the *)
(* hostname commands; one that does not exist or cannot be read is None.   *)
(***************************************************************************)
EXTENDS Integers, FiniteSetsExt

CONSTANTS
  Word,         (* texts that are not blank                                *)
  Empty,        (* the empty text                                          *)
  Space,        (* a text of white space only                              *)
  None,         (* nothing is set                                          *)
  Places,       (* how many places there are                               *)
  FirstCommand  (* the first of them that is a command                     *)

Blank    == {Empty, Space}
Text     == Word \cup Blank
Optional == Text \cup {None}

ASSUME EnvironmentAssumption ==
  /\ Empty # Space /\ Word \cap Blank = {} /\ None \notin Text
  /\ Places \in Nat /\ FirstCommand \in 1 .. Places

VARIABLES
  env,     (* AGENT_NOTIFY_SERVER, _TOKEN and _HOST                        *)
  machine  (* what each place holds                                        *)

environmentVars == <<env, machine>>

\* What the first of the given places holds that is not to be skipped.
First(places, skipped) ==
  LET found == {p \in places : machine[p] \notin skipped}
  IN  IF found = {} THEN None ELSE machine[Min(found)]

\* normalize_field, and the filter for what is empty after it.
NonBlank(text) == IF text \in Blank THEN None ELSE text

\* Mutated form of LocalHostname: without the filter.
LocalHostnameUnfiltered == First(1 .. Places, {None})

\* The first place that exists decides, even if what it holds is blank.
LocalHostname == NonBlank(First(1 .. Places, {None}))

\* Mutated form of NodeLocalHostname: the commands are tried first.
NodeLocalHostnameSwapped ==
  LET answer == First(FirstCommand .. Places, Blank \cup {None})
  IN  IF answer # None THEN answer
      ELSE NonBlank(First(1 .. FirstCommand - 1, Blank \cup {None}))

\* Blank places are passed over, but for the output of a command that ran.
NodeLocalHostname ==
  LET written == First(1 .. FirstCommand - 1, Blank \cup {None})
  IN  IF written # None THEN written
      ELSE NonBlank(First(FirstCommand .. Places, {None}))

EnvironmentTypeOK ==
  /\ env \in [server : Optional, token : Optional, host : Optional]
  /\ machine \in [1 .. Places -> Optional]

=============================================================================
