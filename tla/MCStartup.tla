----------------------------- MODULE MCStartup -----------------------------
(***************************************************************************)
(* Small instances of Startup.  A text is named for the layer or the place *)
(* it is in, or for what it is valid as.                                   *)
(***************************************************************************)
EXTENDS Startup

MCWord == {"default", "unknown", "env", "file", "other", "flag",
           "variable", "hostfile", "command1", "command2",
           "url", "secret", "done", "7", "--dashed"}

\* Everything that the places for a host name may hold, one of them a
\* variable, one a file, and two of them commands.
Machines ==
  LET name == <<"variable", "hostfile", "command1", "command2">>
  IN  {[p \in 1 .. Places |-> IF known[p] = "name" THEN name[p] ELSE known[p]] :
         known \in [1 .. Places -> {None, Space, "name"}]}

Ordinary == [p \in 1 .. Places |-> IF p = 2 THEN "hostfile" ELSE None]

---------------------------------------------------------------------------

MCFile == [server : {Space, "file"}, token : {Empty, "file"},
           hostname : {None, Space, "file"}, mock_display : {FALSE}]

OtherFile == [server |-> "other", token |-> "other", hostname |-> None,
              mock_display |-> TRUE]

MCEdits == {Absent, Malformed, OtherFile}

\* Every layer blank, set or missing; files broken, missing and shadowed.
MCBridgeLaunches ==
  [env     : [server : {None, Space, "env"}, token : {None, Empty, "env"},
              host : {None, Space, "env"}],
   machine : {Ordinary, [Ordinary EXCEPT ![1] = Space]},
   files   : {[p \in Paths |-> CASE p = 0 -> given [] p = 1 -> first
                                 [] p = 2 -> second] :
                given \in {Absent, OtherFile},
                first \in MCFile \cup {Absent, Malformed},
                second \in {Absent, OtherFile}},
   args    : [config : BOOLEAN, server : {None, Empty, "flag"},
              token : {None, Space, "flag"}, mock_display : {FALSE}]]

---------------------------------------------------------------------------

Flag(flag, text) == [flag |-> flag, text |-> text]

MCArguments ==
  {Flag(flag, None) : flag \in {"state", "summary", "dismiss", "help",
                                "version", "other"}}
    \cup {Flag("state", text) : text \in {"done", "other"}}
    \cup {Flag("host", text) : text \in {"flag", Empty}}
    \cup {Flag("priority", text) : text \in {"7", "other"}}
    \cup {Flag("summary", "--dashed"), Flag("dismiss", "other")}
    \cup {Flag(None, text) : text \in {"done", Space}}
    \cup {Flag("token", "secret"), Flag("server", "url"), Escape}

MCEnv == [server |-> "url", token |-> "secret", host |-> None]

UsualLines == {<<Flag("state", "done")>>, <<Flag("dismiss", None)>>,
               <<Flag("host", "flag"), Flag("state", None), Flag(None, "done")>>}

\* All short command lines, usual ones in every environment, and the start
\* through a link.
MCClientLaunches ==
  [env : {MCEnv}, machine : {Ordinary}, entry : {"script"},
   argv : UNION {[1 .. n -> MCArguments] : n \in 0 .. 3}]
  \cup
  [env : [server : {None, Empty, "url"}, token : {None, "other", "secret"},
          host : {None, Empty, Space, "env"}],
   machine : Machines, entry : {"script"}, argv : UsualLines]
  \cup
  [env : {MCEnv}, machine : {Ordinary}, entry : {"link"},
   argv : UsualLines \cup {<<Flag("other", None)>>, <<Flag("help", None)>>}]

=============================================================================
