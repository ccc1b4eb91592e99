--------------------------- MODULE MCEventServer ---------------------------
(***************************************************************************)
(* Small instances of EventServer.                                         *)
(***************************************************************************)
EXTENDS EventServer, TLC

MCField == {"notify", "website", "job", ""}

\* A trailing underscore is white space that normalize_field removes.
MCRawField == {"notify", "notify_", "website", "job", "_"}

MCNormalizeField == [text \in MCRawField |->
                       CASE text = "notify_" -> "notify"
                         [] text = "_"       -> ""
                         [] OTHER            -> text]

Post(item, run, state, priority, ttl) ==
  [valid |-> TRUE, item |-> item, run |-> run, state |-> state,
   priority |-> priority, ttl |-> ttl]

Invalid == [Post("notify", None, "done", None, None) EXCEPT !.valid = FALSE]

\* Three work items, one of them spelt in two ways, ties of priority between
\* items, a run id that two items share, and one that is blank after
\* normalisation and so ties events of different items together as well.
MCInputs == {Post("notify", "_", "done", None, 0),
             Post("notify_", "job", "waiting_input", None, None),
             Post("website", None, "running", 90, 9),
             Post("website", "job", "done", 0, None),
             Post("job", "_", "failed", 90, None),
             Invalid}

Symmetry == Permutations(Requests)

=============================================================================
