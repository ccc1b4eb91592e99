--------------------------- MODULE MCMacroCommand ---------------------------
(***************************************************************************)
(* Texts that meet every case of MacroCommand under the code's own limits. *)
(***************************************************************************)
EXTENDS MacroCommand

Repeat(ch, n) == [i \in 1 .. n |-> ch]

MCTexts ==
  { Letters(20),                                        \* too long for any token
    Repeat("quote", 20),                                \* twice as long escaped
    Repeat("quote", 5) \o Letters(6),                   \* as host, and the next
    Repeat("quote", 4) \o Letters(8),                   \* as agent: 9 quotes
    Letters(2) \o <<"slash">>,                          \* no last piece
    <<"letter", "backslash", "space", "wide", "quote">> \* a piece to trim
  }

=============================================================================
