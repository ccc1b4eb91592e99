---------------------------- MODULE MacroCommand ----------------------------
(***************************************************************************)
(* The macro command an event becomes for the keyboard                     *)
(* (agent-notify-core, src/lib.rs): tokens are cut from the event's texts, *)
(* joined, made printable, and escaped up to the bytes the USB payload has *)
(* left.  A character is one of the classes the code distinguishes.        *)
(***************************************************************************)
EXTENDS Integers, Sequences, FiniteSets

CONSTANTS
  Texts,         (* normalised texts that are not blank                    *)
  None,          (* no repo, no summary                                    *)
  MaxPayload,    (* UHK_MAX_USB_PAYLOAD_SIZE                               *)
  HostChars,     (* the limits of the tokens: 10,                          *)
  AgentChars,    (* 8                                                      *)
  DetailChars    (* and 18                                                 *)

Char == {"letter", "space", "quote", "backslash", "slash", "wide", "question", "tilde"}

ASSUME MacroAssumption ==
  /\ None \notin Texts /\ Texts \subseteq Seq(Char)
  /\ MaxPayload \in Nat /\ MaxPayload >= 29
  /\ {HostChars, AgentChars, DetailChars} \subseteq Nat \ {0}

VARIABLES
  event,     (* what macro_command_for_event was given                     *)
  value,     (* its display text                                           *)
  taken,     (* how many characters of it have been escaped                *)
  escaped,   (* escaped_value                                              *)
  result     (* none, or how quoted_macro_command ended                    *)

vars == <<event, value, taken, escaped, result>>

---------------------------------------------------------------------------

AgentState == {"running", "waiting_input", "done", "failed"}

\* A host and an agent are not blank; a repo and a summary may be.
AgentEvent == [host : Texts, agent : Texts, state : AgentState,
               repo : Texts \cup {<<>>, None}, summary : Texts \cup {<<>>, None}]

Letters(n) == [i \in 1 .. n |-> "letter"]

\* RUN, INPUT, DONE, FAIL
Label(state) ==
  Letters(CASE state = "running" -> 3
            [] state = "waiting_input" -> 5
            [] OTHER -> 4)

\* The bytes of the quoted string's surroundings: prefix, space, two quotes.
Overhead(state) == (IF state = "waiting_input" THEN 24 ELSE 6) + 3

MaxCommand == MaxPayload - 2

\* saturating_sub
Budget(state) == IF MaxCommand > Overhead(state) THEN MaxCommand - Overhead(state) ELSE 0

\* The limits leave room for two tokens, each with its space, and the label:
\* for tokens that are escaped throughout, and behind the prefix of
\* waiting_input for 9 characters that are.
ASSUME RoomAssumption ==
  /\ 2 * (HostChars + AgentChars) + 6 <= Budget("running")
  /\ HostChars + AgentChars + 7 + 9 <= Budget("waiting_input")

---------------------------------------------------------------------------

Separator == {"slash", "backslash"}

\* Where the last piece of a path begins.
LastPiece(text) ==
  LET cuts == {0} \cup {i \in DOMAIN text : text[i] \in Separator}
      last == CHOOSE i \in cuts : \A j \in cuts : j <= i
  IN  SubSeq(text, last + 1, Len(text))

Trim(text) ==
  LET inked == {i \in DOMAIN text : text[i] # "space"}
  IN  IF inked = {} THEN <<>>
      ELSE SubSeq(text, CHOOSE i \in inked : \A j \in inked : i <= j,
                        CHOOSE i \in inked : \A j \in inked : j <= i)

\* A mutated form of TruncateChars: the mark is added to a full token.
TruncateCharsLate(text, max) ==
  IF Len(text) <= max THEN text ELSE Append(SubSeq(text, 1, max), "tilde")

TruncateChars(text, max) ==
  IF Len(text) <= max THEN text
  ELSE Append(SubSeq(text, 1, IF max > 0 THEN max - 1 ELSE 0), "tilde")

ShortToken(text, max) == TruncateChars(Trim(LastPiece(text)), max)

Detail(e) ==
  IF e.repo # None THEN <<"space">> \o ShortToken(e.repo, DetailChars)
  ELSE IF e.summary # None THEN <<"space">> \o ShortToken(e.summary, DetailChars)
  ELSE <<>>

\* The display text up to the label of the event's state.
Heading(e) ==
  ShortToken(e.host, HostChars) \o <<"space">> \o ShortToken(e.agent, AgentChars)
    \o <<"space">> \o Label(e.state)

Sanitize(text) == [i \in DOMAIN text |-> IF text[i] = "wide" THEN "question" ELSE text[i]]

ConciseDisplayText(e) == Sanitize(Heading(e) \o Detail(e))

---------------------------------------------------------------------------

\* The bytes a character becomes between the quotes.
Escape(ch) ==
  IF ch \in {"quote", "backslash"} THEN <<"backslash", ch>>
  ELSE IF ch = "wide" THEN <<ch, ch>>
  ELSE <<ch>>

Init ==
  /\ event \in AgentEvent
  /\ value = ConciseDisplayText(event)
  /\ taken = 0 /\ escaped = <<>> /\ result = "none"

\* Mutated forms of Fits: a character counts as one byte however it is
\* escaped; the limit itself is not used.
FitsUnescaped(ch) == Len(escaped) + 1 <= Budget(event.state)
FitsBelow(ch)     == Len(escaped) + Len(Escape(ch)) < Budget(event.state)

Fits(ch) == Len(escaped) + Len(Escape(ch)) <= Budget(event.state)

\* A mutated form of Push: the room left is looked at before escaping.
PushByte ==
  /\ result = "none" /\ taken < Len(value)
  /\ Len(escaped) < Budget(event.state)
  /\ taken' = taken + 1
  /\ escaped' = IF Fits(value[taken + 1]) THEN escaped \o Escape(value[taken + 1])
                ELSE Append(escaped, "backslash")
  /\ UNCHANGED <<event, value, result>>

\* One turn of the loop.
Push ==
  /\ result = "none" /\ taken < Len(value)
  /\ Fits(value[taken + 1])
  /\ taken' = taken + 1
  /\ escaped' = escaped \o Escape(value[taken + 1])
  /\ UNCHANGED <<event, value, result>>

\* The loop is left, by break or at the end of the text, and the command built.
Finish ==
  /\ result = "none"
  /\ taken < Len(value) => ~ Fits(value[taken + 1])
  /\ result' = IF Overhead(event.state) + Len(escaped) <= MaxCommand
               THEN "command" ELSE "too_long"
  /\ UNCHANGED <<event, value, taken, escaped>>

Next == Push \/ Finish

Spec == Init /\ [][Next]_vars

---------------------------------------------------------------------------
(***************************************************************************)
(* Properties                                                              *)
(***************************************************************************)

\* Every variable holds a value of its type: a display text has no more
\* characters than its tokens, spaces and label allow, and all of them are of
\* one byte and no path separators.
TypeOK ==
  /\ event \in AgentEvent
  /\ value \in Seq(Char \ (Separator \cup {"wide"}))
  /\ Len(value) <= HostChars + AgentChars + DetailChars + 8
  /\ taken \in 0 .. Len(value)
  /\ escaped \in Seq(Char)
  /\ result \in {"none", "command", "too_long"}

(***************************************************************************)
(* Every accepted event has a command, and one that fits the payload,      *)
(* however much of it has to be escaped: quoted_macro_command, and after   *)
(* it uhk_exec_macro_report, never return TooLong.                         *)
(***************************************************************************)
CommandFits == /\ result # "too_long"
               /\ Overhead(event.state) + Len(escaped) <= MaxCommand

(***************************************************************************)
(* What the keyboard makes of a string between quotes, character by        *)
(* character: a backslash takes the next one literally, a quote ends it.   *)
(***************************************************************************)
ReadChar(reader, ch) ==
  IF ~ reader.open          THEN reader
  ELSE IF reader.literal    THEN [reader EXCEPT !.literal = FALSE, !.text = Append(@, ch)]
  ELSE IF ch = "backslash"  THEN [reader EXCEPT !.literal = TRUE]
  ELSE IF ch = "quote"      THEN [reader EXCEPT !.open = FALSE]
  ELSE                           [reader EXCEPT !.text = Append(@, ch)]

\* The reader after each number of characters; a function, so that what it
\* computes can be proved.
Reading(text) ==
  LET read[n \in 0 .. Len(text)] ==
        IF n = 0 THEN [open |-> TRUE, literal |-> FALSE, text |-> <<>>]
        ELSE ReadChar(read[n - 1], text[n])
  IN  read

ReadString(text) == Reading(text)[Len(text)]

(***************************************************************************)
(* Escaping and cutting off do not get in each other's way: the closing    *)
(* quote of the command is the one that ends its string, and the string is *)
(* the beginning of the display text.                                      *)
(***************************************************************************)
ReadsBack ==
  result # "none" =>
    ReadString(escaped) = [open |-> TRUE, literal |-> FALSE,
                           text |-> SubSeq(value, 1, taken)]

Quotes(text) == Cardinality({i \in DOMAIN text : text[i] = "quote"})

(***************************************************************************)
(* The user sees what state the agent is in: the label survives the cut,   *)
(* for each state but waiting_input whatever the texts are, and for        *)
(* waiting_input as long as the tokens before it hold at most 9 quotes:    *)
(* its prefix leaves 34 bytes, for up to 10 + 1 + 8 + 1 + 5 characters.    *)
(***************************************************************************)
StateIsShown ==
  /\ result # "none"
  /\ event.state = "waiting_input" => Quotes(Heading(event)) <= 9
  => taken >= Len(Heading(event))

=============================================================================
