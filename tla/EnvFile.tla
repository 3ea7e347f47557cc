------------------------------ MODULE EnvFile ------------------------------
(***************************************************************************)
(* Env files (crates/envault-service/src/portability.rs): what             *)
(* export_plaintext_env writes and what plan_env_import reads of a file.   *)
(*                                                                         *)
(* Text is a sequence of tokens, one for each byte: the double and single  *)
(* quote "dq" and "sq", the backslash "bs", "#", "=", the blank " ", "tab", *)
(* "nl" and "cr", the letters "n", "r" and "t", and others; the word       *)
(* "export" and the blank behind it are one token.                         *)
(***************************************************************************)
EXTENDS Naturals, Sequences, SequencesExt

\* Limits of what is imported, in bytes (envault-core).
CONSTANTS
    MaxEnvName,    \* of a name: MAX_NAME_BYTES
    MaxEnvLine,    \* of a line: MAX_ENV_LINE_BYTES
    MaxEnvValue,   \* of a value: MAX_SECRET_VALUE_BYTES
    MaxEnvEntries, \* how many entries: MAX_PORTABILITY_ENTITIES
    MaxEnvFile     \* of a file: MAX_ENV_FILE_BYTES

\* str::len
Bytes(text) == Len(text) + 6 * Cardinality({i \in DOMAIN text : text[i] = "export"})

Blank == {" ", "tab", "nl", "cr"}
Letter == {"n", "r", "t", "x"}
Digit == {"1"}

\* str::trim_start, str::trim_end and str::trim.
TrimStart(s) ==
    LET i == SelectInSeq(s, LAMBDA c : c \notin Blank)
    IN  IF i = 0 THEN <<>> ELSE SubSeq(s, i, Len(s))
TrimEnd(s) == SubSeq(s, 1, SelectLastInSeq(s, LAMBDA c : c \notin Blank))
Trim(s) == TrimEnd(TrimStart(s))

-----------------------------------------------------------------------------
(* Writing.                                                                *)

\* Mutant: a newline is written as it is.
EscapedChar_RawNewline(c) ==
    CASE c = "cr" -> <<"bs", "r">>
      [] c = "tab" -> <<"bs", "t">>
      [] c \in {"bs", "dq"} -> <<"bs", c>>
      [] OTHER -> <<c>>

\* append_env_escaped, for one character.
EscapedChar(c) ==
    CASE c = "nl" -> <<"bs", "n">>
      [] c = "cr" -> <<"bs", "r">>
      [] c = "tab" -> <<"bs", "t">>
      [] c \in {"bs", "dq"} -> <<"bs", c>>
      [] OTHER -> <<c>>

ValidEnvName(name) ==
    /\ name # <<>>
    /\ Head(name) \in Letter
    /\ Range(name) \subseteq Letter \cup Digit
    /\ Bytes(name) <= MaxEnvName

\* append_env_escaped
EscapeInto(text, c) == text \o EscapedChar(c)
Escaped(value) == FoldLeft(EscapeInto, <<>>, value)

\* export_plaintext_env of the entries, each a name and a value on a line.
Assignment(e) == e.name \o <<"=", "dq">> \o Append(Escaped(e.value), "dq")
WriteInto(text, e) == text \o Append(Assignment(e), "nl")
Written(entries) == FoldLeft(WriteInto, <<>>, entries)

-----------------------------------------------------------------------------
(* Parsing.  A result is [ok, value]; the value of a failure is empty.      *)

Fails == [ok |-> FALSE, value |-> <<>>]
Yields(v) == [ok |-> TRUE, value |-> v]

\* Only blanks and a comment may follow a closing quote.
Closed(value, trailing) ==
    LET rest == Trim(trailing)
    IN  IF rest = <<>> \/ Head(rest) = "#" THEN Yields(value) ELSE Fails

Unescaped == [n |-> "nl", r |-> "cr", t |-> "tab", bs |-> "bs", dq |-> "dq"]

\* After the opening double quote, character by character.
ReadQuoted(s, c) ==
    CASE s.at = "closed" -> [s EXCEPT !.trailing = Append(@, c)]
      [] s.at = "error" -> s
      [] s.at = "escape" ->
             IF c \in DOMAIN Unescaped
             THEN [s EXCEPT !.at = "text", !.value = Append(@, Unescaped[c])]
             ELSE [s EXCEPT !.at = "error"]
      [] s.at = "text" ->
             IF c = "bs" THEN [s EXCEPT !.at = "escape"]
             ELSE IF c = "dq" THEN [s EXCEPT !.at = "closed"]
             ELSE [s EXCEPT !.value = Append(@, c)]
DoubleQuoted(rest) ==
    LET end == FoldLeft(ReadQuoted, [at |-> "text", value |-> <<>>, trailing |-> <<>>], rest)
    IN  IF end.at = "closed" THEN Closed(end.value, end.trailing) ELSE Fails

\* After the opening single quote: nothing is escaped.
SingleQuoted(rest) ==
    LET i == SelectInSeq(rest, LAMBDA c : c = "sq")
    IN  IF i = 0 THEN Fails ELSE Closed(SubSeq(rest, 1, i - 1), SubSeq(rest, i + 1, Len(rest)))

\* A comment starts at a "#" that follows a blank.
Unquoted(text) ==
    LET cut == {i \in 2 .. Len(text) : text[i] = "#" /\ text[i - 1] \in Blank}
        first == CHOOSE i \in cut : \A j \in cut : i <= j
    IN  TrimEnd(IF cut = {} THEN text ELSE SubSeq(text, 1, first - 1))

\* parse_env_value
ParseEnvValue(raw) ==
    LET trimmed == TrimStart(raw)
    IN  CASE trimmed # <<>> /\ Head(trimmed) = "dq" -> DoubleQuoted(Tail(trimmed))
          [] trimmed # <<>> /\ Head(trimmed) = "sq" -> SingleQuoted(Tail(trimmed))
          [] OTHER -> Yields(Unquoted(TrimEnd(trimmed)))

\* str::lines: a line ends with "nl", and a "cr" before it belongs to its end.
LineInto(lines, c) ==
    IF c = "nl" THEN Append(lines, <<>>) ELSE [lines EXCEPT ![Len(lines)] = Append(@, c)]
Chomp(l) == IF l # <<>> /\ Last(l) = "cr" THEN Front(l) ELSE l
Lines(text) ==
    LET split == FoldLeft(LineInto, << <<>> >>, text)
    IN  [i \in DOMAIN split |-> Chomp(split[i])]

\* One line of parse_env over the entries before it.
ParseLine(acc, raw) ==
    LET line == Trim(raw)
        assignment == IF line # <<>> /\ Head(line) = "export" THEN Tail(line) ELSE line
        i == SelectInSeq(assignment, LAMBDA c : c = "=")
        name == Trim(SubSeq(assignment, 1, i - 1))
        value == ParseEnvValue(SubSeq(assignment, i + 1, Len(assignment)))
    IN  IF ~acc.ok \/ ~ Bytes(raw) <= MaxEnvLine THEN Fails
        ELSE IF line = <<>> \/ Head(line) = "#" THEN acc
        ELSE IF i = 0 \/ ~ValidEnvName(name) \/ (\E e \in Range(acc.value) : e.name = name)
                \/ ~value.ok \/ ~ Bytes(value.value) <= MaxEnvValue THEN Fails
        ELSE Yields(Append(acc.value, [name |-> name, value |-> value.value]))

\* parse_env: a file without an entry is refused, and one with too many.
ParseEnv(text) ==
    LET all == FoldLeft(ParseLine, Yields(<<>>), Lines(text))
    IN  IF all.value = <<>> \/ ~ Len(all.value) <= MaxEnvEntries THEN Fails ELSE all

\* plan_env_import reads no more of a file than its limit.
ReadEnv(text) == IF Bytes(text) <= MaxEnvFile THEN ParseEnv(text) ELSE Fails
=============================================================================
