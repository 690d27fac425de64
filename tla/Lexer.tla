---- MODULE Lexer ----
(***************************************************************************)
(* The one tokeniser, and the quoting that is its inverse                  *)
(* (nightshade-schema lex.rs).  A character is a name: LF, CR and TAB are  *)
(* white space, BELL any other unprintable one, HEX what stands for it     *)
(* after `\x`, and the rest themselves.                                    *)
(*                                                                         *)
(* The source is read a character at a time, by what its token is so far.  *)
(***************************************************************************)
EXTENDS Naturals, Sequences, SequencesExt, FiniteSets, TLC

CONSTANTS
    Bare,        \* characters a value is written with as they are
    Sources      \* the texts somebody may type

White == {"SP", "LF", "CR", "TAB"}

VARIABLES
    want,     \* the tokens the text was written for, <<>> when it was typed by hand
    src,      \* characters still to be read
    mode,     \* "between", "word", "string", "escape", "hex", "line", "block" or "stopped"
    held,     \* the characters of the token so far
    line,     \* the line of the next character
    start,    \* the line the token starts on
    tokens    \* what has been found
vars == <<want, src, mode, held, line, start, tokens>>

(***************************************************************************)
(* Writing                                                                 *)
(***************************************************************************)

IsBare(s) == s # <<>> /\ \A i \in DOMAIN s : s[i] \in Bare

\* A character between quotes.
Escaped(c) ==
    CASE c = "\\" -> <<"\\", "\\">>
      [] c = "\"" -> <<"\\", "\"">>
      [] c = "LF" -> <<"\\", "n">>
      [] c = "TAB" -> <<"\\", "t">>
      [] c = "CR" -> <<"\\", "r">>
      [] c = "BELL" -> <<"\\", "x", "HEX">>
      [] OTHER -> <<c>>

Quote(s) ==
    IF IsBare(s) THEN s
    ELSE <<"\"">> \o FoldLeft(LAMBDA out, c : out \o Escaped(c), <<>>, s) \o <<"\"">>

(***************************************************************************)
(* Reading                                                                 *)
(***************************************************************************)

Value(s) == [tok |-> "word", text |-> s]
C == src[1]

Init ==
    /\ src \in Sources /\ want = <<>>
    /\ mode = "between" /\ held = <<>> /\ line = 1 /\ start = 1 /\ tokens = <<>>

\* n characters are taken, the lines they end counted.
Take(n) ==
    /\ src' = SubSeq(src, n + 1, Len(src))
    /\ line' = line + Cardinality({i \in 1..n : src[i] = "LF"})
    /\ UNCHANGED want

Found(token) == tokens' = Append(tokens, token @@ [line |-> start])
Stop == mode' = "stopped" /\ UNCHANGED <<want, src, held, line, start, tokens>>

\* Before the first character of a token, `/*` ahead of words.
StartsBlock == Len(src) > 1 /\ C = "/" /\ src[2] = "*"
Between ==
    /\ mode = "between" /\ src # <<>>
    /\ IF C \in White THEN Take(1) /\ UNCHANGED <<mode, held, start, tokens>>
       ELSE IF StartsBlock
       THEN Take(2) /\ mode' = "block" /\ held' = <<>> /\ start' = line /\ UNCHANGED tokens
       ELSE IF C \in {"{", "}"}
       THEN /\ Take(1) /\ UNCHANGED <<mode, held, start>>
            /\ tokens' = Append(tokens, [tok |-> IF C = "{" THEN "open" ELSE "close", text |-> <<>>, line |-> line])
       ELSE IF C \in {"#", "\""}
       THEN Take(1) /\ mode' = (IF C = "#" THEN "line" ELSE "string") /\ held' = <<>> /\ start' = line /\ UNCHANGED tokens
       ELSE IF C \in Bare
       THEN Take(1) /\ mode' = "word" /\ held' = <<C>> /\ start' = line /\ UNCHANGED tokens
       ELSE Stop

Word ==
    /\ mode = "word"
    /\ IF src # <<>> /\ C \in Bare
       THEN Take(1) /\ held' = Append(held, C) /\ UNCHANGED <<mode, start, tokens>>
       ELSE Found(Value(held)) /\ mode' = "between" /\ UNCHANGED <<want, src, held, line, start>>

\* An unclosed string is refused.
String ==
    /\ mode = "string"
    /\ IF src = <<>> THEN Stop
       ELSE /\ Take(1) /\ UNCHANGED start
            /\ CASE C = "\"" -> Found(Value(held)) /\ mode' = "between" /\ UNCHANGED held
                 [] C = "\\" -> mode' = "escape" /\ UNCHANGED <<held, tokens>>
                 [] OTHER -> held' = Append(held, C) /\ UNCHANGED <<mode, tokens>>

Meaning(c) == CASE c = "n" -> "LF" [] c = "t" -> "TAB" [] c = "r" -> "CR" [] OTHER -> c
Escape ==
    /\ mode = "escape"
    /\ IF src = <<>> \/ C \notin {"\\", "\"", "n", "t", "r", "x"} THEN Stop
       ELSE /\ Take(1) /\ UNCHANGED <<start, tokens>>
            /\ IF C = "x" THEN mode' = "hex" /\ UNCHANGED held
               ELSE mode' = "string" /\ held' = Append(held, Meaning(C))

\* Two hex digits in the range 00-7f, which stand for BELL.
Hex ==
    /\ mode = "hex"
    /\ IF src = <<>> \/ C # "HEX" THEN Stop
       ELSE Take(1) /\ mode' = "string" /\ held' = Append(held, "BELL") /\ UNCHANGED <<start, tokens>>

\* One leading space is the renderer's.
Unprefixed(s) == IF s # <<>> /\ s[1] = "SP" THEN Tail(s) ELSE s
LineComment ==
    /\ mode = "line"
    /\ IF src # <<>> /\ C # "LF" THEN Take(1) /\ held' = Append(held, C) /\ UNCHANGED <<mode, start, tokens>>
       ELSE /\ Found([tok |-> "comment", text |-> Unprefixed(held)])
            /\ mode' = "between" /\ UNCHANGED <<want, src, held, line, start>>

\* s without the characters of cut at either end.
Trim(s, cut) ==
    LET kept == {i \in DOMAIN s : s[i] \notin cut}
    IN IF kept = {} THEN <<>>
       ELSE SubSeq(s, CHOOSE i \in kept : \A j \in kept : i <= j, CHOOSE i \in kept : \A j \in kept : j <= i)
TrimStart(s, cut) ==
    LET kept == {i \in DOMAIN s : s[i] \notin cut}
    IN IF kept = {} THEN <<>> ELSE SubSeq(s, CHOOSE i \in kept : \A j \in kept : i <= j, Len(s))

\* The lines of a text.
CutLines(s) ==
    FoldLeft(LAMBDA done, c : IF c = "LF" THEN Append(done, <<>>) ELSE Append(Front(done), Append(Last(done), c)),
             << <<>> >>, s)

\* Every line without white space around it and stars before it.
BlockBody(raw) ==
    LET lines == CutLines(raw)
        bare == [i \in DOMAIN lines |-> TrimStart(TrimStart(Trim(lines[i], White), {"*"}), White)]
    IN Trim(FoldLeft(LAMBDA done, l : done \o <<"LF">> \o l, <<>>, bare), {"LF"})
BlockComment ==
    /\ mode = "block"
    /\ IF src = <<>> THEN Stop
       ELSE IF Len(src) > 1 /\ C = "*" /\ src[2] = "/"
       THEN Take(2) /\ Found([tok |-> "comment", text |-> BlockBody(held)]) /\ mode' = "between" /\ UNCHANGED <<held, start>>
       ELSE Take(1) /\ held' = Append(held, C) /\ UNCHANGED <<mode, start, tokens>>

(***************************************************************************)
(* Writing what was read                                                   *)
(***************************************************************************)

\* A comment is written a line at a time.
Pieces(token) ==
    IF token.tok # "comment" THEN << [tok |-> token.tok, text |-> token.text] >>
    ELSE LET lines == CutLines(token.text) IN [i \in DOMAIN lines |-> [tok |-> "comment", text |-> lines[i]]]

Written(piece) ==
    CASE piece.tok = "word" -> Quote(piece.text)
      [] piece.tok = "open" -> <<"{">>
      [] piece.tok = "close" -> <<"}">>
      [] piece.tok = "comment" -> IF piece.text = <<>> THEN <<"#">> ELSE <<"#", "SP">> \o piece.text

Finished == mode = "between" /\ src = <<>>

\* Each piece on a line of its own.
Save ==
    /\ Finished /\ want = <<>> /\ tokens # <<>>
    /\ LET pieces == FoldLeft(LAMBDA done, t : done \o Pieces(t), <<>>, tokens)
       IN /\ want' = [i \in DOMAIN pieces |-> pieces[i] @@ [line |-> i]]
          /\ src' = FoldLeft(LAMBDA out, piece : out \o Written(piece) \o <<"LF">>, <<>>, pieces)
    /\ mode' = "between" /\ held' = <<>> /\ line' = 1 /\ start' = 1 /\ tokens' = <<>>

Next == Between \/ Word \/ String \/ Escape \/ Hex \/ LineComment \/ BlockComment \/ Save
Spec == Init /\ [][Next]_vars

\* Whatever was read, a word of any characters or a comment in either syntax, reads back
\* as itself and on its own line once written (quote_into, is_bare, strip_prefix, escape).
ReadsBack == want # <<>> => /\ mode # "stopped"
                            /\ Finished => tokens = want

====
