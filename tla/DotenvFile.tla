--------------------------- MODULE DotenvFile ---------------------------
(***************************************************************************)
(* .env files: formatDotenv and parseDotenv (dotenv.ts).  A text is a      *)
(* sequence of character classes; a key and the word "export" are single   *)
(* symbols.  A file with one line for each key is written from values that *)
(* grow by one character at a time, and read back after an editor may have *)
(* changed its line ends and added comments, blank lines and "export".     *)
(*                                                                         *)
(* Bound: the values have MaxCharacters characters between them.           *)
(***************************************************************************)
EXTENDS Integers, Sequences
LOCAL INSTANCE SequencesExt
LOCAL INSTANCE FiniteSetsExt

CONSTANT MaxCharacters

FileKeys == <<"KEY_A", "KEY_B">>
\* "n", "r" and "t" mean something after a backslash; of these a value holds only "n".
Characters == {"x", "n", " ", "#", "single", "double", "backslash", "newline", "return", "tab"}
Blank == {" ", "newline", "return", "tab"}
Edits == {"none", "crlf", "export", "comments"}

VARIABLES fileValues, edit
dotenvVars == <<fileValues, edit>>

------------------------------------------------------------------------------
(* Writing *)

ReplaceAllOf(s, c, by) == FlattenSeq([i \in DOMAIN s |-> IF s[i] = c THEN by ELSE <<s[i]>>])

EscapeBackslash(s) == ReplaceAllOf(s, "backslash", <<"backslash", "backslash">>)
EscapeRest(s) ==
    ReplaceAllOf(ReplaceAllOf(ReplaceAllOf(ReplaceAllOf(s, "double", <<"backslash", "double">>),
        "newline", <<"backslash", "n">>), "return", <<"backslash", "r">>),
        "tab", <<"backslash", "t">>)

\* Fault: backslashes are escaped after the other characters.
BackslashLast(s) == EscapeBackslash(EscapeRest(s))

Escaped(s) == EscapeRest(EscapeBackslash(s))

Has(s, cs) == \E i \in DOMAIN s : s[i] \in cs

FormatValue(v) ==
    IF ~Has(v, Characters \ {"x", "n"}) THEN v
    ELSE IF ~Has(v, {"single", "newline", "return"}) THEN <<"single">> \o v \o <<"single">>
    ELSE <<"double">> \o Escaped(v) \o <<"double">>

LineEnd == IF edit = "crlf" THEN <<"return", "newline">> ELSE <<"newline">>
FormatLine(k, v) ==
    (IF edit = "export" THEN <<"export", " ">> ELSE <<>>) \o <<k, "=">> \o FormatValue(v) \o LineEnd
Extra == IF edit = "comments" THEN <<" ", "newline", "#", "=", "double", "newline">> ELSE <<>>
FormatDotenv(vs) == FlattenSeq([i \in DOMAIN vs |-> Extra \o FormatLine(FileKeys[i], vs[i])])

------------------------------------------------------------------------------
(* Reading *)

Solid(s) == {i \in DOMAIN s : s[i] \notin Blank}
TrimStart(s) == IF Solid(s) = {} THEN <<>> ELSE SubSeq(s, Min(Solid(s)), Len(s))
TrimEnd(s) == IF Solid(s) = {} THEN <<>> ELSE SubSeq(s, 1, Max(Solid(s)))

\* The first place from which w stands in s, or 0
Find(s, w) ==
    LET at == {i \in 1..(Len(s) - Len(w) + 1) : SubSeq(s, i, i + Len(w) - 1) = w}
    IN IF at = {} THEN 0 ELSE Min(at)
Before(s, i) == SubSeq(s, 1, i - 1)
After(s, i) == SubSeq(s, i + 1, Len(s))

\* The lines of a text; a return before a newline belongs to the line end.
Lines(s) ==
    LET add(ls, c) == IF c = "newline" THEN Append(ls, <<>>)
                      ELSE [ls EXCEPT ![Len(ls)] = Append(@, c)]
        ls == FoldLeft(add, <<<<>>>>, s)
    IN [j \in DOMAIN ls |->
            IF j < Len(ls) /\ ls[j] # <<>> /\ Last(ls[j]) = "return" THEN Front(ls[j]) ELSE ls[j]]

\* Which characters follow a backslash that is not itself escaped
Follows(s) ==
    LET f[i \in 0..Len(s)] == i > 1 /\ s[i - 1] = "backslash" /\ ~f[i - 1] IN f

ClosingQuote(s) ==
    LET at == {i \in DOMAIN s : s[i] = "double" /\ ~Follows(s)[i]}
    IN IF at = {} THEN 0 ELSE Min(at)

Meaning(c) == CASE c = "n" -> <<"newline">> [] c = "r" -> <<"return">> [] c = "t" -> <<"tab">>
                [] c \in {"double", "backslash"} -> <<c>>
                [] OTHER -> <<"backslash", c>>

Unescape(s) ==
    FlattenSeq([i \in DOMAIN s |->
        IF Follows(s)[i] THEN Meaning(s[i])
        ELSE IF s[i] = "backslash" /\ i < Len(s) THEN <<>> ELSE <<s[i]>>])

\* A text goes on over the lines from the i-th up to the one before the j-th.
Joined(text, ls, i, j) ==
    FoldLeft(LAMBDA t, l : t \o <<"newline">> \o l, text, SubSeq(ls, i, j - 1))

\* A value and the line after it; there is none after a value that is not closed.
Unclosed == [value |-> <<>>, next |-> 0]

\* A double-quoted value goes on over lines until its quote is closed.
Quoted(text, ls, i) ==
    LET closed == {j \in i..(Len(ls) + 1) : ClosingQuote(Joined(text, ls, i, j)) > 0}
        raw == Joined(text, ls, i, Min(closed))
    IN IF closed = {} THEN Unclosed
       ELSE [value |-> Unescape(Before(raw, ClosingQuote(raw))), next |-> Min(closed)]

ReadValue(rest, ls, i) ==
    IF rest # <<>> /\ rest[1] = "single"
    THEN LET end == Find(Tail(rest), <<"single">>)
         IN IF end = 0 THEN Unclosed ELSE [value |-> Before(Tail(rest), end), next |-> i]
    ELSE IF rest # <<>> /\ rest[1] = "double" THEN Quoted(Tail(rest), ls, i)
    ELSE LET hash == Find(rest, <<" ", "#">>)
         IN [value |-> TrimEnd(IF hash > 0 THEN Before(rest, hash) ELSE rest), next |-> i]

\* Later lines override earlier ones.
SetPair(pairs, k, v) ==
    IF \E j \in DOMAIN pairs : pairs[j][1] = k
    THEN [j \in DOMAIN pairs |-> IF pairs[j][1] = k THEN <<k, v>> ELSE pairs[j]]
    ELSE Append(pairs, <<k, v>>)

\* The pairs read before the i-th line and that line: it is passed over when a quoted value took
\* it or a line before it was wrong, and when it is blank or a comment.
ParseLine(ls, read, i) ==
    LET trimmed == TrimEnd(TrimStart(ls[i]))
        line == IF Find(trimmed, <<"export", " ">>) = 1
                THEN TrimStart(After(trimmed, 2)) ELSE trimmed
        eq == Find(line, <<"=">>)
        found == ReadValue(TrimStart(After(line, eq)), ls, i + 1)
    IN IF i < read.next \/ trimmed = <<>> \/ trimmed[1] = "#" THEN read
       ELSE IF eq # 2 \/ line[1] \notin Range(FileKeys) \/ found.next = 0
            THEN [pairs |-> <<"error">>, next |-> Len(ls) + 1]
       ELSE [pairs |-> SetPair(read.pairs, line[1], found.value), next |-> found.next]

ParseLines(ls) ==
    FoldLeftDomain(LAMBDA read, i : ParseLine(ls, read, i), [pairs |-> <<>>, next |-> 1], ls)

ParseDotenv(s) == ParseLines(Lines(s)).pairs

------------------------------------------------------------------------------
DotenvInit == fileValues = <<<<>>, <<>>>> /\ edit = "none"

\* The file to write has one more character.
AddCharacter ==
    /\ Len(fileValues[1]) + Len(fileValues[2]) < MaxCharacters
    /\ \E i \in 1..2, c \in Characters : fileValues' = [fileValues EXCEPT ![i] = Append(@, c)]
    /\ UNCHANGED edit

\* An editor saves the file.
EditFile == \E e \in Edits \ {edit} : edit' = e /\ UNCHANGED fileValues

DotenvNext == AddCharacter \/ EditFile

DotenvTypeOK == fileValues \in [1..2 -> Seq(Characters)] /\ edit \in Edits

\* A written file read back gives the same keys and values, whatever quotes, backslashes,
\* blanks, comment signs and line ends the values hold, also after an editor changed the line
\* ends or added comments and "export".
RoundTrip ==
    ParseDotenv(FormatDotenv(fileValues)) = [i \in 1..2 |-> <<FileKeys[i], fileValues[i]>>]
=============================================================================
