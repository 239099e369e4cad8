------------------------------ MODULE CookieText ------------------------------
(***************************************************************************)
(* jquery.cookie.js on text: how a value becomes the text of a cookie and  *)
(* back.                                                                   *)
(* A text is a sequence of characters, one of each kind the plugin tells   *)
(* apart; a percent escape counts as one.  config.raw and config.json are  *)
(* unset, as on every page.                                                *)
(***************************************************************************)
EXTENDS SequencesExt

CONSTANT Undefined   \* no value

Escaped == {" ", "+", "\"", "\\", "%"}   \* what encodeURIComponent escapes
Characters == {"a"} \cup Escaped

\* encodeURIComponent, decodeURIComponent (external).
Escape(c) == CASE c = " " -> "%20" [] c = "+" -> "%2B" [] c = "\"" -> "%22"
               [] c = "\\" -> "%5C" [] c = "%" -> "%25" [] OTHER -> c
Unescape(c) == CASE c = "%20" -> " " [] c = "%2B" -> "+" [] c = "%22" -> "\""
                 [] c = "%5C" -> "\\" [] c = "%25" -> "%" [] OTHER -> c
encodeURIComponent(s) == [i \in DOMAIN s |-> Escape(s[i])]
Malformed(s) == "%" \in Range(s)
decodeURIComponent(s) == [i \in DOMAIN s |-> Unescape(s[i])]

encode(s) == encodeURIComponent(s)

\* Mutated form: the value as it is.
stringifyCookieValue_raw(value) == value

stringifyCookieValue(value) == encode(value)

\* s.replace(/\\c/g, c): a backslash before c goes, from left to right.  A
\* backslash is held back until the character after it is seen.
PairStep(acc, x, c) ==
    LET out == IF acc.held /\ x # c THEN Append(acc.out, "\\") ELSE acc.out
    IN  IF x = "\\" /\ ~(acc.held /\ x = c)
        THEN [out |-> out, held |-> TRUE]
        ELSE [out |-> Append(out, x), held |-> FALSE]

PairsOf(s, c) ==
    LET acc[i \in 0 .. Len(s)] == IF i = 0 THEN [out |-> <<>>, held |-> FALSE]
                                  ELSE PairStep(acc[i - 1], s[i], c)
    IN  acc[Len(s)]

Released(acc) == IF acc.held THEN Append(acc.out, "\\") ELSE acc.out
ReplacePairs(s, c) == Released(PairsOf(s, c))

\* Mutated form: only the quotes inside are unescaped.
Unquoted_quotesOnly(s) ==
    IF s # <<>> /\ Head(s) = "\"" THEN ReplacePairs(SubSeq(s, 2, Len(s) - 1), "\"") ELSE s

\* A quoted cookie as according to RFC 2068.
Unquoted(s) ==
    IF s # <<>> /\ Head(s) = "\""
    THEN ReplacePairs(ReplacePairs(SubSeq(s, 2, Len(s) - 1), "\""), "\\")
    ELSE s

\* Mutated form: pluses are left alone.
Spaced_never(s) == s

\* Server-side written pluses are spaces.
Spaced(s) == ReplaceAll(s, "+", " ")

parseCookieValue(s) ==
    LET text == Spaced(Unquoted(s))
    IN  IF Malformed(text) THEN Undefined ELSE decodeURIComponent(text)
===============================================================================
