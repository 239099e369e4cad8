----------------------------- MODULE MCPageCookies -----------------------------
(* PageCookies on a few rows of each kind and, in initial states of their own  *)
(* that go no further, CookieText on all short texts.                          *)
EXTENDS PageCookies, SequencesExt

CONSTANT MaxText      \* bound: length of a text

VARIABLE text         \* a value that is written and read, or read as it is

Text == INSTANCE CookieText

MCInit == Init /\ text \in BoundedSeq(Text!Characters, MaxText)

MCNext == text = <<>> /\ Next /\ UNCHANGED text

MCSpec == MCInit /\ [][MCNext]_<<vars, text>>

-------------------------------------------------------------------------------
(* What $.cookie wrote it reads back, whatever characters the value has: no  *)
(* unescaping of quotes or pluses touches what encodeURIComponent made       *)
(* (stringifyCookieValue, parseCookieValue).                                 *)
OwnValueIsReadBack == Text!parseCookieValue(Text!stringifyCookieValue(text)) = text

(* A value quoted as RFC 2068 has it (backslashes before quotes and          *)
(* backslashes) is read without the quoting, whatever it contains: the two   *)
(* replacements of parseCookieValue, one after the other, undo one escaping. *)
Backslashed(s) ==
    LET rest[i \in 0 .. Len(s)] ==
            IF i = 0 THEN <<>>
            ELSE IF s[i] \in {"\"", "\\"} THEN Append(Append(rest[i - 1], "\\"), s[i])
            ELSE Append(rest[i - 1], s[i])
    IN  rest[Len(s)]
Quoted(s) == <<"\"">> \o Backslashed(s) \o <<"\"">>
QuotedValueIsReadBack ==
    Range(text) \cap {"+", "%"} = {} => Text!parseCookieValue(Quoted(text)) = text

(* A value a server encoded as a form does, spaces as pluses, is read back   *)
(* ("Replace server-side written pluses with spaces").                       *)
FormEncoded(s) == [i \in DOMAIN s |-> IF s[i] = " " THEN "+" ELSE Text!Escape(s[i])]
FormEncodedIsReadBack == Text!parseCookieValue(FormEncoded(text)) = text
================================================================================
