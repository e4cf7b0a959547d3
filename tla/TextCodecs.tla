------------------------------ MODULE TextCodecs ------------------------------
(***************************************************************************)
(* How texts travel to Podman and into the service: percent encoding       *)
(* (src/src/http.cpp) and JSON strings (src/src/container_spec.cpp and the *)
(* label filters of src/src/podman_client.cpp).  A text is a sequence of   *)
(* bytes.                                                                  *)
(***************************************************************************)
EXTENDS Integers, Sequences, SequencesExt

Byte == 0..255

Digit == 48..57
Alnum == Digit \cup 65..90 \cup 97..122

Percent == 37
Quote == 34
Backslash == 92

\* A text that cannot be decoded.
Undecodable == <<-1>>

\* The bytes of a text, each replaced by the ones f gives for it.
Each(text, f) == FlattenSeq([k \in DOMAIN text |-> f[text[k]]])

HexDigit(n, letters) == IF n < 10 THEN 48 + n ELSE letters + n - 10

\* hex_value
HexValue(c) ==
    CASE c \in Digit -> c - 48
      [] c \in 97..102 -> c - 87
      [] c \in 65..70 -> c - 55
      [] OTHER -> -1

Unreserved == Alnum \cup {45, 95, 46, 126}

\* url_encode_component
UrlEncode(text) ==
    Each(text, [c \in Byte |->
        IF c \in Unreserved THEN <<c>>
        ELSE <<Percent, HexDigit(c \div 16, 65), HexDigit(c % 16, 65)>>])

\* A decoder after part of a text: what it made of it, and of an escape so far.
Start == [escape |-> <<>>, out |-> <<>>]

\* One character in url_decode_component.
UrlTake(d, c, plusAsSpace) ==
    IF d.out = Undecodable THEN d
    ELSE IF d.escape = <<>> THEN
        IF c = Percent THEN [d EXCEPT !.escape = <<c>>]
        ELSE [d EXCEPT !.out = Append(@, IF c = 43 /\ plusAsSpace THEN 32 ELSE c)]
    ELSE IF Len(d.escape) = 1 THEN [d EXCEPT !.escape = Append(@, c)]
    ELSE LET hi == HexValue(d.escape[2])
             lo == HexValue(c)
         IN  [escape |-> <<>>,
              out |-> IF hi < 0 \/ lo < 0 THEN Undecodable ELSE Append(d.out, 16 * hi + lo)]

\* url_decode_component
UrlDecode(text, plusAsSpace) ==
    LET decoded == FoldLeft(LAMBDA d, c : UrlTake(d, c, plusAsSpace), Start, text)
    IN  IF decoded.escape # <<>> THEN Undecodable ELSE decoded.out

Quoted(text) == <<Quote>> \o text \o <<Quote>>

\* Letters that stand for a control character after a backslash.
ShortEscape == [c \in {8, 9, 10, 12, 13} |->
    CASE c = 8 -> 98 [] c = 9 -> 116 [] c = 10 -> 110 [] c = 12 -> 102 [] c = 13 -> 114]

\* append_json_string
JsonString(text) ==
    Quoted(Each(text, [c \in Byte |->
        CASE c \in {Quote, Backslash} -> <<Backslash, c>>
          [] c \in DOMAIN ShortEscape -> <<Backslash, ShortEscape[c]>>
          [] c < 32 /\ c \notin DOMAIN ShortEscape ->
                <<Backslash, 117, 48, 48, HexDigit(c \div 16, 97), HexDigit(c % 16, 97)>>
          [] OTHER -> <<c>>]))

\* The strings of filters_query: only quotes and backslashes are escaped.
FilterString(text) ==
    Quoted(Each(text, [c \in Byte |->
        IF c \in {Quote, Backslash} THEN <<Backslash, c>> ELSE <<c>>]))

\* One character in a JSON string: control characters must be escaped.
JsonTake(d, c) ==
    IF d.out = Undecodable THEN d
    ELSE IF d.escape = <<>> THEN
        IF c = Backslash THEN [d EXCEPT !.escape = <<c>>]
        ELSE [d EXCEPT !.out = IF c < 32 \/ c = Quote THEN Undecodable ELSE Append(@, c)]
    ELSE IF d.escape = <<Backslash>> THEN
        IF c = 117 THEN [d EXCEPT !.escape = <<c>>]
        ELSE [escape |-> <<>>,
              out |-> IF c \in {Quote, Backslash} THEN Append(d.out, c)
                      ELSE IF \E e \in DOMAIN ShortEscape : ShortEscape[e] = c
                      THEN Append(d.out, CHOOSE e \in DOMAIN ShortEscape : ShortEscape[e] = c)
                      ELSE Undecodable]
    ELSE IF Len(d.escape) < 4 THEN [d EXCEPT !.escape = Append(@, c)]
    ELSE [escape |-> <<>>,
          out |-> Append(d.out, 16 * HexValue(d.escape[4]) + HexValue(c))]

\* What is between the quotes, with its escapes resolved.
JsonUnescape(string) == FoldLeft(JsonTake, Start, SubSeq(string, 2, Len(string) - 1)).out

\* UTF-8: the bytes of a character, by the first of them; no character begins with a
\* byte of length 0.
CharacterLength(b) ==
    CASE b \in 0..127 -> 1 [] b \in 194..223 -> 2 [] b \in 224..239 -> 3 [] b \in 240..244 -> 4
      [] OTHER -> 0

SecondByte(b) ==
    CASE b = 224 -> 160..191 [] b = 237 -> 128..159 [] b = 240 -> 144..191 [] b = 244 -> 128..143
      [] OTHER -> 128..191

IsCharacter(bytes) ==
    /\ Len(bytes) = CharacterLength(bytes[1])
    /\ \A k \in 2..Len(bytes) : bytes[k] \in IF k = 2 THEN SecondByte(bytes[1]) ELSE 128..191

\* Byte k of the text is one of a character.
InCharacter(text, k) == \E i \in 1..k, j \in k..Len(text) : IsCharacter(SubSeq(text, i, j))

ValidUtf8(text) == \A k \in DOMAIN text : InCharacter(text, k)

\* U+FFFD, for every byte that is not of a character.
Replacement == <<239, 191, 189>>

Utf8(text) ==
    FlattenSeq([k \in DOMAIN text |-> IF InCharacter(text, k) THEN <<text[k]>> ELSE Replacement])

\* What Podman's JSON parser, encoding/json of Go, makes of such a string.
JsonDecode(string) ==
    LET bytes == JsonUnescape(string)
    IN  IF bytes = Undecodable THEN Undecodable ELSE Utf8(bytes)
===============================================================================
