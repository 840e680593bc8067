------------------------------ MODULE TextForms -------------------------------
(***************************************************************************)
(* The text the program takes apart and puts together: virtual paths and   *)
(* file names, UTF-8, base64 and percent escapes (src/src/common/          *)
(* strutil.cpp), JSON (json.cpp) and dates (timeutil.cpp).  A text is a    *)
(* sequence of characters; only the characters that mean something to the  *)
(* code are told apart.                                                    *)
(***************************************************************************)
EXTENDS Integers, SequencesExt

CONSTANTS
    MaxDepth,       \* deepest nesting of JSON, 200 in the code
    IntBits         \* bits of an unsigned integer, 64 in the code

Bad == [ok |-> FALSE]
Good(v) == [ok |-> TRUE, value |-> v]
Concat(parts) == FlattenSeq(parts)

(***************************************************************************)
(* Paths: "/" and "\" part the names, "." stays, ".." goes up.             *)
(***************************************************************************)
Dot == <<".">>
DotDot == <<".", ".">>

Flush(s) ==
    IF s.cur \in {<< >>, Dot} THEN [s EXCEPT !.cur = << >>]
    ELSE IF s.cur = DotDot
         THEN [cur |-> << >>, stack |-> IF s.stack = << >> THEN << >> ELSE Front(s.stack)]
    ELSE [cur |-> << >>, stack |-> Append(s.stack, s.cur)]

PathParts(path) ==
    Flush(FoldLeft(LAMBDA s, c : IF c \in {"/", "\\"} THEN Flush(s) ELSE [s EXCEPT !.cur = Append(@, c)],
                   [stack |-> << >>, cur |-> << >>], path)).stack

JoinPath(parts) ==
    IF parts = << >> THEN <<"/">>
    ELSE Concat([i \in DOMAIN parts |-> <<"/">> \o parts[i]])

NormalizeVirtualPath(path) == JoinPath(PathParts(path))
ParentPath(path) ==
    LET parts == PathParts(path) IN IF parts = << >> THEN <<"/">> ELSE JoinPath(Front(parts))
BaseName(path) == LET parts == PathParts(path) IN IF parts = << >> THEN << >> ELSE Last(parts)

(***************************************************************************)
(* UTF-8, bytes as numbers.                                                *)
(***************************************************************************)
Extra(c) == CASE c < 128 -> 0
              [] c \in 192 .. 223 -> 1
              [] c \in 224 .. 239 -> 2
              [] c \in 240 .. 247 -> 3
              [] OTHER -> -1
Continues(c) == c \in 128 .. 191

\* The code point at i and its bytes; 0 bytes when there is none.
DecodeUtf8(s, i) ==
    LET n == Extra(s[i])
        lead == CASE n = 0 -> s[i] [] n = 1 -> s[i] - 192 [] n = 2 -> s[i] - 224 [] OTHER -> s[i] - 240
    IN IF n < 0 \/ i + n > Len(s) \/ \E k \in i + 1 .. i + n : ~Continues(s[k])
       THEN [cp |-> 0, bytes |-> 0]
       ELSE [bytes |-> n + 1,
             cp |-> FoldLeft(LAMBDA v, c : v * 64 + c - 128, lead, SubSeq(s, i + 1, i + n))]

EncodeUtf8(cp) ==
    LET Low(k) == 128 + ((cp \div 64 ^ k) % 64)
    IN CASE cp < 128 -> <<cp>>
         [] cp \in 128 .. 2047 -> <<192 + cp \div 64, Low(0)>>
         [] cp \in 2048 .. 65535 -> <<224 + cp \div 4096, Low(1), Low(0)>>
         [] OTHER -> <<240 + cp \div 262144, Low(2), Low(1), Low(0)>>

\* No overlong form, no surrogate, nothing above the last code point.
IsValidUtf8(s) ==
    LET Valid[i \in 1 .. Len(s) + 1] ==
            IF i = Len(s) + 1 THEN TRUE
            ELSE LET d == DecodeUtf8(s, i)
                 IN /\ d.bytes # 0
                    /\ d.bytes = 2 => d.cp >= 128
                    /\ d.bytes = 3 => d.cp >= 2048
                    /\ d.bytes = 4 => d.cp \in 65536 .. 1114111
                    /\ d.cp \notin 55296 .. 57343
                    /\ Valid[i + d.bytes]
    IN Valid[1]

LowerCodepoint(cp) ==
    CASE cp \in 65 .. 90 -> cp + 32
      [] cp \in 192 .. 222 \ {215} -> cp + 32
      [] cp \in 256 .. 383 \cup 7680 .. 7935 -> IF cp % 2 = 0 THEN cp + 1 ELSE cp
      [] cp \in {416, 431} -> cp + 1
      [] cp \in 913 .. 937 \ {930} -> cp + 32
      [] cp \in 1040 .. 1071 -> cp + 32
      [] cp \in 1024 .. 1039 -> cp + 80
      [] OTHER -> cp

\* A byte that is no character stays as it is.
ToLowerUtf8(s) ==
    LET From[i \in 1 .. Len(s) + 1] ==
            IF i = Len(s) + 1 THEN << >>
            ELSE LET d == DecodeUtf8(s, i)
                 IN IF d.bytes = 0 THEN <<s[i]>> \o From[i + 1]
                    ELSE EncodeUtf8(LowerCodepoint(d.cp)) \o From[i + d.bytes]
    IN From[1]

\* Cuts before the character that does not fit.
Utf8Truncate(s, n) ==
    IF Len(s) <= n THEN s
    ELSE SubSeq(s, 1, Max({0} \cup {cut \in 1 .. n : ~Continues(s[cut + 1])}))

(***************************************************************************)
(* Base 64 and percent escapes.                                            *)
(***************************************************************************)
Pad64 == 64
Base64Group(b) ==
    LET v == FoldLeft(LAMBDA a, x : a * 256 + x, 0, b \o [i \in 1 .. 3 - Len(b) |-> 0])
    IN [i \in 1 .. 4 |-> IF i <= Len(b) + 1 THEN (v \div 64 ^ (4 - i)) % 64 ELSE Pad64]

Base64Encode(b) ==
    Concat([g \in 1 .. (Len(b) + 2) \div 3 |->
              Base64Group(SubSeq(b, 3 * g - 2, Min({3 * g, Len(b)})))])

Base64Decode(t) ==
    FoldLeft(LAMBDA s, c :
                IF c = Pad64 THEN s
                ELSE LET acc == s.acc * 64 + c
                         bits == s.bits + 6
                     IN IF bits < 8 THEN [s EXCEPT !.acc = acc, !.bits = bits]
                        ELSE [out |-> Append(s.out, acc \div 2 ^ (bits - 8)), bits |-> bits - 8,
                              acc |-> acc % 2 ^ (bits - 8)],
             [acc |-> 0, bits |-> 0, out |-> << >>], t).out

Base64UrlEncode(b) == SelectSeq(Base64Encode(b), LAMBDA c : c # Pad64)

\* Escaped characters and their two hexadecimal digits; the others are safe.
Escapes == [c \in {"%", "+", " "} |->
               CASE c = "%" -> <<"2", "5">> [] c = "+" -> <<"2", "B">> [] c = " " -> <<"2", "0">>]
HexDigits == {"2", "5", "0", "B"}

UrlEncode(s) ==
    Concat([i \in DOMAIN s |-> IF s[i] \in DOMAIN Escapes THEN <<"%">> \o Escapes[s[i]] ELSE <<s[i]>>])

\* Any other pair of digits stands for a character of its own.
UrlDecode(s) ==
    LET Pair(i) == <<s[i + 1], s[i + 2]>>
        From[i \in 1 .. Len(s) + 3] ==
            IF i > Len(s) THEN << >>
            ELSE IF s[i] = "%" /\ i + 2 <= Len(s) /\ Range(Pair(i)) \subseteq HexDigits
                 THEN (IF \E c \in DOMAIN Escapes : Escapes[c] = Pair(i)
                       THEN <<CHOOSE c \in DOMAIN Escapes : Escapes[c] = Pair(i)>>
                       ELSE <<"other">>) \o From[i + 3]
            ELSE <<IF s[i] = "+" THEN " " ELSE s[i]>> \o From[i + 1]
    IN From[1]

(***************************************************************************)
(* JSON.  A value is [t, v]; a text is a sequence of characters in which   *)
(* a number or a word (null, true, false), [t |-> "word"] as a value, is   *)
(* one character, and so are four hexadecimal digits.                      *)
(***************************************************************************)
Letters == [c \in {"\"", "\\", "newline", "tab"} |->
               CASE c = "newline" -> "n" [] c = "tab" -> "t" [] OTHER -> c]
Quote(s) ==
    <<"\"">> \o Concat([i \in DOMAIN s |->
                   IF s[i] \in DOMAIN Letters THEN <<"\\", Letters[s[i]]>>
                   ELSE IF s[i] = "control" THEN <<"\\", "u", "control">>
                   ELSE <<s[i]>>]) \o <<"\"">>

Between(parts, open, close) ==
    <<open>> \o Concat([i \in DOMAIN parts |-> (IF i > 1 THEN <<",">> ELSE << >>) \o parts[i]])
             \o <<close>>

RECURSIVE Dump(_)
Dump(j) ==
    CASE j.t = "string" -> Quote(j.v)
      [] j.t = "array" -> Between([i \in DOMAIN j.v |-> Dump(j.v[i])], "[", "]")
      [] j.t = "object" -> LET keys == SetToSeq(DOMAIN j.v)
                           IN Between([i \in DOMAIN keys |->
                                         Quote(keys[i]) \o <<":">> \o Dump(j.v[keys[i]])], "{", "}")
      [] OTHER -> <<j.v>>

\* What the character after a backslash stands for.
Unescaped(c) == IF \E l \in DOMAIN Letters : Letters[l] = c
                THEN CHOOSE l \in DOMAIN Letters : Letters[l] = c ELSE c

At1(s, i) == IF i <= Len(s) THEN s[i] ELSE "end"

\* The parsers return the value and the position after it.
Parsed(v, next) == [ok |-> TRUE, value |-> v, next |-> next]

ParseString(s, start) ==
    LET From[i \in 1 .. Len(s) + 3, out \in Seq({"a", "\"", "\\", "newline", "tab", "control", "u", "n", "t"})] ==
            CASE At1(s, i) = "end" -> Bad
              [] At1(s, i) = "\"" -> Parsed(out, i + 1)
              [] At1(s, i) = "\\" ->
                    IF At1(s, i + 1) \in Range(Letters)
                    THEN From[i + 2, Append(out, Unescaped(s[i + 1]))]
                    ELSE IF At1(s, i + 1) = "u" /\ At1(s, i + 2) = "control"
                         THEN From[i + 3, Append(out, "control")] ELSE Bad
              [] OTHER -> From[i + 1, Append(out, s[i])]
    IN From[start + 1, << >>]

RECURSIVE ParseValue(_, _, _), ParseItems(_, _, _, _), ParseMembers(_, _, _, _)
ParseValue(s, i, depth) ==
    IF depth > MaxDepth THEN Bad
    ELSE CASE At1(s, i) = "{" -> IF At1(s, i + 1) = "}" THEN Parsed([t |-> "object", v |-> << >>], i + 2)
                                 ELSE ParseMembers(s, i + 1, depth, << >>)
           [] At1(s, i) = "[" -> IF At1(s, i + 1) = "]" THEN Parsed([t |-> "array", v |-> << >>], i + 2)
                                 ELSE ParseItems(s, i + 1, depth, << >>)
           [] At1(s, i) = "\"" -> LET r == ParseString(s, i)
                                  IN IF r.ok THEN Parsed([t |-> "string", v |-> r.value], r.next) ELSE Bad
           [] At1(s, i) \in {"end", "}", "]", ",", ":", "\\", "a"} -> Bad
           [] OTHER -> Parsed([t |-> "word", v |-> s[i]], i + 1)

ParseItems(s, i, depth, items) ==
    LET r == ParseValue(s, i, depth + 1)
    IN IF ~r.ok THEN Bad
       ELSE IF At1(s, r.next) = "," THEN ParseItems(s, r.next + 1, depth, Append(items, r.value))
       ELSE IF At1(s, r.next) = "]"
            THEN Parsed([t |-> "array", v |-> Append(items, r.value)], r.next + 1)
       ELSE Bad

\* A name given twice keeps its last value.
ParseMembers(s, i, depth, members) ==
    LET key == IF At1(s, i) = "\"" THEN ParseString(s, i) ELSE Bad
        r == IF key.ok /\ At1(s, key.next) = ":" THEN ParseValue(s, key.next + 1, depth + 1) ELSE Bad
        more == (key.value :> r.value) @@ members
    IN IF ~r.ok THEN Bad
       ELSE IF At1(s, r.next) = "," THEN ParseMembers(s, r.next + 1, depth, more)
       ELSE IF At1(s, r.next) = "}" THEN Parsed([t |-> "object", v |-> more], r.next + 1)
       ELSE Bad

Parse(s) == LET r == ParseValue(s, 1, 0)
            IN IF r.ok /\ r.next = Len(s) + 1 THEN Good(r.value) ELSE Bad

(***************************************************************************)
(* Numbers in requests: digits, the sum kept in IntBits bits and refused   *)
(* when it falls.                                                          *)
(***************************************************************************)
ParseUInt(digits) ==
    FoldLeft(LAMBDA r, d : LET nv == (r.value * 10 + d) % 2 ^ IntBits
                           IN IF ~r.ok \/ nv < r.value THEN [r EXCEPT !.ok = FALSE] ELSE Good(nv),
             [ok |-> digits # << >>, value |-> 0], digits)

(***************************************************************************)
(* Dates.                                                                  *)
(***************************************************************************)
CivilFromDays(days) ==
    LET z == days + 719468
        era == z \div 146097
        doe == z - era * 146097
        yoe == (doe - doe \div 1460 + doe \div 36524 - doe \div 146096) \div 365
        doy == doe - (365 * yoe + yoe \div 4 - yoe \div 100)
        mp == (5 * doy + 2) \div 153
        month == IF mp < 10 THEN mp + 3 ELSE mp - 9
    IN [year |-> yoe + era * 400 + (IF month <= 2 THEN 1 ELSE 0), month |-> month,
        day |-> doy - (153 * mp + 2) \div 5 + 1, weekday |-> (days + 4) % 7]

CivilFromEpoch(t) ==
    CivilFromDays(t \div 86400) @@ [hour |-> (t % 86400) \div 3600,
                                    minute |-> (t % 3600) \div 60, second |-> t % 60]

EpochFromCivil(c) ==
    LET y == c.year - (IF c.month <= 2 THEN 1 ELSE 0)
        era == y \div 400
        yoe == y - era * 400
        doy == (153 * (IF c.month > 2 THEN c.month - 3 ELSE c.month + 9) + 2) \div 5 + c.day - 1
        doe == yoe * 365 + yoe \div 4 - yoe \div 100 + doy
    IN (era * 146097 + doe - 719468) * 86400 + c.hour * 3600 + c.minute * 60 + c.second

\* A year of two digits is one of 1970 .. 2069.
ParseHttpDate(c) ==
    IF c.day \notin 1 .. 31 THEN -1
    ELSE EpochFromCivil([c EXCEPT !.year = IF @ >= 100 THEN @ ELSE IF @ < 70 THEN @ + 2000 ELSE @ + 1900])

(***************************************************************************)
(* What each promises.                                                     *)
(***************************************************************************)
\* A normal path is absolute, has no empty, "." or ".." part and is left alone;
\* a path is its parent and its last name, and ".." leads to the parent.
PathAgrees(path) ==
    LET norm == NormalizeVirtualPath(path)
    IN /\ NormalizeVirtualPath(norm) = norm
       /\ Head(norm) = "/"
       /\ Range(PathParts(norm)) \cap {<< >>, Dot, DotDot} = {}
       /\ NormalizeVirtualPath(ParentPath(path) \o <<"/">> \o BaseName(path)) = norm
       /\ NormalizeVirtualPath(path \o <<"/">> \o DotDot) = ParentPath(path)

\* Cutting and lowering keep valid text valid; no valid text between the cut and n
\* bytes is lost; lowering twice changes nothing more.
Utf8Agrees(s, n) ==
    LET cut == Utf8Truncate(s, n)
    IN /\ Len(cut) <= n /\ IsPrefix(cut, s)
       /\ IsValidUtf8(s) =>
             /\ IsValidUtf8(cut) /\ IsValidUtf8(ToLowerUtf8(s))
             /\ \A k \in Len(cut) + 1 .. Min({n, Len(s)}) : ~IsValidUtf8(SubSeq(s, 1, k))
       /\ ToLowerUtf8(ToLowerUtf8(s)) = ToLowerUtf8(s)

CodepointAgrees(cp) ==
    LET s == EncodeUtf8(cp)
    IN /\ DecodeUtf8(s, 1) = [cp |-> cp, bytes |-> Len(s)]
       /\ IsValidUtf8(s) <=> cp \notin 55296 .. 57343

EscapeAgrees(s) == UrlDecode(UrlEncode(s)) = s

Base64Agrees(b) ==
    /\ Base64Decode(Base64Encode(b)) = b
    /\ Base64Decode(Base64UrlEncode(b)) = b
    /\ Len(Base64Encode(b)) % 4 = 0

RECURSIVE Nesting(_)
Nesting(j) ==
    IF j.t \notin {"array", "object"} \/ DOMAIN j.v = {} THEN 0
    ELSE 1 + Max({Nesting(j.v[k]) : k \in DOMAIN j.v})

\* What is dumped is read back unless it is nested too deep; a text cut short is refused.
JsonAgrees(j) ==
    /\ Parse(Dump(j)) = IF Nesting(j) <= MaxDepth THEN Good(j) ELSE Bad
    /\ \A k \in 0 .. Len(Dump(j)) - 1 : ~Parse(SubSeq(Dump(j), 1, k)).ok

RECURSIVE Digits(_)
Digits(n) == IF n < 10 THEN <<n>> ELSE Append(Digits(n \div 10), n % 10)
NumberReadAgrees(n) == ParseUInt(Digits(n)) = Good(n)

\* The day after, by the rules of the calendar.
Tomorrow(c) ==
    LET leap == c.year % 4 = 0 /\ (c.year % 100 # 0 \/ c.year % 400 = 0)
        length == CASE c.month \in {4, 6, 9, 11} -> 30
                    [] c.month = 2 -> IF leap THEN 29 ELSE 28
                    [] OTHER -> 31
        last == c.day = length
    IN [weekday |-> (c.weekday + 1) % 7, day |-> IF last THEN 1 ELSE c.day + 1,
        month |-> IF ~last THEN c.month ELSE IF c.month = 12 THEN 1 ELSE c.month + 1,
        year |-> IF last /\ c.month = 12 THEN c.year + 1 ELSE c.year]

DayAgrees(days) ==
    /\ CivilFromDays(0) = [year |-> 1970, month |-> 1, day |-> 1, weekday |-> 4]
    /\ CivilFromDays(days + 1) = Tomorrow(CivilFromDays(days))

TimeAgrees(t) == ParseHttpDate(CivilFromEpoch(t)) = t

TextAgrees(s) ==
    CASE s[1] = "path" -> PathAgrees(s[2])
      [] s[1] = "utf8" -> Utf8Agrees(s[2], s[3])
      [] s[1] = "codepoint" -> CodepointAgrees(s[2])
      [] s[1] = "escape" -> EscapeAgrees(s[2])
      [] s[1] = "base64" -> Base64Agrees(s[2])
      [] s[1] = "json" -> JsonAgrees(s[2])
      [] s[1] = "number" -> NumberReadAgrees(s[2])
      [] s[1] = "day" -> DayAgrees(s[2])
      [] s[1] = "time" -> TimeAgrees(s[2])
===============================================================================
