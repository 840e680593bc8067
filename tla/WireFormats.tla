----------------------------- MODULE WireFormats ------------------------------
(***************************************************************************)
(* What the program puts on a wire or reads from one, each reader checked  *)
(* against its writer, or against what the other side writes: TL strings   *)
(* and objects (src/src/tg/tl_codec.cpp), the packets and the cipher modes *)
(* under them, MySQL's lengths and packets, the blocks a hash is fed, and  *)
(* the Huffman codes of a packed answer (src/src/compress/inflate.cpp).    *)
(* Bytes are numbers below ByteBase, 256 in the code; the marker bytes are *)
(* those of the code counted down from it, so that a base of 8 reaches     *)
(* every form of a length.                                                 *)
(***************************************************************************)
EXTENDS Integers, SequencesExt

CONSTANTS
    ByteBase,       \* values of a byte, 256 in the code
    PacketMax,      \* longest part of a MySQL packet, 16777215 in the code
    Schema,         \* the TL constructors: [name -> sequence of arguments]
    HashBlock,      \* bytes of a hash's block, 64 or 128
    LengthSize,     \* bytes of the length in its last block, 8 or 16
    CodeMax         \* longest Huffman code, 15 in the code

Zeros(n) == [i \in 1 .. n |-> 0]
After(s, n) == SubSeq(s, n + 1, Len(s))
Upto(s, n) == SubSeq(s, 1, n)
Little(v, n) == [i \in 1 .. n |-> (v \div ByteBase ^ (i - 1)) % ByteBase]
FromLittle(s) == FoldRight(LAMBDA b, v : v * ByteBase + b, s, 0)
Failed == [ok |-> FALSE]

(***************************************************************************)
(* TL strings: a length of one byte, or a marker and three bytes, and      *)
(* padding to a multiple of four.                                          *)
(***************************************************************************)
TlLong == ByteBase - 2

WriteBytes(d) ==
    LET head == IF Len(d) < TlLong THEN <<Len(d)>> ELSE <<TlLong>> \o Little(Len(d), 3)
        s == head \o d
    IN s \o Zeros((-Len(s)) % 4)

\* Padding that is cut off at the end of the data is not an error.
ReadBytes(in) ==
    LET head == IF in = << >> \/ in[1] < TlLong THEN 1 ELSE 4
        n == IF head = 1 THEN in[1] ELSE FromLittle(SubSeq(in, 2, 4))
        used == head + n + ((-(head + n)) % 4)
    IN IF Len(in) < head \/ Len(in) < head + n THEN Failed
       ELSE [ok |-> TRUE, value |-> SubSeq(in, head + 1, head + n), rest |-> After(in, used)]

(***************************************************************************)
(* TL objects, one token for a number, a string, a set of flag bits or a   *)
(* constructor.  An argument is [name, type, bit]: type "flags", "true",   *)
(* "int", "vector" (of int) or "object"; bit is 0 when it is always there. *)
(***************************************************************************)
Null == [t |-> "null"]
Field(v, name) == IF name \in DOMAIN v.fields THEN v.fields[name] ELSE Null
Token(t, x) == [t |-> t, v |-> x]

\* A bit is set for an argument that is present, or because the caller set it.
FlagsOf(v) ==
    LET present(arg) == IF arg.type = "true" THEN Field(v, arg.name) = Token("true", TRUE)
                        ELSE Field(v, arg.name) # Null
        forced == {f \in {Field(v, a.name) : a \in {b \in Range(Schema[v.v]) : b.type = "flags"}} :
                      f # Null}
    IN {a.bit : a \in {b \in Range(Schema[v.v]) : b.bit # 0 /\ present(b)}}
           \cup UNION {f.v : f \in forced}

RECURSIVE Serialize(_)
\* The tokens of an argument; an absent simple one is written as 0 or empty.
WriteArg(arg, v) ==
    CASE arg.type = "true" -> << >>
      [] arg.type = "int" -> <<IF v = Null THEN Token("int", 0) ELSE v>>
      [] arg.type = "vector" ->
            IF v = Null THEN <<Token("int", 0)>>
            ELSE <<Token("int", Len(v.v))>> \o [i \in DOMAIN v.v |-> Token("int", v.v[i])]
      [] arg.type = "object" -> Serialize(v)

\* << >> stands for a refusal: an object that is needed is missing.
Serialize(v) ==
    LET Part(arg) ==
            IF arg.type = "flags" THEN <<Token("flags", FlagsOf(v))>>
            ELSE IF arg.bit # 0 /\ arg.bit \notin FlagsOf(v) THEN << >>
            ELSE WriteArg(arg, Field(v, arg.name))
        missing == \E arg \in Range(Schema[v.v]) :
                      /\ arg.type = "object"
                      /\ arg.bit = 0 \/ arg.bit \in FlagsOf(v)
                      /\ \/ Field(v, arg.name) = Null
                         \/ Serialize(Field(v, arg.name)) = << >>
    IN IF missing THEN << >>
       ELSE <<Token("ctor", v.v)>>
                \o FlattenSeq([i \in DOMAIN Schema[v.v] |-> Part(Schema[v.v][i])])

RECURSIVE Deserialize(_), ReadArgs(_, _, _, _)
\* What is read of one argument, and what is left of the tokens.
ReadArg(arg, in) ==
    IF arg.type = "object" THEN Deserialize(in)
    ELSE IF in = << >> THEN [ok |-> FALSE, value |-> Null, rest |-> in]
    ELSE IF arg.type # "vector" THEN [ok |-> TRUE, value |-> Head(in), rest |-> Tail(in)]
    ELSE LET n == Min({Head(in).v, Len(in) - 1})
         IN [ok |-> n = Head(in).v, rest |-> After(in, n + 1),
             value |-> Token("vector", [i \in 1 .. n |-> in[i + 1].v])]

\* The arguments in turn.  When one cannot be read the object keeps those before
\* it, and the part of that one.
ReadArgs(args, in, fields, flags) ==
    LET arg == Head(args)
        With(x) == IF x = Null THEN fields ELSE fields @@ (arg.name :> x)
        r == ReadArg(arg, in)
    IN IF args = << >> THEN [ok |-> TRUE, fields |-> fields, rest |-> in]
       ELSE IF arg.bit # 0 /\ arg.bit \notin flags THEN ReadArgs(Tail(args), in, fields, flags)
       ELSE IF arg.type = "true" THEN ReadArgs(Tail(args), in, With(Token("true", TRUE)), flags)
       ELSE IF ~r.ok THEN [ok |-> FALSE, fields |-> With(r.value), rest |-> r.rest]
       ELSE ReadArgs(Tail(args), r.rest, With(r.value),
                     IF arg.type = "flags" THEN r.value.v ELSE flags)

Deserialize(in) ==
    IF in = << >> THEN [ok |-> FALSE, value |-> Null, rest |-> in]
    ELSE LET r == ReadArgs(Schema[Head(in).v], Tail(in), << >>, {})
         IN [ok |-> r.ok, rest |-> r.rest,
             value |-> [t |-> "object", v |-> Head(in).v, fields |-> r.fields]]

(***************************************************************************)
(* MySQL: lengths, and packets in parts.                                   *)
(***************************************************************************)
LengthForms == {<<ByteBase - 4, 2>>, <<ByteBase - 3, 3>>, <<ByteBase - 2, 8>>}

PutLength(n) ==
    IF n < ByteBase - 5 THEN <<n>>
    ELSE LET form == CHOOSE f \in LengthForms :
                        /\ n < ByteBase ^ f[2]
                        /\ \A g \in LengthForms : n < ByteBase ^ g[2] => f[2] <= g[2]
         IN <<form[1]>> \o Little(n, form[2])

GetLength(in) ==
    IF in = << >> THEN Failed
    ELSE IF in[1] < ByteBase - 5 THEN [ok |-> TRUE, value |-> in[1], rest |-> Tail(in)]
    ELSE IF in[1] = ByteBase - 5 THEN [ok |-> TRUE, value |-> Null, rest |-> Tail(in)]
    ELSE LET forms == {f \in LengthForms : f[1] = in[1] /\ Len(in) > f[2]}
         IN IF forms = {} THEN Failed
            ELSE LET f == CHOOSE f \in forms : TRUE
                 IN [ok |-> TRUE, value |-> FromLittle(SubSeq(in, 2, f[2] + 1)),
                     rest |-> After(in, f[2] + 1)]

\* writePacket: parts of PacketMax until nothing is left, one part at least.
RECURSIVE WritePacket(_), ReadPacket(_), ServerPacket(_)
WritePacket(p) ==
    LET n == Min({PacketMax, Len(p)})
    IN <<Upto(p, n)>> \o (IF n = Len(p) THEN << >> ELSE WritePacket(After(p, n)))

\* readPacket: a part of PacketMax is followed by another.
ReadPacket(in) ==
    IF in = << >> THEN Failed
    ELSE IF Len(Head(in)) < PacketMax THEN [ok |-> TRUE, value |-> Head(in), rest |-> Tail(in)]
    ELSE LET r == ReadPacket(Tail(in))
         IN IF r.ok THEN [r EXCEPT !.value = Head(in) \o r.value] ELSE Failed

\* A server ends a packet with a part that is not full, empty if need be.
ServerPacket(p) ==
    IF Len(p) < PacketMax THEN <<p>>
    ELSE <<Upto(p, PacketMax)>> \o ServerPacket(After(p, PacketMax))

(***************************************************************************)
(* The cipher modes, over any block cipher E (a permutation of blocks):    *)
(* blocks are sets of bits, XOR is the symmetric difference.               *)
(***************************************************************************)
XOR(a, b) == (a \ b) \cup (b \ a)

IgeEncrypt(E, data, ivCipher, ivPlain) ==
    FoldLeft(LAMBDA s, block :
                LET c == XOR(E[XOR(block, s.cipher)], s.plain)
                IN [out |-> Append(s.out, c), cipher |-> c, plain |-> block],
             [out |-> << >>, cipher |-> ivCipher, plain |-> ivPlain], data).out

IgeDecrypt(D, data, ivCipher, ivPlain) ==
    FoldLeft(LAMBDA s, block :
                LET p == XOR(D[XOR(block, s.plain)], s.cipher)
                IN [out |-> Append(s.out, p), cipher |-> block, plain |-> p],
             [out |-> << >>, cipher |-> ivCipher, plain |-> ivPlain], data).out

\* The counter mode that hides the stream: which byte of which keystream block each
\* byte is mixed with, the offset and the counter living from call to call.
CtrInit == [counter |-> 0, ks |-> 0, offset |-> HashBlock, used |-> << >>]
CtrProcess(s0, len) ==
    FoldLeft(LAMBDA s, i :
                LET t == IF s.offset = HashBlock
                         THEN [s EXCEPT !.ks = s.counter, !.counter = @ + 1, !.offset = 0]
                         ELSE s
                IN [t EXCEPT !.used = Append(@, <<t.ks, t.offset>>), !.offset = @ + 1],
             s0, [i \in 1 .. len |-> i])

\* Padding of an encrypted message of n bytes: at least 12, to a multiple of 16,
\* and up to seven blocks of noise; what decryptMessage takes.
Padding(n, noise) ==
    LET least == 16 - ((32 + n) % 16)
    IN (IF least < 12 THEN least + 16 ELSE least) + 16 * noise
MessageAccepted(size, n) ==
    /\ size >= 32 /\ size % 16 = 0
    /\ n <= size - 32
    /\ size - 32 - n \in 12 .. 1024

(***************************************************************************)
(* A hash fed in pieces: full blocks are taken out as they fill.           *)
(***************************************************************************)
RECURSIVE Update(_, _), PadBlock(_)
Update(h, data) ==
    LET n == Min({HashBlock - Len(h.buffer), Len(data)})
        filled == h.buffer \o Upto(data, n)
    IN IF data = << >> THEN h
       ELSE Update(IF Len(filled) = HashBlock
                   THEN [buffer |-> << >>, blocks |-> Append(h.blocks, filled)]
                   ELSE [h EXCEPT !.buffer = filled],
                   After(data, n))

PadBlock(h) ==
    IF Len(h.buffer) = HashBlock - LengthSize THEN h ELSE PadBlock(Update(h, <<"zero">>))

Finish(h) ==
    LET padded == PadBlock(Update(h, <<"one">>))
    IN Append(padded.blocks, padded.buffer \o [i \in 1 .. LengthSize |-> "length"])

(***************************************************************************)
(* Huffman codes from their lengths: how many codes of each length, and    *)
(* the symbols in the order of their codes.                                *)
(***************************************************************************)
BuildHuffman(lengths) ==
    LET count == [len \in 0 .. CodeMax |-> Cardinality({i \in DOMAIN lengths : lengths[i] = len})]
        Left[len \in 0 .. CodeMax] == IF len = 0 THEN 1 ELSE 2 * Left[len - 1] - count[len]
        Before(i, k) == \/ lengths[i] < lengths[k]
                        \/ lengths[i] = lengths[k] /\ i < k
        coded == {i \in DOMAIN lengths : lengths[i] # 0}
    IN IF coded = {} \/ \E len \in 1 .. CodeMax : Left[len] < 0 THEN Failed
       ELSE [ok |-> TRUE, count |-> count, symbol |-> SetToSortSeq(coded, Before)]

\* Bit by bit: the codes of one length are consecutive.
RECURSIVE Decode(_, _, _, _, _, _)
Decode(t, bits, len, code, first, index) ==
    LET c == code + Head(bits)
        n == t.count[len]
    IN IF bits = << >> \/ len > CodeMax THEN Failed
       ELSE IF c - n < first
            THEN IF index + c - first >= Len(t.symbol) THEN Failed
                 ELSE [ok |-> TRUE, value |-> t.symbol[index + c - first + 1], rest |-> Tail(bits)]
       ELSE Decode(t, Tail(bits), len + 1, 2 * c, 2 * (first + n), index + n)
DecodeSymbol(t, bits) == Decode(t, bits, 1, 0, 0, 0)

\* A match copies from what is already out, what it has just copied included.
CopyMatch(out, length, dist) ==
    IF dist > Len(out) THEN Failed
    ELSE [ok |-> TRUE,
          value |-> FoldLeft(LAMBDA s, i : Append(s, s[Len(out) - dist + i]), out,
                             [i \in 1 .. length |-> i])]

(***************************************************************************)
(* What each promises.                                                     *)
(***************************************************************************)
\* A string comes back with what follows it untouched; of a string cut short
\* nothing comes back, unless only padding is missing.
StringAgrees(n) ==
    LET d == [i \in 1 .. n |-> i % ByteBase]
        s == WriteBytes(d)
        tail == <<1, 2, 3, 0>>
    IN /\ Len(s) % 4 = 0
       /\ ReadBytes(s \o tail) = [ok |-> TRUE, value |-> d, rest |-> tail]
       /\ \A k \in 0 .. Len(s) - 1 : LET r == ReadBytes(Upto(s, k)) IN r.ok => r.value = d

\* The object the other side should see: absent simple arguments as 0 or empty.
RECURSIVE Canonical(_), PartOf(_, _)
Canonical(v) ==
    LET kept == {a \in Range(Schema[v.v]) : a.bit = 0 \/ a.bit \in FlagsOf(v)}
        Of(a) == LET x == Field(v, a.name)
                 IN CASE a.type = "flags" -> Token("flags", FlagsOf(v))
                      [] a.type = "true" -> Token("true", TRUE)
                      [] a.type = "int" -> IF x = Null THEN Token("int", 0) ELSE x
                      [] a.type = "vector" -> IF x = Null THEN Token("vector", << >>) ELSE x
                      [] a.type = "object" -> Canonical(x)
    IN [t |-> "object", v |-> v.v,
        fields |-> [f \in {a.name : a \in kept} |-> Of(CHOOSE a \in kept : a.name = f)]]

PartOf(x, whole) ==
    CASE x.t = "object" -> \A f \in DOMAIN x.fields : /\ f \in DOMAIN whole.fields
                                                      /\ PartOf(x.fields[f], whole.fields[f])
      [] x.t = "vector" -> IsPrefix(x.v, whole.v)
      [] OTHER -> x = whole

\* An object comes back, and what is read of one cut short is a part of it.
ObjectAgrees(v) ==
    LET s == Serialize(v)
        tail == <<Token("int", 7)>>
        r == Deserialize(s \o tail)
    IN s # << >> => /\ r.ok /\ r.rest = tail /\ r.value = Canonical(v)
                    /\ \A k \in 1 .. Len(s) - 1 :
                          LET cut == Deserialize(Upto(s, k))
                          IN ~cut.ok /\ PartOf(cut.value, Canonical(v))

LengthAgrees(n) ==
    /\ GetLength(PutLength(n) \o <<5>>) = [ok |-> TRUE, value |-> n, rest |-> <<5>>]
    /\ \A k \in 0 .. Len(PutLength(n)) - 1 : ~GetLength(Upto(PutLength(n), k)).ok

\* The client reads every packet of a server and what it writes is a packet, but
\* for a payload that fills its last part: the empty part after it is not sent.
PacketAgrees(n) ==
    LET p == [i \in 1 .. n |-> i]
        next == <<<<7>>>>
    IN /\ ReadPacket(ServerPacket(p) \o next) = [ok |-> TRUE, value |-> p, rest |-> next]
       /\ n = 0 \/ n % PacketMax # 0 => WritePacket(p) = ServerPacket(p)
       /\ FlattenSeq(WritePacket(p)) = p

IgeAgrees(E, data, iv) ==
    LET D == [c \in Range(E) |-> CHOOSE b \in DOMAIN E : E[b] = c]
    IN IgeDecrypt(D, IgeEncrypt(E, data, iv[1], iv[2]), iv[1], iv[2]) = data

\* The keystream is used once and in order, however the stream is cut into calls.
CtrAgrees(lens) ==
    LET s == FoldLeft(CtrProcess, CtrInit, lens)
    IN s.used = [i \in 1 .. FoldLeft(LAMBDA a, b : a + b, 0, lens)
                    |-> <<(i - 1) \div HashBlock, (i - 1) % HashBlock>>]

MessageAgrees(n, noise) == MessageAccepted(32 + n + Padding(n, noise), n)

\* The blocks are those of the padded message, however it was fed.
HashAgrees(lens) ==
    LET Piece(k) == [i \in 1 .. lens[k] |-> <<k, i>>]
        message == FlattenSeq([k \in DOMAIN lens |-> Piece(k)])
        h == FoldLeft(LAMBDA s, k : Update(s, Piece(k)), [buffer |-> << >>, blocks |-> << >>],
                      [k \in DOMAIN lens |-> k])
        blocks == Finish(h)
        zeros == CHOOSE z \in 0 .. HashBlock - 1 :
                    (Len(message) + 1 + z + LengthSize) % HashBlock = 0
    IN /\ \A i \in DOMAIN blocks : Len(blocks[i]) = HashBlock
       /\ FlattenSeq(blocks) = message \o <<"one">> \o [i \in 1 .. zeros |-> "zero"]
                                      \o [i \in 1 .. LengthSize |-> "length"]

\* Lengths that leave room for every code make a table, and the table reads the
\* canonical code of each symbol, no more and no less of it.
HuffmanAgrees(lengths) ==
    LET coded == {i \in DOMAIN lengths : lengths[i] # 0}
        Room(S) == FoldSet(LAMBDA i, r : r + 2 ^ (CodeMax - lengths[i]), 0, S)
        Code(i) == LET start == Room({k \in coded : \/ lengths[k] < lengths[i]
                                                    \/ lengths[k] = lengths[i] /\ k < i})
                   IN [b \in 1 .. lengths[i] |-> (start \div 2 ^ (CodeMax - b)) % 2]
        t == BuildHuffman(lengths)
    IN /\ t.ok <=> coded # {} /\ Room(coded) <= 2 ^ CodeMax
       /\ t.ok => \A i \in coded :
             /\ DecodeSymbol(t, Code(i) \o <<1, 0>>) = [ok |-> TRUE, value |-> i, rest |-> <<1, 0>>]
             /\ \A k \in 0 .. lengths[i] - 1 : ~DecodeSymbol(t, Upto(Code(i), k)).ok

MatchAgrees(n, length, dist) ==
    LET out == [i \in 1 .. n |-> i]
        r == CopyMatch(out, length, dist)
    IN /\ r.ok <=> dist <= n
       /\ r.ok => /\ Len(r.value) = n + length /\ IsPrefix(out, r.value)
                  /\ \A i \in n + 1 .. n + length : r.value[i] = r.value[i - dist]

WireAgrees(s) ==
    CASE s[1] = "string" -> StringAgrees(s[2])
      [] s[1] = "object" -> ObjectAgrees(s[2])
      [] s[1] = "length" -> LengthAgrees(s[2])
      [] s[1] = "packet" -> PacketAgrees(s[2])
      [] s[1] = "ige" -> IgeAgrees(s[2], s[3], s[4])
      [] s[1] = "ctr" -> CtrAgrees(s[2])
      [] s[1] = "message" -> MessageAgrees(s[2], s[3])
      [] s[1] = "hash" -> HashAgrees(s[2])
      [] s[1] = "huffman" -> HuffmanAgrees(s[2])
      [] s[1] = "match" -> MatchAgrees(s[2], s[3], s[4])
===============================================================================
