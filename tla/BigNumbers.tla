------------------------------ MODULE BigNumbers ------------------------------
(***************************************************************************)
(* The unbounded integers of the key exchange, the password proof and the  *)
(* RSA step (src/src/crypto/bigint.cpp): little-endian sequences of words  *)
(* without a zero word at the top.  The words of the code have 32 bits and *)
(* its bytes 8; here both are constants, so that a few words already reach *)
(* every branch, the correction of a quotient digit included, which words  *)
(* of 32 bits reach once in two thousand million divisions.                *)
(***************************************************************************)
EXTENDS Integers, SequencesExt

CONSTANTS
    WordBits,       \* bits of a word, 32 in the code
    ByteBits,       \* bits of a byte, 8 in the code
    NewtonRounds,   \* rounds that invert a word, 5 in the code
    Window,         \* exponent bits taken at a time, 4 in the code
    SmallPrimes     \* primes tried before Miller and Rabin's test

\* The code writes its five rounds for 32 bits: the first inverse is right in
\* one bit and a round doubles the bits that are.
ASSUME WordsInverted == 2 ^ NewtonRounds = WordBits
ASSUME BytesFillWords == WordBits % ByteBits = 0

W == 2 ^ WordBits
Number == Seq(Nat)
\* The words of a natural number (the code makes them of 64 bits).
RECURSIVE Words(_)
Words(n) == IF n = 0 THEN << >> ELSE <<n % W>> \o Words(n \div W)
ZeroWords(n) == [i \in 1 .. n |-> 0]
WordAt(w, i) == IF i \in DOMAIN w THEN w[i] ELSE 0
Trim(w) == SubSeq(w, 1, Max({0} \cup {i \in DOMAIN w : w[i] # 0}))

\* n words from signed digits, a carry or a borrow (-1) running upwards.
Ripple(n, Digit(_)) ==
    FoldLeft(LAMBDA s, i : LET d == Digit(i) + s.carry
                           IN [words |-> Append(s.words, d % W), carry |-> d \div W],
             [words |-> << >>, carry |-> 0], [i \in 1 .. n |-> i])

Less(a, b) == \/ Len(a) < Len(b)
              \/ /\ Len(a) = Len(b)
                 /\ \E i \in DOMAIN a : /\ a[i] < b[i]
                                        /\ \A k \in i + 1 .. Len(a) : a[k] = b[k]

Add(a, b) == LET s == Ripple(Max({Len(a), Len(b)}), LAMBDA i : WordAt(a, i) + WordAt(b, i))
             IN Trim(Append(s.words, s.carry))

Sub(a, b) == Trim(Ripple(Len(a), LAMBDA i : WordAt(a, i) - WordAt(b, i)).words)

\* r with k times b added at word "at", the carry running to the end of r.
AddMultiple(r, at, k, b) ==
    Ripple(Len(r), LAMBDA i : r[i] + (IF i > at THEN k * WordAt(b, i - at) ELSE 0)).words

Mul[a \in Number, b \in Number] ==
    Trim(FoldLeft(LAMBDA r, i : AddMultiple(r, i - 1, a[i], b),
                  ZeroWords(Len(a) + Len(b)), [i \in DOMAIN a |-> i]))

ShiftLeft(w, bits) ==
    LET ws == bits \div WordBits
        f == 2 ^ (bits % WordBits)
    IN Trim([i \in 1 .. Len(w) + ws + 1 |->
                ((WordAt(w, i - ws) * f) % W) + ((WordAt(w, i - ws - 1) * f) \div W)])

ShiftRight(w, bits) ==
    LET ws == bits \div WordBits
        bs == bits % WordBits
    IN IF ws >= Len(w) THEN << >>
       ELSE Trim([i \in 1 .. Len(w) - ws |->
                    (w[i + ws] \div 2 ^ bs) + ((WordAt(w, i + ws + 1) * 2 ^ (WordBits - bs)) % W)])

\* Division by one word, from the top word down.
DivWord(a, d) ==
    LET s == FoldRight(LAMBDA w, t : LET cur == t.rem * W + w
                                     IN [q |-> <<cur \div d>> \o t.q, rem |-> cur % d],
                       a, [q |-> << >>, rem |-> 0])
    IN [q |-> Trim(s.q), r |-> Trim(<<s.rem>>)]

\* The first guess of a quotient digit from the two top words, lowered while the
\* third word shows it too large.
QuotientGuess(u, v, j) ==
    LET n == Len(v)
        num == WordAt(u, j + n + 1) * W + WordAt(u, j + n)
        guess == IF num \div v[n] >= W THEN W - 1 ELSE num \div v[n]
        Lower[q \in 0 .. W, rem \in Nat] ==
            IF rem < W /\ q * v[n - 1] > rem * W + u[j + n - 1]
            THEN Lower[q - 1, rem + v[n]] ELSE q
    IN Lower[guess, num - guess * v[n]]

QuotientStepNoBorrow(s, v, j) ==
    LET n == Len(v)
        guess == QuotientGuess(s.u, v, j)
        left == Ripple(n + 1, LAMBDA i : s.u[j + i] - guess * WordAt(v, i))
    IN [q |-> [s.q EXCEPT ![j + 1] = guess],
        u |-> [i \in DOMAIN s.u |-> IF i \in j + 1 .. j + n + 1 THEN left.words[i - j] ELSE s.u[i]]]

\* One digit: multiply and subtract; a borrow at the top says that the digit is
\* one too large still, and the divisor is added back.
QuotientStep(s, v, j) ==
    LET n == Len(v)
        guess == QuotientGuess(s.u, v, j)
        Part == SubSeq(s.u, j + 1, j + n + 1)
        taken == Ripple(n + 1, LAMBDA i : Part[i] - guess * WordAt(v, i))
        back == Ripple(n + 1, LAMBDA i : taken.words[i] + WordAt(v, i))
        left == IF taken.carry # 0 THEN back ELSE taken
    IN [q |-> [s.q EXCEPT ![j + 1] = IF taken.carry # 0 THEN guess - 1 ELSE guess],
        u |-> [i \in DOMAIN s.u |->
                 IF i \in j + 1 .. j + n + 1 THEN left.words[i - j] ELSE s.u[i]]]

NormalizingShift(top) == CHOOSE k \in 0 .. WordBits - 1 : top * 2 ^ k \in W \div 2 .. W - 1

DivMod[a \in Number, b \in Number] ==
    IF b = << >> THEN [q |-> << >>, r |-> << >>]
    ELSE IF Less(a, b) THEN [q |-> << >>, r |-> a]
    ELSE IF Len(b) = 1 THEN DivWord(a, b[1])
    ELSE LET shift == NormalizingShift(b[Len(b)])
             u == ShiftLeft(a, shift)
             v == ShiftLeft(b, shift)
             m == Len(u) - Len(v)
             s == FoldLeft(LAMBDA t, k : QuotientStep(t, v, m - k),
                           [q |-> ZeroWords(m + 1), u |-> Append(u, 0)],
                           [k \in 1 .. m + 1 |-> k - 1])
         IN [q |-> Trim(s.q), r |-> ShiftRight(Trim(SubSeq(s.u, 1, Len(v))), shift)]

Mod(a, m) == DivMod[a, m].r
MulMod(a, b, m) == Mod(Mul[a, b], m)
AddMod(a, b, m) == LET s == Add(a, b) IN IF Less(s, m) THEN s ELSE Mod(s, m)
SubMod(a, b, m) ==
    LET x == Mod(a, m)
        y == Mod(b, m)
    IN IF Less(x, y) THEN Sub(Add(x, m), y) ELSE Sub(x, y)

(***************************************************************************)
(* Montgomery's arithmetic for an odd modulus.                             *)
(***************************************************************************)
WordInverse(n0) ==
    FoldLeft(LAMBDA inv, i : (inv * (2 - n0 * inv)) % W, 1, [i \in 1 .. NewtonRounds |-> i])

\* t / W^k modulo n, k being the words of n: a multiple of n clears a word.
Reduce(t, n) ==
    LET k == Len(n)
        nPrime == (0 - WordInverse(n[1])) % W
        wide == t \o ZeroWords(Max({0, 2 * k + 1 - Len(t)}))
        a == FoldLeft(LAMBDA r, i : AddMultiple(r, i - 1, (r[i] * nPrime) % W, n),
                      wide, [i \in 1 .. k |-> i])
        out == Trim(SubSeq(a, k + 1, Len(a)))
    IN IF Less(out, n) THEN out ELSE Sub(out, n)

BitLength(w) ==
    IF w = << >> THEN 0
    ELSE (Len(w) - 1) * WordBits + Max({k \in 1 .. WordBits : w[Len(w)] >= 2 ^ (k - 1)})

TestBit(w, i) == (WordAt(w, i \div WordBits + 1) \div 2 ^ (i % WordBits)) % 2

\* The value of the bits hi - 1 down to hi - take.
BitsOf(w, hi, take) ==
    FoldLeft(LAMBDA v, s : 2 * v + TestBit(w, hi - s), 0, [s \in 1 .. take |-> s])

\* A power modulo m: windows of the exponent from its top bit down when m is odd,
\* one bit at a time when it is even.
PowMod[base \in Number, exp \in Number, m \in Number] ==
    LET odd == m[1] % 2 = 1
        width == IF odd THEN Window ELSE 1
        Times(x, y) == IF odd THEN Reduce(Mul[x, y], m) ELSE MulMod(x, y, m)
        rr == Mod(ShiftLeft(<<1>>, 2 * Len(m) * WordBits), m)
        In(x) == IF odd THEN Reduce(Mul[Mod(x, m), rr], m) ELSE Mod(x, m)
        Table[i \in 0 .. 2 ^ Window - 1] ==
            IF i = 0 THEN In(<<1>>) ELSE Times(Table[i - 1], In(base))
        Square[x \in Number, s \in Nat] == IF s = 0 THEN x ELSE Square[Times(x, x), s - 1]
        Raise[r \in Number, hi \in Nat] ==
            IF hi = 0 THEN r
            ELSE LET take == Min({width, hi})
                     idx == BitsOf(exp, hi, take)
                 IN Raise[IF idx = 0 THEN Square[r, take] ELSE Times(Square[r, take], Table[idx]),
                          hi - take]
        result == Raise[In(<<1>>), BitLength(exp)]
    IN IF m \in {<< >>, <<1>>} THEN << >>
       ELSE IF exp = << >> THEN <<1>>
       ELSE IF odd THEN Reduce(result, m) ELSE result

\* Euclid's algorithm; the cofactors are kept as a sign and an absolute value.
RECURSIVE Gcd(_, _), Euclid(_, _, _, _)
Gcd(a, b) == IF b = << >> THEN a ELSE Gcd(b, Mod(a, b))

MinusTimes(s, q, t) ==
    LET qt == Mul[q, t.abs]
    IN IF s.neg # t.neg THEN [neg |-> s.neg, abs |-> Add(s.abs, qt)]
       ELSE IF Less(s.abs, qt) THEN [neg |-> ~s.neg, abs |-> Sub(qt, s.abs)]
       ELSE [neg |-> s.neg, abs |-> Sub(s.abs, qt)]

Euclid(r0, r1, s0, s1) ==
    IF r1 = << >> THEN [gcd |-> r0, s |-> s0]
    ELSE LET d == DivMod[r0, r1] IN Euclid(r1, d.r, s1, MinusTimes(s0, d.q, s1))

\* The inverse of a modulo m, << >> where there is none (the code returns false).
ModInverse(a, m) ==
    LET e == Euclid(Mod(a, m), m, [neg |-> FALSE, abs |-> <<1>>], [neg |-> FALSE, abs |-> << >>])
        res == Mod(e.s.abs, m)
    IN IF Mod(a, m) = << >> \/ e.gcd # <<1>> THEN << >>
       ELSE IF e.s.neg /\ res # << >> THEN Sub(m, res) ELSE res

\* The test of Miller and Rabin with one base; the code draws several.
PassesRound(n, a) ==
    LET less1 == Sub(n, <<1>>)
        twos == CHOOSE s \in 0 .. BitLength(less1) :
                  TestBit(less1, s) = 1 /\ \A k \in 0 .. s - 1 : TestBit(less1, k) = 0
        x == PowMod[a, ShiftRight(less1, twos), n]
        Squares[k \in 0 .. twos] == IF k = 0 THEN x ELSE MulMod(Squares[k - 1], Squares[k - 1], n)
    IN x = <<1>> \/ \E k \in 0 .. Max({0, twos - 1}) : Squares[k] = less1

IsProbablePrime(n, a) ==
    /\ n \notin {<< >>, <<1>>}
    /\ \/ n \in {<<2>>, <<3>>}
       \/ \E p \in SmallPrimes : n = p
       \/ /\ n[1] % 2 = 1
          /\ \A p \in SmallPrimes : Mod(n, p) # << >>
          /\ PassesRound(n, a)

(***************************************************************************)
(* Big-endian bytes.                                                       *)
(***************************************************************************)
PerWord == WordBits \div ByteBits

FromBytes(b) ==
    LET n == Len(b) - Min({i \in DOMAIN b : b[i] # 0} \cup {Len(b) + 1}) + 1
        Byte(i) == IF i < n THEN b[Len(b) - i] ELSE 0
    IN Trim([k \in 1 .. (n + PerWord - 1) \div PerWord |->
              FoldLeft(LAMBDA v, i : v * 2 ^ ByteBits + Byte(k * PerWord - i), 0,
                       [i \in 1 .. PerWord |-> i])])

ToBytes(w, minLen) ==
    LET n == (BitLength(w) + ByteBits - 1) \div ByteBits
        total == Max({n, minLen})
    IN [p \in 1 .. total |->
          LET i == total - p
          IN (WordAt(w, i \div PerWord + 1) \div 2 ^ ((i % PerWord) * ByteBits)) % 2 ^ ByteBits]

(***************************************************************************)
(* What the operations promise: the arithmetic of the integers.            *)
(***************************************************************************)
Power(x, e, m) == FoldLeft(LAMBDA r, i : (r * x) % m, 1 % m, [i \in 1 .. e |-> i])
IsPrime(n) == n > 1 /\ \A d \in 2 .. n - 1 : n % d # 0

SumsAgree(x, y) ==
    /\ Add(Words(x), Words(y)) = Words(x + y)
    /\ Mul[Words(x), Words(y)] = Words(x * y)
    /\ Less(Words(x), Words(y)) <=> x < y
    /\ x >= y => Sub(Words(x), Words(y)) = Words(x - y)

QuotientsAgree(x, y) ==
    DivMod[Words(x), Words(y)] = IF y = 0 THEN [q |-> << >>, r |-> << >>]
                                 ELSE [q |-> Words(x \div y), r |-> Words(x % y)]

ShiftsAgree(x, bits) ==
    /\ ShiftLeft(Words(x), bits) = Words(x * 2 ^ bits)
    /\ ShiftRight(Words(x), bits) = Words(x \div 2 ^ bits)
    /\ FromBytes(ToBytes(Words(x), bits)) = Words(x)
    /\ Len(ToBytes(Words(x), bits)) >= bits

ResiduesAgree(x, y, m) ==
    /\ AddMod(Words(x), Words(y), Words(m)) = Words((x + y) % m)
    /\ SubMod(Words(x), Words(y), Words(m)) = Words((x - y) % m)
    /\ PowMod[Words(x), Words(y), Words(m)] = Words(Power(x, y, m))

InversesAgree(x, m) ==
    LET inverse == {k \in 1 .. m - 1 : (k * x) % m = 1}
    IN /\ ModInverse(Words(x), Words(m)) = IF inverse = {} THEN << >> ELSE Words(Max(inverse))
       /\ Gcd(Words(x), Words(m)) = Words(Max({d \in 1 .. m : x % d = 0 /\ m % d = 0}))

\* A prime passes with every base; a composite only with a base that lies.
PrimesAgree(n, a) ==
    /\ IsPrime(n) => IsProbablePrime(Words(n), Words(a))
    /\ IsProbablePrime(Words(n), Words(a)) /\ ~IsPrime(n) => Power(a, n - 1, n) = 1

NumberAgrees(s) ==
    CASE s[1] = "sum" -> SumsAgree(s[2], s[3])
      [] s[1] = "quotient" -> QuotientsAgree(s[2], s[3])
      [] s[1] = "shift" -> ShiftsAgree(s[2], s[3])
      [] s[1] = "residue" -> ResiduesAgree(s[2], s[3], s[4])
      [] s[1] = "inverse" -> InversesAgree(s[2], s[3])
      [] s[1] = "prime" -> PrimesAgree(s[2], s[3])
===============================================================================
