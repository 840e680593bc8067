----------------------------- MODULE KeyExchange ------------------------------
(***************************************************************************)
(* The arithmetic of a login: the product the server wants factored        *)
(* (factorizePq in src/src/tg/mtproto_crypto.cpp) and the proof of the     *)
(* two-step password (src/src/crypto/srp.cpp).  Hashes and random numbers  *)
(* are inputs: what is computed from them must agree with the server       *)
(* whatever they are.                                                      *)
(***************************************************************************)
EXTENDS BigNumbers

CONSTANTS
    TrialLimit,     \* largest divisor tried one by one, 65536 in the code
    Batch,          \* differences multiplied before a gcd is taken, 128
    MaxCycle,       \* longest run looked at in one attempt, 2^20
    MaxBack         \* steps looked at again when a batch hides the factor, 2^23

NoFactors == << >>
InOrder(p, q) == IF p > q THEN <<q, p>> ELSE <<p, q>>
RECURSIVE Gcd64(_, _)
Gcd64(a, b) == IF b = 0 THEN a ELSE Gcd64(b, a % b)

\* A difference of 0 counts as 1, so that it does not wipe out the product.
Apart(x, y) == IF x = y THEN 1 ELSE IF x > y THEN x - y ELSE y - x

(***************************************************************************)
(* One attempt of Pollard and Brent with the constant c and the start x0.  *)
(* The code also counts steps up to 2^23; runs of 1, 2, 4 .. 2^20 take     *)
(* fewer than 2^22 of them, so the count never ends an attempt.            *)
(***************************************************************************)
BrentAttempt(pq, c, x0) ==
    LET F(y) == (y * y + c) % pq
        Walk[y \in Nat, n \in Nat] == IF n = 0 THEN y ELSE Walk[F(y), n - 1]
        \* Multiplies up n differences from x.
        Gather[x \in Nat, y \in Nat, acc \in Nat, n \in Nat] ==
            IF n = 0 THEN <<y, acc>>
            ELSE LET z == F(y)
                     product == (acc * Apart(x, z)) % pq
                 IN Gather[x, z, IF product = 0 THEN 1 ELSE product, n - 1]
        \* The batches of a run of r; the last component is the start of the last batch.
        Run[x \in Nat, y \in Nat, acc \in Nat, left \in Nat] ==
            LET g == Gather[x, y, acc, Min({Batch, left})]
                d == Gcd64(g[2], pq)
            IN IF d # 1 \/ left <= Batch THEN <<d, g[1], g[2], y>>
               ELSE Run[x, g[1], g[2], left - Batch]
        Cycle[y \in Nat, acc \in Nat, r \in Nat] ==
            LET run == Run[y, Walk[y, r], acc, r]
            IN IF run[1] # 1 \/ 2 * r > MaxCycle THEN <<run[1], y, run[4]>>
               ELSE Cycle[run[2], run[3], 2 * r]
        Back[x \in Nat, ys \in Nat, n \in Nat] ==
            LET z == F(ys)
                d == Gcd64(Apart(x, z), pq)
            IN IF d # 1 \/ n = 1 THEN d ELSE Back[x, z, n - 1]
        found == Cycle[x0, 1, 1]
        d == IF found[1] = pq THEN Back[found[2], found[3], MaxBack] ELSE found[1]
    IN IF d \in {1, pq} THEN NoFactors ELSE InOrder(d, pq \div d)

FactorizePq(pq, c, x0) ==
    LET divisors == {d \in 2 .. TrialLimit : /\ d = 2 \/ d % 2 = 1
                                             /\ d * d <= pq /\ pq % d = 0}
    IN IF pq < 4 THEN NoFactors
       ELSE IF divisors # {} THEN InOrder(Min(divisors), pq \div Min(divisors))
       ELSE BrentAttempt(pq, c, x0)

\* The generators accepted for the safe prime p.
GoodGenerator(p, g) ==
    LET Leaves(m, rest) == Mod(p, Words(m)) \in {Words(r) : r \in rest}
    IN CASE g = 2 -> Leaves(8, {7})
         [] g = 3 -> Leaves(3, {2})
         [] g = 4 -> TRUE
         [] g = 5 -> Leaves(5, {1, 4})
         [] g = 6 -> Leaves(24, {19, 23})
         [] g = 7 -> Leaves(7, {3, 5, 6})
         [] OTHER -> FALSE

\* srpCompute: << >> when the values received or drawn are refused.
SrpSecret(p, g, B, k, x, a, u) ==
    LET pMinus1 == Sub(p, <<1>>)
        Proper(n) == Less(<<1>>, n) /\ Less(n, pMinus1)
        v == PowMod[g, x, p]
        t == SubMod(B, MulMod(k, v, p), p)
    IN IF ~Proper(B) \/ ~Proper(PowMod[g, a, p]) \/ u = << >> THEN << >>
       ELSE PowMod[t, Add(a, Mul[u, x]), p]

(***************************************************************************)
(* What they promise.                                                      *)
(***************************************************************************)
FactorsAgree(pq, c, x0) ==
    LET f == FactorizePq(pq, c, x0)
    IN /\ f # NoFactors => f[1] > 1 /\ f[1] <= f[2] /\ f[1] * f[2] = pq
       /\ IsPrime(pq) => f = NoFactors
       /\ pq >= 4 /\ ~IsPrime(pq) => \E k \in 1 .. 6, y \in 0 .. 3 : FactorizePq(pq, k, y) # NoFactors

\* An accepted generator spans the squares modulo the safe prime p, of which it
\* is one itself.
GeneratorsAgree(p) ==
    \A g \in 2 .. 7 :
        GoodGenerator(Words(p), g) <=> \E y \in 1 .. p - 1 : (y * y) % p = g % p

\* The server holds v = g^x and answers B = k v + g^b: both sides find one secret.
SecretsAgree(p, g, k, x, a, b, u) ==
    LET v == Power(g, x, p)
        B == (k * v + Power(g, b, p)) % p
        server == Power(Power(g, a, p) * Power(v, u, p), b, p)
        client == SrpSecret(Words(p), Words(g), Words(B), Words(k), Words(x), Words(a), Words(u))
    IN client = << >> \/ client = Words(server)

KeyAgrees(s) ==
    CASE s[1] = "factors" -> FactorsAgree(s[2], s[3], s[4])
      [] s[1] = "generator" -> GeneratorsAgree(s[2])
      [] s[1] = "secret" -> SecretsAgree(s[2], s[3], s[4], s[5], s[6], s[7], s[8])
===============================================================================
