----------------------------- MODULE ListProofs -----------------------------
(***************************************************************************)
(* What the operators of Lists return, for sequences of any length.        *)
(* Induction is on sets of numbers: one that is not empty has a least      *)
(* element, so one that has 0 and with each number the next has them all.  *)
(***************************************************************************)
EXTENDS Lists, SequenceTheorems, WellFoundedInduction, TLAPS

-----------------------------------------------------------------------------
(* Induction *)

\* A set of numbers that is not empty has a least one.
LEMMA LeastNat ==
    ASSUME NEW T \in SUBSET Nat, T # {}
    PROVE  \E n \in T : \A m \in T : n <= m
<1>1. \E x \in T : \A y \in T : ~ (<<y, x>> \in OpToRel(<, Nat))
  BY NatLessThanWellFounded, WFMin
<1>2. ASSUME NEW x \in T, NEW y \in T, ~ (<<y, x>> \in OpToRel(<, Nat))  PROVE x <= y
  BY <1>2 DEF OpToRel
<1> QED BY <1>1, <1>2

\* Whatever holds of 0, and of n + 1 when it does of n, holds up to N.
LEMMA UpTo ==
    ASSUME NEW N \in Nat, NEW G, 0 \in G, \A n \in 0..N - 1 : n \in G => n + 1 \in G
    PROVE  \A n \in 0..N : n \in G
<1> DEFINE Bad == {n \in 0..N : n \notin G}
<1>1. SUFFICES ASSUME Bad # {} PROVE FALSE
  OBVIOUS
<1>2. PICK n \in Bad : \A m \in Bad : n <= m
  <2>1. Bad \in SUBSET Nat
    OBVIOUS
  <2> HIDE DEF Bad
  <2> QED BY <1>1, <2>1, LeastNat
<1>3. n \in 0..N /\ n # 0
  OBVIOUS
<1>4. n - 1 \in 0..N - 1 /\ n - 1 \in 0..N /\ (n - 1) + 1 = n /\ ~(n <= n - 1)
  BY <1>3
<1>5. n - 1 \in G
  BY <1>2, <1>4
<1> QED BY <1>4, <1>5

\* A function can be defined by recursion up to N.
Follows(g, N, V, first, step) ==
    g \in [0..N -> V] /\ g[0] = first /\ \A i \in 1..N : g[i] = step[<<g[i - 1], i>>]

LEMMA Recursion ==
    ASSUME NEW N \in Nat, NEW V, NEW first \in V, NEW step \in [V \X (1..N) -> V]
    PROVE  \E g : Follows(g, N, V, first, step)
<1> DEFINE Is(n, g) == g \in [0..n -> V] /\ g[0] = first /\ \A i \in 1..n : g[i] = step[<<g[i - 1], i>>]
           G == {n \in 0..N : \E g : Is(n, g)}
<1>1. 0 \in G
  <2>1. Is(0, [i \in 0..0 |-> first])
    OBVIOUS
  <2>2. 0 \in 0..N
    OBVIOUS
  <2> HIDE DEF Is
  <2> QED BY <2>1, <2>2
<1>2. ASSUME NEW n \in 0..N - 1, n \in G PROVE n + 1 \in G
  <2>1. PICK g : Is(n, g)
    <3> HIDE DEF Is
    <3> QED BY <1>2
  <2>2. n + 1 \in 0..N /\ n + 1 \in 1..N /\ n \in 0..n
    OBVIOUS
  <2>3. step[<<g[n], n + 1>>] \in V
    BY <2>1, <2>2
  <2> DEFINE h == [i \in 0..n + 1 |-> IF i = n + 1 THEN step[<<g[n], n + 1>>] ELSE g[i]]
  <2>4. h \in [0..n + 1 -> V] /\ h[0] = first
    <3>1. \A i \in 0..n + 1 : i # n + 1 => i \in 0..n
      OBVIOUS
    <3> QED BY <2>1, <2>3, <3>1
  <2>5. ASSUME NEW i \in 1..n + 1 PROVE h[i] = step[<<h[i - 1], i>>]
    <3>1. i \in 0..n + 1 /\ i - 1 \in 0..n + 1 /\ i - 1 # n + 1
      OBVIOUS
    <3>2. CASE i = n + 1
      <4>1. i - 1 = n
        BY <3>2
      <4>2. h[i - 1] = g[n] /\ h[i] = step[<<g[n], n + 1>>]
        BY <3>1, <3>2, <4>1
      <4> HIDE DEF h
      <4> QED BY <3>2, <4>2
    <3>3. CASE i # n + 1
      <4>1. i \in 1..n
        BY <3>3
      <4>2. h[i] = g[i] /\ h[i - 1] = g[i - 1] /\ g[i] = step[<<g[i - 1], i>>]
        BY <2>1, <3>1, <3>3, <4>1
      <4> HIDE DEF h
      <4> QED BY <4>2
    <3> QED BY <3>2, <3>3
  <2> HIDE DEF h
  <2>6. Is(n + 1, h)
    BY <2>4, <2>5
  <2> HIDE DEF Is
  <2> QED BY <2>2, <2>6
<1>3. N \in G
  <2> HIDE DEF G
  <2>1. N \in 0..N
    OBVIOUS
  <2> QED BY <1>1, <1>2, <2>1, UpTo
<1>4. PICK g : Is(N, g)
  <2> HIDE DEF Is
  <2> QED BY <1>3
<1>5. Follows(g, N, V, first, step)
  BY <1>4 DEF Follows
<1> QED BY <1>5

-----------------------------------------------------------------------------
(* Sums *)

\* g[n] is the sum of the first n numbers of s.
Sums(s, g) == g \in [0..Len(s) -> Nat] /\ g[0] = 0 /\ \A i \in 1..Len(s) : g[i] = g[i - 1] + s[i]

LEMMA SumIs ==
    ASSUME NEW s \in Seq(Nat), NEW g, Sums(s, g)
    PROVE  Sum(s) = g[Len(s)]
<1> DEFINE N == Len(s)
           Is(f) == f = [i \in 0..N |-> IF i = 0 THEN 0 ELSE f[i - 1] + s[i]]
           f == CHOOSE h : Is(h)
<1>1. N \in Nat
  OBVIOUS
<1>2. Sum(s) = f[N]
  BY DEF Sum
<1>3. g \in [0..N -> Nat] /\ g[0] = 0 /\ \A i \in 1..N : g[i] = g[i - 1] + s[i]
  BY DEF Sums
<1> HIDE DEF N
<1>4. Is(g)
  <2>1. \A i \in 0..N : g[i] = IF i = 0 THEN 0 ELSE g[i - 1] + s[i]
    BY <1>1, <1>3
  <2> QED BY <1>3, <2>1
<1>5. Is(f)
  <2> HIDE DEF Is
  <2> QED BY <1>4
<1> HIDE DEF f
<1>6. \A i \in 0..N : f[i] = IF i = 0 THEN 0 ELSE f[i - 1] + s[i]
  BY <1>5
<1> HIDE DEF Is
<1> DEFINE G == {n \in 0..N : f[n] = g[n]}
<1>7. 0 \in G
  BY <1>1, <1>3, <1>6
<1>8. ASSUME NEW n \in 0..N - 1, n \in G PROVE n + 1 \in G
  <2>1. n + 1 \in 0..N /\ n + 1 \in 1..N /\ n + 1 # 0 /\ (n + 1) - 1 = n
    BY <1>1
  <2>2. f[n + 1] = f[n] + s[n + 1] /\ g[n + 1] = g[n] + s[n + 1]
    BY <1>3, <1>6, <2>1
  <2> QED BY <1>8, <2>1, <2>2
<1>9. N \in G
  <2> HIDE DEF G
  <2>1. N \in 0..N
    BY <1>1
  <2> QED BY <1>1, <1>7, <1>8, <2>1, UpTo
<1> QED BY <1>2, <1>9 DEF N

LEMMA SumsExist ==
    ASSUME NEW s \in Seq(Nat)
    PROVE  \E g : Sums(s, g)
<1> DEFINE N == Len(s)
           step == [p \in Nat \X (1..N) |-> p[1] + s[p[2]]]
<1>1. N \in Nat /\ 0 \in Nat /\ \A i \in 1..N : s[i] \in Nat
  OBVIOUS
<1>2. step \in [Nat \X (1..N) -> Nat]
  <2> HIDE DEF N
  <2> QED BY <1>1
<1>3. \A n \in Nat, i \in 1..N : step[<<n, i>>] = n + s[i]
  <2> HIDE DEF N
  <2> QED OBVIOUS
<1> HIDE DEF N, step
<1>4. PICK g \in [0..N -> Nat] : g[0] = 0 /\ \A i \in 1..N : g[i] = step[<<g[i - 1], i>>]
  <2>1. PICK g : Follows(g, N, Nat, 0, step)
    BY <1>1, <1>2, Recursion, Zenon
  <2> QED BY <2>1 DEF Follows
<1>5. ASSUME NEW i \in 1..N PROVE g[i] = g[i - 1] + s[i]
  <2>1. i - 1 \in 0..N
    BY <1>1
  <2> QED BY <1>3, <1>4, <2>1
<1> QED BY <1>4, <1>5 DEF Sums, N

\* A sum is a number, none less than any of what it is the sum of.
LEMMA SumNat ==
    ASSUME NEW s \in Seq(Nat)
    PROVE  Sum(s) \in Nat
<1>1. PICK g : Sums(s, g)
  BY SumsExist
<1>2. Len(s) \in 0..Len(s)
  OBVIOUS
<1> QED BY <1>1, <1>2, SumIs DEF Sums

LEMMA SumEmpty == Sum(<<>>) = 0
<1> DEFINE g == [i \in 0..0 |-> 0]
<1>1. <<>> \in Seq(Nat) /\ Len(<<>>) = 0
  OBVIOUS
<1>2. Sums(<<>>, g)
  BY <1>1 DEF Sums
<1> HIDE DEF g
<1> QED BY <1>1, <1>2, SumIs DEF Sums

LEMMA SumAppend ==
    ASSUME NEW s \in Seq(Nat), NEW x \in Nat
    PROVE  Sum(Append(s, x)) = Sum(s) + x
<1> DEFINE N == Len(s)
<1>1. PICK g : Sums(s, g)
  BY SumsExist
<1>2. PICK t : t = Append(s, x)
  OBVIOUS
<1>3. t \in Seq(Nat) /\ Len(t) = N + 1 /\ t[N + 1] = x /\ N \in Nat /\ \A i \in 1..N : t[i] = s[i]
  BY <1>2, AppendProperties
<1>4. g \in [0..N -> Nat] /\ g[0] = 0 /\ (\A i \in 1..N : g[i] = g[i - 1] + s[i]) /\ Sum(s) = g[N]
  BY <1>1, SumIs DEF Sums
<1> HIDE DEF N
<1> DEFINE h == [i \in 0..N + 1 |-> IF i = N + 1 THEN g[N] + x ELSE g[i]]
<1>5. /\ h \in [0..N + 1 -> Nat] /\ h[0] = 0 /\ h[N + 1] = g[N] + x
      /\ \A i \in 0..N : h[i] = g[i]
  <2>1. \A i \in 0..N + 1 : i # N + 1 => i \in 0..N
    BY <1>3
  <2>2. N \in 0..N /\ N + 1 \in 0..N + 1 /\ \A i \in 0..N : i \in 0..N + 1 /\ i # N + 1
    BY <1>3
  <2> QED BY <1>3, <1>4, <2>1, <2>2
<1> HIDE DEF h
<1>6. ASSUME NEW i \in 1..N + 1 PROVE h[i] = h[i - 1] + t[i]
  <2>1. CASE i = N + 1
    <3>1. i - 1 = N /\ N \in 0..N
      BY <1>3, <2>1
    <3> QED BY <1>3, <1>5, <2>1, <3>1
  <2>2. CASE i # N + 1
    <3>1. i \in 1..N /\ i \in 0..N /\ i - 1 \in 0..N
      BY <1>3, <2>2
    <3> QED BY <1>3, <1>4, <1>5, <3>1
  <2> QED BY <2>1, <2>2
<1>7. Sums(t, h)
  BY <1>3, <1>5, <1>6 DEF Sums
<1> QED BY <1>2, <1>3, <1>4, <1>5, <1>7, SumIs

LEMMA SumCons ==
    ASSUME NEW s \in Seq(Nat), NEW x \in Nat
    PROVE  Sum(<<x>> \o s) = x + Sum(s)
<1> DEFINE N == Len(s)
<1>1. PICK g : Sums(s, g)
  BY SumsExist
<1>2. PICK t : t = <<x>> \o s
  OBVIOUS
<1>3. t \in Seq(Nat) /\ Len(t) = N + 1 /\ t[1] = x /\ N \in Nat /\ \A i \in 1..N : t[i + 1] = s[i]
  <2>1. <<x>> \in Seq(Nat) /\ Len(<<x>>) = 1 /\ <<x>>[1] = x
    OBVIOUS
  <2> QED BY <1>2, <2>1
<1>4. g \in [0..N -> Nat] /\ g[0] = 0 /\ (\A i \in 1..N : g[i] = g[i - 1] + s[i]) /\ Sum(s) = g[N]
  BY <1>1, SumIs DEF Sums
<1> HIDE DEF N
<1> DEFINE h == [i \in 0..N + 1 |-> IF i = 0 THEN 0 ELSE x + g[i - 1]]
<1>5. h \in [0..N + 1 -> Nat] /\ h[0] = 0 /\ \A i \in 1..N + 1 : h[i] = x + g[i - 1]
  <2>1. \A i \in 0..N + 1 : i # 0 => i - 1 \in 0..N
    BY <1>3
  <2> QED BY <1>3, <1>4, <2>1
<1> HIDE DEF h
<1>6. ASSUME NEW i \in 1..N + 1 PROVE h[i] = h[i - 1] + t[i]
  <2>1. CASE i = 1
    BY <1>3, <1>4, <1>5, <2>1
  <2>2. CASE i # 1
    <3>1. i - 1 \in 1..N /\ i - 1 \in 1..N + 1 /\ (i - 1) + 1 = i /\ (i - 1) - 1 \in 0..N /\ i - 1 \in 0..N
      BY <1>3, <2>2
    <3>2. h[i] = x + g[i - 1] /\ h[i - 1] = x + g[(i - 1) - 1] /\ t[i] = s[i - 1]
          /\ g[i - 1] = g[(i - 1) - 1] + s[i - 1]
      <4>1. t[(i - 1) + 1] = s[i - 1]
        BY <1>3, <3>1
      <4> QED BY <1>4, <1>5, <3>1, <4>1
    <3>3. g[(i - 1) - 1] \in Nat /\ g[i - 1] \in Nat
      BY <1>4, <3>1
    <3>4. t[i] \in Nat
      BY <1>3
    <3> QED BY <3>2, <3>3, <3>4
  <2> QED BY <2>1, <2>2
<1>7. Sums(t, h)
  BY <1>3, <1>5, <1>6 DEF Sums
<1>8. h[N + 1] = x + g[N]
  BY <1>3, <1>5
<1> QED BY <1>2, <1>3, <1>4, <1>7, <1>8, SumIs

-----------------------------------------------------------------------------
(* Elements that are kept *)

\* f[n] is what is kept of the first n elements of q.
Sifted(q, S, T, f) ==
    /\ f \in [0..Len(q) -> Seq(T)] /\ f[0] = <<>>
    /\ \A i \in 1..Len(q) : f[i] = IF q[i] \in S THEN Append(f[i - 1], q[i]) ELSE f[i - 1]

LEMMA KeptExists ==
    ASSUME NEW T, NEW q \in Seq(T), NEW S
    PROVE  \E f : Sifted(q, S, T, f)
<1> DEFINE N == Len(q)
           V == Seq(T)
           step == [p \in V \X (1..N) |-> IF q[p[2]] \in S THEN Append(p[1], q[p[2]]) ELSE p[1]]
<1>1. N \in Nat /\ <<>> \in V /\ \A i \in 1..N : q[i] \in T
  OBVIOUS
<1>2. \A p \in V, i \in 1..N : Append(p, q[i]) \in V
  BY <1>1, AppendProperties
<1> HIDE DEF N, V
<1>3. step \in [V \X (1..N) -> V]
  BY <1>2
<1>4. \A p \in V, i \in 1..N : step[<<p, i>>] = IF q[i] \in S THEN Append(p, q[i]) ELSE p
  OBVIOUS
<1> HIDE DEF step
<1>5. PICK f : Follows(f, N, V, <<>>, step)
  BY <1>1, <1>3, Recursion, Zenon
<1>6. ASSUME NEW i \in 1..N PROVE f[i] = IF q[i] \in S THEN Append(f[i - 1], q[i]) ELSE f[i - 1]
  <2>1. i - 1 \in 0..N
    BY <1>1
  <2> QED BY <1>4, <1>5, <2>1 DEF Follows
<1> QED BY <1>5, <1>6 DEF Sifted, Follows, N, V

LEMMA ThoseKept ==
    ASSUME NEW T, NEW q \in Seq(T), NEW S
    PROVE  \E f : Sifted(q, S, T, f) /\ Those(q, S) = f[Len(q)]
<1> DEFINE N == Len(q)
           Is(f) == f = [i \in 0..N |-> IF i = 0 THEN <<>>
                                        ELSE IF q[i] \in S THEN Append(f[i - 1], q[i]) ELSE f[i - 1]]
           f == CHOOSE h : Is(h)
<1>1. N \in Nat
  OBVIOUS
<1>2. Those(q, S) = f[N]
  BY DEF Those
<1>3. PICK g : Sifted(q, S, T, g)
  BY KeptExists
<1>4. g \in [0..N -> Seq(T)] /\ g[0] = <<>>
      /\ \A i \in 1..N : g[i] = IF q[i] \in S THEN Append(g[i - 1], q[i]) ELSE g[i - 1]
  BY <1>3 DEF Sifted
<1> HIDE DEF N
<1>5. Is(g)
  <2>1. \A i \in 0..N : i # 0 => i \in 1..N
    BY <1>1
  <2>2. \A i \in 0..N : g[i] = IF i = 0 THEN <<>>
                               ELSE IF q[i] \in S THEN Append(g[i - 1], q[i]) ELSE g[i - 1]
    BY <1>4, <2>1
  <2> QED BY <1>4, <2>2
<1>6. Is(f)
  <2> HIDE DEF Is
  <2> QED BY <1>5
<1> HIDE DEF f
<1>7. \A i \in 0..N : f[i] = IF i = 0 THEN <<>>
                             ELSE IF q[i] \in S THEN Append(f[i - 1], q[i]) ELSE f[i - 1]
  BY <1>6
<1> HIDE DEF Is
<1> DEFINE G == {n \in 0..N : f[n] = g[n]}
<1>8. 0 \in G
  <2>1. 0 \in 0..N
    BY <1>1
  <2>2. f[0] = <<>>
    BY ONLY <2>1, <1>7
  <2> QED BY <1>4, <2>1, <2>2
<1>9. ASSUME NEW n \in 0..N - 1, n \in G PROVE n + 1 \in G
  <2>1. n + 1 \in 0..N /\ n + 1 \in 1..N /\ n + 1 # 0 /\ (n + 1) - 1 = n
    BY <1>1
  <2>2. /\ f[n + 1] = IF q[n + 1] \in S THEN Append(f[n], q[n + 1]) ELSE f[n]
        /\ g[n + 1] = IF q[n + 1] \in S THEN Append(g[n], q[n + 1]) ELSE g[n]
    BY <1>4, <1>7, <2>1
  <2>3. f[n] = g[n]
    BY <1>9
  <2>4. f[n + 1] = g[n + 1]
    BY <2>2, <2>3
  <2> QED BY <2>1, <2>4
<1>10. N \in G
  <2> HIDE DEF G
  <2>1. N \in 0..N
    BY <1>1
  <2> QED BY <1>1, <1>8, <1>9, <2>1, UpTo
<1>11. Those(q, S) = g[N]
  BY <1>2, <1>10
<1> QED BY <1>3, <1>11 DEF N

\* What is appended comes to the elements, and to no other place.
LEMMA AppendElems ==
    ASSUME NEW T, NEW p \in Seq(T), NEW x \in T
    PROVE  /\ Elems(Append(p, x)) = Elems(p) \cup {x} /\ Append(p, x) \in Seq(T)
           /\ Len(Append(p, x)) = Len(p) + 1 /\ Append(p, x)[Len(p) + 1] = x
           /\ \A i \in 1..Len(p) : Append(p, x)[i] = p[i]
<1> DEFINE n == Len(p)
<1>1. PICK r : r = Append(p, x)
  OBVIOUS
<1>2. r \in Seq(T) /\ Len(r) = n + 1 /\ r[n + 1] = x /\ \A i \in 1..n : r[i] = p[i]
  BY <1>1, AppendProperties
<1>3. DOMAIN r = 1..n + 1 /\ DOMAIN p = 1..n /\ n \in Nat
  BY <1>2
<1> HIDE DEF n
<1>4. n + 1 \in 1..n + 1 /\ (\A i \in 1..n : i \in 1..n + 1) /\ \A i \in 1..n + 1 : i # n + 1 => i \in 1..n
  BY <1>3
<1>5. ASSUME NEW y \in Elems(r) PROVE y \in Elems(p) \cup {x}
  <2>1. PICK i \in 1..n + 1 : y = r[i]
    BY <1>3 DEF Elems
  <2>2. i = n + 1 \/ i \in 1..n
    BY <1>4
  <2>3. r[i] = x \/ r[i] \in Elems(p)
    BY <1>2, <1>3, <2>2 DEF Elems
  <2> QED BY <2>1, <2>3
<1>6. \A i \in 1..n : p[i] \in Elems(r)
  BY <1>2, <1>3, <1>4 DEF Elems
<1>7. x \in Elems(r)
  BY <1>2, <1>3, <1>4 DEF Elems
<1>8. Elems(p) \subseteq Elems(r)
  BY <1>3, <1>6 DEF Elems
<1> QED BY <1>1, <1>2, <1>5, <1>7, <1>8 DEF n

\* The elements that are kept are those that are in the set.
LEMMA ThoseAre ==
    ASSUME NEW T, NEW q \in Seq(T), NEW S
    PROVE  Those(q, S) \in Seq(T) /\ Elems(Those(q, S)) = Elems(q) \cap S
<1> DEFINE N == Len(q)
<1>1. PICK f : Sifted(q, S, T, f) /\ Those(q, S) = f[N]
  BY ThoseKept
<1>2. /\ f \in [0..N -> Seq(T)] /\ f[0] = <<>> /\ N \in Nat /\ DOMAIN q = 1..N
      /\ (\A i \in 1..N : f[i] = IF q[i] \in S THEN Append(f[i - 1], q[i]) ELSE f[i - 1])
      /\ \A i \in 1..N : q[i] \in T
  BY <1>1 DEF Sifted
<1> HIDE DEF N
<1> DEFINE G == {n \in 0..N : Elems(f[n]) = {q[j] : j \in 1..n} \cap S}
<1>3. 0 \in G
  <2>1. Elems(<<>>) = {}
    BY DEF Elems
  <2>2. {q[j] : j \in 1..0} = {} /\ 0 \in 0..N
    BY <1>2
  <2> QED BY <1>2, <2>1, <2>2
<1>4. ASSUME NEW n \in 0..N - 1, n \in G PROVE n + 1 \in G
  <2>0. N \in Nat /\ n \in 0..N - 1
    BY <1>2
  <2>1. n + 1 \in 0..N /\ n + 1 \in 1..N /\ (n + 1) - 1 = n /\ n \in 0..N
    BY ONLY <2>0
  <2>2. f[n + 1] = IF q[n + 1] \in S THEN Append(f[n], q[n + 1]) ELSE f[n]
    BY <1>2, <2>1
  <2>3. {q[j] : j \in 1..n + 1} = {q[j] : j \in 1..n} \cup {q[n + 1]}
    <3>1. \A j : j \in 1..n + 1 <=> j \in 1..n \/ j = n + 1
      BY <1>2
    <3> QED BY ONLY <3>1
  <2>4. f[n] \in Seq(T) /\ q[n + 1] \in T /\ Elems(f[n]) = {q[j] : j \in 1..n} \cap S
    BY <1>2, <1>4, <2>1
  <2>5. CASE q[n + 1] \in S
    <3>1. Elems(f[n + 1]) = Elems(f[n]) \cup {q[n + 1]}
      BY <2>2, <2>4, <2>5, AppendElems
    <3> QED BY <2>1, <2>3, <2>4, <2>5, <3>1
  <2>6. CASE q[n + 1] \notin S
    <3>1. Elems(f[n + 1]) = Elems(f[n])
      BY <2>2, <2>6
    <3> QED BY <2>1, <2>3, <2>4, <2>6, <3>1
  <2> QED BY <2>5, <2>6
<1>5. N \in G
  <2> HIDE DEF G
  <2>1. N \in 0..N
    BY <1>2
  <2> QED BY <1>2, <1>3, <1>4, <2>1, UpTo
<1>6. Elems(f[N]) = Elems(q) \cap S
  BY <1>2, <1>5 DEF Elems
<1>7. f[N] \in Seq(T)
  BY <1>2
<1> QED BY <1>1, <1>6, <1>7

\* No two elements of q have the same value of K.
Distinct(q, K) == \A i, j \in DOMAIN q : K[q[i]] = K[q[j]] => i = j

\* What is kept is as distinct as the elements are.
LEMMA ThoseDistinct ==
    ASSUME NEW T, NEW q \in Seq(T), NEW S, NEW K, Distinct(q, K)
    PROVE  Distinct(Those(q, S), K)
<1> DEFINE N == Len(q)
<1>1. PICK f : Sifted(q, S, T, f) /\ Those(q, S) = f[N]
  BY ThoseKept
<1>2. /\ f \in [0..N -> Seq(T)] /\ f[0] = <<>> /\ N \in Nat
      /\ (\A i \in 1..N : f[i] = IF q[i] \in S THEN Append(f[i - 1], q[i]) ELSE f[i - 1])
      /\ \A i \in 1..N : q[i] \in T
  BY <1>1 DEF Sifted
<1>3. \A i, j \in 1..N : K[q[i]] = K[q[j]] => i = j
  BY DEF Distinct
<1> HIDE DEF N
<1> DEFINE G == {n \in 0..N : /\ Distinct(f[n], K)
                              /\ \A x \in Elems(f[n]) : \E j \in 1..n : x = q[j]}
<1>4. 0 \in G
  <2>1. Elems(<<>>) = {} /\ Distinct(<<>>, K)
    BY DEF Elems, Distinct
  <2> QED BY <1>2, <2>1
<1>5. ASSUME NEW n \in 0..N - 1, n \in G PROVE n + 1 \in G
  <2>1. n + 1 \in 0..N /\ n + 1 \in 1..N /\ (n + 1) - 1 = n /\ n \in 0..N
        /\ \A j \in 1..n : j \in 1..n + 1 /\ j # n + 1 /\ j \in 1..N
    BY <1>2
  <2>2. f[n + 1] = IF q[n + 1] \in S THEN Append(f[n], q[n + 1]) ELSE f[n]
    BY <1>2, <2>1
  <2>3. f[n] \in Seq(T) /\ q[n + 1] \in T /\ Distinct(f[n], K) /\ \A x \in Elems(f[n]) : \E j \in 1..n : x = q[j]
    BY <1>2, <1>5, <2>1
  <2>4. CASE q[n + 1] \in S
    <3>1. PICK p, r : p = f[n] /\ r = f[n + 1]
      OBVIOUS
    <3>2. /\ Elems(r) = Elems(p) \cup {q[n + 1]} /\ Len(r) = Len(p) + 1 /\ r[Len(p) + 1] = q[n + 1]
          /\ r \in Seq(T) /\ p \in Seq(T) /\ \A i \in 1..Len(p) : r[i] = p[i]
      BY <2>2, <2>3, <2>4, <3>1, AppendElems
    <3>3. DOMAIN r = 1..Len(p) + 1 /\ DOMAIN p = 1..Len(p) /\ Len(p) \in Nat
      <4>1. DOMAIN r = 1..Len(r) /\ DOMAIN p = 1..Len(p) /\ Len(p) \in Nat
        BY ONLY <3>2
      <4> QED BY ONLY <3>2, <4>1
    <3>4. ASSUME NEW i \in 1..Len(p) PROVE K[r[i]] # K[q[n + 1]]
      <4>1. r[i] \in Elems(p)
        BY <3>2, <3>3 DEF Elems
      <4>2. PICK j \in 1..n : r[i] = q[j]
        BY <2>3, <3>1, <4>1
      <4> QED BY <1>3, <2>1, <4>2
    <3>5. \A i, j \in 1..Len(p) : K[r[i]] = K[r[j]] => i = j
      <4>1. \A i, j \in 1..Len(p) : K[p[i]] = K[p[j]] => i = j
        <5>1. Distinct(p, K)
          BY <2>3, <3>1
        <5> QED BY ONLY <3>3, <5>1 DEF Distinct
      <4> QED BY ONLY <3>2, <4>1
    <3>6. \A i \in DOMAIN r : i = Len(p) + 1 \/ i \in 1..Len(p)
      BY ONLY <3>3
    <3>7. Distinct(r, K)
      <4> SUFFICES ASSUME NEW i \in DOMAIN r, NEW j \in DOMAIN r, K[r[i]] = K[r[j]] PROVE i = j
        BY DEF Distinct
      <4> QED BY <3>2, <3>4, <3>5, <3>6
    <3>8. \A x \in Elems(r) : \E j \in 1..n + 1 : x = q[j]
      <4> SUFFICES ASSUME NEW x \in Elems(r) PROVE \E j \in 1..n + 1 : x = q[j]
        OBVIOUS
      <4>1. CASE x = q[n + 1]
        <5>1. n + 1 \in 1..n + 1
          BY <1>2
        <5> QED BY <4>1, <5>1
      <4>2. CASE x \in Elems(p)
        BY <2>1, <2>3, <3>1, <4>2
      <4> QED BY <3>2, <4>1, <4>2
    <3> QED BY <2>1, <3>1, <3>7, <3>8
  <2>5. CASE q[n + 1] \notin S
    <3>1. f[n + 1] = f[n]
      BY <2>2, <2>5
    <3> QED BY <2>1, <2>3, <3>1
  <2> QED BY <2>4, <2>5
<1>6. N \in G
  <2> HIDE DEF G
  <2>1. N \in 0..N
    BY <1>2
  <2> QED BY <1>2, <1>4, <1>5, <2>1, UpTo
<1> QED BY <1>1, <1>6

-----------------------------------------------------------------------------
(* Weights *)

\* The sum of what W makes of the elements.
Weights(q, W) == [k \in DOMAIN q |-> W[q[k]]]
Weight(q, W)  == Sum(Weights(q, W))

LEMMA Weighed ==
    ASSUME NEW T, NEW W \in [T -> Nat], NEW q \in Seq(T)
    PROVE  Weights(q, W) \in Seq(Nat) /\ Len(Weights(q, W)) = Len(q) /\ Weight(q, W) \in Nat
<1> DEFINE s == [k \in DOMAIN q |-> W[q[k]]]
<1>1. DOMAIN q = 1..Len(q) /\ Len(q) \in Nat /\ \A k \in 1..Len(q) : q[k] \in T
  OBVIOUS
<1>2. s \in [1..Len(q) -> Nat]
  BY <1>1
<1> HIDE DEF s
<1>3. s \in Seq(Nat) /\ Len(s) = Len(q)
  <2>1. DOMAIN s = 1..Len(q)
    BY <1>2
  <2> QED BY <1>1, <1>2, <2>1
<1> QED BY <1>3, SumNat DEF Weight, Weights, s

LEMMA WeightEmpty == ASSUME NEW W PROVE Weight(<<>>, W) = 0
<1>1. [k \in DOMAIN <<>> |-> W[<<>>[k]]] = <<>>
  OBVIOUS
<1> QED BY <1>1, SumEmpty DEF Weight, Weights

LEMMA WeightAppend ==
    ASSUME NEW T, NEW W \in [T -> Nat], NEW q \in Seq(T), NEW x \in T
    PROVE  Weight(Append(q, x), W) = Weight(q, W) + W[x]
<1>1. PICK r : r = Append(q, x)
  OBVIOUS
<1>2. PICK s : s = Weights(q, W) /\ s \in Seq(Nat) /\ Len(s) = Len(q)
  BY Weighed, Zenon
<1>3. r \in Seq(T) /\ Len(r) = Len(q) + 1 /\ r[Len(q) + 1] = x /\ \A i \in 1..Len(q) : r[i] = q[i]
  BY <1>1, AppendProperties
<1>4. PICK t : t = Weights(r, W) /\ t \in Seq(Nat) /\ Len(t) = Len(r)
  BY <1>3, Weighed, Zenon
<1>5. W[x] \in Nat
  OBVIOUS
<1>6. PICK u : u = Append(s, W[x])
  OBVIOUS
<1>7. u \in Seq(Nat) /\ Len(u) = Len(q) + 1 /\ u[Len(q) + 1] = W[x] /\ \A i \in 1..Len(q) : u[i] = s[i]
  BY <1>2, <1>5, <1>6, AppendProperties
<1>8. DOMAIN r = 1..Len(q) + 1 /\ DOMAIN q = 1..Len(q) /\ Len(q) \in Nat
  <2>1. DOMAIN r = 1..Len(r) /\ DOMAIN q = 1..Len(q) /\ Len(q) \in Nat
    BY <1>3
  <2> QED BY <1>3, <2>1
<1>9. ASSUME NEW i \in 1..Len(q) + 1 PROVE t[i] = u[i]
  <2>1. i = Len(q) + 1 \/ i \in 1..Len(q)
    BY <1>8
  <2>2. t[i] = W[r[i]]
    BY <1>4, <1>8 DEF Weights
  <2>3. CASE i = Len(q) + 1
    BY <1>3, <1>7, <2>2, <2>3
  <2>4. CASE i \in 1..Len(q)
    BY <1>2, <1>3, <1>7, <1>8, <2>2, <2>4 DEF Weights
  <2> QED BY <2>1, <2>3, <2>4
<1>10. t = u
  <2>1. Len(t) = Len(u)
    BY <1>3, <1>4, <1>7
  <2>2. \A i \in 1..Len(t) : t[i] = u[i]
    BY <1>3, <1>4, <1>9
  <2> QED BY <1>4, <1>7, <2>1, <2>2, SeqEqual
<1> QED BY <1>1, <1>2, <1>4, <1>5, <1>6, <1>10, SumAppend DEF Weight

LEMMA WeightCons ==
    ASSUME NEW T, NEW W \in [T -> Nat], NEW q \in Seq(T), NEW x \in T
    PROVE  Weight(<<x>> \o q, W) = W[x] + Weight(q, W)
<1>1. PICK r : r = <<x>> \o q
  OBVIOUS
<1>2. PICK s : s = Weights(q, W) /\ s \in Seq(Nat) /\ Len(s) = Len(q)
  BY Weighed, Zenon
<1>3. r \in Seq(T) /\ Len(r) = Len(q) + 1 /\ r[1] = x /\ \A i \in 1..Len(q) : r[i + 1] = q[i]
  <2>1. <<x>> \in Seq(T) /\ Len(<<x>>) = 1 /\ <<x>>[1] = x
    OBVIOUS
  <2> QED BY <1>1, <2>1
<1>4. PICK t : t = Weights(r, W) /\ t \in Seq(Nat) /\ Len(t) = Len(r)
  BY <1>3, Weighed, Zenon
<1>5. W[x] \in Nat
  OBVIOUS
<1>6. PICK u : u = <<W[x]>> \o s
  OBVIOUS
<1>7. u \in Seq(Nat) /\ Len(u) = Len(q) + 1 /\ u[1] = W[x] /\ \A i \in 1..Len(q) : u[i + 1] = s[i]
  <2>1. <<W[x]>> \in Seq(Nat) /\ Len(<<W[x]>>) = 1 /\ <<W[x]>>[1] = W[x]
    BY <1>5
  <2> QED BY <1>2, <1>6, <2>1
<1>8. DOMAIN r = 1..Len(q) + 1 /\ DOMAIN q = 1..Len(q) /\ Len(q) \in Nat
  <2>1. DOMAIN r = 1..Len(r) /\ DOMAIN q = 1..Len(q) /\ Len(q) \in Nat
    BY <1>3
  <2> QED BY <1>3, <2>1
<1>9. ASSUME NEW i \in 1..Len(q) + 1 PROVE t[i] = u[i]
  <2>1. t[i] = W[r[i]]
    BY <1>4, <1>8 DEF Weights
  <2>2. CASE i = 1
    BY <1>3, <1>7, <2>1, <2>2
  <2>3. CASE i # 1
    <3>1. PICK j \in 1..Len(q) : i = j + 1
      <4>1. i - 1 \in 1..Len(q) /\ i = (i - 1) + 1
        BY <1>8, <2>3
      <4> QED BY <4>1
    <3>2. s[j] = W[q[j]]
      BY <1>2, <1>8 DEF Weights
    <3>3. r[i] = q[j] /\ u[i] = s[j]
      BY <1>3, <1>7, <3>1
    <3> QED BY <2>1, <3>2, <3>3
  <2> QED BY <2>2, <2>3
<1>10. t = u
  <2>1. Len(t) = Len(u)
    BY <1>3, <1>4, <1>7
  <2>2. \A i \in 1..Len(t) : t[i] = u[i]
    BY <1>3, <1>4, <1>9
  <2> QED BY <1>4, <1>7, <2>1, <2>2, SeqEqual
<1> QED BY <1>1, <1>2, <1>4, <1>5, <1>6, <1>10, SumCons DEF Weight

-----------------------------------------------------------------------------
(* Elements that are erased *)

\* Without one of its elements a sequence has the others, in their order.
LEMMA ErasedIs ==
    ASSUME NEW T, NEW q \in Seq(T), NEW i \in 1..Len(q)
    PROVE  /\ Erase(q, i) \in Seq(T) /\ Len(Erase(q, i)) = Len(q) - 1
           /\ \A k \in 1..Len(q) - 1 : Erase(q, i)[k] = IF k < i THEN q[k] ELSE q[k + 1]
<1> DEFINE N == Len(q)
           a == SubSeq(q, 1, i - 1)
           b == SubSeq(q, i + 1, Len(q))
<1>1. N \in Nat /\ (\A k \in 1..N : q[k] \in T) /\ i \in 1..N
  OBVIOUS
<1>2. a \in Seq(T) /\ Len(a) = i - 1 /\ \A k \in 1..i - 1 : a[k] = q[k]
  <2>1. \A k \in 1..i - 1 : k \in 1..N
    BY <1>1
  <2>2. 1 \in Int /\ i - 1 \in Int /\ \A k \in 1..i - 1 : q[k] \in T
    BY <1>1, <2>1
  <2>3. /\ SubSeq(q, 1, i - 1) \in Seq(T)
        /\ Len(SubSeq(q, 1, i - 1)) = IF 1 <= i - 1 THEN (i - 1) - 1 + 1 ELSE 0
        /\ \A k \in 1..(i - 1) - 1 + 1 : SubSeq(q, 1, i - 1)[k] = q[1 + k - 1]
    BY <2>2, SubSeqProperties
  <2>4. (IF 1 <= i - 1 THEN (i - 1) - 1 + 1 ELSE 0) = i - 1
    BY <1>1
  <2>5. \A k \in 1..i - 1 : k \in 1..(i - 1) - 1 + 1 /\ 1 + k - 1 = k
    BY <1>1
  <2> QED BY <2>3, <2>4, <2>5
<1>3. b \in Seq(T) /\ Len(b) = N - i /\ \A k \in 1..N - i : b[k] = q[i + k]
  <2>1. \A k \in i + 1..N : k \in 1..N
    BY <1>1
  <2>2. i + 1 \in Int /\ N \in Int /\ \A k \in i + 1..N : q[k] \in T
    BY <1>1, <2>1
  <2>3. /\ SubSeq(q, i + 1, N) \in Seq(T)
        /\ Len(SubSeq(q, i + 1, N)) = IF i + 1 <= N THEN N - (i + 1) + 1 ELSE 0
        /\ \A k \in 1..N - (i + 1) + 1 : SubSeq(q, i + 1, N)[k] = q[(i + 1) + k - 1]
    <3> HIDE DEF N
    <3> QED BY <2>2, SubSeqProperties
  <2>4. (IF i + 1 <= N THEN N - (i + 1) + 1 ELSE 0) = N - i
    BY <1>1
  <2>5. \A k \in 1..N - i : k \in 1..N - (i + 1) + 1 /\ (i + 1) + k - 1 = i + k
    BY <1>1
  <2> QED BY <2>3, <2>4, <2>5
<1>4. PICK e : e = Erase(q, i)
  OBVIOUS
<1>5. e = a \o b
  BY <1>4 DEF Erase
<1> HIDE DEF N, a, b
<1>6. /\ e \in Seq(T) /\ Len(e) = Len(a) + Len(b)
      /\ \A k \in 1..Len(a) + Len(b) : e[k] = IF k <= Len(a) THEN a[k] ELSE b[k - Len(a)]
  BY <1>2, <1>3, <1>5, ConcatProperties
<1>7. Len(a) + Len(b) = N - 1
  BY <1>1, <1>2, <1>3
<1>8. ASSUME NEW k \in 1..N - 1 PROVE e[k] = IF k < i THEN q[k] ELSE q[k + 1]
  <2>1. e[k] = IF k <= Len(a) THEN a[k] ELSE b[k - Len(a)]
    BY <1>6, <1>7
  <2>2. CASE k < i
    <3>1. k \in 1..i - 1 /\ k <= Len(a)
      BY <1>1, <1>2, <2>2
    <3> QED BY <1>2, <2>1, <2>2, <3>1
  <2>3. CASE ~(k < i)
    <3>1. ~(k <= Len(a)) /\ k - Len(a) = k - i + 1 /\ k - i + 1 \in 1..N - i /\ i + (k - i + 1) = k + 1
      BY <1>1, <1>2, <2>3
    <3>2. b[k - i + 1] = q[i + (k - i + 1)]
      BY <1>3, <3>1
    <3> QED BY <2>1, <2>3, <3>1, <3>2
  <2> QED BY <2>2, <2>3
<1>9. e \in Seq(T) /\ Len(e) = N - 1
  BY <1>6, <1>7
<1> QED BY <1>4, <1>8, <1>9 DEF N

LEMMA SumErase ==
    ASSUME NEW s \in Seq(Nat), NEW i \in 1..Len(s)
    PROVE  Sum(s) = Sum(Erase(s, i)) + s[i]
<1> DEFINE N == Len(s)
           w == s[i]
<1>1. PICK t : t = Erase(s, i)
  OBVIOUS
<1>2. /\ t \in Seq(Nat) /\ Len(t) = N - 1 /\ N \in Nat /\ i \in 1..N /\ w \in Nat
      /\ \A k \in 1..N - 1 : t[k] = IF k < i THEN s[k] ELSE s[k + 1]
  <2>1. N \in Nat /\ w \in Nat /\ i \in 1..N
    OBVIOUS
  <2>2. /\ Erase(s, i) \in Seq(Nat) /\ Len(Erase(s, i)) = Len(s) - 1
        /\ \A k \in 1..Len(s) - 1 : Erase(s, i)[k] = IF k < i THEN s[k] ELSE s[k + 1]
    BY ErasedIs
  <2> QED BY ONLY <1>1, <2>1, <2>2
<1>3. PICK f : Sums(t, f)
  BY <1>2, SumsExist
<1>4. /\ f \in [0..N - 1 -> Nat] /\ f[0] = 0 /\ \A k \in 1..N - 1 : f[k] = f[k - 1] + t[k]
      /\ Sum(t) = f[N - 1]
  BY <1>2, <1>3, SumIs DEF Sums
<1>5. w = s[i]
  OBVIOUS
<1> HIDE DEF N, w
<1> DEFINE g == [k \in 0..N |-> IF k < i THEN f[k] ELSE f[k - 1] + w]
<1>6. g \in [0..N -> Nat] /\ g[0] = 0
      /\ \A k \in 0..N : g[k] = IF k < i THEN f[k] ELSE f[k - 1] + w
  <2>1. \A k \in 0..N : IF k < i THEN k \in 0..N - 1 ELSE k - 1 \in 0..N - 1
    BY <1>2
  <2>2. 0 \in 0..N /\ 0 < i
    BY <1>2
  <2>3. ASSUME NEW k \in 0..N PROVE (IF k < i THEN f[k] ELSE f[k - 1] + w) \in Nat
    BY <1>2, <1>4, <2>1
  <2>4. g \in [0..N -> Nat]
    BY <2>3
  <2> QED BY <1>4, <2>2, <2>4
<1> HIDE DEF g
<1>7. ASSUME NEW k \in 1..N PROVE g[k] = g[k - 1] + s[k]
  <2>1. k \in 0..N /\ k - 1 \in 0..N /\ k \in Int
    BY <1>2
  <2>2. g[k] = (IF k < i THEN f[k] ELSE f[k - 1] + w) /\ g[k - 1] = (IF k - 1 < i THEN f[k - 1] ELSE f[(k - 1) - 1] + w)
    BY <1>6, <2>1
  <2>3. CASE k < i
    <3>1. k \in 1..N - 1 /\ k - 1 < i
      BY <1>2, <2>3
    <3>2. f[k] = f[k - 1] + t[k] /\ t[k] = s[k]
      BY <1>2, <1>4, <2>3, <3>1
    <3> QED BY <2>2, <2>3, <3>1, <3>2
  <2>4. CASE k = i
    <3>1. ~(k < i) /\ k - 1 < i
      BY <1>2, <2>4
    <3> QED BY <1>5, <2>2, <2>4, <3>1
  <2>5. CASE k > i
    <3>1. ~(k < i) /\ ~(k - 1 < i) /\ k - 1 \in 1..N - 1 /\ (k - 1) + 1 = k /\ (k - 1) - 1 \in 0..N - 1 /\ k - 1 \in 0..N - 1
      BY <1>2, <2>5
    <3>2. f[k - 1] = f[(k - 1) - 1] + t[k - 1] /\ t[k - 1] = s[k]
      <4>1. t[k - 1] = s[(k - 1) + 1]
        BY <1>2, <3>1
      <4> QED BY <1>4, <3>1, <4>1
    <3>3. f[k - 1] \in Nat /\ f[(k - 1) - 1] \in Nat /\ s[k] \in Nat
      <4>1. f[k - 1] \in Nat /\ f[(k - 1) - 1] \in Nat
        BY <1>4, <3>1
      <4>2. s[k] \in Nat
        BY DEF N
      <4> QED BY <4>1, <4>2
    <3>4. g[k] = f[k - 1] + w /\ g[k - 1] = f[(k - 1) - 1] + w
      BY <2>2, <3>1
    <3>6. f[k - 1] + w = (f[(k - 1) - 1] + w) + s[k]
      <4>1. f[k - 1] + w = (f[(k - 1) - 1] + s[k]) + w
        BY ONLY <3>2
      <4>2. \A x, y, z \in Nat : (x + y) + z = (x + z) + y
        OBVIOUS
      <4>3. (f[(k - 1) - 1] + s[k]) + w = (f[(k - 1) - 1] + w) + s[k]
        BY ONLY <1>2, <3>3, <4>2
      <4> QED BY ONLY <4>1, <4>3
    <3> QED BY ONLY <3>4, <3>6
  <2> QED BY <1>2, <2>1, <2>3, <2>4, <2>5
<1>8. Sums(s, g)
  BY <1>6, <1>7 DEF Sums, N
<1>9. g[N] = f[N - 1] + w
  <2>1. N \in 0..N /\ ~(N < i)
    BY <1>2
  <2> QED BY <1>6, <2>1
<1> QED BY <1>1, <1>4, <1>5, <1>8, <1>9, SumIs DEF N

LEMMA WeightErase ==
    ASSUME NEW T, NEW W \in [T -> Nat], NEW q \in Seq(T), NEW i \in 1..Len(q)
    PROVE  Weight(q, W) = Weight(Erase(q, i), W) + W[q[i]]
<1> DEFINE N == Len(q)
<1>1. PICK s : s = Weights(q, W) /\ s \in Seq(Nat) /\ Len(s) = N
  BY Weighed, Zenon
<1>2. PICK e : e = Erase(q, i)
  OBVIOUS
<1>3. /\ e \in Seq(T) /\ Len(e) = N - 1
      /\ \A k \in 1..N - 1 : e[k] = IF k < i THEN q[k] ELSE q[k + 1]
  BY <1>2, ErasedIs
<1>4. PICK t : t = Weights(e, W) /\ t \in Seq(Nat) /\ Len(t) = Len(e)
  BY <1>3, Weighed, Zenon
<1>5. PICK u : u = Erase(s, i)
  OBVIOUS
<1>6. /\ u \in Seq(Nat) /\ Len(u) = N - 1
      /\ \A k \in 1..N - 1 : u[k] = IF k < i THEN s[k] ELSE s[k + 1]
  <2>1. i \in 1..Len(s)
    BY <1>1
  <2>2. /\ Erase(s, i) \in Seq(Nat) /\ Len(Erase(s, i)) = Len(s) - 1
        /\ \A k \in 1..Len(s) - 1 : Erase(s, i)[k] = IF k < i THEN s[k] ELSE s[k + 1]
    BY <1>1, <2>1, ErasedIs
  <2> HIDE DEF N
  <2> QED BY ONLY <1>1, <1>5, <2>2
<1>7. DOMAIN q = 1..N /\ N \in Nat /\ DOMAIN e = 1..N - 1 /\ i \in 1..N
  <2>1. DOMAIN q = 1..N /\ N \in Nat /\ DOMAIN e = 1..Len(e)
    BY <1>3
  <2> QED BY <1>3, <2>1
<1>8. (\A k \in 1..N : s[k] = W[q[k]]) /\ \A k \in 1..N - 1 : t[k] = W[e[k]]
  BY <1>1, <1>4, <1>7 DEF Weights
<1> HIDE DEF N
<1>9. ASSUME NEW k \in 1..N - 1 PROVE t[k] = u[k]
  <2>1. k \in 1..N /\ k + 1 \in 1..N
    BY <1>7
  <2>2. t[k] = W[e[k]] /\ s[k] = W[q[k]] /\ s[k + 1] = W[q[k + 1]]
    BY <1>8, <2>1
  <2>3. CASE k < i
    BY <1>3, <1>6, <2>2, <2>3
  <2>4. CASE ~(k < i)
    BY <1>3, <1>6, <2>2, <2>4
  <2> QED BY <2>3, <2>4
<1>10. t = u
  <2>1. Len(t) = Len(u)
    BY <1>3, <1>4, <1>6
  <2>2. \A k \in 1..Len(t) : t[k] = u[k]
    BY <1>3, <1>4, <1>9
  <2> QED BY <1>4, <1>6, <2>1, <2>2, SeqEqual
<1>11. Sum(s) = Sum(u) + s[i]
  BY <1>1, <1>5, <1>7, SumErase
<1>12. s[i] = W[q[i]]
  BY <1>7, <1>8
<1> QED BY <1>1, <1>2, <1>4, <1>10, <1>11, <1>12 DEF Weight

\* What is left has no element that was not there, and not the one that is erased.
LEMMA ErasedAre ==
    ASSUME NEW T, NEW q \in Seq(T), NEW i \in 1..Len(q), NEW K, Distinct(q, K)
    PROVE  /\ Elems(Erase(q, i)) \subseteq Elems(q) /\ Distinct(Erase(q, i), K)
           /\ \A x \in Elems(Erase(q, i)) : K[x] # K[q[i]]
<1> DEFINE N == Len(q)
<1>1. PICK e : e = Erase(q, i)
  OBVIOUS
<1>2. /\ e \in Seq(T) /\ Len(e) = N - 1
      /\ \A k \in 1..N - 1 : e[k] = IF k < i THEN q[k] ELSE q[k + 1]
  BY <1>1, ErasedIs
<1>3. DOMAIN q = 1..N /\ N \in Nat /\ DOMAIN e = 1..N - 1 /\ i \in 1..N
  <2>1. DOMAIN q = 1..N /\ N \in Nat /\ DOMAIN e = 1..Len(e)
    BY <1>2
  <2> QED BY <1>2, <2>1
<1>4. \A j, k \in 1..N : K[q[j]] = K[q[k]] => j = k
  BY <1>3 DEF Distinct
<1> HIDE DEF N
<1> DEFINE at == [k \in 1..N - 1 |-> IF k < i THEN k ELSE k + 1]
<1>5. /\ \A k \in 1..N - 1 : at[k] \in 1..N /\ at[k] # i /\ e[k] = q[at[k]]
      /\ \A j, k \in 1..N - 1 : at[j] = at[k] => j = k
  BY <1>2, <1>3
<1> HIDE DEF at
<1>6. Elems(e) \subseteq Elems(q)
  BY <1>3, <1>5 DEF Elems
<1>7. Distinct(e, K)
  BY <1>3, <1>4, <1>5 DEF Distinct
<1>8. \A x \in Elems(e) : K[x] # K[q[i]]
  BY <1>3, <1>4, <1>5 DEF Elems
<1> QED BY <1>1, <1>6, <1>7, <1>8

\* A beginning of a sequence.
LEMMA PrefixIs ==
    ASSUME NEW T, NEW q \in Seq(T), NEW n \in 0..Len(q)
    PROVE  /\ SubSeq(q, 1, n) \in Seq(T) /\ Len(SubSeq(q, 1, n)) = n
           /\ \A k \in 1..n : SubSeq(q, 1, n)[k] = q[k]
<1>1. Len(q) \in Nat /\ \A k \in 1..Len(q) : q[k] \in T
  OBVIOUS
<1>2. n \in Int /\ 1 \in Int /\ \A k \in 1..n : q[k] \in T
  BY <1>1
<1>3. /\ SubSeq(q, 1, n) \in Seq(T) /\ Len(SubSeq(q, 1, n)) = IF 1 <= n THEN n - 1 + 1 ELSE 0
      /\ \A k \in 1..n - 1 + 1 : SubSeq(q, 1, n)[k] = q[1 + k - 1]
  BY <1>2, SubSeqProperties
<1>4. (IF 1 <= n THEN n - 1 + 1 ELSE 0) = n /\ \A k \in 1..n : k \in 1..n - 1 + 1 /\ 1 + k - 1 = k
  BY <1>1
<1> QED BY <1>3, <1>4

\* What is kept weighs no more than the whole.
LEMMA ThoseLighter ==
    ASSUME NEW T, NEW W \in [T -> Nat], NEW q \in Seq(T), NEW S
    PROVE  Weight(Those(q, S), W) <= Weight(q, W)
<1> DEFINE N == Len(q)
<1>1. PICK f : Sifted(q, S, T, f) /\ Those(q, S) = f[N]
  BY ThoseKept
<1>2. PICK s : s = Weights(q, W) /\ s \in Seq(Nat) /\ Len(s) = N
  BY Weighed, Zenon
<1>3. PICK g : Sums(s, g)
  BY <1>2, SumsExist
<1>4. /\ f \in [0..N -> Seq(T)] /\ f[0] = <<>> /\ N \in Nat /\ DOMAIN q = 1..N
      /\ (\A i \in 1..N : f[i] = IF q[i] \in S THEN Append(f[i - 1], q[i]) ELSE f[i - 1])
      /\ \A i \in 1..N : q[i] \in T
  BY <1>1 DEF Sifted
<1>5. /\ g \in [0..N -> Nat] /\ g[0] = 0 /\ \A i \in 1..N : g[i] = g[i - 1] + s[i]
      /\ Sum(s) = g[N]
  BY <1>2, <1>3, SumIs DEF Sums
<1>6. \A i \in 1..N : s[i] = W[q[i]] /\ W[q[i]] \in Nat
  BY <1>2, <1>4 DEF Weights
<1> HIDE DEF N
<1> DEFINE G == {n \in 0..N : Weight(f[n], W) <= g[n]}
<1>7. 0 \in G
  <2>1. Weight(f[0], W) = 0
    BY <1>4, WeightEmpty
  <2> QED BY <1>4, <1>5, <2>1
<1>8. ASSUME NEW n \in 0..N - 1, n \in G PROVE n + 1 \in G
  <2>1. n + 1 \in 0..N /\ n + 1 \in 1..N /\ (n + 1) - 1 = n /\ n \in 0..N
    BY <1>4
  <2>2. f[n + 1] = IF q[n + 1] \in S THEN Append(f[n], q[n + 1]) ELSE f[n]
    BY <1>4, <2>1
  <2>3. f[n] \in Seq(T) /\ q[n + 1] \in T
    BY <1>4, <2>1
  <2>4. Weight(f[n], W) \in Nat /\ Weight(f[n], W) <= g[n] /\ g[n] \in Nat
    BY <1>5, <1>8, <2>1, <2>3, Weighed
  <2>5. g[n + 1] = g[n] + W[q[n + 1]] /\ W[q[n + 1]] \in Nat
    BY <1>5, <1>6, <2>1
  <2>6. CASE q[n + 1] \in S
    <3>1. Weight(f[n + 1], W) = Weight(f[n], W) + W[q[n + 1]]
      BY <2>2, <2>3, <2>6, WeightAppend
    <3>2. Weight(f[n + 1], W) <= g[n + 1]
      BY <2>4, <2>5, <3>1
    <3> QED BY <2>1, <3>2
  <2>7. CASE q[n + 1] \notin S
    <3>1. Weight(f[n + 1], W) = Weight(f[n], W)
      BY <2>2, <2>7
    <3>2. Weight(f[n + 1], W) <= g[n + 1]
      BY <2>4, <2>5, <3>1
    <3> QED BY <2>1, <3>2
  <2> QED BY <2>6, <2>7
<1>9. N \in G
  <2> HIDE DEF G
  <2>1. N \in 0..N
    BY <1>4
  <2> QED BY <1>4, <1>7, <1>8, <2>1, UpTo
<1> QED BY <1>1, <1>2, <1>5, <1>9 DEF Weight

\* A set of numbers up to N that is not empty has a greatest one.
LEMMA GreatestNat ==
    ASSUME NEW N \in Nat, NEW T \in SUBSET (0..N), T # {}
    PROVE  \E n \in T : \A m \in T : m <= n
<1> DEFINE R == {N - m : m \in T}
<1>1. R \in SUBSET Nat /\ R # {}
  OBVIOUS
<1>2. PICK r \in R : \A x \in R : r <= x
  <2> HIDE DEF R
  <2> QED BY <1>1, LeastNat
<1>3. PICK n \in T : r = N - n
  OBVIOUS
<1>4. \A m \in T : N - n <= N - m
  BY <1>2, <1>3
<1> QED BY <1>4

-----------------------------------------------------------------------------
(* One sequence after the other *)

\* e[i] is where the i-th of the sequences ends.
Joined(qs, e) ==
    /\ e \in [0..Len(qs) -> Nat] /\ e[0] = 0
    /\ \A i \in 1..Len(qs) : e[i] = e[i - 1] + Len(qs[i])

Placed(w, qs, e, n) ==
    Len(w) = e[n] /\ \A i \in 1..n : \A j \in 1..Len(qs[i]) : w[e[i - 1] + j] = qs[i][j]

Grows(qs, V, g) ==
    g \in [0..Len(qs) -> V] /\ g[0] = <<>> /\ \A i \in 1..Len(qs) : g[i] = g[i - 1] \o qs[i]

Halves(w, p, q) ==
    /\ \A j \in 1..Len(p) : w[j] = p[j]
    /\ \A j \in 1..Len(q) : w[Len(p) + j] = q[j]

LEMMA TwoParts ==
    ASSUME NEW T, NEW p \in Seq(T), NEW q \in Seq(T)
    PROVE  /\ p \o q \in Seq(T) /\ Len(p \o q) = Len(p) + Len(q) /\ Len(p) \in Nat /\ Len(q) \in Nat
           /\ Halves(p \o q, p, q)
<1>1. p \o q \in Seq(T) /\ Len(p \o q) = Len(p) + Len(q) /\ Len(p) \in Nat /\ Len(q) \in Nat
  OBVIOUS
<1>2. \A i \in 1..Len(p) + Len(q) : (p \o q)[i] = IF i <= Len(p) THEN p[i] ELSE q[i - Len(p)]
  BY ConcatProperties
<1>3. ASSUME NEW j \in 1..Len(p) PROVE (p \o q)[j] = p[j]
  BY <1>1, <1>2
<1>4. ASSUME NEW j \in 1..Len(q) PROVE (p \o q)[Len(p) + j] = q[j]
  <2>1. Len(p) + j \in 1..Len(p) + Len(q) /\ ~ (Len(p) + j <= Len(p)) /\ (Len(p) + j) - Len(p) = j
    BY <1>1
  <2> QED BY <1>2, <2>1
<1> QED BY <1>1, <1>3, <1>4 DEF Halves

LEMMA JoinGrows ==
    ASSUME NEW T, NEW qs \in Seq(Seq(T))
    PROVE  \E g : Grows(qs, Seq(T), g) /\ Join(qs) = g[Len(qs)]
<1> DEFINE N == Len(qs)
           V == Seq(T)
           Is(f) == f = [i \in 0..N |-> IF i = 0 THEN <<>> ELSE f[i - 1] \o qs[i]]
           f == CHOOSE h : Is(h)
           step == [p \in V \X (1..N) |-> p[1] \o qs[p[2]]]
<1>1. N \in Nat /\ <<>> \in V /\ DOMAIN qs = 1..N /\ \A i \in 1..N : qs[i] \in V
  OBVIOUS
<1>2. Join(qs) = f[N]
  BY DEF Join
<1>3. step \in [V \X (1..N) -> V]
  <2>1. \A p \in V, i \in 1..N : p \o qs[i] \in V
    BY <1>1
  <2> HIDE DEF N, V
  <2> QED BY <2>1
<1>4. \A p \in V, i \in 1..N : step[<<p, i>>] = p \o qs[i]
  <2> HIDE DEF N, V
  <2> QED OBVIOUS
<1> HIDE DEF N, V, step, f
<1>5. PICK g : Follows(g, N, V, <<>>, step)
  BY <1>1, <1>3, Recursion, Zenon
<1>6. g \in [0..N -> V] /\ g[0] = <<>> /\ \A i \in 1..N : g[i] = step[<<g[i - 1], i>>]
  BY <1>5 DEF Follows
<1>7. ASSUME NEW i \in 1..N PROVE g[i] = g[i - 1] \o qs[i]
  <2>1. i - 1 \in 0..N
    BY <1>1
  <2> QED BY <1>4, <1>6, <2>1
<1>8. Is(g)
  <2>1. \A i \in 0..N : g[i] = IF i = 0 THEN <<>> ELSE g[i - 1] \o qs[i]
    <3>1. ASSUME NEW i \in 0..N PROVE i = 0 \/ (i # 0 /\ i \in 1..N)
      BY <1>1
    <3> QED BY <1>6, <1>7, <3>1
  <2> QED BY <1>6, <2>1
<1>9. Is(f)
  <2> HIDE DEF Is
  <2> QED BY <1>8 DEF f
<1>10. \A i \in 0..N : f[i] = IF i = 0 THEN <<>> ELSE f[i - 1] \o qs[i]
  BY <1>9
<1> HIDE DEF Is
<1> DEFINE G == {n \in 0..N : f[n] = g[n]}
<1>11. 0 \in G
  BY <1>1, <1>6, <1>10
<1>12. ASSUME NEW n \in 0..N - 1, n \in G PROVE n + 1 \in G
  <2>1. n + 1 \in 0..N /\ n + 1 \in 1..N /\ n + 1 # 0 /\ (n + 1) - 1 = n
    BY <1>1
  <2>2. f[n + 1] = f[n] \o qs[n + 1] /\ g[n + 1] = g[n] \o qs[n + 1]
    BY <1>7, <1>10, <2>1
  <2> QED BY <1>12, <2>1, <2>2
<1>13. N \in G
  <2> HIDE DEF G
  <2>1. N \in 0..N
    BY <1>1
  <2> QED BY <1>1, <1>11, <1>12, <2>1, UpTo
<1>14. Grows(qs, V, g)
  BY <1>6, <1>7 DEF Grows, N
<1>15. Join(qs) = g[Len(qs)]
  BY <1>2, <1>13 DEF N
<1> QED BY <1>14, <1>15 DEF V

\* Sequences that are joined lie where the lengths of those before them say.
LEMMA JoinIs ==
    ASSUME NEW T, NEW qs \in Seq(Seq(T))
    PROVE  /\ Join(qs) \in Seq(T)
           /\ \E e : Joined(qs, e) /\ Placed(Join(qs), qs, e, Len(qs))
<1> DEFINE N == Len(qs)
<1>1. PICK g : Grows(qs, Seq(T), g) /\ Join(qs) = g[N]
  BY JoinGrows
<1>2. /\ g \in [0..N -> Seq(T)] /\ g[0] = <<>> /\ N \in Nat
      /\ \A i \in 1..N : g[i] = g[i - 1] \o qs[i]
      /\ \A i \in 1..N : qs[i] \in Seq(T)
  <2>1. N \in Nat /\ \A i \in 1..N : qs[i] \in Seq(T)
    OBVIOUS
  <2> QED BY <1>1, <2>1 DEF Grows
<1> HIDE DEF N
<1> DEFINE e == [i \in 0..N |-> Len(g[i])]
<1>3. e \in [0..N -> Nat] /\ e[0] = 0
  <2>1. \A i \in 0..N : Len(g[i]) \in Nat
    BY <1>2
  <2> QED BY <1>2, <2>1
<1>4. ASSUME NEW i \in 1..N PROVE e[i] = e[i - 1] + Len(qs[i])
  <2>1. i - 1 \in 0..N /\ i \in 0..N
    BY <1>2
  <2>2. Len(g[i]) = Len(g[i - 1]) + Len(qs[i])
    <3>1. g[i - 1] \in Seq(T) /\ qs[i] \in Seq(T) /\ g[i] = g[i - 1] \o qs[i]
      BY <1>2, <2>1
    <3> QED BY <3>1, TwoParts
  <2> QED BY <2>1, <2>2
<1>5. \A i \in 0..N : e[i] = Len(g[i])
  OBVIOUS
<1> HIDE DEF e
<1> DEFINE G == {n \in 0..N : Placed(g[n], qs, e, n)}
<1>6. 0 \in G
  BY <1>2, <1>3 DEF Placed
<1>7. ASSUME NEW n \in 0..N - 1, n \in G PROVE n + 1 \in G
  <2>1. n + 1 \in 0..N /\ n + 1 \in 1..N /\ (n + 1) - 1 = n /\ n \in 0..N /\ n \in Nat /\ N \in Nat
    BY <1>2
  <2>2. PICK p : p = g[n] /\ p \in Seq(T)
    BY <1>2, <2>1
  <2>3. PICK q : q = qs[n + 1] /\ q \in Seq(T)
    BY <1>2, <2>1
  <2>9. /\ \A j \in 1..Len(p) : (p \o q)[j] = p[j]
        /\ \A j \in 1..Len(q) : (p \o q)[Len(p) + j] = q[j]
    <3>1. Halves(p \o q, p, q)
      BY <2>2, <2>3, TwoParts
    <3> QED BY <3>1 DEF Halves
  <2>4. g[n + 1] = p \o q
    BY <1>2, <2>1, <2>2, <2>3
  <2>5. e[n] = Len(p) /\ Placed(p, qs, e, n)
    BY <1>5, <1>7, <2>1, <2>2
  <2>6. Len(g[n + 1]) = e[n + 1]
    BY <1>5, <2>1
  <2>7. ASSUME NEW i \in 1..n + 1, NEW j \in 1..Len(qs[i]) PROVE g[n + 1][e[i - 1] + j] = qs[i][j]
    <3>1. CASE i = n + 1
      <4>1. i - 1 = n /\ j \in 1..Len(q) /\ qs[i] = q
        BY <2>1, <2>3, <3>1
      <4>2. (p \o q)[Len(p) + j] = q[j]
        BY <2>9, <4>1
      <4> QED BY <2>4, <2>5, <4>1, <4>2
    <3>2. CASE i \in 1..n
      <4>1. p[e[i - 1] + j] = qs[i][j]
        BY <2>5, <3>2 DEF Placed
      <4>2. i \in 1..N /\ i \in 0..N /\ i - 1 \in 0..N
        BY <2>1, <3>2
      <4>3. e[i - 1] \in Nat /\ e[i] \in Nat /\ e[i] = e[i - 1] + Len(qs[i]) /\ Len(qs[i]) \in Nat
        <5>1. qs[i] \in Seq(T)
          BY <1>2, <4>2
        <5>2. Len(qs[i]) \in Nat
          BY <5>1
        <5>3. e[i - 1] \in Nat /\ e[i] \in Nat /\ e[i] = e[i - 1] + Len(qs[i])
          BY <1>3, <1>4, <4>2
        <5> QED BY <5>2, <5>3
      <4>4. e[i] <= e[n]
        <5> DEFINE H == {k \in 0..n : i <= k => e[i] <= e[k]}
        <5>1. 0 \in H
          BY <2>1, <3>2
        <5>2. ASSUME NEW k \in 0..n - 1, k \in H PROVE k + 1 \in H
          <6>1. k + 1 \in 0..n /\ k + 1 \in 1..N /\ k \in 0..N /\ k + 1 \in 0..N /\ (k + 1) - 1 = k
            BY <1>2, <2>1
          <6>2. e[k + 1] = e[k] + Len(qs[k + 1]) /\ Len(qs[k + 1]) \in Nat /\ e[k] \in Nat
            <7>1. qs[k + 1] \in Seq(T)
              BY <1>2, <6>1
            <7>2. PICK m \in 1..N : m = k + 1 /\ m - 1 = k
              BY <6>1
            <7>3. e[m] = e[m - 1] + Len(qs[m])
              BY <1>4
            <7>4. e[k + 1] = e[k] + Len(qs[k + 1])
              BY <7>2, <7>3
            <7>5. Len(qs[k + 1]) \in Nat
              BY <7>1
            <7> QED BY <1>3, <6>1, <7>4, <7>5
          <6>3. CASE i <= k
            BY <4>3, <5>2, <6>1, <6>2, <6>3
          <6>4. CASE ~ (i <= k)
            <7>1. i <= k + 1 => i = k + 1
              BY <3>2, <6>1, <6>4
            <7> QED BY <4>3, <6>1, <7>1
          <6> QED BY <6>3, <6>4
        <5>3. n \in H
          <6> HIDE DEF H
          <6>1. n \in Nat /\ n \in 0..n /\ \A k \in 0..n - 1 : k \in H => k + 1 \in H
            BY <2>1, <5>2
          <6> QED BY ONLY <5>1, <6>1, UpTo
        <5> QED BY <3>2, <5>3
      <4>5. e[i - 1] + j \in 1..Len(p)
        BY <2>5, <4>3, <4>4, SMTT(20)
      <4>6. (p \o q)[e[i - 1] + j] = p[e[i - 1] + j]
        BY <2>9, <4>5
      <4> QED BY <2>4, <4>1, <4>6
    <3>3. i \in 1..n \/ i = n + 1
      BY <2>1
    <3> QED BY <3>1, <3>2, <3>3
  <2>8. Placed(g[n + 1], qs, e, n + 1)
    BY <2>6, <2>7 DEF Placed
  <2> QED BY <2>1, <2>8
<1>8. N \in G
  <2> HIDE DEF G
  <2>1. N \in 0..N
    BY <1>2
  <2> QED BY <1>2, <1>6, <1>7, <2>1, UpTo
<1>9. Joined(qs, e)
  BY <1>3, <1>4 DEF Joined, N
<1>10. Placed(Join(qs), qs, e, Len(qs))
  BY <1>1, <1>8 DEF N
<1>11. Join(qs) \in Seq(T)
  <2>1. N \in 0..N
    BY <1>2
  <2> QED BY <1>1, <1>2, <2>1
<1> QED BY <1>9, <1>10, <1>11

\* When those of a set are a stretch of a sequence, as many are kept as the stretch has.
Stretch(q, S, a, b) ==
    /\ a \in Nat \ {0} /\ b \in Nat /\ a <= b + 1 /\ b <= Len(q)
    /\ \A i \in DOMAIN q : q[i] \in S <=> i \in a..b

LEMMA ThoseSpan ==
    ASSUME NEW T, NEW q \in Seq(T), NEW S, NEW a, NEW b, Stretch(q, S, a, b)
    PROVE  Len(Those(q, S)) = b + 1 - a
<1>0. /\ a \in Nat \ {0} /\ b \in Nat /\ a <= b + 1 /\ b <= Len(q)
      /\ \A i \in DOMAIN q : q[i] \in S <=> i \in a..b
  BY DEF Stretch
<1> DEFINE N == Len(q)
<1>1. PICK f : Sifted(q, S, T, f) /\ Those(q, S) = f[N]
  BY ThoseKept
<1>2. /\ f \in [0..N -> Seq(T)] /\ f[0] = <<>> /\ N \in Nat /\ DOMAIN q = 1..N
      /\ (\A i \in 1..N : f[i] = IF q[i] \in S THEN Append(f[i - 1], q[i]) ELSE f[i - 1])
      /\ \A i \in 1..N : q[i] \in T
  BY <1>1 DEF Sifted
<1>3. /\ b <= N /\ \A i \in 1..N : q[i] \in S <=> i \in a..b
      /\ a \in Nat \ {0} /\ b \in Nat /\ a <= b + 1
  BY <1>0, <1>2
<1> HIDE DEF N
<1> DEFINE Many(n) == IF n < a THEN 0 ELSE IF n <= b THEN n + 1 - a ELSE b + 1 - a
           G == {n \in 0..N : Len(f[n]) = Many(n)}
<1>4. 0 \in G
  BY <1>2, <1>3
<1>5. ASSUME NEW n \in 0..N - 1, n \in G PROVE n + 1 \in G
  <2>0. N \in Nat /\ n \in 0..N - 1
    BY <1>2
  <2>1. n + 1 \in 0..N /\ n + 1 \in 1..N /\ (n + 1) - 1 = n /\ n \in 0..N
    BY ONLY <2>0
  <2>2. PICK p : p = f[n] /\ p \in Seq(T)
    BY <1>2, <2>1
  <2>3. f[n + 1] = IF q[n + 1] \in S THEN Append(p, q[n + 1]) ELSE p
    BY <1>2, <2>1, <2>2
  <2>4. Len(p) = Many(n) /\ Len(p) \in Nat
    BY <1>5, <2>2
  <2>5. CASE n + 1 \in a..b
    <3>1. Len(f[n + 1]) = Len(p) + 1
      BY <1>3, <2>1, <2>2, <2>3, <2>5
    <3>2. Many(n + 1) = Many(n) + 1
      BY <1>3, <2>1, <2>5
    <3> HIDE DEF Many
    <3> QED BY <2>1, <2>4, <3>1, <3>2
  <2>6. CASE n + 1 \notin a..b
    <3>1. f[n + 1] = p
      BY <1>3, <2>1, <2>3, <2>6
    <3>2. Many(n + 1) = Many(n)
      BY <1>2, <1>3, <2>1, <2>6
    <3> HIDE DEF Many
    <3> QED BY <2>1, <2>4, <3>1, <3>2
  <2> QED BY <2>5, <2>6
<1>6. N \in G
  <2> HIDE DEF G
  <2>1. N \in 0..N
    BY <1>2
  <2> QED BY <1>2, <1>4, <1>5, <2>1, UpTo
<1>7. Len(f[N]) = Many(N)
  BY <1>6
<1>8. Many(N) = b + 1 - a
  BY <1>2, <1>3
<1> QED BY <1>1, <1>7, <1>8
=============================================================================
