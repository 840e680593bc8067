----------------------------- MODULE LinkProofs -----------------------------
(***************************************************************************)
(* Proofs about the two links of the program: the connection of a client   *)
(* (ConnInv) and the one to MySQL (SqlInv).                                *)
(***************************************************************************)
EXTENDS Links, ListProofs, FiniteSetTheorems, TLAPS

-----------------------------------------------------------------------------
(* The wire of a connection *)

BodyForms   == {"none", "length", "chunked"}
Asked == [form : BodyForms, chunks : Seq(Nat \ {0}), keep : BOOLEAN]
Toks  == [is : {"head", "data", "size", "empty"}, of : Nat, n : Nat]
Tok(is, i, n) == [is |-> is, of |-> i, n |-> n]

\* A message m in the chunked form: c[k] is how much of it its first k chunks are, with
\* the lines around them.
Chunked(m, cs, i, c) ==
    /\ c \in [0..Len(cs) -> Nat] /\ c[0] = 0 /\ Len(m) = c[Len(cs)] + 3
    /\ \A k \in 1..Len(cs) :
          /\ c[k] = c[k - 1] + cs[k] + 2
          /\ m[c[k - 1] + 2] = Tok("size", i, cs[k]) /\ m[c[k] + 1] = Tok("empty", i, 0)
          /\ \A j \in 1..cs[k] : m[c[k - 1] + 2 + j] = Tok("data", i, 0)
    /\ m[c[Len(cs)] + 2] = Tok("size", i, 0) /\ m[c[Len(cs)] + 3] = Tok("empty", i, 0)

\* A sequence that is another and a third one behind it.
Glued(w, p, q, n) == w = p \o q /\ w \in Seq(Toks) /\ Len(w) = n /\ Halves(w, p, q)

LEMMA Glue ==
    ASSUME NEW p \in Seq(Toks), NEW q \in Seq(Toks), NEW a, NEW b, Len(p) = a, Len(q) = b
    PROVE  Glued(p \o q, p, q, a + b)
<1>1. p \o q \in Seq(Toks) /\ Len(p \o q) = Len(p) + Len(q) /\ Halves(p \o q, p, q)
  BY TwoParts
<1> QED BY <1>1 DEF Glued

LEMMA OneLine ==
    ASSUME NEW is \in {"head", "data", "size", "empty"}, NEW i \in Nat, NEW n \in Nat
    PROVE  Line(is, i, n) \in Seq(Toks) /\ Len(Line(is, i, n)) = 1 /\ Line(is, i, n)[1] = Tok(is, i, n)
BY DEF Line, Tok, Toks

LEMMA SomeBytes ==
    ASSUME NEW i \in Nat, NEW n \in Nat
    PROVE  Bytes(i, n) \in Seq(Toks) /\ Len(Bytes(i, n)) = n /\ \A j \in 1..n : Bytes(i, n)[j] = Tok("data", i, 0)
BY DEF Bytes, Tok, Toks

\* One chunk and its lines.
OneChunk(m, i, n) ==
    /\ m \in Seq(Toks) /\ Len(m) = n + 2
    /\ m[1] = Tok("size", i, n) /\ m[n + 2] = Tok("empty", i, 0)
    /\ \A j \in 1..n : m[1 + j] = Tok("data", i, 0)

LEMMA PieceIs ==
    ASSUME NEW i \in Nat, NEW n \in Nat
    PROVE  OneChunk(Line("size", i, n) \o Bytes(i, n) \o Line("empty", i, 0), i, n)
<1>1. PICK s : /\ s = Line("size", i, n) /\ s \in Seq(Toks) /\ Len(s) = 1 /\ s[1] = Tok("size", i, n)
  BY OneLine
<1>2. PICK b : b = Bytes(i, n) /\ b \in Seq(Toks) /\ Len(b) = n /\ \A j \in 1..n : b[j] = Tok("data", i, 0)
  BY SomeBytes
<1>3. PICK z : z = Line("empty", i, 0) /\ z \in Seq(Toks) /\ Len(z) = 1 /\ z[1] = Tok("empty", i, 0)
  BY OneLine
<1>4. PICK q : q = s \o b
  OBVIOUS
<1>5. Glued(q, s, b, 1 + n)
  BY <1>1, <1>2, <1>4, Glue
<1>6. PICK m : m = q \o z
  OBVIOUS
<1>7. Glued(m, q, z, 1 + n + 1)
  <2>1. q \in Seq(Toks) /\ Len(q) = 1 + n
    BY <1>5 DEF Glued
  <2> QED BY <1>3, <1>6, <2>1, Glue
<1>8. (\A j \in 1..1 + n : m[j] = q[j]) /\ (\A j \in 1..1 : m[1 + n + j] = z[j])
  BY <1>3, <1>5, <1>7 DEF Glued, Halves
<1>9. (\A j \in 1..1 : q[j] = s[j]) /\ \A j \in 1..n : q[1 + j] = b[j]
  BY <1>1, <1>2, <1>5 DEF Glued, Halves
<1>10. m[1] = Tok("size", i, n)
  <2>1. 1 \in 1..1 + n /\ 1 \in 1..1
    OBVIOUS
  <2>2. m[1] = q[1] /\ q[1] = s[1]
    BY <1>8, <1>9, <2>1
  <2> QED BY <1>1, <2>2
<1>11. m[n + 2] = Tok("empty", i, 0)
  <2>1. 1 + n + 1 = n + 2 /\ 1 \in 1..1
    OBVIOUS
  <2>2. m[1 + n + 1] = z[1]
    BY <1>8, <2>1
  <2> QED BY <1>3, <2>1, <2>2
<1>12. ASSUME NEW j \in 1..n PROVE m[1 + j] = Tok("data", i, 0)
  <2>1. 1 + j \in 1..1 + n
    OBVIOUS
  <2> QED BY <1>2, <1>8, <1>9, <2>1
<1>13. m \in Seq(Toks) /\ Len(m) = n + 2
  BY <1>7 DEF Glued
<1>14. OneChunk(m, i, n)
  BY <1>10, <1>11, <1>12, <1>13 DEF OneChunk
<1> QED BY <1>1, <1>2, <1>3, <1>4, <1>6, <1>14

LEMMA PiecesAre ==
    ASSUME NEW i \in Nat, NEW cs \in Seq(Nat \ {0}), NEW ps, ps = Pieces(i, cs)
    PROVE  ps \in Seq(Seq(Toks)) /\ Len(ps) = Len(cs) /\ \A k \in 1..Len(cs) : OneChunk(ps[k], i, cs[k])
<1>1. Len(cs) \in Nat /\ DOMAIN cs = 1..Len(cs) /\ \A k \in 1..Len(cs) : cs[k] \in Nat
  OBVIOUS
<1>2. ps = [k \in 1..Len(cs) |-> Line("size", i, cs[k]) \o Bytes(i, cs[k]) \o Line("empty", i, 0)]
  BY <1>1 DEF Pieces
<1>3. ASSUME NEW k \in 1..Len(cs) PROVE OneChunk(ps[k], i, cs[k])
  <2>1. cs[k] \in Nat /\ ps[k] = Line("size", i, cs[k]) \o Bytes(i, cs[k]) \o Line("empty", i, 0)
    BY <1>1, <1>2
  <2> QED BY <2>1, PieceIs
<1>4. ps \in [1..Len(cs) -> Seq(Toks)]
  <2>1. \A k \in 1..Len(cs) : ps[k] \in Seq(Toks)
    BY <1>3 DEF OneChunk
  <2> QED BY <1>2, <2>1
<1>5. ps \in Seq(Seq(Toks)) /\ Len(ps) = Len(cs)
  BY <1>1, <1>4
<1> QED BY <1>3, <1>5

\* The body in the chunked form, behind the head.
LEMMA ChunkedIs ==
    ASSUME NEW i \in Nat, NEW cs \in Seq(Nat \ {0}), NEW m, m = Line("head", i, 0) \o ChunksOf(i, cs)
    PROVE  m \in Seq(Toks) /\ m[1] = Tok("head", i, 0) /\ \E c : Chunked(m, cs, i, c)
<1> DEFINE N == Len(cs)
<1>0. PICK ps : ps = Pieces(i, cs)
  OBVIOUS
<1>1. ps \in Seq(Seq(Toks)) /\ Len(ps) = N /\ N \in Nat /\ \A k \in 1..N : cs[k] \in Nat /\ OneChunk(ps[k], i, cs[k])
  <2>1. ps \in Seq(Seq(Toks)) /\ Len(ps) = N /\ \A k \in 1..N : OneChunk(ps[k], i, cs[k])
    BY <1>0, PiecesAre
  <2> QED BY <2>1
<1> HIDE DEF N
<1>2. PICK w, e : w = Join(ps) /\ w \in Seq(Toks) /\ Joined(ps, e) /\ Placed(w, ps, e, N)
  BY <1>1, JoinIs
<1>3. /\ e \in [0..N -> Nat] /\ e[0] = 0 /\ \A k \in 1..N : e[k] = e[k - 1] + cs[k] + 2
      /\ Len(w) = e[N] /\ e[N] \in Nat
  <2>1. e \in [0..N -> Nat] /\ e[0] = 0 /\ \A k \in 1..N : e[k] = e[k - 1] + Len(ps[k])
    BY <1>1, <1>2 DEF Joined
  <2>2. ASSUME NEW k \in 1..N PROVE e[k] = e[k - 1] + cs[k] + 2
    <3>1. Len(ps[k]) = cs[k] + 2 /\ cs[k] \in Nat
      BY <1>1 DEF OneChunk
    <3>2. k - 1 \in 0..N
      BY <1>1
    <3>3. e[k - 1] \in Nat /\ e[k] = e[k - 1] + Len(ps[k])
      BY <2>1, <3>2
    <3> QED BY <3>1, <3>3
  <2>3. Len(w) = e[N]
    BY <1>2 DEF Placed
  <2>4. N \in 0..N
    BY <1>1
  <2> QED BY <2>1, <2>2, <2>3, <2>4
<1>4. PICK h : h = Line("head", i, 0) /\ h \in Seq(Toks) /\ Len(h) = 1 /\ h[1] = Tok("head", i, 0)
  BY OneLine
<1>5. PICK s : s = Line("size", i, 0) /\ s \in Seq(Toks) /\ Len(s) = 1 /\ s[1] = Tok("size", i, 0)
  BY OneLine
<1>6. PICK z : z = Line("empty", i, 0) /\ z \in Seq(Toks) /\ Len(z) = 1 /\ z[1] = Tok("empty", i, 0)
  BY OneLine
<1>7. PICK q : q = w \o s /\ Glued(q, w, s, e[N] + 1)
  BY <1>2, <1>3, <1>5, Glue
<1>8. PICK r : r = q \o z /\ Glued(r, q, z, e[N] + 2)
  <2>1. q \in Seq(Toks) /\ Len(q) = e[N] + 1
    BY <1>7 DEF Glued
  <2>2. Glued(q \o z, q, z, (e[N] + 1) + 1)
    BY <1>6, <2>1, Glue
  <2>3. (e[N] + 1) + 1 = e[N] + 2
    BY <1>3
  <2> QED BY <2>2, <2>3
<1>9. m = h \o r /\ Glued(m, h, r, e[N] + 3)
  <2>1. ChunksOf(i, cs) = w \o s \o z
    BY <1>0, <1>2, <1>5, <1>6 DEF ChunksOf
  <2>2. m = h \o r
    BY <1>4, <1>7, <1>8, <2>1
  <2>3. r \in Seq(Toks) /\ Len(r) = e[N] + 2
    BY <1>8 DEF Glued
  <2>4. Glued(h \o r, h, r, 1 + (e[N] + 2))
    BY <1>4, <2>3, Glue
  <2>5. 1 + (e[N] + 2) = e[N] + 3
    BY <1>3
  <2> QED BY <2>2, <2>4, <2>5
<1>10. /\ m[1] = Tok("head", i, 0)
       /\ \A j \in 1..e[N] : m[1 + j] = w[j]
       /\ m[e[N] + 2] = Tok("size", i, 0) /\ m[e[N] + 3] = Tok("empty", i, 0)
  <2>1. \A j \in 1..e[N] + 2 : m[1 + j] = r[j]
    BY <1>4, <1>8, <1>9 DEF Glued, Halves
  <2>2. (\A j \in 1..e[N] + 1 : r[j] = q[j]) /\ (\A j \in 1..1 : r[e[N] + 1 + j] = z[j])
    BY <1>6, <1>7, <1>8 DEF Glued, Halves
  <2>3. (\A j \in 1..e[N] : q[j] = w[j]) /\ (\A j \in 1..1 : q[e[N] + j] = s[j])
    BY <1>3, <1>5, <1>7 DEF Glued, Halves
  <2>4. ASSUME NEW j \in 1..e[N] PROVE m[1 + j] = w[j]
    <3>1. j \in 1..e[N] + 1 /\ j \in 1..e[N] + 2
      BY <1>3
    <3> QED BY <2>1, <2>2, <2>3, <3>1
  <2>5. m[e[N] + 2] = s[1]
    <3>1. e[N] + 1 \in 1..e[N] + 1 /\ e[N] + 1 \in 1..e[N] + 2 /\ 1 + (e[N] + 1) = e[N] + 2 /\ 1 \in 1..1
      BY <1>3
    <3>2. m[1 + (e[N] + 1)] = r[e[N] + 1] /\ r[e[N] + 1] = q[e[N] + 1] /\ q[e[N] + 1] = s[1]
      BY <2>1, <2>2, <2>3, <3>1
    <3> QED BY <3>1, <3>2
  <2>6. m[e[N] + 3] = z[1]
    <3>1. e[N] + 2 \in 1..e[N] + 2 /\ 1 + (e[N] + 2) = e[N] + 3 /\ e[N] + 1 + 1 = e[N] + 2 /\ 1 \in 1..1
      BY <1>3
    <3>2. m[1 + (e[N] + 2)] = r[e[N] + 2] /\ r[e[N] + 1 + 1] = z[1]
      BY <2>1, <2>2, <3>1
    <3> QED BY <3>1, <3>2
  <2>7. m[1] = h[1]
    BY <1>4, <1>9 DEF Glued, Halves
  <2> QED BY <1>4, <1>5, <1>6, <2>4, <2>5, <2>6, <2>7
<1>11. ASSUME NEW k \in 1..N
       PROVE  /\ e[k] = e[k - 1] + cs[k] + 2
              /\ m[e[k - 1] + 2] = Tok("size", i, cs[k]) /\ m[e[k] + 1] = Tok("empty", i, 0)
              /\ \A j \in 1..cs[k] : m[e[k - 1] + 2 + j] = Tok("data", i, 0)
  <2>1. k - 1 \in 0..N /\ k \in 0..N /\ cs[k] \in Nat
    BY <1>1
  <2>2. e[k - 1] \in Nat /\ e[k] \in Nat /\ e[k] = e[k - 1] + cs[k] + 2
    BY <1>3, <2>1
  <2>3. e[k] <= e[N]
    <3> DEFINE H == {n \in 0..N : k <= n => e[k] <= e[n]}
    <3>1. 0 \in H
      BY <1>1
    <3>2. ASSUME NEW n \in 0..N - 1, n \in H PROVE n + 1 \in H
      <4>1. n + 1 \in 0..N /\ n + 1 \in 1..N /\ n \in 0..N /\ (n + 1) - 1 = n
        BY <1>1
      <4>2. PICK l \in 1..N : l = n + 1 /\ l - 1 = n
        BY <4>1
      <4>3. e[l] = e[l - 1] + cs[l] + 2 /\ cs[l] \in Nat
        BY <1>1, <1>3
      <4>4. e[n + 1] = e[n] + cs[n + 1] + 2 /\ cs[n + 1] \in Nat
        BY <4>2, <4>3
      <4>5. e[n] \in Nat /\ e[n + 1] \in Nat
        BY <1>3, <4>1
      <4>6. CASE k <= n
        BY <2>2, <3>2, <4>1, <4>4, <4>5, <4>6
      <4>7. CASE ~ (k <= n)
        <5>1. k <= n + 1 => k = n + 1
          BY <4>1, <4>7
        <5> QED BY <2>2, <4>1, <5>1
      <4> QED BY <4>6, <4>7
    <3>3. N \in H
      <4> HIDE DEF H
      <4>1. N \in 0..N
        BY <1>1
      <4> QED BY <1>1, <3>1, <3>2, <4>1, UpTo
    <3> QED BY <1>1, <3>3
  <2>4. ASSUME NEW j \in 1..cs[k] + 2 PROVE m[e[k - 1] + j + 1] = ps[k][j]
    <3>1. j \in 1..Len(ps[k])
      BY <1>1 DEF OneChunk
    <3>2. w[e[k - 1] + j] = ps[k][j]
      BY <1>2, <3>1 DEF Placed
    <3>3. e[k - 1] + j \in 1..e[N] /\ 1 + (e[k - 1] + j) = e[k - 1] + j + 1
      <4>1. e[k - 1] \in Nat /\ e[N] \in Nat /\ cs[k] \in Nat /\ e[k - 1] + cs[k] + 2 <= e[N]
        BY <1>3, <2>1, <2>2, <2>3
      <4>2. PICK a \in Nat, l \in Nat, o \in Nat : a = e[k - 1] /\ l = cs[k] /\ o = e[N]
        BY <4>1
      <4>3. j \in 1..l + 2 /\ a + l + 2 <= o
        BY <4>1, <4>2
      <4>4. a + j \in 1..o /\ 1 + (a + j) = a + j + 1
        BY ONLY a \in Nat, l \in Nat, o \in Nat, <4>3
      <4> QED BY <4>2, <4>4
    <3>4. m[1 + (e[k - 1] + j)] = w[e[k - 1] + j]
      BY <1>10, <3>3
    <3> QED BY <3>2, <3>3, <3>4
  <2>5. m[e[k - 1] + 2] = Tok("size", i, cs[k])
    <3>1. 1 \in 1..cs[k] + 2 /\ e[k - 1] + 1 + 1 = e[k - 1] + 2
      BY <2>1, <2>2
    <3>2. m[e[k - 1] + 1 + 1] = ps[k][1]
      BY <2>4, <3>1
    <3> QED BY <1>1, <3>1, <3>2 DEF OneChunk
  <2>6. m[e[k] + 1] = Tok("empty", i, 0)
    <3>1. cs[k] + 2 \in 1..cs[k] + 2 /\ e[k - 1] + (cs[k] + 2) + 1 = e[k] + 1
      <4>1. PICK a \in Nat, l \in Nat, o \in Nat : a = e[k - 1] /\ l = cs[k] /\ o = e[k] /\ o = a + l + 2
        BY <2>1, <2>2
      <4>2. l + 2 \in 1..l + 2 /\ a + (l + 2) + 1 = o + 1
        <5>1. o = a + l + 2
          BY <4>1
        <5> QED BY ONLY a \in Nat, l \in Nat, <5>1
      <4> QED BY <4>1, <4>2
    <3>2. m[e[k - 1] + (cs[k] + 2) + 1] = ps[k][cs[k] + 2]
      BY <2>4, <3>1
    <3> QED BY <1>1, <3>1, <3>2 DEF OneChunk
  <2>7. ASSUME NEW j \in 1..cs[k] PROVE m[e[k - 1] + 2 + j] = Tok("data", i, 0)
    <3>1. 1 + j \in 1..cs[k] + 2 /\ e[k - 1] + (1 + j) + 1 = e[k - 1] + 2 + j
      <4>1. PICK a \in Nat, l \in Nat : a = e[k - 1] /\ l = cs[k]
        BY <2>1, <2>2
      <4>2. j \in 1..l
        BY <4>1
      <4>3. 1 + j \in 1..l + 2 /\ a + (1 + j) + 1 = a + 2 + j
        BY ONLY a \in Nat, l \in Nat, <4>2
      <4> QED BY <4>1, <4>3
    <3>2. m[e[k - 1] + (1 + j) + 1] = ps[k][1 + j]
      BY <2>4, <3>1
    <3>3. OneChunk(ps[k], i, cs[k])
      BY <1>1
    <3> QED BY <3>1, <3>2, <3>3 DEF OneChunk
  <2> QED BY <2>2, <2>5, <2>6, <2>7
<1>12. Chunked(m, cs, i, e)
  BY <1>3, <1>9, <1>10, <1>11 DEF Glued, Chunked, N
<1> QED BY <1>9, <1>10, <1>12 DEF Glued

\* A request with a body of a known length.
OneBody(m, c, i) ==
    /\ c \in Nat \ {0} /\ Len(m) = c + 2 /\ m[c + 2] = Tok("empty", i, 0)
    /\ \A j \in 1..c : m[1 + j] = Tok("data", i, 0)

\* What a request looks like on the wire.
Framed(m, r, i) ==
    /\ m \in Seq(Toks) /\ m[1] = Tok("head", i, 0)
    /\ r.form = "none" => Len(m) = 1
    /\ r.form = "length" => OneBody(m, r.chunks[1], i)
    /\ r.form = "chunked" => \E c : Chunked(m, r.chunks, i, c)

LEMMA MessageIs ==
    ASSUME NEW r \in Asked, r.form = "length" => Len(r.chunks) = 1, NEW i \in Nat
    PROVE  Framed(Message(r, i), r, i)
<1>0. r.form \in BodyForms /\ r.chunks \in Seq(Nat \ {0}) /\ (r.form = "length" => Len(r.chunks) = 1)
  BY DEF Asked
<1>1. PICK h : h = Line("head", i, 0) /\ h \in Seq(Toks) /\ Len(h) = 1 /\ h[1] = Tok("head", i, 0)
  BY OneLine
<1>2. CASE r.form = "none"
  <2>1. Message(r, i) = h \o <<>>
    BY <1>1, <1>2 DEF Message
  <2>2. Message(r, i) = h
    BY <1>1, <2>1
  <2> QED BY <1>1, <1>2, <2>2 DEF Framed
<1>3. CASE r.form = "length"
  <2>1. PICK n \in Nat \ {0} : n = r.chunks[1]
    <3>1. 1 \in 1..Len(r.chunks)
      <4>1. Len(r.chunks) = 1
        BY <1>0, <1>3
      <4> QED BY ONLY <4>1
    <3> QED BY <1>0, <3>1
  <2>2. PICK b : b = Bytes(i, n) /\ b \in Seq(Toks) /\ Len(b) = n /\ \A j \in 1..n : b[j] = Tok("data", i, 0)
    BY SomeBytes
  <2>3. PICK z : z = Line("empty", i, 0) /\ z \in Seq(Toks) /\ Len(z) = 1 /\ z[1] = Tok("empty", i, 0)
    BY OneLine
  <2>4. PICK q : q = b \o z /\ Glued(q, b, z, n + 1)
    BY <2>2, <2>3, Glue
  <2>5. PICK m : m = Message(r, i) /\ m = h \o q
    BY <1>1, <1>3, <2>1, <2>2, <2>3, <2>4 DEF Message
  <2>6. Glued(m, h, q, 1 + (n + 1))
    <3>1. q \in Seq(Toks) /\ Len(q) = n + 1
      BY <2>4 DEF Glued
    <3> QED BY <1>1, <2>5, <3>1, Glue
  <2>7. (\A j \in 1..1 : m[j] = h[j]) /\ (\A j \in 1..n + 1 : m[1 + j] = q[j])
    BY <1>1, <2>4, <2>6 DEF Glued, Halves
  <2>8. (\A j \in 1..n : q[j] = b[j]) /\ \A j \in 1..1 : q[n + j] = z[j]
    BY <2>2, <2>3, <2>4 DEF Glued, Halves
  <2>9. m[1] = Tok("head", i, 0)
    BY <1>1, <2>7
  <2>10. m[n + 2] = Tok("empty", i, 0)
    <3>1. n + 1 \in 1..n + 1 /\ 1 + (n + 1) = n + 2 /\ 1 \in 1..1
      BY <2>1
    <3>2. m[1 + (n + 1)] = q[n + 1] /\ q[n + 1] = z[1]
      BY <2>7, <2>8, <3>1
    <3> QED BY <2>3, <3>1, <3>2
  <2>11. ASSUME NEW j \in 1..n PROVE m[1 + j] = Tok("data", i, 0)
    <3>1. j \in 1..n + 1
      BY <2>1
    <3> QED BY <2>2, <2>7, <2>8, <3>1
  <2>12. m \in Seq(Toks) /\ Len(m) = n + 2
    BY <2>6 DEF Glued
  <2>13. OneBody(m, n, i)
    BY <2>10, <2>11, <2>12 DEF OneBody
  <2> QED BY <1>3, <2>1, <2>5, <2>9, <2>12, <2>13 DEF Framed
<1>4. CASE r.form = "chunked"
  <2>1. PICK m : m = Message(r, i)
    OBVIOUS
  <2>2. m = Line("head", i, 0) \o ChunksOf(i, r.chunks)
    BY <1>4, <2>1 DEF Message
  <2>3. m \in Seq(Toks) /\ m[1] = Tok("head", i, 0) /\ \E c : Chunked(m, r.chunks, i, c)
    BY <1>0, <2>2, ChunkedIs
  <2> QED BY <1>4, <2>1, <2>3 DEF Framed
<1> QED BY <1>0, <1>2, <1>3, <1>4 DEF BodyForms

Messages(p) == [i \in DOMAIN p |-> Message(p[i], i)]

\* The messages of a pipeline lie on a wire w, and e says where each ends.
OnWire(w, p, e) ==
    /\ w \in Seq(Toks) /\ e \in [0..Len(p) -> Nat] /\ e[0] = 0 /\ Len(w) = e[Len(p)]
    /\ \A i \in 1..Len(p) : /\ e[i] = e[i - 1] + Len(Message(p[i], i))
                            /\ \A j \in 1..Len(Message(p[i], i)) : w[e[i - 1] + j] = Message(p[i], i)[j]

LEMMA PipelineIs ==
    ASSUME NEW p \in Pipelines
    PROVE  /\ p \in Seq(Asked) /\ Len(p) \in Nat /\ DOMAIN p = 1..Len(p)
           /\ \A i \in 1..Len(p) : p[i] \in Asked /\ Framed(Message(p[i], i), p[i], i)
<1>1. p \in Seq(Asked) /\ \A i \in DOMAIN p : p[i].form = "length" => Len(p[i].chunks) = 1
  BY ConnectionAssumption DEF Asked, BodyForms
<1>2. Len(p) \in Nat /\ DOMAIN p = 1..Len(p) /\ \A i \in 1..Len(p) : p[i] \in Asked
  BY <1>1
<1>3. ASSUME NEW i \in 1..Len(p) PROVE p[i] \in Asked /\ Framed(Message(p[i], i), p[i], i)
  <2>1. i \in Nat /\ p[i] \in Asked /\ (p[i].form = "length" => Len(p[i].chunks) = 1)
    BY <1>1, <1>2
  <2> QED BY <2>1, MessageIs
<1> QED BY <1>1, <1>2, <1>3

LEMMA WireIs ==
    ASSUME NEW p \in Pipelines
    PROVE  \E e : OnWire(Wire(p), p, e)
<1> DEFINE N == Len(p)
<1>0. PICK ms : ms = Messages(p)
  OBVIOUS
<1>1. N \in Nat /\ DOMAIN p = 1..N /\ \A i \in 1..N : Framed(Message(p[i], i), p[i], i)
  BY PipelineIs
<1>2. ms = [i \in 1..N |-> Message(p[i], i)]
  BY <1>0, <1>1 DEF Messages
<1>3. Wire(p) = Join(ms)
  BY <1>0 DEF Wire, Messages
<1>4. ms \in Seq(Seq(Toks)) /\ Len(ms) = N
  <2> HIDE DEF N
  <2>1. \A i \in 1..N : Message(p[i], i) \in Seq(Toks)
    BY <1>1 DEF Framed
  <2>2. ms \in [1..N -> Seq(Toks)]
    BY <1>2, <2>1
  <2> QED BY <1>1, <2>2
<1>5. PICK w, e : w = Wire(p) /\ w \in Seq(Toks) /\ Joined(ms, e) /\ Placed(w, ms, e, N)
  BY <1>3, <1>4, JoinIs
<1> HIDE DEF N
<1>6. e \in [0..N -> Nat] /\ e[0] = 0 /\ Len(w) = e[N]
  BY <1>4, <1>5 DEF Joined, Placed
<1>7. ASSUME NEW i \in 1..N
      PROVE  /\ e[i] = e[i - 1] + Len(Message(p[i], i))
             /\ \A j \in 1..Len(Message(p[i], i)) : w[e[i - 1] + j] = Message(p[i], i)[j]
  <2>1. ms[i] = Message(p[i], i)
    BY <1>2
  <2>2. e[i] = e[i - 1] + Len(ms[i])
    BY <1>4, <1>5 DEF Joined
  <2>3. \A j \in 1..Len(ms[i]) : w[e[i - 1] + j] = ms[i][j]
    BY <1>5 DEF Placed
  <2> QED BY <2>1, <2>2, <2>3
<1>8. OnWire(w, p, e)
  BY <1>5, <1>6, <1>7 DEF OnWire, N
<1> QED BY <1>5, <1>8

-----------------------------------------------------------------------------
(* Where the server is on the wire *)

MessageEnds(p) == CHOOSE e : OnWire(Wire(p), p, e)
ChunkEnds(p, i) == CHOOSE c : Chunked(Message(p[i], i), p[i].chunks, i, c)

\* Before the size line of chunk k + 1, or before the empty line that ends chunk k: u
\* tokens of the message are taken, and n bytes of its body returned.
Between(c, k, u, left, n) ==
    left = 0 /\ n = c[k] - 2 * k /\ (u = c[k] + 1 \/ (k >= 1 /\ u = c[k]))

\* In chunk k, with some of it left.
Within(cs, c, k, u, left, n) ==
    /\ left \in 1..cs[k] /\ u = c[k - 1] + 2 + (cs[k] - left)
    /\ n = c[k - 1] - 2 * (k - 1) + (cs[k] - left)

InChunks(cs, c, u, left, done, n) ==
    IF done
    THEN left = 0 /\ u \in {c[Len(cs)] + 2, c[Len(cs)] + 3} /\ n = c[Len(cs)] - 2 * Len(cs)
    ELSE \/ \E k \in 0..Len(cs) : Between(c, k, u, left, n)
         \/ \E k \in 1..Len(cs) : Within(cs, c, k, u, left, n)

\* u tokens of request i's message are taken, of its body n bytes returned.
InBody(p, i, u, left, done, n) ==
    /\ p[i].form = "none" => u = 1 /\ done /\ n = 0 /\ left = 0
    /\ p[i].form = "length" => /\ n \in 0..p[i].chunks[1] /\ u = 1 + n /\ left = p[i].chunks[1] - n
                               /\ done <=> n = p[i].chunks[1]
    /\ p[i].form = "chunked" => InChunks(p[i].chunks, ChunkEnds(p, i), u, left, done, n)

\* The first h messages are taken, but perhaps the empty line behind the last one.
AtHead(p, h, t) ==
    \/ t = MessageEnds(p)[h]
    \/ h >= 1 /\ p[h].form # "none" /\ t = MessageEnds(p)[h] - 1

ConnStates == [pc : {"head", "handler", "discard", "answer", "closed"}, req : Nat, left : Nat,
               done : BOOLEAN, keep : BOOLEAN, reads : 0..DiscardReads]

ConnInv ==
    /\ pipeline \in Pipelines /\ cut \in 0..Len(Wire(pipeline)) /\ taken \in 0..cut /\ conn \in ConnStates
    /\ handled \in Seq(Toks) /\ Len(handled) <= Len(pipeline)
    /\ \A k \in 1..Len(handled) : handled[k] = Tok("head", k, 0) /\ (k < Len(handled) => pipeline[k].keep)
    /\ answered \in Seq(Nat) /\ \A k \in 1..Len(answered) : answered[k] = k
    /\ got \in Seq(Toks) /\ (conn.req # 0 => \A k \in 1..Len(got) : got[k] = Tok("data", conn.req, 0))
    /\ conn.pc = "head" =>
          /\ conn = Waiting /\ Len(answered) = Len(handled) /\ AtHead(pipeline, Len(handled), taken)
          /\ Len(handled) >= 1 => pipeline[Len(handled)].keep
    /\ conn.pc \in {"handler", "discard", "answer"} =>
          /\ conn.req = Len(handled) /\ conn.req >= 1 /\ Len(answered) = Len(handled) - 1
          /\ taken >= MessageEnds(pipeline)[conn.req - 1]
          /\ InBody(pipeline, conn.req, taken - MessageEnds(pipeline)[conn.req - 1], conn.left, conn.done, Len(got))
          /\ conn.keep => pipeline[conn.req].keep /\ (conn.pc = "answer" => conn.done)
    /\ conn.pc = "closed" => conn.req \in {0, Len(handled)} /\ Len(handled) - Len(answered) \in {0, 1}

\* A message lies on the wire behind a place.
Laid(w, b, m) == \A j \in 1..Len(m) : w[b + j] = m[j]

LEMMA EndsAre ==
    ASSUME NEW p \in Pipelines
    PROVE  OnWire(Wire(p), p, MessageEnds(p))
BY WireIs DEF MessageEnds

LEMMA EndsGrow ==
    ASSUME NEW w, NEW p \in Pipelines, NEW e, OnWire(w, p, e), NEW i \in 0..Len(p)
    PROVE  e[i] <= Len(w)
<1> DEFINE N == Len(p)
           G == {n \in 0..N : i <= n => e[i] <= e[n]}
<1>1. N \in Nat /\ \A k \in 1..N : Framed(Message(p[k], k), p[k], k)
  BY PipelineIs
<1>2. e \in [0..N -> Nat] /\ Len(w) = e[N] /\ \A k \in 1..N : e[k] = e[k - 1] + Len(Message(p[k], k))
  BY DEF OnWire
<1> HIDE DEF N
<1>3. 0 \in G
  <2>1. i <= 0 => i = 0
    BY <1>1 DEF N
  <2> QED BY <1>1, <1>2, <2>1
<1>4. ASSUME NEW n \in 0..N - 1, n \in G PROVE n + 1 \in G
  <2>1. n + 1 \in 0..N /\ n \in 0..N
    BY <1>1
  <2>2. PICK k \in 1..N : k = n + 1 /\ k - 1 = n
    BY <1>1
  <2>3. Len(Message(p[k], k)) \in Nat
    BY <1>1 DEF Framed
  <2>4. e[k] = e[k - 1] + Len(Message(p[k], k)) /\ e[n] \in Nat
    BY <1>2, <2>1
  <2>5. e[n] <= e[n + 1]
    <3>1. e[k] = e[n] + Len(Message(p[k], k))
      BY <2>2, <2>4
    <3>2. PICK a \in Nat, l \in Nat : a = e[n] /\ l = Len(Message(p[k], k))
      BY <2>3, <2>4
    <3>3. e[k] = a + l /\ a <= a + l
      BY <3>1, <3>2
    <3> QED BY <2>2, <3>2, <3>3
  <2>6. CASE i <= n
    <3>1. e[i] <= e[n]
      BY <1>4, <2>6
    <3>2. e[i] \in Nat /\ e[n] \in Nat /\ e[n + 1] \in Nat
      BY <1>1, <1>2, <2>1 DEF N
    <3> QED BY <2>1, <2>5, <3>1, <3>2
  <2>7. CASE ~ (i <= n)
    <3>1. i <= n + 1 => i = n + 1
      BY <1>1, <2>7 DEF N
    <3>2. e[n + 1] \in Nat
      BY <1>2, <2>1
    <3> QED BY <2>1, <3>1, <3>2
  <2> QED BY <2>6, <2>7
<1>5. N \in G
  <2> HIDE DEF G
  <2>1. N \in 0..N
    BY <1>1
  <2> QED BY <1>1, <1>3, <1>4, <2>1, UpTo
<1>6. i <= N
  BY <1>1 DEF N
<1> QED BY <1>2, <1>5, <1>6

\* One message of a pipeline.
LEMMA OneMessage ==
    ASSUME NEW p \in Pipelines, NEW i \in 1..Len(p), NEW w, w = Wire(p), NEW m, m = Message(p[i], i),
           NEW b, b = MessageEnds(p)[i - 1]
    PROVE  /\ b \in Nat /\ Laid(w, b, m) /\ Framed(m, p[i], i) /\ m \in Seq(Toks) /\ Len(m) \in Nat
           /\ MessageEnds(p)[i] = b + Len(m) /\ b + Len(m) <= Len(w)
           /\ p[i] \in Asked /\ p[i].chunks \in Seq(Nat \ {0}) /\ Len(p[i].chunks) \in Nat
<1>1. PICK e : e = MessageEnds(p) /\ OnWire(w, p, e)
  BY EndsAre
<1>2. Len(p) \in Nat /\ p[i] \in Asked /\ Framed(m, p[i], i)
  BY PipelineIs
<1>3. i - 1 \in 0..Len(p) /\ i \in 0..Len(p)
  BY <1>2
<1>4. b \in Nat /\ e[i] = b + Len(m) /\ Laid(w, b, m)
  BY <1>1, <1>3 DEF OnWire, Laid
<1>5. e[i] <= Len(w)
  BY <1>1, <1>3, EndsGrow
<1>6. m \in Seq(Toks) /\ Len(m) \in Nat
  <2>1. m \in Seq(Toks)
    BY <1>2 DEF Framed
  <2> QED BY <2>1
<1>7. p[i].chunks \in Seq(Nat \ {0}) /\ Len(p[i].chunks) \in Nat
  <2>1. p[i].chunks \in Seq(Nat \ {0})
    BY <1>2 DEF Asked
  <2> QED BY <2>1
<1> QED BY <1>1, <1>2, <1>4, <1>5, <1>6, <1>7

LEMMA ChunkEndsAre ==
    ASSUME NEW p, NEW i, Framed(Message(p[i], i), p[i], i), p[i].form = "chunked"
    PROVE  Chunked(Message(p[i], i), p[i].chunks, i, ChunkEnds(p, i))
BY DEF Framed, ChunkEnds

LEMMA SomethingFramed ==
    ASSUME NEW r \in Asked, NEW i, NEW m, Framed(m, r, i)
    PROVE  Len(m) >= 1 /\ (r.form # "none" => m[Len(m)].is = "empty")
<1>1. r.form \in BodyForms /\ r.chunks \in Seq(Nat \ {0})
  BY DEF Asked
<1>2. CASE r.form = "none"
  <2>1. Len(m) = 1
    BY <1>2 DEF Framed
  <2> QED BY <1>2, <2>1
<1>3. CASE r.form = "length"
  <2>1. PICK n \in Nat : n = r.chunks[1] /\ Len(m) = n + 2 /\ m[n + 2] = Tok("empty", i, 0)
    BY <1>3 DEF Framed, OneBody
  <2>2. Len(m) >= 1 /\ m[Len(m)] = Tok("empty", i, 0)
    BY <2>1
  <2> QED BY <2>2 DEF Tok
<1>4. CASE r.form = "chunked"
  <2>1. PICK c : Chunked(m, r.chunks, i, c)
    BY <1>4 DEF Framed
  <2>2. PICK n \in Nat : n = c[Len(r.chunks)] /\ Len(m) = n + 3 /\ m[n + 3] = Tok("empty", i, 0)
    <3>1. Len(r.chunks) \in 0..Len(r.chunks)
      BY <1>1
    <3> QED BY <2>1, <3>1 DEF Chunked
  <2>3. Len(m) >= 1 /\ m[Len(m)] = Tok("empty", i, 0)
    BY <2>2
  <2> QED BY <2>3 DEF Tok
<1> QED BY <1>1, <1>2, <1>3, <1>4 DEF BodyForms

\* What is on the wire behind the place where a message is expected.
LEMMA HeadComes ==
    ASSUME NEW p \in Pipelines, NEW h \in 0..Len(p), NEW t \in Nat, t < Len(Wire(p)), AtHead(p, h, t)
    PROVE  \/ Wire(p)[t + 1].is = "empty" /\ AtHead(p, h, t + 1)
           \/ h < Len(p) /\ t = MessageEnds(p)[h] /\ Wire(p)[t + 1] = Tok("head", h + 1, 0)
<1>1. PICK w, e : w = Wire(p) /\ e = MessageEnds(p) /\ OnWire(w, p, e)
  BY EndsAre
<1>2. Len(p) \in Nat /\ e \in [0..Len(p) -> Nat] /\ Len(w) = e[Len(p)]
  BY <1>1, PipelineIs DEF OnWire
<1>3. CASE t = e[h]
  <2>1. h # Len(p)
    BY <1>1, <1>2, <1>3
  <2>2. PICK i \in 1..Len(p) : i = h + 1 /\ i - 1 = h
    BY <1>2, <2>1
  <2>3. PICK m : m = Message(p[i], i)
    OBVIOUS
  <2>4. Laid(w, e[h], m) /\ Framed(m, p[i], i) /\ m \in Seq(Toks)
    BY <1>1, <2>2, <2>3, OneMessage
  <2>5. m[1] = Tok("head", i, 0) /\ Len(m) >= 1
    <3>1. m[1] = Tok("head", i, 0)
      BY <2>4 DEF Framed
    <3>2. Len(m) >= 1
      <4>1. p[i] \in Asked
        BY PipelineIs
      <4> QED BY <2>4, <4>1, SomethingFramed
    <3> QED BY <3>1, <3>2
  <2>6. w[e[h] + 1] = Tok("head", h + 1, 0)
    <3>1. 1 \in 1..Len(m)
      BY <2>4, <2>5
    <3> QED BY <2>2, <2>4, <2>5, <3>1 DEF Laid
  <2> QED BY <1>1, <1>3, <2>1, <2>6
<1>4. CASE h >= 1 /\ p[h].form # "none" /\ t = e[h] - 1
  <2>1. PICK i \in 1..Len(p) : i = h
    BY <1>2, <1>4
  <2>2. PICK m, b : m = Message(p[i], i) /\ b = e[i - 1]
    OBVIOUS
  <2>3. b \in Nat /\ Laid(w, b, m) /\ Framed(m, p[i], i) /\ m \in Seq(Toks) /\ e[i] = b + Len(m) /\ p[i] \in Asked
    BY <1>1, <2>2, OneMessage
  <2>4. Len(m) >= 1 /\ m[Len(m)].is = "empty"
    BY <1>4, <2>1, <2>3, SomethingFramed
  <2>5. t + 1 = b + Len(m) /\ w[b + Len(m)] = m[Len(m)]
    <3>1. Len(m) \in 1..Len(m)
      BY <2>3, <2>4
    <3>2. t + 1 = e[h]
      BY <1>2, <1>4
    <3> QED BY <2>1, <2>3, <3>1, <3>2 DEF Laid
  <2>6. AtHead(p, h, t + 1)
    BY <1>1, <2>1, <2>3, <2>5 DEF AtHead
  <2> QED BY <1>1, <2>4, <2>5, <2>6
<1> QED BY <1>1, <1>3, <1>4 DEF AtHead

LEMMA ChunkedParts ==
    ASSUME NEW cs \in Seq(Nat \ {0}), NEW i, NEW m, NEW c, Chunked(m, cs, i, c), NEW k \in 0..Len(cs) - 1
    PROVE  /\ c[k] \in Nat /\ c[k + 1] \in Nat /\ cs[k + 1] \in Nat \ {0} /\ c[k + 1] = c[k] + cs[k + 1] + 2
           /\ c[k + 1] + 3 <= Len(m) /\ Len(m) \in Nat
           /\ m[c[k] + 2] = Tok("size", i, cs[k + 1]) /\ m[c[k + 1] + 1] = Tok("empty", i, 0)
           /\ \A j \in 1..cs[k + 1] : m[c[k] + 2 + j] = Tok("data", i, 0)
<1> DEFINE N == Len(cs)
<1>1. N \in Nat /\ \A l \in 1..N : cs[l] \in Nat \ {0}
  OBVIOUS
<1>2. /\ c \in [0..N -> Nat] /\ Len(m) = c[N] + 3
      /\ \A l \in 1..N : /\ c[l] = c[l - 1] + cs[l] + 2
                         /\ m[c[l - 1] + 2] = Tok("size", i, cs[l]) /\ m[c[l] + 1] = Tok("empty", i, 0)
                         /\ \A j \in 1..cs[l] : m[c[l - 1] + 2 + j] = Tok("data", i, 0)
  BY DEF Chunked
<1> HIDE DEF N
<1>3. PICK l \in 1..N : l = k + 1 /\ l - 1 = k
  BY <1>1 DEF N
<1>4. k \in 0..N /\ l \in 0..N /\ N \in 0..N
  BY <1>1 DEF N
<1>5. c[k] \in Nat /\ c[l] \in Nat /\ c[N] \in Nat
  BY <1>2, <1>4
<1>6. c[l] <= c[N]
  <2> DEFINE G == {n \in 0..N : l <= n => c[l] <= c[n]}
  <2>1. 0 \in G
    BY <1>1, <1>3
  <2>2. ASSUME NEW n \in 0..N - 1, n \in G PROVE n + 1 \in G
    <3>1. n + 1 \in 0..N /\ n \in 0..N
      BY <1>1
    <3>2. PICK o \in 1..N : o = n + 1 /\ o - 1 = n
      BY <1>1
    <3>3. c[o] = c[o - 1] + cs[o] + 2 /\ cs[o] \in Nat
      BY <1>1, <1>2
    <3>4. PICK x \in Nat, y \in Nat : x = c[n] /\ y = c[o] /\ x <= y
      <4>1. PICK x \in Nat, r \in Nat : x = c[n] /\ r = cs[o]
        BY <1>2, <3>1, <3>3
      <4>2. c[o] = x + r + 2
        BY <3>2, <3>3, <4>1
      <4>3. x + r + 2 \in Nat /\ x <= x + r + 2
        BY ONLY x \in Nat, r \in Nat
      <4> QED BY <4>1, <4>2, <4>3
    <3>5. CASE l <= n
      BY <1>5, <2>2, <3>1, <3>2, <3>4, <3>5
    <3>6. CASE ~ (l <= n)
      <4>1. l <= n + 1 => l = n + 1
        BY <3>1, <3>6
      <4> QED BY <1>5, <3>1, <4>1
    <3> QED BY <3>5, <3>6
  <2>3. N \in G
    <3> HIDE DEF G
    <3> QED BY <1>1, <1>4, <2>1, <2>2, UpTo
  <2> QED BY <1>3, <2>3
<1>7. Len(m) \in Nat /\ c[l] + 3 <= Len(m)
  BY <1>2, <1>5, <1>6
<1> QED BY <1>1, <1>2, <1>3, <1>5, <1>7

\* What read() gets of a chunk of which `left' bytes are left: n of them, and the line
\* behind the chunk if z is 1.
SomeRead(cs, c, w, b, i, k, left, n, z, at) ==
    /\ InChunks(cs, c, at + n + z - b, left - n, FALSE, c[k] - 2 * k + (cs[k + 1] - left) + n)
    /\ \A j \in at + 1 .. at + n : w[j] = Tok("data", i, 0)
    /\ z = 1 => w[at + n + 1] = Tok("empty", i, 0)

LEMMA SomeOfChunk ==
    ASSUME NEW cs \in Seq(Nat \ {0}), NEW i, NEW m, NEW c, Chunked(m, cs, i, c), NEW w, NEW b \in Nat, Laid(w, b, m),
           NEW k \in 0..Len(cs) - 1, NEW left \in 1..cs[k + 1], NEW n \in 1..left, NEW z \in {0, 1}, z = 1 => n = left,
           NEW at, at = b + c[k] + 2 + (cs[k + 1] - left)
    PROVE  SomeRead(cs, c, w, b, i, k, left, n, z, at)
<1>1. Len(cs) \in Nat
  OBVIOUS
<1>2. PICK x, y, s, L :
        /\ x = c[k] /\ y = c[k + 1] /\ s = cs[k + 1] /\ L = Len(m)
        /\ x \in Nat /\ y \in Nat /\ s \in Nat \ {0} /\ L \in Nat /\ y = x + s + 2 /\ y + 3 <= L
        /\ m[x + 2] = Tok("size", i, s) /\ m[y + 1] = Tok("empty", i, 0)
        /\ \A j \in 1..s : m[x + 2 + j] = Tok("data", i, 0)
  <2>1. /\ c[k] \in Nat /\ c[k + 1] \in Nat /\ cs[k + 1] \in Nat \ {0} /\ c[k + 1] = c[k] + cs[k + 1] + 2
        /\ c[k + 1] + 3 <= Len(m) /\ Len(m) \in Nat
        /\ m[c[k] + 2] = Tok("size", i, cs[k + 1]) /\ m[c[k + 1] + 1] = Tok("empty", i, 0)
        /\ \A j \in 1..cs[k + 1] : m[c[k] + 2 + j] = Tok("data", i, 0)
    BY ChunkedParts
  <2> QED BY <2>1, Zenon
<1>3. /\ left \in 1..s /\ n \in 1..left /\ at = b + x + 2 + (s - left) /\ k \in Nat
      /\ x \in Nat /\ y \in Nat /\ s \in Nat \ {0} /\ L \in Nat /\ y = x + s + 2 /\ y + 3 <= L
      /\ b \in Nat /\ z \in {0, 1} /\ (z = 1 => n = left)
  <2>1. k \in Nat
    BY <1>1
  <2>2. left \in 1..s /\ at = b + x + 2 + (s - left)
    BY <1>2, Zenon
  <2> QED BY <1>2, <2>1, <2>2
<1>4. at + n + z - b = x + 2 + (s - left) + n + z
  BY ONLY <1>3
<1>5. k + 1 \in 1..Len(cs)
  BY <1>1
<1>7. InChunks(cs, c, at + n + z - b, left - n, FALSE, x - 2 * k + (s - left) + n)
  <2>1. CASE n < left
    <3>1. z = 0
      BY <2>1
    <3>2. PICK l \in 1..Len(cs) : l = k + 1 /\ l - 1 = k
      BY <1>1
    <3>3. Within(cs, c, l, x + 2 + (s - left) + n, left - n, x - 2 * k + (s - left) + n)
      <4>1. left - n \in 1..s
        BY ONLY <1>3, <2>1
      <4>2. x + 2 + (s - left) + n = x + 2 + (s - (left - n))
        BY ONLY <1>3
      <4>3. x - 2 * k + (s - left) + n = x - 2 * k + (s - (left - n))
        BY ONLY <1>3
      <4> QED BY <1>2, <3>2, <4>1, <4>2, <4>3 DEF Within
    <3>4. at + n + z - b = x + 2 + (s - left) + n
      BY ONLY <1>3, <3>1
    <3>5. InChunks(cs, c, at + n + z - b, left - n, FALSE, x - 2 * k + (s - left) + n)
      BY <3>2, <3>3, <3>4 DEF InChunks
    <3> QED BY <3>5
  <2>2. CASE n = left
    <3>1. PICK l \in 0..Len(cs) : l = k + 1 /\ l >= 1
      BY <1>1
    <3>2. Between(c, l, at + n + z - b, left - n, x - 2 * k + (s - left) + n)
      <4>1. left - n = 0
        BY ONLY <1>3, <2>2
      <4>2. at + n + z - b = y + z
        BY ONLY <1>3, <2>2
      <4>3. x - 2 * k + (s - left) + n = y - 2 * l
        BY ONLY <1>3, <2>2, <3>1
      <4>4. y + z = y + 1 \/ y + z = y
        BY ONLY <1>3
      <4>5. c[l] = y
        BY <1>2, <3>1, Zenon
      <4> QED BY <3>1, <4>1, <4>2, <4>3, <4>4, <4>5 DEF Between
    <3>3. InChunks(cs, c, at + n + z - b, left - n, FALSE, x - 2 * k + (s - left) + n)
      BY <3>1, <3>2 DEF InChunks
    <3> QED BY <3>3
  <2>3. n < left \/ n = left
    BY ONLY <1>3
  <2> QED BY <2>1, <2>2, <2>3
<1>8. ASSUME NEW j \in at + 1 .. at + n PROVE w[j] = Tok("data", i, 0)
  <2>1. PICK q \in 1..s : j = b + (x + 2 + q) /\ x + 2 + q \in 1..L
    <3>1. j \in Int /\ at + 1 <= j /\ j <= at + n
      BY <1>3
    <3>2. /\ j - (b + x + 2) \in 1..s /\ j = b + (x + 2 + (j - (b + x + 2)))
          /\ x + 2 + (j - (b + x + 2)) \in 1..L
      BY ONLY <1>3, <3>1
    <3> QED BY <3>2
  <2>2. w[b + (x + 2 + q)] = m[x + 2 + q]
    BY <1>2, <2>1 DEF Laid
  <2> QED BY <1>2, <2>1, <2>2
<1>9. ASSUME z = 1 PROVE w[at + n + 1] = Tok("empty", i, 0)
  <2>1. at + n + 1 = b + (y + 1) /\ y + 1 \in 1..L
    BY ONLY <1>3, <1>9
  <2>2. w[b + (y + 1)] = m[y + 1]
    BY <1>2, <2>1 DEF Laid
  <2> QED BY <1>2, <2>1, <2>2
<1> QED BY <1>2, <1>7, <1>8, <1>9 DEF SomeRead

\* Of the tokens after the t-th, up to the u-th, those from the a-th to the d-th are
\* bytes of request i's body, and the others lines that only frame it.
DataSpan(w, t, u, i, a, d) ==
    /\ a \in Nat \ {0} /\ d \in Nat /\ t < a /\ a <= d + 1 /\ d <= u
    /\ \A k \in t + 1 .. u : IF k \in a..d THEN w[k] = Tok("data", i, 0) ELSE w[k].is \in {"size", "empty"}

\* What read() may return is in step with the wire.
ReadOk(x) ==
    /\ x.n \in Int /\ x.left \in Nat /\ x.done \in BOOLEAN /\ x.taken \in taken..cut
    /\ \E a, d : /\ DataSpan(Wire(pipeline), taken, x.taken, conn.req, a, d)
                 /\ InBody(pipeline, conn.req, x.taken - MessageEnds(pipeline)[conn.req - 1], x.left, x.done,
                           Len(got) + (d + 1 - a))

\* The request being served, in the invariant's terms.
Serving(w, m, b, i, t) ==
    /\ i \in 1..Len(pipeline) /\ i = conn.req /\ w = Wire(pipeline) /\ m = Message(pipeline[i], i)
    /\ b = MessageEnds(pipeline)[i - 1] /\ b \in Nat /\ Laid(w, b, m) /\ Framed(m, pipeline[i], i) /\ Len(m) \in Nat
    /\ b + Len(m) <= Len(w) /\ pipeline[i] \in Asked /\ Len(w) \in Nat
    /\ t = taken /\ t \in Nat /\ b <= t /\ t <= cut /\ cut \in Nat /\ cut <= Len(w)
    /\ InBody(pipeline, i, t - b, conn.left, conn.done, Len(got)) /\ Len(got) \in Nat /\ conn.left \in Nat

LEMMA ArrivedIs ==
    ASSUME pipeline \in Pipelines, cut \in 0..Len(Wire(pipeline))
    PROVE  /\ Arrived \in Seq(Toks) /\ Len(Arrived) = cut /\ Wire(pipeline) \in Seq(Toks) /\ cut \in Nat
           /\ \A k \in 1..cut : Arrived[k] = Wire(pipeline)[k] /\ Arrived[k] \in Toks
<1>1. PICK w, e : w = Wire(pipeline) /\ OnWire(w, pipeline, e)
  BY WireIs
<1>2. w \in Seq(Toks) /\ cut \in 0..Len(w) /\ cut \in Nat
  BY <1>1 DEF OnWire
<1>3. /\ SubSeq(w, 1, cut) \in Seq(Toks) /\ Len(SubSeq(w, 1, cut)) = cut
      /\ \A k \in 1..cut : SubSeq(w, 1, cut)[k] = w[k]
  BY <1>2, PrefixIs
<1>4. PICK v : v = Arrived /\ v = SubSeq(w, 1, cut)
  BY <1>1 DEF Arrived
<1>5. v \in Seq(Toks) /\ Len(v) = cut /\ \A k \in 1..cut : v[k] = w[k]
  BY <1>3, <1>4
<1>6. \A k \in 1..cut : v[k] \in Toks
  BY <1>5
<1> QED BY <1>1, <1>2, <1>4, <1>5, <1>6

LEMMA ServingIs ==
    ASSUME ConnInv, conn.pc \in {"handler", "discard", "answer"}
    PROVE  \E w, m, b, i, t : Serving(w, m, b, i, t)
<1>1. /\ pipeline \in Pipelines /\ cut \in 0..Len(Wire(pipeline)) /\ taken \in 0..cut /\ conn \in ConnStates
      /\ got \in Seq(Toks) /\ Len(handled) <= Len(pipeline) /\ handled \in Seq(Toks)
      /\ conn.req = Len(handled) /\ conn.req >= 1 /\ taken >= MessageEnds(pipeline)[conn.req - 1]
      /\ InBody(pipeline, conn.req, taken - MessageEnds(pipeline)[conn.req - 1], conn.left, conn.done, Len(got))
  BY DEF ConnInv
<1>2. Len(pipeline) \in Nat
  BY <1>1, PipelineIs
<1>3. PICK i \in 1..Len(pipeline) : i = conn.req
  BY <1>1, <1>2 DEF ConnStates
<1>4. PICK w, m, b : w = Wire(pipeline) /\ m = Message(pipeline[i], i) /\ b = MessageEnds(pipeline)[i - 1]
  OBVIOUS
<1>5. /\ b \in Nat /\ Laid(w, b, m) /\ Framed(m, pipeline[i], i) /\ Len(m) \in Nat
      /\ b + Len(m) <= Len(w) /\ pipeline[i] \in Asked
  BY <1>1, <1>4, OneMessage
<1>6. Len(w) \in Nat
  <2>1. w \in Seq(Toks)
    BY <1>1, <1>4, ArrivedIs
  <2> QED BY <2>1
<1>7. PICK t : t = taken
  OBVIOUS
<1>8. t \in Nat /\ b <= t /\ t <= cut /\ cut \in Nat /\ cut <= Len(w)
  BY <1>1, <1>3, <1>4, <1>5, <1>6, <1>7
<1>9. Len(got) \in Nat /\ conn.left \in Nat
  BY <1>1 DEF ConnStates
<1>10. InBody(pipeline, i, t - b, conn.left, conn.done, Len(got))
  BY <1>1, <1>3, <1>4, <1>7
<1> QED BY <1>3, <1>4, <1>5, <1>6, <1>7, <1>8, <1>9, <1>10 DEF Serving

\* Nothing of the body is between t and u.
NoBytes(w, t, u) == \A k \in t + 1 .. u : w[k].is \in {"size", "empty"}

LEMMA NoSpan ==
    ASSUME NEW w, NEW t \in Nat, NEW u \in Nat, t <= u, NEW i, NoBytes(w, t, u)
    PROVE  DataSpan(w, t, u, i, u + 1, u)
<1>1. \A k \in t + 1 .. u : k \notin u + 1 .. u
  OBVIOUS
<1> QED BY <1>1 DEF DataSpan, NoBytes

LEMMA NextIs ==
    ASSUME pipeline \in Pipelines, cut \in 0..Len(Wire(pipeline)), taken \in Nat
    PROVE  taken < cut => NextTok = Wire(pipeline)[taken + 1] /\ NextTok \in Toks
<1>1. \A k \in 1..cut : Arrived[k] = Wire(pipeline)[k] /\ Arrived[k] \in Toks
  BY ArrivedIs
<1>2. cut \in Nat
  BY ArrivedIs
<1> QED BY <1>1, <1>2 DEF NextTok

\* ReadOk, with names for what it is about.
LEMMA ReadIs ==
    ASSUME NEW w, NEW i, NEW b, NEW t, NEW k, i = conn.req, w = Wire(pipeline), b = MessageEnds(pipeline)[i - 1],
           t = taken, k = Len(got), NEW x, NEW n \in Int, NEW l \in Nat, NEW y \in BOOLEAN, NEW u \in t..cut,
           x.n = n, x.left = l, x.done = y, x.taken = u, NEW a, NEW d, DataSpan(w, t, u, i, a, d),
           InBody(pipeline, i, u - b, l, y, k + (d + 1 - a))
    PROVE  ReadOk(x)
<1>1. x.n \in Int /\ x.left \in Nat /\ x.done \in BOOLEAN /\ x.taken \in taken..cut
  OBVIOUS
<1>2. DataSpan(Wire(pipeline), taken, x.taken, conn.req, a, d)
  BY Zenon
<1>3. InBody(pipeline, conn.req, x.taken - MessageEnds(pipeline)[conn.req - 1], x.left, x.done, Len(got) + (d + 1 - a))
  BY Zenon
<1> QED BY <1>1, <1>2, <1>3 DEF ReadOk

LEMMA LengthReads ==
    ASSUME ConnInv, conn.pc \in {"handler", "discard"}, ~ conn.done, pipeline[conn.req].form = "length",
           NEW n \in 1..ReadSize, NEW x, x = LengthRead(n), x.n <= 0 \/ (x.left >= 0 /\ x.taken <= cut)
    PROVE  ReadOk(x)
<1>1. PICK w, m, b, i, t : Serving(w, m, b, i, t)
  BY ServingIs
<1>2. /\ i = conn.req /\ w = Wire(pipeline) /\ b = MessageEnds(pipeline)[i - 1] /\ b \in Nat /\ Laid(w, b, m)
      /\ Framed(m, pipeline[i], i) /\ t = taken /\ t \in Nat /\ t <= cut /\ cut \in Nat
      /\ InBody(pipeline, i, t - b, conn.left, conn.done, Len(got)) /\ pipeline[i].form = "length"
  BY <1>1 DEF Serving
<1>3. PICK c : c = pipeline[i].chunks[1] /\ OneBody(m, c, i)
  BY <1>2 DEF Framed
<1>4. PICK k, l : k = Len(got) /\ l = conn.left
  OBVIOUS
<1>5. k \in 0..c /\ t - b = 1 + k /\ l = c - k /\ k # c
  BY <1>2, <1>3, <1>4 DEF InBody
<1>6. /\ c \in Nat \ {0} /\ k \in Nat /\ l \in Nat \ {0} /\ k <= c /\ l = c - k
      /\ b \in Nat /\ t \in Nat /\ t = b + 1 + k
  <2>1. c \in Nat \ {0} /\ b \in Nat /\ t \in Nat
    BY <1>2, <1>3 DEF OneBody
  <2> QED BY ONLY <1>5, <2>1
<1>7. CASE taken = cut
  <2>1. x = [n |-> -1, taken |-> t, left |-> l, done |-> FALSE]
    BY <1>2, <1>4, <1>7 DEF LengthRead
  <2>2. x.n = -1 /\ x.taken = t /\ x.left = l /\ x.done = FALSE
    BY <2>1
  <2>3. DataSpan(w, t, t, i, t + 1, t) /\ k + (t + 1 - (t + 1)) = k
    <3>1. NoBytes(w, t, t) /\ t <= t
      BY <1>6 DEF NoBytes
    <3>2. DataSpan(w, t, t, i, t + 1, t)
      BY ONLY <1>6, <3>1, NoSpan
    <3>3. k + (t + 1 - (t + 1)) = k
      BY ONLY <1>6
    <3> QED BY <3>2, <3>3
  <2>4. InBody(pipeline, i, t - b, l, FALSE, k + (t + 1 - (t + 1)))
    <3>1. InBody(pipeline, i, t - b, l, FALSE, k)
      <4>1. conn.done = FALSE
        BY DEF ConnInv, ConnStates
      <4> QED BY <1>2, <1>4, <4>1, Zenon
    <3> QED BY <2>3, <3>1, Zenon
  <2>5. x.n \in Int /\ x.left \in Nat /\ x.done \in BOOLEAN /\ x.taken \in taken..cut
    <3>1. t \in taken..cut
      BY <1>2, <1>6
    <3>2. -1 \in Int /\ l \in Nat /\ FALSE \in BOOLEAN
      BY <1>6
    <3> QED BY <2>2, <3>1, <3>2, Zenon
  <2> QED BY <1>2, <1>4, <2>2, <2>3, <2>4, <2>5, Zenon DEF ReadOk
<1>8. CASE taken # cut
  <2>1. PICK y \in BOOLEAN : y = (l = n)
    OBVIOUS
  <2>2. x.n = n /\ x.taken = t + n /\ x.left = l - n /\ x.done = y
    <3>1. x = [n |-> n, taken |-> t + n, left |-> l - n, done |-> y]
      BY <1>2, <1>4, <1>8, <2>1 DEF LengthRead
    <3> QED BY <3>1
  <2>3. n \in Nat \ {0}
    BY ConnectionAssumption
  <2>4. l - n >= 0 /\ t + n <= cut
    BY <2>2, <2>3
  <2>5. DataSpan(w, t, t + n, i, t + 1, t + n)
    <3>1. ASSUME NEW j \in t + 1 .. t + n PROVE w[j] = Tok("data", i, 0)
      <4>1. j \in Int /\ t + 1 <= j /\ j <= t + n
        BY <1>2, <2>3
      <4>2. PICK q : q = j - (b + 1)
        OBVIOUS
      <4>3. j = b + (1 + q) /\ q \in 1..c /\ 1 + q \in 1..c + 2
        BY ONLY <1>6, <2>3, <2>4, <4>1, <4>2
      <4>4. w[b + (1 + q)] = m[1 + q] /\ m[1 + q] = Tok("data", i, 0)
        BY <1>2, <1>3, <4>3 DEF Laid, OneBody
      <4> QED BY <4>3, <4>4
    <3> QED BY <1>2, <2>3, <3>1 DEF DataSpan
  <2>6. k + (t + n + 1 - (t + 1)) = k + n
    BY ONLY <1>6, <2>3
  <2>7. InBody(pipeline, i, (t + n) - b, l - n, y, k + n)
    <3>1. k + n \in 0..c /\ (t + n) - b = 1 + (k + n) /\ l - n = c - (k + n)
      BY ONLY <1>6, <2>3, <2>4
    <3>2. y <=> (k + n = c)
      <4>1. (l = n) <=> (k + n = c)
        BY ONLY <1>6, <2>3
      <4> QED BY <2>1, <4>1, Zenon
    <3> QED BY <1>2, <1>3, <3>1, <3>2 DEF InBody
  <2>9. InBody(pipeline, i, (t + n) - b, l - n, y, k + (t + n + 1 - (t + 1)))
    BY <2>6, <2>7, Zenon
  <2>10. n \in Int /\ l - n \in Nat /\ t + n \in t..cut
    <3>1. cut \in Int
      BY <1>2
    <3> QED BY ONLY <1>6, <2>3, <2>4, <3>1
  <2>11. PICK u, r, a, d : u = t + n /\ r = l - n /\ a = t + 1 /\ d = t + n
    OBVIOUS
  <2>12. /\ DataSpan(w, t, u, i, a, d) /\ InBody(pipeline, i, u - b, r, y, k + (d + 1 - a))
         /\ n \in Int /\ r \in Nat /\ u \in t..cut /\ y \in BOOLEAN
         /\ x.n = n /\ x.left = r /\ x.done = y /\ x.taken = u
    BY <2>1, <2>2, <2>5, <2>9, <2>10, <2>11, Zenon
  <2>13. i = conn.req /\ w = Wire(pipeline) /\ b = MessageEnds(pipeline)[i - 1] /\ t = taken /\ k = Len(got)
    BY <1>2, <1>4
  <2> QED BY ONLY <2>12, <2>13, ReadIs
<1> QED BY <1>7, <1>8

\* The length of chunk k + 1; 0 behind the last.
SizeAfter(cs, k) == IF k < Len(cs) THEN cs[k + 1] ELSE 0

LEMMA SizeLine ==
    ASSUME NEW cs \in Seq(Nat \ {0}), NEW i, NEW m, NEW c, Chunked(m, cs, i, c), NEW k \in 0..Len(cs)
    PROVE  /\ c[k] \in Nat /\ Len(m) \in Nat /\ c[k] + 3 <= Len(m)
           /\ m[c[k] + 2] = Tok("size", i, SizeAfter(cs, k)) /\ (k >= 1 => m[c[k] + 1] = Tok("empty", i, 0))
<1> DEFINE N == Len(cs)
<1>1. N \in Nat /\ k \in Nat
  OBVIOUS
<1>2. k >= 1 => m[c[k] + 1] = Tok("empty", i, 0)
  <2>1. k >= 1 => k \in 1..N
    BY <1>1
  <2> QED BY <2>1 DEF Chunked
<1>3. CASE k < N
  <2>1. k \in 0..N - 1
    BY <1>1, <1>3
  <2>2. PICK x, y, s, L : /\ x = c[k] /\ y = c[k + 1] /\ s = cs[k + 1] /\ L = Len(m)
                          /\ x \in Nat /\ s \in Nat /\ L \in Nat /\ y = x + s + 2 /\ y + 3 <= L
                          /\ m[x + 2] = Tok("size", i, s)
    <3>1. /\ c[k] \in Nat /\ cs[k + 1] \in Nat \ {0} /\ c[k + 1] = c[k] + cs[k + 1] + 2
          /\ c[k + 1] + 3 <= Len(m) /\ Len(m) \in Nat /\ m[c[k] + 2] = Tok("size", i, cs[k + 1])
      BY <2>1, ChunkedParts
    <3>2. cs[k + 1] \in Nat
      BY <3>1
    <3> QED BY <3>1, <3>2, Zenon
  <2>3. x + 3 <= L
    <3>1. x \in Nat /\ s \in Nat /\ L \in Nat /\ y = x + s + 2 /\ y + 3 <= L
      BY <2>2
    <3> QED BY ONLY <3>1
  <2>4. SizeAfter(cs, k) = s
    BY <1>3, <2>2 DEF SizeAfter
  <2> QED BY <1>2, <2>2, <2>3, <2>4, Zenon
<1>4. CASE k = N
  <2>1. c[k] \in Nat /\ Len(m) = c[k] + 3 /\ m[c[k] + 2] = Tok("size", i, 0)
    BY <1>1, <1>4 DEF Chunked
  <2>2. SizeAfter(cs, k) = 0
    BY <1>1, <1>4 DEF SizeAfter
  <2>3. Len(m) \in Nat /\ c[k] + 3 <= Len(m)
    BY <2>1
  <2> QED BY <1>2, <2>1, <2>2, <2>3, Zenon
<1> QED BY <1>1, <1>3, <1>4

\* Where ChunkedBodyReader looks for a size line: past the empty line behind a chunk.
Skipped(w, t, z) == IF t < z /\ w[t + 1].is = "empty" THEN 1 ELSE 0

LooksFor(cs, i, m, c, w, b, k, t, z, left, n, at) ==
    /\ cs \in Seq(Nat \ {0}) /\ Chunked(m, cs, i, c) /\ Laid(w, b, m) /\ k \in 0..Len(cs)
    /\ b \in Nat /\ t \in Nat /\ z \in Nat /\ t <= z /\ Between(c, k, t - b, left, n)
    /\ at = t + Skipped(w, t, z) + 1

Finds(cs, i, c, w, b, k, t, z, left, n, at) ==
    /\ at \in Nat
    /\ at > z => NoBytes(w, t, z) /\ Between(c, k, z - b, left, n)
    /\ at <= z => /\ at = b + c[k] + 2 /\ t <= at /\ NoBytes(w, t, at)
                  /\ w[at] = Tok("size", i, SizeAfter(cs, k))

LEMMA AtSize ==
    ASSUME NEW cs, NEW i, NEW m, NEW c, NEW w, NEW b, NEW k, NEW t, NEW z, NEW left, NEW n, NEW at,
           LooksFor(cs, i, m, c, w, b, k, t, z, left, n, at)
    PROVE  Finds(cs, i, c, w, b, k, t, z, left, n, at)
<1> USE DEF Finds
<1>0. /\ cs \in Seq(Nat \ {0}) /\ Chunked(m, cs, i, c) /\ Laid(w, b, m) /\ k \in 0..Len(cs)
      /\ b \in Nat /\ t \in Nat /\ z \in Nat /\ t <= z /\ Between(c, k, t - b, left, n)
      /\ at = t + Skipped(w, t, z) + 1
  BY DEF LooksFor
<1>1. PICK x, s, L : /\ x = c[k] /\ s = SizeAfter(cs, k) /\ L = Len(m) /\ x \in Nat /\ L \in Nat /\ x + 3 <= L
                     /\ m[x + 2] = Tok("size", i, s) /\ (k >= 1 => m[x + 1] = Tok("empty", i, 0))
  <2>1. /\ c[k] \in Nat /\ Len(m) \in Nat /\ c[k] + 3 <= Len(m)
        /\ m[c[k] + 2] = Tok("size", i, SizeAfter(cs, k)) /\ (k >= 1 => m[c[k] + 1] = Tok("empty", i, 0))
    BY ONLY <1>0, SizeLine
  <2> QED BY <2>1, Zenon
<1>2. left = 0 /\ n = x - 2 * k /\ (t - b = x + 1 \/ (k >= 1 /\ t - b = x))
  BY <1>0, <1>1 DEF Between
<1>3. /\ b \in Nat /\ t \in Nat /\ z \in Nat /\ t <= z /\ x \in Nat /\ L \in Nat /\ x + 3 <= L
  BY <1>0, <1>1
<1>4. w[b + (x + 2)] = Tok("size", i, s) /\ (k >= 1 => w[b + (x + 1)] = Tok("empty", i, 0))
  <2>1. x + 2 \in 1..L /\ x + 1 \in 1..L
    BY ONLY <1>3
  <2> QED BY <1>0, <1>1, <2>1 DEF Laid
<1>5. CASE t - b = x + 1
  <2>1. t + 1 = b + (x + 2)
    BY ONLY <1>3, <1>5
  <2>2. w[t + 1].is = "size" /\ w[t + 1] = Tok("size", i, s)
    BY <1>4, <2>1 DEF Tok
  <2>3. at = t + 1
    BY <1>0, <1>3, <2>2 DEF Skipped
  <2>4. at > z => z = t
    BY ONLY <1>3, <2>3
  <2>5. NoBytes(w, t, t + 1) /\ NoBytes(w, t, t)
    BY <1>3, <2>2 DEF NoBytes
  <2>6. at \in Nat /\ t <= at /\ at = b + x + 2
    BY ONLY <1>3, <2>1, <2>3
  <2>7. at > z => NoBytes(w, t, z) /\ Between(c, k, z - b, left, n)
    BY <1>0, <2>4, <2>5, Zenon
  <2> QED BY <1>1, <2>2, <2>3, <2>5, <2>6, <2>7, Zenon
<1>6. CASE k >= 1 /\ t - b = x
  <2>1. t + 1 = b + (x + 1) /\ t + 2 = b + (x + 2) /\ t + 1 + 1 = t + 2
    BY ONLY <1>3, <1>6
  <2>2. w[t + 1].is = "empty" /\ w[t + 2].is = "size" /\ w[t + 2] = Tok("size", i, s)
    BY <1>4, <1>6, <2>1 DEF Tok
  <2>3. NoBytes(w, t, t + 2) /\ NoBytes(w, t, t + 1) /\ NoBytes(w, t, t)
    <3>1. \A j \in t + 1 .. t + 2 : j = t + 1 \/ j = t + 2
      BY <1>3
    <3>2. /\ \A j \in t + 1 .. t + 1 : j = t + 1
          /\ \A j \in t + 1 .. t : FALSE
      BY <1>3
    <3> QED BY <2>2, <3>1, <3>2, Zenon DEF NoBytes
  <2>4. CASE t < z
    <3>1. at = t + 2
      BY <1>0, <1>3, <2>2, <2>4 DEF Skipped
    <3>2. at \in Nat /\ t <= at /\ at = b + x + 2 /\ (at > z => z = t + 1)
      BY ONLY <1>3, <2>1, <2>4, <3>1
    <3>3. at > z => NoBytes(w, t, z) /\ Between(c, k, z - b, left, n)
      <4>1. SUFFICES ASSUME z = t + 1 PROVE NoBytes(w, t, z) /\ Between(c, k, z - b, left, n)
        BY <3>2
      <4>2. z - b = x + 1
        BY ONLY <1>3, <1>6, <4>1
      <4> QED BY <1>1, <1>2, <2>3, <4>1, <4>2 DEF Between
    <3> QED BY <1>1, <2>2, <2>3, <3>1, <3>2, <3>3, Zenon
  <2>5. CASE t = z
    <3>1. at = t + 1
      BY <1>0, <1>3, <2>5 DEF Skipped
    <3>2. at \in Nat /\ at > z
      BY ONLY <1>3, <2>5, <3>1
    <3>3. ~ (at <= z)
      BY ONLY <1>3, <3>2
    <3> QED BY <1>0, <2>3, <2>5, <3>2, <3>3, Zenon
  <2> QED BY <1>3, <2>4, <2>5
<1> QED BY <1>2, <1>5, <1>6

\* read() returns n bytes of a chunk that has some left behind place `at', and passes
\* over the line behind it when that has arrived.
SomeTaken(cs, i, m, c, w, b, k, left, n, t, at, z, u, n0) ==
    /\ cs \in Seq(Nat \ {0}) /\ Chunked(m, cs, i, c) /\ Laid(w, b, m) /\ NoBytes(w, t, at)
    /\ b \in Nat /\ t \in Nat /\ z \in Nat /\ k \in 0..Len(cs) - 1 /\ left \in 1..cs[k + 1] /\ n \in 1..left
    /\ t <= at /\ at = b + c[k] + 2 + (cs[k + 1] - left) /\ n0 = c[k] - 2 * k + (cs[k + 1] - left)
    /\ u <= z /\ u = IF left = n /\ at + n < z THEN at + n + 1 ELSE at + n

LEMMA AfterSome ==
    ASSUME NEW cs, NEW i, NEW m, NEW c, NEW w, NEW b, NEW k, NEW left, NEW n, NEW t, NEW at, NEW cut1, NEW u, NEW n0,
           SomeTaken(cs, i, m, c, w, b, k, left, n, t, at, cut1, u, n0)
    PROVE  /\ u \in t..cut1 /\ DataSpan(w, t, u, i, at + 1, at + n)
           /\ InChunks(cs, c, u - b, left - n, FALSE, n0 + (at + n + 1 - (at + 1)))
<1>0. /\ cs \in Seq(Nat \ {0}) /\ Chunked(m, cs, i, c) /\ Laid(w, b, m) /\ NoBytes(w, t, at)
      /\ b \in Nat /\ t \in Nat /\ cut1 \in Nat /\ k \in 0..Len(cs) - 1 /\ left \in 1..cs[k + 1] /\ n \in 1..left
      /\ t <= at /\ at = b + c[k] + 2 + (cs[k + 1] - left) /\ n0 = c[k] - 2 * k + (cs[k + 1] - left)
      /\ u <= cut1 /\ u = IF left = n /\ at + n < cut1 THEN at + n + 1 ELSE at + n
  BY DEF SomeTaken
<1>1. PICK x, s : x = c[k] /\ s = cs[k + 1]
  OBVIOUS
<1>2. /\ left \in 1..s /\ n \in 1..left /\ at = b + x + 2 + (s - left) /\ b \in Nat /\ t \in Nat /\ t <= at
      /\ x \in Nat /\ s \in Nat /\ k \in Nat /\ cut1 \in Nat /\ n0 = x - 2 * k + (s - left) /\ u <= cut1
  <2>1. c[k] \in Nat /\ cs[k + 1] \in Nat
    BY ONLY <1>0, ChunkedParts
  <2>2. k \in Nat
    BY <1>0
  <2> QED BY <1>0, <1>1, <2>1, <2>2, Zenon
<1>3. at \in Nat /\ n \in Nat
  BY ONLY <1>2
<1>4. PICK z \in {0, 1} : u = at + n + z /\ (z = 1 => n = left)
  <2>1. CASE left = n /\ at + n < cut1
    <3>1. u = at + n + 1 /\ 1 \in {0, 1}
      BY <1>0, <2>1
    <3> QED BY <2>1, <3>1
  <2>2. CASE ~ (left = n /\ at + n < cut1)
    <3>1. u = at + n
      BY <1>0, <2>2
    <3>2. at + n = at + n + 0
      BY ONLY <1>3
    <3> QED BY <3>1, <3>2
  <2> QED BY <2>1, <2>2
<1>5. SomeRead(cs, c, w, b, i, k, left, n, z, at)
  <2>1. z \in {0, 1} /\ (z = 1 => n = left)
    BY <1>4
  <2> QED BY ONLY <1>0, <2>1, SomeOfChunk
<1>6. at \in Nat /\ n \in Nat /\ u \in t..cut1 /\ z \in {0, 1}
  BY ONLY <1>2, <1>3, <1>4, z \in {0, 1}
<1>7. DataSpan(w, t, u, i, at + 1, at + n)
  <2>1. at + 1 \in Nat \ {0} /\ at + n \in Nat /\ t < at + 1 /\ at + 1 <= at + n + 1 /\ at + n <= u
    BY ONLY <1>2, <1>4, <1>6
  <2>2. ASSUME NEW j \in t + 1 .. u
        PROVE  IF j \in at + 1 .. at + n THEN w[j] = Tok("data", i, 0) ELSE w[j].is \in {"size", "empty"}
    <3>1. j \in Int /\ t + 1 <= j /\ j <= u
      BY <1>6
    <3>2. CASE j \in at + 1 .. at + n
      BY <1>5, <3>2 DEF SomeRead
    <3>3. CASE j \notin at + 1 .. at + n
      <4>1. j \in t + 1 .. at \/ (z = 1 /\ j = at + n + 1)
        BY ONLY <1>2, <1>4, <1>6, <3>1, <3>3
      <4>2. CASE j \in t + 1 .. at
        BY <1>0, <3>3, <4>2 DEF NoBytes
      <4>3. CASE z = 1 /\ j = at + n + 1
        <5>1. w[j] = Tok("empty", i, 0)
          BY <1>5, <4>3 DEF SomeRead
        <5> QED BY <3>3, <5>1 DEF Tok
      <4> QED BY <4>1, <4>2, <4>3
    <3> QED BY <3>2, <3>3
  <2> QED BY <2>1, <2>2 DEF DataSpan
<1>8. InChunks(cs, c, u - b, left - n, FALSE, n0 + (at + n + 1 - (at + 1)))
  <2>1. at + n + z - b = u - b /\ x - 2 * k + (s - left) + n = n0 + (at + n + 1 - (at + 1))
    BY ONLY <1>2, <1>4, <1>6
  <2>2. InChunks(cs, c, at + n + z - b, left - n, FALSE, x - 2 * k + (s - left) + n)
    BY <1>1, <1>5 DEF SomeRead
  <2> QED BY <2>1, <2>2, Zenon
<1> QED BY <1>6, <1>7, <1>8

\* The last size line, and the empty one behind it.
LastTaken(cs, i, m, c, w, b, t, at, z, u, n0) ==
    /\ cs \in Seq(Nat \ {0}) /\ Chunked(m, cs, i, c) /\ Laid(w, b, m) /\ NoBytes(w, t, at)
    /\ b \in Nat /\ t \in Nat /\ z \in Nat /\ t <= at /\ at = b + c[Len(cs)] + 2 /\ at <= z
    /\ u = (IF at < z THEN at + 1 ELSE at) /\ n0 = c[Len(cs)] - 2 * Len(cs)

LEMMA AfterLast ==
    ASSUME NEW cs, NEW i, NEW m, NEW c, NEW w, NEW b, NEW t, NEW at, NEW cut1, NEW u, NEW n0,
           LastTaken(cs, i, m, c, w, b, t, at, cut1, u, n0)
    PROVE  u \in t..cut1 /\ NoBytes(w, t, u) /\ InChunks(cs, c, u - b, 0, TRUE, n0)
<1>0. /\ cs \in Seq(Nat \ {0}) /\ Chunked(m, cs, i, c) /\ Laid(w, b, m) /\ NoBytes(w, t, at)
      /\ b \in Nat /\ t \in Nat /\ cut1 \in Nat /\ t <= at /\ at = b + c[Len(cs)] + 2 /\ at <= cut1
      /\ u = (IF at < cut1 THEN at + 1 ELSE at) /\ n0 = c[Len(cs)] - 2 * Len(cs)
  BY DEF LastTaken
<1>1. PICK x : x = c[Len(cs)] /\ x \in Nat /\ Len(m) = x + 3 /\ m[x + 3] = Tok("empty", i, 0)
  <2>1. Len(cs) \in 0..Len(cs)
    BY <1>0
  <2> QED BY <1>0, <2>1 DEF Chunked
<1>2. /\ at = b + x + 2 /\ b \in Nat /\ x \in Nat /\ t \in Nat /\ t <= at /\ cut1 \in Nat /\ at <= cut1
      /\ u = IF at < cut1 THEN at + 1 ELSE at
  BY <1>0, <1>1, Zenon
<1>3. u \in t..cut1 /\ (u - b = x + 2 \/ u - b = x + 3) /\ at + 1 = b + (x + 3) /\ (u = at \/ u = at + 1) /\ at \in Nat
  BY ONLY <1>2
<1>4. w[at + 1].is = "empty"
  <2>1. x + 3 \in 1..Len(m)
    BY ONLY <1>1
  <2>2. w[b + (x + 3)] = Tok("empty", i, 0)
    BY <1>0, <1>1, <2>1 DEF Laid
  <2> QED BY <1>3, <2>2 DEF Tok
<1>5. NoBytes(w, t, u)
  <2>1. CASE u = at
    BY <1>0, <2>1
  <2>2. CASE u = at + 1
    <3>1. \A j \in t + 1 .. u : j \in t + 1 .. at \/ j = at + 1
      BY <1>2, <1>3, <2>2
    <3> QED BY <1>0, <1>4, <3>1 DEF NoBytes
  <2> QED BY <1>3, <2>1, <2>2
<1>6. InChunks(cs, c, u - b, 0, TRUE, n0)
  BY <1>0, <1>1, <1>3 DEF InChunks
<1> QED BY <1>3, <1>5, <1>6

\* What read() of ChunkedBodyReader returns, with names for the state it looks at.
ChunkedGets(n, v, t, z, l, at, size) ==
    IF at > z \/ (l = 0 /\ v[at].is # "size")
    THEN [n |-> -1, taken |-> z, left |-> l, done |-> FALSE]
    ELSE IF size = 0 THEN [n |-> 0, taken |-> IF at < z THEN at + 1 ELSE at, left |-> 0, done |-> TRUE]
    ELSE IF at = z THEN [n |-> -1, taken |-> z, left |-> size, done |-> FALSE]
    ELSE [n |-> n, left |-> size - n, done |-> FALSE,
          taken |-> IF size = n /\ at + n < z THEN at + n + 1 ELSE at + n]

LEMMA ChunkedReadIs ==
    ASSUME NEW n, NEW v, v = Arrived, NEW t, t = taken, NEW z, z = cut, NEW l, l = conn.left
    PROVE  \E skip, at, size : /\ skip = IF t < z /\ v[t + 1].is = "empty" THEN 1 ELSE 0
                               /\ at = t + (IF l = 0 THEN skip + 1 ELSE 0)
                               /\ size = IF l > 0 THEN l ELSE IF at > z THEN 0 ELSE v[at].n
                               /\ ChunkedRead(n) = ChunkedGets(n, v, t, z, l, at, size)
<1>0. ASSUME NEW s
      PROVE  [[n |-> -1, taken |-> z, left |-> l, done |-> FALSE] EXCEPT !.left = s]
             = [n |-> -1, taken |-> z, left |-> s, done |-> FALSE]
  <2>1. ASSUME NEW f
        PROVE  [[n |-> -1, taken |-> z, left |-> l, done |-> f] EXCEPT !.left = s]
               = [n |-> -1, taken |-> z, left |-> s, done |-> f]
    OBVIOUS
  <2> QED BY <2>1, Zenon
<1>1. PICK skip : skip = IF t < z /\ v[t + 1].is = "empty" THEN 1 ELSE 0
  OBVIOUS
<1>2. PICK at : at = t + (IF l = 0 THEN skip + 1 ELSE 0)
  OBVIOUS
<1>3. PICK size : size = IF l > 0 THEN l ELSE IF at > z THEN 0 ELSE v[at].n
  OBVIOUS
<1>4. ChunkedRead(n) = ChunkedGets(n, v, t, z, l, at, size)
  <2> QED BY <1>0, <1>1, <1>2, <1>3 DEF ChunkedRead, ChunkedGets, NextTok
<1> QED BY <1>1, <1>2, <1>3, <1>4

Gets(x, o, e, y, u) ==
    x.n = o /\ x.left = e /\ x.done = y /\ x.taken = u /\ o \in Int /\ e \in Nat /\ y \in BOOLEAN

\* A request in the chunked form is being served.
ServingChunks(w, m, b, i, t, z, l, k, cs, c) ==
    /\ i = conn.req /\ w = Wire(pipeline) /\ b = MessageEnds(pipeline)[i - 1] /\ t = taken /\ z = cut
    /\ k = Len(got) /\ l = conn.left /\ cs = pipeline[i].chunks /\ c = ChunkEnds(pipeline, i)
    /\ pipeline[i].form = "chunked" /\ cs \in Seq(Nat \ {0}) /\ Chunked(m, cs, i, c) /\ Laid(w, b, m)
    /\ InChunks(cs, c, t - b, l, FALSE, k)
    /\ b \in Nat /\ t \in Nat /\ z \in Nat /\ k \in Nat /\ l \in Nat /\ b <= t /\ t <= z

LEMMA ServingChunksIs ==
    ASSUME ConnInv, conn.pc \in {"handler", "discard"}, ~ conn.done, pipeline[conn.req].form = "chunked"
    PROVE  \E w, m, b, i, t, z, l, k, cs, c : ServingChunks(w, m, b, i, t, z, l, k, cs, c)
<1>1. PICK w, m, b, i, t : Serving(w, m, b, i, t)
  BY ServingIs
<1>2. /\ i = conn.req /\ w = Wire(pipeline) /\ b = MessageEnds(pipeline)[i - 1] /\ b \in Nat /\ Laid(w, b, m)
      /\ Framed(m, pipeline[i], i) /\ m = Message(pipeline[i], i) /\ t = taken /\ t \in Nat /\ b <= t /\ t <= cut
      /\ cut \in Nat /\ InBody(pipeline, i, t - b, conn.left, conn.done, Len(got)) /\ pipeline[i].form = "chunked"
      /\ Len(got) \in Nat /\ conn.left \in Nat /\ pipeline[i] \in Asked
  BY <1>1 DEF Serving
<1>3. PICK k, l, z : k = Len(got) /\ l = conn.left /\ z = cut /\ k \in Nat /\ l \in Nat /\ z \in Nat /\ t <= z
  BY <1>2
<1>4. PICK cs, c : cs = pipeline[i].chunks /\ c = ChunkEnds(pipeline, i) /\ cs \in Seq(Nat \ {0}) /\ Chunked(m, cs, i, c)
  <2>1. pipeline[i].chunks \in Seq(Nat \ {0})
    BY <1>2 DEF Asked
  <2>2. Chunked(m, pipeline[i].chunks, i, ChunkEnds(pipeline, i))
    BY <1>2, ChunkEndsAre
  <2> QED BY <2>1, <2>2
<1>5. InChunks(cs, c, t - b, l, FALSE, k)
  <2>1. conn.done = FALSE
    BY DEF ConnInv, ConnStates
  <2>2. InChunks(cs, c, t - b, l, conn.done, k)
    BY <1>2, <1>3, <1>4 DEF InBody
  <2> QED BY <2>1, <2>2, Zenon
<1>6. ServingChunks(w, m, b, i, t, z, l, k, cs, c)
  BY <1>2, <1>3, <1>4, <1>5 DEF ServingChunks
<1> QED BY <1>6

\* A read that leaves the reader in step is one ReadOk allows.
LEMMA SpanOk ==
    ASSUME NEW w, NEW m, NEW b, NEW i, NEW t, NEW z, NEW l, NEW k, NEW cs, NEW c,
           ServingChunks(w, m, b, i, t, z, l, k, cs, c), NEW x, NEW o, NEW e, NEW y, NEW u, Gets(x, o, e, y, u),
           u \in t..z, NEW a, NEW d, DataSpan(w, t, u, i, a, d), InChunks(cs, c, u - b, e, y, k + (d + 1 - a))
    PROVE  ReadOk(x)
<1>1. /\ i = conn.req /\ w = Wire(pipeline) /\ b = MessageEnds(pipeline)[i - 1] /\ t = taken /\ k = Len(got)
      /\ z = cut
  BY DEF ServingChunks
<1>2. InBody(pipeline, i, u - b, e, y, k + (d + 1 - a))
  BY DEF ServingChunks, InBody
<1>3. /\ x.n = o /\ x.left = e /\ x.done = y /\ x.taken = u /\ o \in Int /\ e \in Nat /\ y \in BOOLEAN
      /\ u \in t..cut /\ DataSpan(w, t, u, i, a, d)
  BY <1>1 DEF Gets
<1> QED BY ONLY <1>1, <1>2, <1>3, ReadIs

\* The same of one that takes only lines.
LEMMA LinesOk ==
    ASSUME NEW w, NEW m, NEW b, NEW i, NEW t, NEW z, NEW l, NEW k, NEW cs, NEW c,
           ServingChunks(w, m, b, i, t, z, l, k, cs, c), NEW x, NEW o, NEW e, NEW y, NEW u, Gets(x, o, e, y, u),
           u \in t..z, NoBytes(w, t, u), InChunks(cs, c, u - b, e, y, k)
    PROVE  ReadOk(x)
<1>1. t \in Nat /\ z \in Nat /\ k \in Nat
  BY DEF ServingChunks
<1>2. u \in Nat /\ t <= u /\ k + (u + 1 - (u + 1)) = k
  BY <1>1
<1>3. DataSpan(w, t, u, i, u + 1, u)
  BY <1>1, <1>2, NoSpan
<1>4. InChunks(cs, c, u - b, e, y, k + (u + 1 - (u + 1)))
  BY <1>2, Zenon
<1>5. ServingChunks(w, m, b, i, t, z, l, k, cs, c) /\ Gets(x, o, e, y, u) /\ u \in t..z
  OBVIOUS
<1> QED BY ONLY <1>3, <1>4, <1>5, SpanOk

\* Some of a chunk is read, when it has `size' bytes left behind place `at'.
LEMMA SomeOk ==
    ASSUME NEW w, NEW m, NEW b, NEW i, NEW t, NEW z, NEW l, NEW k, NEW cs, NEW c,
           ServingChunks(w, m, b, i, t, z, l, k, cs, c), NEW j \in 0..Len(cs) - 1, NEW size \in 1..cs[j + 1],
           NEW at, t <= at, at < z, at = b + c[j] + 2 + (cs[j + 1] - size),
           k = c[j] - 2 * j + (cs[j + 1] - size), NoBytes(w, t, at), NEW v, ~ (l = 0 /\ v[at].is # "size"),
           NEW n \in Nat \ {0}, NEW x, x = ChunkedGets(n, v, t, z, l, at, size),
           x.n <= 0 \/ (x.left >= 0 /\ x.taken <= z)
    PROVE  ReadOk(x)
<1>1. /\ cs \in Seq(Nat \ {0}) /\ Chunked(m, cs, i, c) /\ Laid(w, b, m)
      /\ b \in Nat /\ t \in Nat /\ z \in Nat /\ j \in 0..Len(cs) - 1
  BY DEF ServingChunks
<1>2. PICK p, q : p = c[j] /\ q = cs[j + 1] /\ p \in Nat /\ q \in Nat
  <2>1. c[j] \in Nat /\ cs[j + 1] \in Nat
    BY ONLY <1>1, ChunkedParts
  <2> QED BY <2>1
<1>3. at = b + p + 2 + (q - size) /\ size \in 1..q /\ at < z /\ b \in Nat /\ z \in Nat /\ p \in Nat /\ q \in Nat
  BY <1>1, <1>2, Zenon
<1>4. at \in Nat /\ ~ (at > z) /\ size # 0 /\ at # z /\ size \in Nat
  BY ONLY <1>3
<1>5. PICK u : u = IF size = n /\ at + n < z THEN at + n + 1 ELSE at + n
  OBVIOUS
<1>6. x = [n |-> n, left |-> size - n, done |-> FALSE, taken |-> u]
  BY <1>4, <1>5 DEF ChunkedGets
<1>7. x.n = n /\ x.left = size - n /\ x.done = FALSE /\ x.taken = u
  BY <1>6
<1>8. size - n >= 0 /\ u <= z /\ n \in Nat \ {0}
  <2>1. ~ (n <= 0)
    OBVIOUS
  <2> QED BY <1>7, <2>1
<1>9. n \in 1..size /\ size - n \in Nat /\ n \in Int
  BY ONLY <1>4, <1>8
<1>10. /\ u \in t..z /\ DataSpan(w, t, u, i, at + 1, at + n)
       /\ InChunks(cs, c, u - b, size - n, FALSE, k + (at + n + 1 - (at + 1)))
  <2>1. size \in 1..cs[j + 1] /\ t <= at /\ NoBytes(w, t, at) /\ at = b + c[j] + 2 + (cs[j + 1] - size)
        /\ k = c[j] - 2 * j + (cs[j + 1] - size)
    OBVIOUS
  <2>2. SomeTaken(cs, i, m, c, w, b, j, size, n, t, at, z, u, k)
    BY <1>1, <1>5, <1>8, <1>9, <2>1, Zenon DEF SomeTaken
  <2> QED BY ONLY <2>2, AfterSome
<1>11. Gets(x, n, size - n, FALSE, u)
  BY <1>7, <1>9 DEF Gets
<1>12. ServingChunks(w, m, b, i, t, z, l, k, cs, c)
  OBVIOUS
<1> QED BY ONLY <1>10, <1>11, <1>12, SpanOk

Looks(n, v, t, z, l, skip, at, size, x) ==
    /\ skip = IF t < z /\ v[t + 1].is = "empty" THEN 1 ELSE 0
    /\ at = t + (IF l = 0 THEN skip + 1 ELSE 0)
    /\ size = IF l > 0 THEN l ELSE IF at > z THEN 0 ELSE v[at].n
    /\ x = ChunkedGets(n, v, t, z, l, at, size)

\* x is what read() returns, asked for n bytes.
Reader(n, v, w, t, z, l, x) ==
    /\ \A q \in 1..z : v[q] = w[q]
    /\ n \in Nat \ {0} /\ (x.n <= 0 \/ (x.left >= 0 /\ x.taken <= z))
    /\ \E skip, at, size : Looks(n, v, t, z, l, skip, at, size, x)

LEMMA BetweenOk ==
    ASSUME NEW w, NEW m, NEW b, NEW i, NEW t, NEW z, NEW l, NEW k, NEW cs, NEW c,
           ServingChunks(w, m, b, i, t, z, l, k, cs, c), NEW j \in 0..Len(cs), Between(c, j, t - b, l, k),
           NEW v, NEW n, NEW x, Reader(n, v, w, t, z, l, x)
    PROVE  ReadOk(x)
<1>c. PICK skip, at, size : Looks(n, v, t, z, l, skip, at, size, x)
  BY DEF Reader
<1>a. /\ skip = IF t < z /\ v[t + 1].is = "empty" THEN 1 ELSE 0
      /\ at = t + (IF l = 0 THEN skip + 1 ELSE 0)
      /\ size = IF l > 0 THEN l ELSE IF at > z THEN 0 ELSE v[at].n
      /\ x = ChunkedGets(n, v, t, z, l, at, size)
  BY <1>c DEF Looks
<1>b. (\A q \in 1..z : v[q] = w[q]) /\ n \in Nat \ {0} /\ (x.n <= 0 \/ (x.left >= 0 /\ x.taken <= z))
  BY DEF Reader
<1>0. ServingChunks(w, m, b, i, t, z, l, k, cs, c)
  OBVIOUS
<1>1. /\ cs \in Seq(Nat \ {0}) /\ Chunked(m, cs, i, c) /\ Laid(w, b, m)
      /\ b \in Nat /\ t \in Nat /\ z \in Nat /\ t <= z /\ j \in 0..Len(cs)
  BY DEF ServingChunks
<1>2. l = 0 /\ k = c[j] - 2 * j
  BY DEF Between
<1>3. at = t + Skipped(w, t, z) + 1 /\ (Skipped(w, t, z) = 0 \/ Skipped(w, t, z) = 1)
  <2>1. t < z => v[t + 1] = w[t + 1]
    BY <1>1, <1>b
  <2>2. skip = Skipped(w, t, z)
    BY <1>a, <2>1 DEF Skipped
  <2>3. at = t + (skip + 1) /\ (skip = 0 \/ skip = 1) /\ t \in Nat
    BY <1>1, <1>2, <1>a
  <2>4. at = t + skip + 1
    BY ONLY <2>3
  <2> QED BY <2>2, <2>3, <2>4
<1>4. /\ at \in Nat
      /\ at > z => NoBytes(w, t, z) /\ Between(c, j, z - b, l, k)
      /\ at <= z => /\ at = b + c[j] + 2 /\ t <= at /\ NoBytes(w, t, at)
                    /\ w[at] = Tok("size", i, SizeAfter(cs, j))
  <2>1. Between(c, j, t - b, l, k)
    OBVIOUS
  <2>2. LooksFor(cs, i, m, c, w, b, j, t, z, l, k, at)
    BY <1>1, <1>3, <2>1, Zenon DEF LooksFor
  <2>3. Finds(cs, i, c, w, b, j, t, z, l, k, at)
    BY ONLY <2>2, AtSize
  <2> QED BY <2>3 DEF Finds
<1>5. l \in Nat /\ z \in t..z
  <2>1. l \in Nat
    BY DEF ServingChunks
  <2> QED BY <1>1, <2>1
<1>6. CASE at > z
  <2>1. x.n = -1 /\ x.left = l /\ x.done = FALSE /\ x.taken = z
    BY <1>6, <1>a DEF ChunkedGets
  <2>2. InChunks(cs, c, z - b, l, FALSE, k)
    BY <1>4, <1>6 DEF InChunks
  <2>3. Gets(x, -1, l, FALSE, z)
    BY <1>5, <2>1 DEF Gets
  <2>4. NoBytes(w, t, z)
    BY <1>4, <1>6
  <2> QED BY ONLY <1>0, <1>5, <2>2, <2>3, <2>4, LinesOk
<1>7. CASE at <= z
  <2>0. /\ at = b + c[j] + 2 /\ t <= at /\ NoBytes(w, t, at) /\ w[at] = Tok("size", i, SizeAfter(cs, j))
        /\ ~ (at > z) /\ at \in Nat /\ at <= z
    BY <1>1, <1>4, <1>7
  <2>1. v[at] = Tok("size", i, SizeAfter(cs, j))
    <3>1. at \in 1..z
      BY ONLY <1>1, <1>3, <2>0
    <3> QED BY <1>b, <2>0, <3>1
  <2>2. v[at].is = "size" /\ size = SizeAfter(cs, j)
    BY <1>2, <1>a, <2>0, <2>1 DEF Tok
  <2>3. CASE j = Len(cs)
    <3>1. size = 0
      BY <1>1, <2>2, <2>3 DEF SizeAfter
    <3>2. PICK u : u = IF at < z THEN at + 1 ELSE at
      OBVIOUS
    <3>3. x = [n |-> 0, taken |-> u, left |-> 0, done |-> TRUE]
      BY <1>a, <2>0, <2>2, <3>1, <3>2 DEF ChunkedGets
    <3>4. Gets(x, 0, 0, TRUE, u)
      BY <3>3 DEF Gets
    <3>5. u \in t..z /\ NoBytes(w, t, u) /\ InChunks(cs, c, u - b, 0, TRUE, k)
      <4>1. at = b + c[Len(cs)] + 2 /\ k = c[Len(cs)] - 2 * Len(cs)
        BY <1>2, <2>0, <2>3
      <4>2. LastTaken(cs, i, m, c, w, b, t, at, z, u, k)
        BY <1>1, <2>0, <3>2, <4>1, Zenon DEF LastTaken
      <4> QED BY ONLY <4>2, AfterLast
    <3> QED BY ONLY <1>0, <3>4, <3>5, LinesOk
  <2>4. CASE j # Len(cs)
    <3>1. j \in 0..Len(cs) - 1 /\ j < Len(cs) /\ j \in Nat
      BY <1>1, <2>4
    <3>2. PICK p, s : p = c[j] /\ s = cs[j + 1] /\ p \in Nat /\ s \in Nat \ {0}
      <4>1. c[j] \in Nat /\ cs[j + 1] \in Nat \ {0}
        BY ONLY <1>1, <3>1, ChunkedParts
      <4> QED BY <4>1
    <3>3. size = s
      BY <2>2, <3>1, <3>2 DEF SizeAfter
    <3>4. size \in 1..s /\ at = b + p + 2 + (s - size) /\ k = p - 2 * j + (s - size)
      <4>1. at = b + p + 2 /\ k = p - 2 * j /\ b \in Nat /\ p \in Nat /\ s \in Nat \ {0} /\ j \in Nat
        BY <1>1, <1>2, <2>0, <3>1, <3>2
      <4> QED BY ONLY <3>3, <4>1
    <3>5. CASE at = z
      <4>1. x = [n |-> -1, taken |-> z, left |-> size, done |-> FALSE]
        <5>1. size # 0
          BY <3>2, <3>3
        <5> QED BY <1>a, <2>0, <2>2, <3>5, <5>1 DEF ChunkedGets
      <4>2. Gets(x, -1, size, FALSE, z)
        BY <3>2, <3>3, <4>1 DEF Gets
      <4>3. InChunks(cs, c, z - b, size, FALSE, k)
        <5>1. PICK o \in 1..Len(cs) : o = j + 1 /\ o - 1 = j
          BY <1>1, <3>1
        <5>2. z - b = p + 2 + (s - size)
          <6>1. b \in Nat /\ p \in Nat /\ s \in Nat /\ z = b + p + 2 + (s - size) /\ size \in Nat
            BY <1>1, <3>2, <3>3, <3>4, <3>5
          <6> QED BY ONLY <6>1
        <5>3. Within(cs, c, o, z - b, size, k)
          BY <3>2, <3>4, <5>1, <5>2 DEF Within
        <5> QED BY <5>1, <5>3 DEF InChunks
      <4>4. NoBytes(w, t, z)
        BY <2>0, <3>5
      <4> QED BY ONLY <1>0, <1>5, <4>2, <4>3, <4>4, LinesOk
    <3>6. CASE at # z
      <4>1. at < z /\ z \in Nat
        BY <1>1, <2>0, <3>6
      <4>2. /\ size \in 1..cs[j + 1] /\ at = b + c[j] + 2 + (cs[j + 1] - size)
            /\ k = c[j] - 2 * j + (cs[j + 1] - size) /\ ~ (l = 0 /\ v[at].is # "size")
        BY <2>2, <3>2, <3>4, Zenon
      <4>3. /\ n \in Nat \ {0} /\ x = ChunkedGets(n, v, t, z, l, at, size)
            /\ (x.n <= 0 \/ (x.left >= 0 /\ x.taken <= z))
        BY <1>a, <1>b
      <4> QED BY ONLY <1>0, <2>0, <3>1, <4>1, <4>2, <4>3, SomeOk
    <3> QED BY <3>5, <3>6
  <2> QED BY <2>3, <2>4
<1> QED BY <1>1, <1>4, <1>6, <1>7

LEMMA WithinOk ==
    ASSUME NEW w, NEW m, NEW b, NEW i, NEW t, NEW z, NEW l, NEW k, NEW cs, NEW c,
           ServingChunks(w, m, b, i, t, z, l, k, cs, c), NEW o \in 1..Len(cs), Within(cs, c, o, t - b, l, k),
           NEW v, NEW n, NEW x, Reader(n, v, w, t, z, l, x)
    PROVE  ReadOk(x)
<1>c. PICK skip, at, size : Looks(n, v, t, z, l, skip, at, size, x)
  BY DEF Reader
<1>a. /\ skip = IF t < z /\ v[t + 1].is = "empty" THEN 1 ELSE 0
      /\ at = t + (IF l = 0 THEN skip + 1 ELSE 0)
      /\ size = IF l > 0 THEN l ELSE IF at > z THEN 0 ELSE v[at].n
      /\ x = ChunkedGets(n, v, t, z, l, at, size)
  BY <1>c DEF Looks
<1>b. n \in Nat \ {0} /\ (x.n <= 0 \/ (x.left >= 0 /\ x.taken <= z))
  BY DEF Reader
<1>0. ServingChunks(w, m, b, i, t, z, l, k, cs, c)
  OBVIOUS
<1>1. /\ cs \in Seq(Nat \ {0}) /\ Chunked(m, cs, i, c) /\ InChunks(cs, c, t - b, l, FALSE, k)
      /\ b \in Nat /\ t \in Nat /\ z \in Nat /\ t <= z /\ l \in Nat
  BY DEF ServingChunks
<1>2. PICK j \in 0..Len(cs) - 1 : j = o - 1 /\ o = j + 1
  BY <1>1
<1>3. PICK p, s : p = c[j] /\ s = cs[j + 1] /\ p \in Nat /\ s \in Nat \ {0} /\ j \in Nat
  <2>1. j \in 0..Len(cs) - 1 /\ j \in Nat
    BY <1>1
  <2>2. c[j] \in Nat /\ cs[j + 1] \in Nat \ {0}
    BY ONLY <1>1, <2>1, ChunkedParts
  <2> QED BY <2>1, <2>2
<1>4. l \in 1..s /\ t - b = p + 2 + (s - l) /\ k = p - 2 * j + (s - l)
  BY <1>2, <1>3 DEF Within
<1>5. l # 0 /\ l > 0
  BY ONLY <1>4, <1>3
<1>6. at = t /\ size = l
  <2>1. at = t + 0 /\ size = l
    BY <1>5, <1>a
  <2> QED BY <1>1, <2>1
<1>7. t = b + p + 2 + (s - l)
  <2>1. b \in Nat /\ t \in Nat /\ p \in Nat /\ s \in Nat /\ l \in 1..s /\ t - b = p + 2 + (s - l)
    BY <1>1, <1>3, <1>4
  <2> QED BY ONLY <2>1
<1>8. NoBytes(w, t, t) /\ t <= t
  BY <1>1 DEF NoBytes
<1>9. CASE t = z
  <2>1. x = [n |-> -1, taken |-> z, left |-> l, done |-> FALSE]
    BY <1>1, <1>5, <1>6, <1>9, <1>a DEF ChunkedGets
  <2>2. Gets(x, -1, l, FALSE, t)
    BY <1>1, <1>9, <2>1 DEF Gets
  <2>3. t \in t..z
    BY <1>1
  <2> QED BY ONLY <1>0, <1>1, <1>8, <2>2, <2>3, LinesOk
<1>10. CASE t # z
  <2>1. t < z
    BY <1>1, <1>10
  <2>2. /\ l \in 1..cs[j + 1] /\ t = b + c[j] + 2 + (cs[j + 1] - l) /\ k = c[j] - 2 * j + (cs[j + 1] - l)
        /\ ~ (l = 0 /\ v[t].is # "size") /\ j \in 0..Len(cs) - 1
    BY <1>3, <1>4, <1>5, <1>7, Zenon
  <2>3. /\ n \in Nat \ {0} /\ x = ChunkedGets(n, v, t, z, l, t, l)
        /\ (x.n <= 0 \/ (x.left >= 0 /\ x.taken <= z))
    BY <1>6, <1>a, <1>b
  <2> QED BY ONLY <1>0, <1>8, <2>1, <2>2, <2>3, SomeOk, ZenonT(30)
<1> QED BY <1>9, <1>10

LEMMA ChunkedReads ==
    ASSUME ConnInv, conn.pc \in {"handler", "discard"}, ~ conn.done, pipeline[conn.req].form = "chunked",
           NEW n \in 1..ReadSize, NEW x, x = ChunkedRead(n), x.n <= 0 \/ (x.left >= 0 /\ x.taken <= cut)
    PROVE  ReadOk(x)
<1>1. PICK w, m, b, i, t, z, l, k, cs, c : ServingChunks(w, m, b, i, t, z, l, k, cs, c)
  BY ServingChunksIs
<1>2. /\ w = Wire(pipeline) /\ t = taken /\ z = cut /\ l = conn.left /\ InChunks(cs, c, t - b, l, FALSE, k)
  BY <1>1 DEF ServingChunks
<1>3. PICK v : v = Arrived
  OBVIOUS
<1>4. \A q \in 1..z : v[q] = w[q]
  <2>1. pipeline \in Pipelines /\ cut \in 0..Len(Wire(pipeline))
    BY DEF ConnInv
  <2> QED BY <1>2, <1>3, <2>1, ArrivedIs
<1>5. Reader(n, v, w, t, z, l, x)
  <2>1. n \in Nat \ {0}
    BY ConnectionAssumption
  <2>2. x.n <= 0 \/ (x.left >= 0 /\ x.taken <= z)
    BY <1>2
  <2>3. \E skip, at, size : Looks(n, v, t, z, l, skip, at, size, x)
    BY <1>2, <1>3, ChunkedReadIs DEF Looks
  <2> QED BY <1>4, <2>1, <2>2, <2>3 DEF Reader
<1>6. CASE \E j \in 0..Len(cs) : Between(c, j, t - b, l, k)
  <2>1. PICK j \in 0..Len(cs) : Between(c, j, t - b, l, k)
    BY <1>6
  <2>2. j \in 0..Len(cs)
    OBVIOUS
  <2> QED BY ONLY <1>1, <1>5, <2>1, <2>2, BetweenOk
<1>7. CASE \E o \in 1..Len(cs) : Within(cs, c, o, t - b, l, k)
  <2>1. PICK o \in 1..Len(cs) : Within(cs, c, o, t - b, l, k)
    BY <1>7
  <2>2. o \in 1..Len(cs)
    OBVIOUS
  <2> QED BY ONLY <1>1, <1>5, <2>1, <2>2, WithinOk
<1> QED BY <1>2, <1>6, <1>7 DEF InChunks

\* Of a stretch of the wire, the readers return the bytes.
Starts(v, w) == \A k \in 1..Len(v) : v[k] = w[k]
Kept(q) == Those(q, {x \in Elems(q) : x.is \notin {"size", "empty"}})
BytesOnly(r, i, n) == r \in Seq(Toks) /\ Len(r) = n /\ \A k \in 1..Len(r) : r[k] = Tok("data", i, 0)

LEMMA BytesOf ==
    ASSUME NEW v \in Seq(Toks), NEW w, Starts(v, w), NEW t \in Nat, NEW u \in Nat, t <= u, u <= Len(v),
           NEW i \in Nat, NEW a, NEW d, DataSpan(w, t, u, i, a, d), NEW q, q = SubSeq(v, t + 1, u),
           NEW r, r = Kept(q)
    PROVE  BytesOnly(r, i, d + 1 - a)
<1>1. /\ a \in Nat \ {0} /\ d \in Nat /\ t < a /\ a <= d + 1 /\ d <= u
      /\ \A k \in t + 1 .. u : IF k \in a..d THEN w[k] = Tok("data", i, 0) ELSE w[k].is \in {"size", "empty"}
  BY DEF DataSpan
<1>2. q \in Seq(Toks) /\ Len(q) = u - t /\ \A k \in 1..u - t : q[k] = v[t + k]
  <2>1. Len(v) \in Nat /\ t + 1 \in Int /\ u \in Int /\ \A k \in 1..Len(v) : v[k] \in Toks
    OBVIOUS
  <2>2. \A k \in t + 1 .. u : v[k] \in Toks
    BY <2>1
  <2>3. /\ q \in Seq(Toks) /\ Len(q) = (IF t + 1 <= u THEN u - (t + 1) + 1 ELSE 0)
        /\ \A k \in 1..u - (t + 1) + 1 : q[k] = v[t + 1 + k - 1]
    BY <2>1, <2>2, SubSeqProperties
  <2>4. u - (t + 1) + 1 = u - t /\ (IF t + 1 <= u THEN u - t ELSE 0) = u - t
    OBVIOUS
  <2>5. ASSUME NEW k \in 1..u - t PROVE t + 1 + k - 1 = t + k
    OBVIOUS
  <2> QED BY <2>3, <2>4, <2>5
<1>s. PICK S : S = {x \in Elems(q) : x.is \notin {"size", "empty"}}
  OBVIOUS
<1>3. ASSUME NEW k \in 1..u - t
      PROVE  /\ q[k] \in S <=> k \in a - t .. d - t
             /\ k \in a - t .. d - t => q[k] = Tok("data", i, 0)
  <2>1. PICK j : j = t + k /\ j \in t + 1 .. u /\ j \in 1..Len(v)
    OBVIOUS
  <2>2. q[k] = w[j] /\ q[k] \in Elems(q)
    <3>1. DOMAIN q = 1..u - t
      BY <1>2
    <3>2. q[k] \in Elems(q)
      BY <3>1 DEF Elems
    <3>3. v[j] = w[j]
      BY <2>1 DEF Starts
    <3> QED BY <1>2, <2>1, <3>2, <3>3
  <2>3. j \in a..d <=> k \in a - t .. d - t
    BY <1>1, <2>1
  <2>4. CASE j \in a..d
    <3>1. q[k] = Tok("data", i, 0)
      BY <1>1, <2>1, <2>2, <2>4
    <3>2. q[k].is = "data"
      BY <3>1 DEF Tok
    <3> QED BY <1>s, <2>2, <2>3, <2>4, <3>1, <3>2
  <2>5. CASE j \notin a..d
    <3>1. w[j].is \in {"size", "empty"}
      BY <1>1, <2>1, <2>5
    <3>2. q[k] \notin S
      BY <1>s, <2>2, <3>1
    <3> QED BY <2>3, <2>5, <3>2
  <2> QED BY <2>4, <2>5
<1>4. r = Those(q, S)
  BY <1>s DEF Kept
<1>5. r \in Seq(Toks) /\ Elems(r) = Elems(q) \cap S
  <2>1. q \in Seq(Toks)
    BY <1>2
  <2>2. Those(q, S) \in Seq(Toks) /\ Elems(Those(q, S)) = Elems(q) \cap S
    BY ONLY <2>1, ThoseAre
  <2> QED BY <1>4, <2>2
<1>6. Len(r) = d + 1 - a
  <2>1. PICK y, z : y = a - t /\ z = d - t /\ y \in Nat \ {0} /\ z \in Nat /\ y <= z + 1 /\ z <= Len(q)
    BY <1>1, <1>2
  <2>2. \A k \in DOMAIN q : q[k] \in S <=> k \in y..z
    <3>1. DOMAIN q = 1..u - t
      BY <1>2
    <3> QED BY <1>3, <2>1, <3>1
  <2>3. Len(r) = z + 1 - y
    <3>1. Stretch(q, S, y, z) /\ q \in Seq(Toks)
      BY <1>2, <2>1, <2>2 DEF Stretch
    <3>2. Len(Those(q, S)) = z + 1 - y
      BY ONLY <3>1, ThoseSpan
    <3> QED BY <1>4, <3>2
  <2>4. d + 1 - a = z + 1 - y
    <3>1. y = a - t /\ z = d - t /\ a \in Nat /\ d \in Nat /\ t \in Nat
      BY <1>1, <2>1
    <3> QED BY ONLY <3>1
  <2> QED BY <2>3, <2>4
<1>7. ASSUME NEW k \in 1..Len(r) PROVE r[k] = Tok("data", i, 0)
  <2>1. r[k] \in Elems(q) \cap S
    <3>1. r[k] \in Elems(r)
      <4>0. r \in Seq(Toks)
        BY <1>5
      <4>1. DOMAIN r = 1..Len(r)
        BY ONLY <4>0
      <4> QED BY <4>1 DEF Elems
    <3> QED BY <1>5, <3>1
  <2>2. PICK o \in 1..u - t : r[k] = q[o]
    <3>1. DOMAIN q = 1..u - t
      BY <1>2
    <3> QED BY <2>1, <3>1 DEF Elems
  <2> QED BY <1>3, <2>1, <2>2
<1> QED BY <1>5, <1>6, <1>7 DEF BytesOnly

\* What a read leaves behind.
LEMMA ReadStep ==
    ASSUME ConnInv, conn.pc \in {"handler", "discard"}, NEW x, ReadOk(x), TakeFrom(x)
    PROVE  /\ taken' \in taken..cut /\ got' \in Seq(Toks) /\ \A k \in 1..Len(got') : got'[k] = Tok("data", conn.req, 0)
           /\ InBody(pipeline, conn.req, taken' - MessageEnds(pipeline)[conn.req - 1], x.left, x.done, Len(got'))
<1>1. PICK w, m, b, i, t : Serving(w, m, b, i, t)
  BY ServingIs
<1>2. i \in Nat /\ i = conn.req /\ w = Wire(pipeline) /\ t = taken /\ t \in Nat /\ cut \in Nat /\ i # 0
  <2>1. i \in 1..Len(pipeline) /\ Len(pipeline) \in Nat
    <3>1. Len(pipeline) \in Nat
      BY PipelineIs DEF ConnInv
    <3> QED BY <1>1, <3>1 DEF Serving
  <2>2. i = conn.req /\ w = Wire(pipeline) /\ t = taken /\ t \in Nat /\ cut \in Nat
    BY <1>1 DEF Serving
  <2> QED BY ONLY <2>1, <2>2
<1>3. /\ x.taken \in taken..cut
      /\ \E a, d : /\ DataSpan(Wire(pipeline), taken, x.taken, conn.req, a, d)
                   /\ InBody(pipeline, conn.req, x.taken - MessageEnds(pipeline)[conn.req - 1], x.left, x.done,
                             Len(got) + (d + 1 - a))
  BY DEF ReadOk
<1>4. PICK u : u = x.taken /\ u \in t..cut /\ u \in Nat /\ t <= u
  BY <1>2, <1>3
<1>5. PICK a, d : /\ DataSpan(w, t, u, i, a, d)
                  /\ InBody(pipeline, i, u - MessageEnds(pipeline)[i - 1], x.left, x.done, Len(got) + (d + 1 - a))
  BY <1>2, <1>3, <1>4
<1>6. PICK v : v = Arrived /\ v \in Seq(Toks) /\ Len(v) = cut /\ \A k \in 1..Len(v) : v[k] = w[k]
  <2>1. pipeline \in Pipelines /\ cut \in 0..Len(Wire(pipeline))
    BY DEF ConnInv
  <2> QED BY <1>2, <2>1, ArrivedIs
<1>7. PICK q : q = SubSeq(v, t + 1, u)
  OBVIOUS
<1>8. PICK r : r = Kept(q)
  OBVIOUS
<1>9. taken' = u /\ got' = got \o r
  BY <1>2, <1>4, <1>6, <1>7, <1>8 DEF TakeFrom, Kept
<1>10. r \in Seq(Toks) /\ Len(r) = d + 1 - a /\ \A k \in 1..Len(r) : r[k] = Tok("data", i, 0)
  <2>1. u <= Len(v)
    BY <1>2, <1>4, <1>6
  <2>2. v \in Seq(Toks) /\ Starts(v, w) /\ t \in Nat /\ u \in Nat /\ t <= u /\ i \in Nat
    BY <1>2, <1>4, <1>6 DEF Starts
  <2>3. DataSpan(w, t, u, i, a, d)
    BY <1>5
  <2>4. v \in Seq(Toks) /\ Starts(v, w)
    BY <2>2
  <2>5. BytesOnly(r, i, d + 1 - a)
    BY ONLY <1>7, <1>8, <2>1, <2>2, <2>3, <2>4, BytesOf
  <2> QED BY <2>5 DEF BytesOnly
<1>11. PICK g : g = got /\ g \in Seq(Toks) /\ \A k \in 1..Len(g) : g[k] = Tok("data", i, 0)
  BY <1>2 DEF ConnInv
<1>12. PICK h : h = g \o r /\ Glued(h, g, r, Len(g) + Len(r))
  BY <1>10, <1>11, Glue
<1>13. h \in Seq(Toks) /\ Len(h) = Len(g) + Len(r) /\ Len(g) \in Nat /\ Len(r) \in Nat
  BY <1>10, <1>11, <1>12 DEF Glued
<1>14. ASSUME NEW k \in 1..Len(h) PROVE h[k] = Tok("data", i, 0)
  <2>1. CASE k <= Len(g)
    <3>1. k \in 1..Len(g)
      BY <1>13, <2>1
    <3>2. h[k] = g[k]
      BY <1>12, <3>1 DEF Glued, Halves
    <3> QED BY <1>11, <3>1, <3>2
  <2>2. CASE ~ (k <= Len(g))
    <3>1. PICK j \in 1..Len(r) : k = Len(g) + j
      <4>1. k - Len(g) \in 1..Len(r) /\ k = Len(g) + (k - Len(g))
        BY <1>13, <2>2
      <4> QED BY <4>1
    <3>2. h[k] = r[j]
      BY <1>12, <3>1 DEF Glued, Halves
    <3> QED BY <1>10, <3>2
  <2> QED BY <2>1, <2>2
<1>15. Len(h) = Len(got) + (d + 1 - a)
  BY <1>10, <1>11, <1>13
<1>16. got' = h
  BY <1>9, <1>11, <1>12
<1>17. InBody(pipeline, i, u - MessageEnds(pipeline)[i - 1], x.left, x.done, Len(h))
  BY <1>5, <1>15, Zenon
<1>18. u \in taken..cut
  BY <1>2, <1>4
<1> QED BY <1>2, <1>9, <1>13, <1>14, <1>16, <1>17, <1>18

LEMMA ReadsOk ==
    ASSUME ConnInv, conn.pc \in {"handler", "discard"}, ~ conn.done, NEW x \in Reads
    PROVE  ReadOk(x)
<1>1. PICK w, m, b, i, t : Serving(w, m, b, i, t)
  BY ServingIs
<1>2. PICK f : f = pipeline[conn.req].form /\ f \in BodyForms /\ f # "none"
  <2>1. i = conn.req /\ pipeline[i].form \in BodyForms
    BY <1>1 DEF Serving, Asked
  <2>2. pipeline[i].form = "none" => conn.done
    BY <1>1 DEF Serving, InBody
  <2> QED BY <2>1, <2>2
<1>3. PICK n \in 1..ReadSize : /\ x = IF f = "length" THEN LengthRead(n) ELSE ChunkedRead(n)
                               /\ x.n <= 0 \/ (x.left >= 0 /\ x.taken <= cut)
  BY <1>2 DEF Reads
<1>4. CASE f = "length"
  BY <1>2, <1>3, <1>4, LengthReads
<1>5. CASE f # "length"
  <2>1. f = "chunked"
    BY <1>2, <1>5 DEF BodyForms
  <2> QED BY <1>2, <1>3, <1>5, <2>1, ChunkedReads
<1> QED BY <1>4, <1>5

\* A request whose head has just been taken.
LEMMA FirstBody ==
    ASSUME NEW p \in Pipelines, NEW i \in 1..Len(p)
    PROVE  InBody(p, i, 1, IF p[i].form = "length" THEN p[i].chunks[1] ELSE 0, p[i].form = "none", 0)
<1>1. p[i] \in Asked /\ Framed(Message(p[i], i), p[i], i)
  BY PipelineIs
<1>2. CASE p[i].form = "none"
  BY <1>2 DEF InBody
<1>3. CASE p[i].form = "length"
  <2>1. PICK n \in Nat \ {0} : n = p[i].chunks[1]
    BY <1>1, <1>3 DEF Framed, OneBody
  <2> QED BY <1>3, <2>1 DEF InBody
<1>4. CASE p[i].form = "chunked"
  <2>1. PICK cs, c : cs = p[i].chunks /\ c = ChunkEnds(p, i) /\ c[0] = 0 /\ Len(cs) \in Nat
    <3>1. Chunked(Message(p[i], i), p[i].chunks, i, ChunkEnds(p, i))
      BY <1>1, <1>4, ChunkEndsAre
    <3>2. p[i].chunks \in Seq(Nat \ {0})
      BY <1>1 DEF Asked
    <3> QED BY <3>1, <3>2 DEF Chunked
  <2>2. Between(c, 0, 1, 0, 0)
    BY <2>1 DEF Between
  <2>3. 0 \in 0..Len(cs)
    BY <2>1
  <2>4. InChunks(cs, c, 1, 0, FALSE, 0)
    BY <2>2, <2>3 DEF InChunks
  <2> QED BY <1>4, <2>1, <2>4 DEF InBody
<1> QED BY <1>1, <1>2, <1>3, <1>4 DEF Asked, BodyForms

\* A body that is read to its end.
LEMMA BodyEnds ==
    ASSUME ConnInv, conn.pc \in {"handler", "discard", "answer"}, conn.done
    PROVE  AtHead(pipeline, conn.req, taken)
<1>1. PICK w, m, b, i, t : Serving(w, m, b, i, t)
  BY ServingIs
<1>2. /\ i \in 1..Len(pipeline) /\ i = conn.req /\ b = MessageEnds(pipeline)[i - 1] /\ t = taken
      /\ b \in Nat /\ t \in Nat /\ Framed(m, pipeline[i], i) /\ m = Message(pipeline[i], i) /\ Len(m) \in Nat
      /\ pipeline[i] \in Asked /\ InBody(pipeline, i, t - b, conn.left, conn.done, Len(got))
  BY <1>1 DEF Serving
<1>3. MessageEnds(pipeline)[i] = b + Len(m)
  <2>1. pipeline \in Pipelines
    BY DEF ConnInv
  <2> QED BY <1>2, <2>1, OneMessage
<1>4. i >= 1
  <2>1. Len(pipeline) \in Nat
    BY PipelineIs DEF ConnInv
  <2> QED BY <1>2, <2>1
<1>5. CASE pipeline[i].form = "none"
  <2>1. t - b = 1 /\ Len(m) = 1
    BY <1>2, <1>5 DEF InBody, Framed
  <2>2. t = b + Len(m)
    BY <1>2, <2>1
  <2> QED BY <1>2, <1>3, <2>2 DEF AtHead
<1>6. CASE pipeline[i].form = "length"
  <2>1. PICK n \in Nat : n = pipeline[i].chunks[1] /\ Len(m) = n + 2
    BY <1>2, <1>6 DEF Framed, OneBody
  <2>2. t - b = 1 + n
    BY <1>2, <1>6, <2>1 DEF InBody
  <2>3. t = (b + Len(m)) - 1
    <3>1. b \in Nat /\ t \in Nat /\ n \in Nat /\ Len(m) = n + 2 /\ t - b = 1 + n
      BY <1>2, <2>1, <2>2
    <3> QED BY ONLY <3>1
  <2> QED BY <1>2, <1>3, <1>4, <1>6, <2>3 DEF AtHead
<1>7. CASE pipeline[i].form = "chunked"
  <2>1. PICK cs, c : cs = pipeline[i].chunks /\ c = ChunkEnds(pipeline, i) /\ Chunked(m, cs, i, c) /\ cs \in Seq(Nat \ {0})
    <3>1. Chunked(m, pipeline[i].chunks, i, ChunkEnds(pipeline, i))
      BY <1>2, <1>7, ChunkEndsAre
    <3>2. pipeline[i].chunks \in Seq(Nat \ {0})
      BY <1>2 DEF Asked
    <3> QED BY <3>1, <3>2
  <2>2. PICK e \in Nat : e = c[Len(cs)] /\ Len(m) = e + 3
    <3>1. Len(cs) \in 0..Len(cs)
      BY <2>1
    <3> QED BY <2>1, <3>1 DEF Chunked
  <2>3. t - b \in {e + 2, e + 3}
    <3>1. InChunks(cs, c, t - b, conn.left, conn.done, Len(got))
      BY <1>2, <1>7, <2>1 DEF InBody
    <3> QED BY <2>2, <3>1 DEF InChunks
  <2>4. t = b + Len(m) \/ t = (b + Len(m)) - 1
    <3>1. b \in Nat /\ t \in Nat /\ e \in Nat /\ Len(m) = e + 3 /\ t - b \in {e + 2, e + 3}
      BY <1>2, <2>2, <2>3
    <3> QED BY ONLY <3>1
  <2> QED BY <1>2, <1>3, <1>4, <1>7, <2>4 DEF AtHead
<1> QED BY <1>2, <1>5, <1>6, <1>7 DEF Asked, BodyForms

\* The places of the chunks, without the lines around them, add up to the body.
LEMMA ChunksAddUp ==
    ASSUME NEW cs \in Seq(Nat \ {0}), NEW m, NEW i, NEW c, Chunked(m, cs, i, c)
    PROVE  Sum(cs) = c[Len(cs)] - 2 * Len(cs)
<1> DEFINE N == Len(cs)
           g == [k \in 0..N |-> c[k] - 2 * k]
           G == {n \in 0..N : g[n] \in Nat}
<1>1. N \in Nat /\ cs \in Seq(Nat) /\ \A k \in 1..N : cs[k] \in Nat
  OBVIOUS
<1>2. c \in [0..N -> Nat] /\ c[0] = 0 /\ \A k \in 1..N : c[k] = c[k - 1] + cs[k] + 2
  BY DEF Chunked
<1> HIDE DEF N
<1>3. g[0] = 0 /\ \A k \in 0..N : g[k] = c[k] - 2 * k
  <2>1. 0 \in 0..N
    BY <1>1
  <2> QED BY <1>2, <2>1
<1> HIDE DEF g
<1>4. ASSUME NEW k \in 1..N PROVE g[k] = g[k - 1] + cs[k]
  <2>1. PICK x \in Nat, y \in Nat, s \in Nat : x = c[k - 1] /\ y = c[k] /\ s = cs[k] /\ y = x + s + 2
    <3>1. k - 1 \in 0..N /\ k \in 0..N
      BY <1>1
    <3>2. c[k - 1] \in Nat /\ c[k] \in Nat /\ cs[k] \in Nat
      BY <1>1, <1>2, <3>1
    <3>3. c[k] = c[k - 1] + cs[k] + 2
      BY <1>2
    <3> QED BY <3>2, <3>3
  <2>2. g[k] = y - 2 * k /\ g[k - 1] = x - 2 * (k - 1)
    <3>1. k - 1 \in 0..N /\ k \in 0..N
      BY <1>1
    <3> QED BY <1>3, <2>1, <3>1
  <2>3. y - 2 * k = x - 2 * (k - 1) + s
    <3>1. k \in Int /\ y = x + s + 2
      BY <1>1, <2>1
    <3> QED BY ONLY x \in Nat, y \in Nat, s \in Nat, <3>1
  <2> QED BY <2>1, <2>2, <2>3
<1>5. 0 \in G
  BY <1>1, <1>3
<1>6. ASSUME NEW n \in 0..N - 1, n \in G PROVE n + 1 \in G
  <2>1. PICK k \in 1..N : k = n + 1 /\ k - 1 = n /\ k \in 0..N
    BY <1>1
  <2>2. g[k] = g[n] + cs[k] /\ cs[k] \in Nat /\ g[n] \in Nat
    BY <1>1, <1>4, <1>6, <2>1
  <2> QED BY <2>1, <2>2
<1>7. \A n \in 0..N : n \in G
  <2> HIDE DEF G
  <2>1. ASSUME NEW n \in 0..N PROVE n \in G
    BY <1>1, <1>5, <1>6, UpTo
  <2> QED BY <2>1
<1>8. Sums(cs, g)
  <2>1. g \in [0..N -> Nat]
    <3>1. g = [k \in 0..N |-> c[k] - 2 * k]
      BY DEF g
    <3>2. \A n \in 0..N : g[n] \in Nat
      BY <1>7
    <3> QED BY <3>1, <3>2
  <2> QED BY <1>3, <1>4, <2>1 DEF Sums, N
<1>9. Sum(cs) = g[N]
  BY <1>1, <1>8, SumIs DEF N
<1>10. N \in 0..N
  BY <1>1
<1> QED BY <1>3, <1>9, <1>10 DEF N

\* The readers of a body that report it complete have returned all of it.
LEMMA BodyWhole ==
    ASSUME ConnInv, conn.pc \in {"handler", "discard", "answer"}, conn.done
    PROVE  Len(got) = IF pipeline[conn.req].form = "none" THEN 0 ELSE Sum(pipeline[conn.req].chunks)
<1>1. PICK w, m, b, i, t : Serving(w, m, b, i, t)
  BY ServingIs
<1>2. /\ i = conn.req /\ Framed(m, pipeline[i], i) /\ m = Message(pipeline[i], i)
      /\ pipeline[i] \in Asked /\ InBody(pipeline, i, t - b, conn.left, conn.done, Len(got))
      /\ i \in 1..Len(pipeline)
  BY <1>1 DEF Serving
<1>3. PICK cs : cs = pipeline[i].chunks /\ cs \in Seq(Nat \ {0})
  BY <1>2 DEF Asked
<1>4. CASE pipeline[i].form = "none"
  BY <1>2, <1>4 DEF InBody
<1>5. CASE pipeline[i].form = "length"
  <2>1. PICK n \in Nat : n = cs[1] /\ Len(got) = n
    <3>1. cs[1] \in Nat
      BY <1>2, <1>3, <1>5 DEF Framed, OneBody
    <3>2. Len(got) = cs[1]
      BY <1>2, <1>3, <1>5 DEF InBody
    <3> QED BY <3>1, <3>2
  <2>2. Len(cs) = 1
    <3>1. pipeline \in Pipelines /\ DOMAIN pipeline = 1..Len(pipeline)
      BY PipelineIs DEF ConnInv
    <3> QED BY <1>2, <1>3, <1>5, <3>1, ConnectionAssumption
  <2>3. cs = <<>> \o <<n>>
    BY <1>3, <2>1, <2>2
  <2>4. cs = Append(<<>>, n) /\ <<>> \in Seq(Nat)
    BY <2>3
  <2>5. Sum(cs) = 0 + n
    BY <2>4, SumAppend, SumEmpty
  <2> QED BY <1>2, <1>3, <1>5, <2>1, <2>5
<1>6. CASE pipeline[i].form = "chunked"
  <2>1. PICK c : c = ChunkEnds(pipeline, i) /\ Chunked(m, cs, i, c)
    BY <1>2, <1>3, <1>6, ChunkEndsAre
  <2>2. Len(got) = c[Len(cs)] - 2 * Len(cs)
    BY <1>2, <1>3, <1>6, <2>1 DEF InBody, InChunks
  <2>3. Sum(cs) = c[Len(cs)] - 2 * Len(cs)
    BY <1>3, <2>1, ChunksAddUp
  <2> QED BY <1>2, <1>3, <1>6, <2>2, <2>3
<1> QED BY <1>2, <1>4, <1>5, <1>6 DEF Asked, BodyForms

-----------------------------------------------------------------------------
(* Every step keeps the two ends in step *)

LEMMA ConnInitial ==
    ASSUME ConnInit
    PROVE  ConnInv
<1>1. /\ pipeline \in Pipelines /\ cut \in 0..Len(Wire(pipeline)) /\ taken = 0 /\ conn = Waiting /\ got = <<>>
      /\ handled = <<>> /\ answered = <<>>
  BY DEF ConnInit
<1>2. cut \in Nat /\ Len(pipeline) \in Nat
  <2>1. cut \in Nat
    BY <1>1, ArrivedIs
  <2> QED BY <1>1, <2>1, PipelineIs
<1>3. AtHead(pipeline, 0, 0)
  <2>1. MessageEnds(pipeline)[0] = 0
    BY <1>1, EndsAre DEF OnWire
  <2> QED BY <2>1 DEF AtHead
<1>4. Waiting \in ConnStates /\ Waiting.pc = "head" /\ Waiting.req = 0
  BY ConnectionAssumption DEF Waiting, ConnStates
<1>5. Len(handled) = 0 /\ Len(answered) = 0 /\ Len(got) = 0 /\ handled \in Seq(Toks) /\ answered \in Seq(Nat) /\ got \in Seq(Toks)
  BY <1>1
<1> QED BY <1>1, <1>2, <1>3, <1>4, <1>5 DEF ConnInv

\* A step of the handler, or of what is done after it, that has read some of the body.
LEMMA ServeStep ==
    ASSUME ConnInv, conn.pc \in {"handler", "discard"}, NEW x, ReadOk(x), TakeFrom(x), conn' \in ConnStates,
           conn'.req = conn.req, conn'.left = x.left, conn'.done = x.done,
           conn'.pc \in {"handler", "discard", "answer"},
           conn'.keep => conn.keep /\ (conn'.pc = "answer" => x.done), UNCHANGED <<pipeline, cut, handled, answered>>
    PROVE  ConnInv'
<1>1. /\ taken' \in taken..cut /\ got' \in Seq(Toks) /\ \A k \in 1..Len(got') : got'[k] = Tok("data", conn.req, 0)
      /\ InBody(pipeline, conn.req, taken' - MessageEnds(pipeline)[conn.req - 1], x.left, x.done, Len(got'))
  BY ReadStep
<1>2. /\ pipeline \in Pipelines /\ cut \in 0..Len(Wire(pipeline)) /\ taken \in 0..cut
      /\ handled \in Seq(Toks) /\ Len(handled) <= Len(pipeline)
      /\ \A k \in 1..Len(handled) : handled[k] = Tok("head", k, 0) /\ (k < Len(handled) => pipeline[k].keep)
      /\ answered \in Seq(Nat) /\ \A k \in 1..Len(answered) : answered[k] = k
      /\ conn.req = Len(handled) /\ conn.req >= 1 /\ Len(answered) = Len(handled) - 1
      /\ taken >= MessageEnds(pipeline)[conn.req - 1]
      /\ conn.keep => pipeline[conn.req].keep
  BY DEF ConnInv
<1>3. taken' \in 0..cut /\ taken' >= MessageEnds(pipeline)[conn.req - 1]
  <2>1. MessageEnds(pipeline)[conn.req - 1] \in Nat
    <3>1. PICK w, m, b, i, t : Serving(w, m, b, i, t)
      BY ServingIs
    <3> QED BY <3>1 DEF Serving
  <2>2. cut \in Nat
    BY <1>2, ArrivedIs
  <2>3. taken \in 0..cut /\ taken' \in taken..cut /\ taken >= MessageEnds(pipeline)[conn.req - 1]
    BY <1>1, <1>2
  <2> QED BY ONLY <2>1, <2>2, <2>3
<1>4. conn'.keep => pipeline[conn.req].keep /\ (conn'.pc = "answer" => conn'.done)
  BY <1>2
<1>5. pipeline' = pipeline /\ cut' = cut /\ handled' = handled /\ answered' = answered
  OBVIOUS
<1>6. /\ conn'.req = Len(handled') /\ conn'.req >= 1 /\ Len(answered') = Len(handled') - 1
      /\ taken' >= MessageEnds(pipeline')[conn'.req - 1]
      /\ InBody(pipeline', conn'.req, taken' - MessageEnds(pipeline')[conn'.req - 1], conn'.left, conn'.done, Len(got'))
      /\ conn'.keep => pipeline'[conn'.req].keep /\ (conn'.pc = "answer" => conn'.done)
  BY <1>1, <1>2, <1>3, <1>4, <1>5
<1>7. \A k \in 1..Len(got') : got'[k] = Tok("data", conn'.req, 0)
  BY <1>1
<1>8. conn'.pc # "head" /\ conn'.pc # "closed"
  OBVIOUS
<1> QED BY <1>1, <1>2, <1>3, <1>5, <1>6, <1>7, <1>8 DEF ConnInv

\* One that has read none of it.
LEMMA SettleStep ==
    ASSUME ConnInv, conn.pc \in {"handler", "discard"}, conn' \in ConnStates,
           conn'.req = conn.req, conn'.left = conn.left, conn'.done = conn.done, conn'.pc \in {"discard", "answer"},
           conn'.keep => conn.keep /\ (conn'.pc = "answer" => conn.done),
           UNCHANGED <<pipeline, cut, taken, got, handled, answered>>
    PROVE  ConnInv'
<1>1. /\ pipeline \in Pipelines /\ cut \in 0..Len(Wire(pipeline)) /\ taken \in 0..cut
      /\ handled \in Seq(Toks) /\ Len(handled) <= Len(pipeline)
      /\ \A k \in 1..Len(handled) : handled[k] = Tok("head", k, 0) /\ (k < Len(handled) => pipeline[k].keep)
      /\ answered \in Seq(Nat) /\ \A k \in 1..Len(answered) : answered[k] = k
      /\ got \in Seq(Toks) /\ (conn.req # 0 => \A k \in 1..Len(got) : got[k] = Tok("data", conn.req, 0))
      /\ conn.req = Len(handled) /\ conn.req >= 1 /\ Len(answered) = Len(handled) - 1
      /\ taken >= MessageEnds(pipeline)[conn.req - 1]
      /\ InBody(pipeline, conn.req, taken - MessageEnds(pipeline)[conn.req - 1], conn.left, conn.done, Len(got))
      /\ conn.keep => pipeline[conn.req].keep
  BY DEF ConnInv
<1>2. /\ pipeline' = pipeline /\ cut' = cut /\ handled' = handled /\ answered' = answered /\ taken' = taken
      /\ got' = got
  OBVIOUS
<1>3. conn'.keep => pipeline[conn.req].keep /\ (conn'.pc = "answer" => conn'.done)
  BY <1>1
<1>4. /\ conn'.req = Len(handled') /\ conn'.req >= 1 /\ Len(answered') = Len(handled') - 1
      /\ taken' >= MessageEnds(pipeline')[conn'.req - 1]
      /\ InBody(pipeline', conn'.req, taken' - MessageEnds(pipeline')[conn'.req - 1], conn'.left, conn'.done, Len(got'))
      /\ conn'.keep => pipeline'[conn'.req].keep /\ (conn'.pc = "answer" => conn'.done)
  BY <1>1, <1>2, <1>3
<1>5. conn'.pc # "head" /\ conn'.pc # "closed"
  OBVIOUS
<1> QED BY <1>1, <1>2, <1>4, <1>5 DEF ConnInv

\* What the server has counted: the heads it took and the answers it sent.
Counted ==
    /\ pipeline \in Pipelines /\ cut \in 0..Len(Wire(pipeline)) /\ cut \in Nat /\ Len(pipeline) \in Nat
    /\ taken \in 0..cut /\ conn \in ConnStates
    /\ handled \in Seq(Toks) /\ Len(handled) <= Len(pipeline) /\ Len(handled) \in Nat
    /\ \A k \in 1..Len(handled) : handled[k] = Tok("head", k, 0) /\ (k < Len(handled) => pipeline[k].keep)
    /\ answered \in Seq(Nat) /\ \A k \in 1..Len(answered) : answered[k] = k
    /\ got \in Seq(Toks) /\ (conn.req # 0 => \A k \in 1..Len(got) : got[k] = Tok("data", conn.req, 0))

LEMMA CountedIs ==
    ASSUME ConnInv
    PROVE  Counted
<1>1. pipeline \in Pipelines /\ cut \in 0..Len(Wire(pipeline)) /\ handled \in Seq(Toks)
  BY DEF ConnInv
<1>2. cut \in Nat /\ Len(pipeline) \in Nat /\ Len(handled) \in Nat
  BY <1>1, ArrivedIs, PipelineIs
<1> QED BY <1>2 DEF ConnInv, Counted

\* The head of the next request is taken, and its reader chosen.
LEMMA HeadTaken ==
    ASSUME ConnInv, conn.pc = "head", NEW h, h = Len(handled), h < Len(pipeline), taken < cut,
           taken = MessageEnds(pipeline)[h], NEW tok, tok = Tok("head", h + 1, 0), NEW r, r = pipeline[h + 1],
           conn' = [pc |-> "handler", req |-> h + 1, keep |-> r.keep, reads |-> 0,
                    left |-> IF r.form = "length" THEN r.chunks[1] ELSE 0, done |-> r.form = "none"],
           handled' = Append(handled, tok), taken' = taken + 1, got' = <<>>, UNCHANGED <<pipeline, cut, answered>>
    PROVE  ConnInv'
<1>1. Counted
  BY CountedIs
<1>2. /\ pipeline \in Pipelines /\ cut \in 0..Len(Wire(pipeline)) /\ cut \in Nat /\ Len(pipeline) \in Nat
      /\ taken \in 0..cut /\ handled \in Seq(Toks) /\ h \in Nat
      /\ \A k \in 1..h : handled[k] = Tok("head", k, 0) /\ (k < h => pipeline[k].keep)
      /\ answered \in Seq(Nat) /\ \A k \in 1..Len(answered) : answered[k] = k
  BY <1>1 DEF Counted
<1>3. Len(answered) = h /\ (h >= 1 => pipeline[h].keep)
  BY DEF ConnInv
<1>4. PICK i \in 1..Len(pipeline) : i = h + 1 /\ i - 1 = h /\ i \in Nat /\ i >= 1 /\ i # 0
  BY <1>2
<1>5. tok = Tok("head", i, 0) /\ tok \in Toks /\ r = pipeline[i]
  BY <1>4 DEF Tok, Toks
<1>6. handled' \in Seq(Toks) /\ Len(handled') = i /\ handled'[i] = tok /\ \A k \in 1..h : handled'[k] = handled[k]
  BY <1>2, <1>4, <1>5
<1>7. ASSUME NEW k \in 1..Len(handled')
      PROVE  handled'[k] = Tok("head", k, 0) /\ (k < Len(handled') => pipeline'[k].keep)
  <2>1. CASE k = i
    BY <1>5, <1>6, <2>1
  <2>2. CASE k # i
    <3>1. k \in 1..h /\ (k < h \/ k = h) /\ (k = h => h >= 1)
      BY <1>2, <1>4, <1>6, <2>2
    <3>2. handled[k] = Tok("head", k, 0) /\ pipeline[k].keep
      BY <1>2, <1>3, <3>1
    <3> QED BY <1>6, <3>1, <3>2
  <2> QED BY <2>1, <2>2
<1>8. InBody(pipeline, i, 1, IF r.form = "length" THEN r.chunks[1] ELSE 0, r.form = "none", 0)
  BY <1>2, <1>5, FirstBody
<1>9. conn'.pc = "handler" /\ conn'.req = i /\ conn'.keep = r.keep
      /\ conn'.left = (IF r.form = "length" THEN r.chunks[1] ELSE 0) /\ conn'.done = (r.form = "none")
  BY <1>4
<1>10. conn' \in ConnStates
  <2>1. r \in Asked /\ Framed(Message(r, i), r, i)
    BY <1>2, <1>5, PipelineIs
  <2>2. r.keep \in BOOLEAN /\ (IF r.form = "length" THEN r.chunks[1] ELSE 0) \in Nat
    BY <2>1 DEF Asked, Framed, OneBody
  <2>3. h + 1 \in Nat /\ 0 \in 0..DiscardReads /\ (r.form = "none") \in BOOLEAN
    BY <1>2, ConnectionAssumption
  <2> QED BY <2>2, <2>3 DEF ConnStates
<1>11. got' \in Seq(Toks) /\ Len(got') = 0 /\ \A k \in 1..Len(got') : got'[k] = Tok("data", conn'.req, 0)
  OBVIOUS
<1>12. taken' \in 0..cut /\ taken' >= MessageEnds(pipeline)[i - 1] /\ taken' - MessageEnds(pipeline)[i - 1] = 1
  BY <1>2, <1>4
<1>13. pipeline' = pipeline /\ cut' = cut /\ answered' = answered
  OBVIOUS
<1>14. Len(handled') <= Len(pipeline) /\ Len(answered) = Len(handled') - 1
  BY <1>2, <1>3, <1>4, <1>6
<1>15. /\ conn'.req = Len(handled') /\ conn'.req >= 1 /\ Len(answered') = Len(handled') - 1
       /\ taken' >= MessageEnds(pipeline')[conn'.req - 1]
       /\ InBody(pipeline', conn'.req, taken' - MessageEnds(pipeline')[conn'.req - 1], conn'.left, conn'.done, Len(got'))
       /\ conn'.keep => pipeline'[conn'.req].keep /\ (conn'.pc = "answer" => conn'.done)
  <2>1. InBody(pipeline', conn'.req, taken' - MessageEnds(pipeline')[conn'.req - 1], conn'.left, conn'.done, Len(got'))
    BY <1>8, <1>9, <1>11, <1>12, <1>13
  <2> QED BY <1>4, <1>5, <1>6, <1>9, <1>12, <1>13, <1>14, <2>1
<1>16. conn'.pc # "head" /\ conn'.pc # "closed"
  BY <1>9
<1> QED BY <1>2, <1>6, <1>7, <1>10, <1>11, <1>12, <1>13, <1>14, <1>15, <1>16, ZenonT(30) DEF ConnInv

\* An answer is counted.
LEMMA OneMore ==
    ASSUME NEW a \in Seq(Nat), NEW i \in Nat, Len(a) = i - 1, \A k \in 1..Len(a) : a[k] = k, NEW b, b = Append(a, i)
    PROVE  b \in Seq(Nat) /\ Len(b) = i /\ \A k \in 1..i : b[k] = k
<1>1. b \in Seq(Nat) /\ Len(b) = Len(a) + 1 /\ b[Len(a) + 1] = i /\ \A k \in 1..Len(a) : b[k] = a[k]
  BY AppendProperties
<1>2. Len(a) + 1 = i
  OBVIOUS
<1>3. ASSUME NEW k \in 1..i, k # i PROVE k \in 1..Len(a)
  BY <1>3
<1> QED BY <1>1, <1>2, <1>3

\* The connection is closed, and nothing else.
LEMMA CloseStep ==
    ASSUME ConnInv, Close, conn.pc \in {"head", "answer"}, UNCHANGED <<pipeline, cut, taken, got, handled>>,
           \/ answered' = answered
           \/ conn.pc = "answer" /\ answered' = Append(answered, conn.req)
    PROVE  ConnInv'
<1>1. Counted
  BY CountedIs
<1>2. /\ conn' = [conn EXCEPT !.pc = "closed"] /\ conn \in ConnStates
      /\ Len(handled) \in Nat /\ answered \in Seq(Nat) /\ \A k \in 1..Len(answered) : answered[k] = k
      /\ got \in Seq(Toks) /\ (conn.req # 0 => \A k \in 1..Len(got) : got[k] = Tok("data", conn.req, 0))
  BY <1>1 DEF Close, Counted
<1>3. conn' \in ConnStates /\ conn'.pc = "closed" /\ conn'.req = conn.req
  BY <1>2 DEF ConnStates
<1>4. /\ conn.pc = "head" => conn.req = 0 /\ Len(answered) = Len(handled)
      /\ conn.pc = "answer" => conn.req = Len(handled) /\ Len(answered) = Len(handled) - 1 /\ conn.req >= 1
  BY DEF ConnInv, Waiting
<1>5. PICK a : a = answered' /\ a \in Seq(Nat) /\ (\A k \in 1..Len(a) : a[k] = k) /\ Len(handled) - Len(a) \in {0, 1}
  <2>1. CASE answered' = answered
    <3>1. Len(handled) - Len(answered) \in {0, 1}
      BY <1>2, <1>4
    <3> QED BY <1>2, <2>1, <3>1
  <2>2. CASE conn.pc = "answer" /\ answered' = Append(answered, conn.req)
    <3>1. PICK i \in Nat : i = conn.req /\ i = Len(handled) /\ Len(answered) = i - 1
      BY <1>2, <1>4, <2>2
    <3>2. answered' \in Seq(Nat) /\ Len(answered') = i /\ \A k \in 1..i : answered'[k] = k
      BY <1>2, <2>2, <3>1, OneMore
    <3> QED BY <3>1, <3>2
  <2> QED BY <2>1, <2>2
<1>6. /\ pipeline' = pipeline /\ cut' = cut /\ taken' = taken /\ got' = got /\ handled' = handled
  OBVIOUS
<1>7. conn'.req \in {0, Len(handled')} /\ Len(handled') - Len(answered') \in {0, 1}
  BY <1>3, <1>4, <1>5, <1>6
<1>8. /\ pipeline' \in Pipelines /\ cut' \in 0..Len(Wire(pipeline')) /\ taken' \in 0..cut'
      /\ handled' \in Seq(Toks) /\ Len(handled') <= Len(pipeline')
      /\ \A k \in 1..Len(handled') : handled'[k] = Tok("head", k, 0) /\ (k < Len(handled') => pipeline'[k].keep)
      /\ got' \in Seq(Toks) /\ (conn'.req # 0 => \A k \in 1..Len(got') : got'[k] = Tok("data", conn'.req, 0))
  BY <1>1, <1>3, <1>6 DEF Counted
<1> QED BY <1>3, <1>5, <1>7, <1>8 DEF ConnInv

\* An empty line before a request is passed over.
LEMMA LineTaken ==
    ASSUME ConnInv, conn.pc = "head", taken < cut, AtHead(pipeline, Len(handled), taken + 1), taken' = taken + 1,
           UNCHANGED <<pipeline, cut, conn, got, handled, answered>>
    PROVE  ConnInv'
<1>1. Counted
  BY CountedIs
<1>2. taken' \in 0..cut
  BY <1>1 DEF Counted
<1>3. conn = Waiting /\ Len(answered) = Len(handled) /\ (Len(handled) >= 1 => pipeline[Len(handled)].keep)
  BY DEF ConnInv
<1>4. /\ pipeline' = pipeline /\ cut' = cut /\ conn' = conn /\ got' = got /\ handled' = handled /\ answered' = answered
  OBVIOUS
<1>5. conn'.pc = "head"
  BY <1>4
<1>6. AtHead(pipeline', Len(handled'), taken')
  BY <1>4
<1>7. /\ pipeline' \in Pipelines /\ cut' \in 0..Len(Wire(pipeline')) /\ conn' \in ConnStates
      /\ handled' \in Seq(Toks) /\ Len(handled') <= Len(pipeline')
      /\ \A k \in 1..Len(handled') : handled'[k] = Tok("head", k, 0) /\ (k < Len(handled') => pipeline'[k].keep)
      /\ answered' \in Seq(Nat) /\ \A k \in 1..Len(answered') : answered'[k] = k
      /\ got' \in Seq(Toks) /\ (conn'.req # 0 => \A k \in 1..Len(got') : got'[k] = Tok("data", conn'.req, 0))
  BY <1>1, <1>4 DEF Counted
<1>8. taken' \in 0..cut'
  BY <1>2, <1>4
<1>9. conn' = Waiting /\ Len(answered') = Len(handled') /\ (Len(handled') >= 1 => pipeline'[Len(handled')].keep)
  BY <1>3, <1>4
<1> QED BY <1>5, <1>6, <1>7, <1>8, <1>9 DEF ConnInv

\* The connection is used again.
LEMMA AgainStep ==
    ASSUME ConnInv, conn.pc = "answer", conn.keep, conn' = Waiting, answered' = Append(answered, conn.req),
           UNCHANGED <<pipeline, cut, taken, got, handled>>
    PROVE  ConnInv'
<1>1. Counted
  BY CountedIs
<1>2. /\ conn.req = Len(handled) /\ Len(answered) = Len(handled) - 1 /\ conn.req >= 1
      /\ pipeline[conn.req].keep /\ conn.done
  BY DEF ConnInv
<1>3. AtHead(pipeline, Len(handled), taken)
  BY <1>2, BodyEnds
<1>4. PICK i \in Nat : i = conn.req /\ i = Len(handled) /\ Len(answered) = i - 1
  BY <1>1, <1>2 DEF Counted
<1>5. answered' \in Seq(Nat) /\ Len(answered') = i /\ \A k \in 1..i : answered'[k] = k
  <2>1. answered \in Seq(Nat) /\ \A k \in 1..Len(answered) : answered[k] = k
    BY <1>1 DEF Counted
  <2>2. answered' = Append(answered, i)
    BY <1>4
  <2> QED BY <1>4, <2>1, <2>2, OneMore
<1>6. conn' \in ConnStates /\ conn'.pc = "head" /\ conn'.req = 0
  BY ConnectionAssumption DEF Waiting, ConnStates
<1>7. /\ pipeline' = pipeline /\ cut' = cut /\ taken' = taken /\ got' = got /\ handled' = handled
  OBVIOUS
<1>8. /\ pipeline' \in Pipelines /\ cut' \in 0..Len(Wire(pipeline')) /\ taken' \in 0..cut'
      /\ handled' \in Seq(Toks) /\ Len(handled') <= Len(pipeline') /\ got' \in Seq(Toks)
      /\ \A k \in 1..Len(handled') : handled'[k] = Tok("head", k, 0) /\ (k < Len(handled') => pipeline'[k].keep)
  BY <1>1, <1>7 DEF Counted
<1>9. /\ Len(answered') = Len(handled') /\ AtHead(pipeline', Len(handled'), taken')
      /\ Len(handled') >= 1 => pipeline'[Len(handled')].keep
  BY <1>2, <1>3, <1>4, <1>5, <1>7
<1> QED BY <1>4, <1>5, <1>6, <1>7, <1>8, <1>9 DEF ConnInv

LEMMA ReadHeadKeeps ==
    ASSUME ConnInv, ReadHead
    PROVE  ConnInv'
<1>1. Counted
  BY CountedIs
<1>2. conn.pc = "head" /\ pipeline' = pipeline /\ cut' = cut /\ answered' = answered /\ UNCHANGED <<pipeline, cut, answered>>
  BY DEF ReadHead
<1>3. PICK h : h = Len(handled) /\ h \in 0..Len(pipeline) /\ AtHead(pipeline, h, taken)
  <2>1. AtHead(pipeline, Len(handled), taken)
    BY <1>2 DEF ConnInv
  <2>2. Len(handled) \in 0..Len(pipeline)
    BY <1>1 DEF Counted
  <2> QED BY <2>1, <2>2
<1>4. ASSUME More PROVE taken < cut /\ NextTok = Wire(pipeline)[taken + 1]
                        /\ \/ NextTok.is = "empty" /\ AtHead(pipeline, h, taken + 1)
                           \/ h < Len(pipeline) /\ taken = MessageEnds(pipeline)[h] /\ NextTok = Tok("head", h + 1, 0)
  <2>1. pipeline \in Pipelines /\ cut \in 0..Len(Wire(pipeline)) /\ cut \in Nat /\ taken \in Nat /\ taken < cut
    BY <1>1, <1>4 DEF Counted, More
  <2>2. NextTok = Wire(pipeline)[taken + 1]
    BY <2>1, NextIs
  <2>3. taken < Len(Wire(pipeline))
    <3>1. Len(Wire(pipeline)) \in Nat
      <4>1. Wire(pipeline) \in Seq(Toks)
        BY <2>1, ArrivedIs
      <4> QED BY <4>1
    <3> QED BY <2>1, <3>1
  <2> QED BY <1>3, <2>1, <2>2, <2>3, HeadComes
<1>5. CASE /\ More /\ NextTok.is = "empty" /\ taken' = taken + 1 /\ UNCHANGED <<conn, got, handled>>
  <2>1. taken < cut /\ AtHead(pipeline, h, taken + 1)
    <3>1. Tok("head", h + 1, 0).is # "empty"
      BY DEF Tok
    <3> QED BY <1>4, <1>5, <3>1
  <2>2. UNCHANGED <<pipeline, cut, conn, got, handled, answered>>
    BY <1>2, <1>5
  <2> QED BY <1>2, <1>3, <1>5, <2>1, <2>2, LineTaken
<1>6. CASE /\ More /\ NextTok.is # "empty"
           /\ LET i == NextTok.of
                  r == pipeline[i]
              IN conn' = [pc |-> "handler", req |-> i, keep |-> r.keep, reads |-> 0,
                          left |-> IF r.form = "length" THEN r.chunks[1] ELSE 0, done |-> r.form = "none"]
           /\ handled' = Append(handled, NextTok) /\ taken' = taken + 1 /\ got' = <<>>
  <2>1. h < Len(pipeline) /\ taken < cut /\ taken = MessageEnds(pipeline)[h] /\ NextTok = Tok("head", h + 1, 0)
    BY <1>4, <1>6
  <2>2. PICK tok : tok = NextTok /\ tok = Tok("head", h + 1, 0) /\ tok.of = h + 1
    BY <2>1 DEF Tok
  <2>3. PICK r : r = pipeline[h + 1]
    OBVIOUS
  <2>4. conn' = [pc |-> "handler", req |-> h + 1, keep |-> r.keep, reads |-> 0,
                 left |-> IF r.form = "length" THEN r.chunks[1] ELSE 0, done |-> r.form = "none"]
    BY <1>6, <2>2, <2>3, Zenon
  <2>5. handled' = Append(handled, tok) /\ taken' = taken + 1 /\ got' = <<>>
    BY <1>6, <2>2
  <2> QED BY <1>2, <1>3, <2>1, <2>2, <2>3, <2>4, <2>5, HeadTaken
<1>7. CASE Close /\ UNCHANGED <<taken, got, handled>>
  BY <1>2, <1>7, CloseStep
<1> QED BY <1>5, <1>6, <1>7 DEF ReadHead

LEMMA HandlerReadsKeeps ==
    ASSUME ConnInv, HandlerReads
    PROVE  ConnInv'
<1>1. conn.pc = "handler" /\ ~ conn.done /\ UNCHANGED <<pipeline, cut, handled, answered>> /\ conn \in ConnStates
  BY DEF HandlerReads, ConnInv
<1>2. PICK x \in Reads : /\ TakeFrom(x)
                         /\ conn' = IF x.n > 0 THEN [conn EXCEPT !.left = x.left, !.done = x.done]
                                    ELSE [conn EXCEPT !.left = x.left, !.done = x.done, !.pc = "discard"]
  BY DEF HandlerReads
<1>3. ReadOk(x)
  BY <1>1, ReadsOk
<1>4. PICK l \in Nat, d \in BOOLEAN : l = x.left /\ d = x.done
  BY <1>3 DEF ReadOk
<1>5. conn' = IF x.n > 0 THEN [conn EXCEPT !.left = l, !.done = d] ELSE [conn EXCEPT !.left = l, !.done = d, !.pc = "discard"]
  BY <1>2, <1>4
<1>6. /\ conn' \in ConnStates /\ conn'.req = conn.req /\ conn'.left = l /\ conn'.done = d /\ conn'.keep = conn.keep
      /\ conn'.pc \in {"handler", "discard"}
  <2>1. CASE x.n > 0
    BY <1>1, <1>5, <2>1 DEF ConnStates
  <2>2. CASE ~ (x.n > 0)
    BY <1>1, <1>5, <2>2 DEF ConnStates
  <2> QED BY <2>1, <2>2
<1> QED BY <1>1, <1>2, <1>3, <1>4, <1>6, ServeStep

LEMMA HandlerReturnsKeeps ==
    ASSUME ConnInv, HandlerReturns
    PROVE  ConnInv'
<1>1. /\ conn.pc = "handler" /\ conn' = [conn EXCEPT !.pc = "discard"] /\ conn \in ConnStates
      /\ UNCHANGED <<pipeline, cut, taken, got, handled, answered>>
  BY DEF HandlerReturns, ConnInv
<1>2. /\ conn' \in ConnStates /\ conn'.req = conn.req /\ conn'.left = conn.left /\ conn'.done = conn.done
      /\ conn'.keep = conn.keep /\ conn'.pc = "discard"
  BY <1>1 DEF ConnStates
<1> QED BY <1>1, <1>2, SettleStep

LEMMA DiscardKeeps ==
    ASSUME ConnInv, Discard
    PROVE  ConnInv'
<1>1. conn.pc = "discard" /\ UNCHANGED <<pipeline, cut, handled, answered>> /\ conn \in ConnStates
  BY DEF Discard, ConnInv
<1>2. CASE conn.done \/ conn.reads = DiscardReads
  <2>1. PICK k \in BOOLEAN : k = (conn.keep /\ conn.done)
    OBVIOUS
  <2>2. conn' = [conn EXCEPT !.pc = "answer", !.keep = k] /\ UNCHANGED <<taken, got>>
    BY <1>2, <2>1 DEF Discard
  <2>3. /\ conn' \in ConnStates /\ conn'.req = conn.req /\ conn'.left = conn.left /\ conn'.done = conn.done
        /\ conn'.keep = k /\ conn'.pc = "answer"
    BY <1>1, <2>2 DEF ConnStates
  <2> QED BY <1>1, <2>1, <2>2, <2>3, SettleStep
<1>3. CASE ~ (conn.done \/ conn.reads = DiscardReads)
  <2>1. PICK x \in Reads :
           /\ TakeFrom(x)
           /\ conn' = [conn EXCEPT !.left = x.left, !.done = x.done, !.reads = @ + 1,
                          !.pc = IF x.n > 0 THEN "discard" ELSE "answer",
                          !.keep = @ /\ (x.n > 0 \/ x.done)]
    BY <1>3 DEF Discard
  <2>2. ReadOk(x)
    BY <1>1, <1>3, ReadsOk
  <2>3. PICK l \in Nat, d \in BOOLEAN : l = x.left /\ d = x.done
    BY <2>2 DEF ReadOk
  <2>4. PICK k \in BOOLEAN, p \in {"discard", "answer"} :
           k = (conn.keep /\ (x.n > 0 \/ x.done)) /\ p = IF x.n > 0 THEN "discard" ELSE "answer"
    OBVIOUS
  <2>5. PICK c : c = conn.reads + 1 /\ c \in 0..DiscardReads
    BY <1>1, <1>3, ConnectionAssumption DEF ConnStates
  <2>6. conn' = [conn EXCEPT !.left = l, !.done = d, !.reads = c, !.pc = p, !.keep = k]
    BY <2>1, <2>3, <2>4, <2>5
  <2>7. /\ conn' \in ConnStates /\ conn'.req = conn.req /\ conn'.left = l /\ conn'.done = d /\ conn'.keep = k
        /\ conn'.pc = p
    BY <1>1, <2>4, <2>5, <2>6 DEF ConnStates
  <2>8. conn'.keep => conn.keep /\ (conn'.pc = "answer" => x.done)
    BY <2>4, <2>7
  <2> QED BY <1>1, <2>1, <2>2, <2>3, <2>4, <2>7, <2>8, ServeStep
<1> QED BY <1>2, <1>3

LEMMA RespondKeeps ==
    ASSUME ConnInv, Respond
    PROVE  ConnInv'
<1>1. /\ conn.pc = "answer" /\ answered' = Append(answered, conn.req)
      /\ UNCHANGED <<pipeline, cut, taken, got, handled>>
  BY DEF Respond
<1>2. PICK closes \in BOOLEAN : conn' = IF conn.keep /\ ~closes THEN Waiting ELSE [conn EXCEPT !.pc = "closed"]
  BY DEF Respond
<1>3. CASE conn.keep /\ ~closes
  BY <1>1, <1>2, <1>3, AgainStep
<1>4. CASE ~ (conn.keep /\ ~closes)
  BY <1>1, <1>2, <1>4, CloseStep DEF Close
<1> QED BY <1>3, <1>4

\* Every step.
LEMMA ConnSteps ==
    ASSUME ConnInv, [ConnNext]_connVars
    PROVE  ConnInv'
<1>1. CASE RespondFails
  <2>1. conn.pc = "answer" /\ Close /\ UNCHANGED <<pipeline, cut, taken, got, handled>> /\ answered' = answered
    BY <1>1 DEF RespondFails
  <2> QED BY <2>1, CloseStep
<1>2. CASE StopServing \/ UNCHANGED connVars
  <2>1. UNCHANGED <<pipeline, cut, taken, conn, got, handled, answered>>
    BY <1>2 DEF StopServing, connVars
  <2> QED BY <2>1 DEF ConnInv
<1> QED BY <1>1, <1>2, ReadHeadKeeps, HandlerReadsKeeps, HandlerReturnsKeeps, DiscardKeeps, RespondKeeps DEF ConnNext

LEMMA ConnInvGives ==
    ASSUME ConnInv
    PROVE  ConnTypeOK /\ ConnInStep
<1>1. Counted
  BY CountedIs
<1>2. conn \in ConnStates /\ Len(handled) \in Nat /\ Len(handled) <= Len(pipeline) /\ Len(pipeline) \in Nat
  BY <1>1 DEF Counted
<1>3. /\ conn.pc = "head" => conn.req = 0 /\ Len(answered) = Len(handled)
      /\ conn.pc \in {"handler", "discard", "answer"} => conn.req = Len(handled) /\ Len(answered) = Len(handled) - 1
      /\ conn.pc = "closed" => conn.req \in {0, Len(handled)} /\ Len(handled) - Len(answered) \in {0, 1}
  BY DEF ConnInv, Waiting
<1>4. conn.pc \in {"head", "handler", "discard", "answer", "closed"}
  BY <1>2 DEF ConnStates
<1>5. conn.req \in 0..Len(pipeline)
  BY <1>2, <1>3, <1>4
<1>6. ConnTypeOK
  BY <1>1, <1>2, <1>4, <1>5 DEF ConnTypeOK, Counted, ConnStates
<1>7. DOMAIN handled = 1..Len(handled) /\ DOMAIN answered = 1..Len(answered) /\ DOMAIN got = 1..Len(got)
  <2>1. handled \in Seq(Toks) /\ answered \in Seq(Nat) /\ got \in Seq(Toks)
    BY <1>1 DEF Counted
  <2> QED BY <2>1
<1>8. \A k \in DOMAIN handled : handled[k].is = "head" /\ handled[k].of = k
  BY <1>1, <1>7 DEF Counted, Tok
<1>9. conn.req # 0 => \A k \in DOMAIN got : got[k].is = "data" /\ got[k].of = conn.req
  BY <1>1, <1>7 DEF Counted, Tok
<1>10. conn.pc \in {"discard", "answer"} /\ conn.done =>
          Len(got) = IF pipeline[conn.req].form = "none" THEN 0 ELSE Sum(pipeline[conn.req].chunks)
  BY BodyWhole
<1>11. \A k \in DOMAIN answered : answered[k] = k
  BY <1>1, <1>7 DEF Counted
<1>12. Len(handled) - Len(answered) \in {0, 1}
  BY <1>2, <1>3, <1>4
<1>13. \A k \in DOMAIN handled : k < Len(handled) => pipeline[handled[k].of].keep
  BY <1>1, <1>7, <1>8 DEF Counted
<1>14. ConnInStep
  BY <1>8, <1>9, <1>10, <1>11, <1>12, <1>13 DEF ConnInStep
<1> QED BY <1>6, <1>14

\* The server is always at a known place of what the client sent, of a request that the
\* client sent, and makes no more reads to be rid of a body than handleConnection() allows.
THEOREM ConnTypeCorrect == ConnSpec => []ConnTypeOK
<1>1. ConnInit => ConnInv
  BY ConnInitial
<1>2. ConnInv /\ [ConnNext]_connVars => ConnInv'
  BY ConnSteps
<1>3. ConnInv => ConnTypeOK
  BY ConnInvGives
<1> QED BY <1>1, <1>2, <1>3, PTL DEF ConnSpec

\* The two ends of a connection never lose count, whatever the requests, however their
\* bodies are cut into chunks and wherever the client stops sending: what is parsed as a
\* request is the head of the next request sent, though the handlers before it left their
\* bodies unread; a request's readers return bytes of its own body only, all of it when
\* they report it complete; and every answer is to the oldest request not yet answered.
THEOREM ConnNeverLosesCount == ConnSpec => []ConnInStep
<1>1. ConnInit => ConnInv
  BY ConnInitial
<1>2. ConnInv /\ [ConnNext]_connVars => ConnInv'
  BY ConnSteps
<1>3. ConnInv => ConnInStep
  BY ConnInvGives
<1> QED BY <1>1, <1>2, <1>3, PTL DEF ConnSpec

-----------------------------------------------------------------------------
(* The link to MySQL: the invariant *)

Reading  == {"read", "columns", "eof", "rows"}
Starting == {"connect", "auth", "set", "setRead", "send"}
SqlRec   == [pc : {"rest", "failed"} \cup Starting \cup Reading, at : 1..Len(Statements) + 1, set : 0..SetUp,
             round : 0..Rounds6, again : BOOLEAN, left : Int, rows : Nat, cols : Nat, of : SUBSET Nat]
Packets  == [is : {"ok", "error", "count", "column", "end", "row"}, of : Nat]
Result   == [ok : BOOLEAN, cols : Nat, rows : Nat, of : SUBSET Nat, clean : BOOLEAN]

SqlTypes ==
    /\ sql \in SqlRec /\ socket \in {"none", "up", "cut"} /\ eofMode \in BOOLEAN /\ stale \in BOOLEAN
    /\ wire \in Seq(Packets) /\ \A j \in DOMAIN wire : wire[j].is = "count" => wire[j].of \in DOMAIN Statements
    /\ ran \in [DOMAIN Statements -> 0..2] /\ results \in Seq(Result) /\ Len(results) = sql.at - 1
    /\ cuts \in 0..MaxCuts /\ slow \in 0..MaxSlow

\* Where run() is: which statement, how often it has been sent, what it has put together.
SqlWhere ==
    /\ sql.pc # "rest" => sql.at \in DOMAIN Statements
    /\ sql.pc \in {"set", "setRead"} => sql.set < SetUp
    /\ sql.pc \notin {"rest", "connect"} => socket # "none"
    /\ sql.pc \in {"rest"} \cup Starting => sql.of = {} /\ sql.cols = 0 /\ sql.rows = 0
    /\ sql.pc = "read" => sql.of = {} /\ sql.cols = 0 /\ sql.rows = 0
    /\ \A i \in DOMAIN Statements : i > sql.at => ran[i] = 0
    /\ sql.at \in DOMAIN Statements =>
          ran[sql.at] <= (IF sql.pc # "rest" /\ sql.again THEN 1 ELSE 0)
                         + (IF sql.pc \in Reading \cup {"failed"} THEN 1 ELSE 0)

\* Packets of the answer that have been read.
Taken == CASE sql.pc = "read" -> 0
           [] sql.pc \in {"columns", "eof"} -> 1 + sql.cols
           [] OTHER -> 1 + sql.cols + (IF eofMode THEN 1 ELSE 0) + sql.rows

RestOf(w, a, k) == Len(w) + k <= Len(a) /\ \A j \in 1..Len(w) : w[j] = a[k + j]

\* On a clean connection the rest of the answer is on its way, or the beginning of it.
SqlReading ==
    sql.pc \in Reading /\ ~stale =>
        LET s == Statements[sql.at]
            a == Answer(sql.at)
        IN /\ RestOf(wire, a, Taken)
           /\ wire # <<>> => ran[sql.at] > 0
           /\ sql.pc # "read" => s.kind = "select" /\ ran[sql.at] > 0
           /\ sql.pc = "columns" => sql.left > 0 /\ sql.left + sql.cols = s.cols /\ sql.rows = 0
           /\ sql.pc = "eof" => eofMode /\ sql.cols = s.cols /\ sql.rows = 0
           /\ sql.pc = "rows" => sql.cols = s.cols /\ sql.rows <= s.rows

SqlClean ==
    ~stale => /\ sql.pc \in {"rest", "connect", "auth", "set", "send"} => wire = <<>>
              /\ sql.pc = "setRead" => Len(wire) <= 1
              /\ sql.of \subseteq {sql.at}

SqlResults ==
    \A k \in DOMAIN results : results[k].clean =>
        /\ results[k].of \subseteq {k}
        /\ results[k].ok => ran[k] > 0
        /\ results[k].ok /\ Statements[k].kind = "select" =>
              results[k].cols = Statements[k].cols /\ results[k].rows = Statements[k].rows

SqlInv == SqlTypes /\ SqlWhere /\ SqlReading /\ SqlClean /\ SqlResults

-----------------------------------------------------------------------------
(* Answers *)

LEMMA ConcatIs ==
    ASSUME NEW S, NEW s \in Seq(S), NEW t \in Seq(S)
    PROVE  /\ s \o t \in Seq(S) /\ Len(s \o t) = Len(s) + Len(t)
           /\ \A j \in 1..Len(s) : (s \o t)[j] = s[j]
           /\ \A j \in Len(s) + 1..Len(s) + Len(t) : (s \o t)[j] = t[j - Len(s)]
<1> DEFINE u == s \o t
<1>1. u \in Seq(S) /\ Len(u) = Len(s) + Len(t)
      /\ \A i \in 1..Len(s) + Len(t) : u[i] = IF i <= Len(s) THEN s[i] ELSE t[i - Len(s)]
  BY ConcatProperties
<1> HIDE DEF u
<1>2. Len(s) \in Nat /\ Len(t) \in Nat
  BY LenProperties
<1>3. /\ \A j \in 1..Len(s) : u[j] = s[j]
      /\ \A j \in Len(s) + 1..Len(s) + Len(t) : u[j] = t[j - Len(s)]
  BY <1>1, <1>2
<1> QED BY <1>1, <1>3 DEF u

LEMMA TimesIs ==
    ASSUME NEW S, NEW x \in S, NEW n \in Nat
    PROVE  Times(n, x) \in Seq(S) /\ Len(Times(n, x)) = n /\ \A j \in 1..n : Times(n, x)[j] = x
BY DEF Times

LEMMA OneIs ==
    ASSUME NEW S, NEW x \in S
    PROVE  <<x>> \in Seq(S) /\ Len(<<x>>) = 1 /\ <<x>>[1] = x
OBVIOUS

LEMMA StatementType ==
    ASSUME NEW i \in DOMAIN Statements
    PROVE  /\ i \in 1..Len(Statements) /\ i # 0 /\ i \in Nat
           /\ Statements[i] \in [kind : {"write", "wrong", "select"}, cols : Nat, rows : Nat]
           /\ Statements[i].kind = "select" => Statements[i].cols > 0
<1> DEFINE S == [kind : {"write", "wrong", "select"}, cols : Nat, rows : Nat]
<1>1. Statements \in Seq(S)
  BY SqlAssumption
<1>2. Statements[i].kind = "select" => Statements[i].cols > 0
  BY SqlAssumption
<1> HIDE DEF S
<1>3. DOMAIN Statements = 1..Len(Statements) /\ Len(Statements) \in Nat /\ Statements[i] \in S
  BY <1>1
<1> QED BY <1>2, <1>3 DEF S

E == IF eofMode THEN 1 ELSE 0

\* The answer to a SELECT, packet by packet.
LEMMA SelectAnswer ==
    ASSUME NEW i \in DOMAIN Statements, Statements[i].kind = "select", eofMode \in BOOLEAN
    PROVE  LET a == Answer(i)
               s == Statements[i]
           IN /\ a \in Seq(Packets) /\ Len(a) = 2 + s.cols + E + s.rows
              /\ a[1] = Packet("count", i)
              /\ \A j \in 2..1 + s.cols : a[j] = Packet("column", i)
              /\ eofMode => a[2 + s.cols] = Packet("end", i)
              /\ \A j \in 2 + s.cols + E .. 1 + s.cols + E + s.rows : a[j] = Packet("row", i)
              /\ a[2 + s.cols + E + s.rows] = Packet("end", i)
<1> DEFINE c == Statements[i].cols
           r == Statements[i].rows
           p1 == <<Packet("count", i)>>
           p2 == Times(c, Packet("column", i))
           p3 == IF eofMode THEN <<Packet("end", i)>> ELSE <<>>
           p4 == Times(r, Packet("row", i))
           p5 == <<Packet("end", i)>>
<1>1. c \in Nat /\ r \in Nat /\ i \in Nat /\ i # 0 /\ E \in {0, 1}
  BY StatementType DEF E
<1>2. Answer(i) = p1 \o p2 \o p3 \o p4 \o p5
  BY <1>1, StatementType DEF Answer
<1>3. \A is \in {"count", "column", "end", "row"} : Packet(is, i) \in Packets
  BY <1>1 DEF Packet, Packets
<1>4. /\ p1 \in Seq(Packets) /\ Len(p1) = 1 /\ p1[1] = Packet("count", i)
      /\ p5 \in Seq(Packets) /\ Len(p5) = 1 /\ p5[1] = Packet("end", i)
  BY <1>3, OneIs
<1>5. /\ p2 \in Seq(Packets) /\ Len(p2) = c /\ \A j \in 1..c : p2[j] = Packet("column", i)
      /\ p4 \in Seq(Packets) /\ Len(p4) = r /\ \A j \in 1..r : p4[j] = Packet("row", i)
  <2>1. Packet("column", i) \in Packets /\ Packet("row", i) \in Packets
    BY <1>3
  <2> HIDE DEF c, r
  <2> QED BY <1>1, <2>1, TimesIs
<1>6. p3 \in Seq(Packets) /\ Len(p3) = E /\ (eofMode => p3[1] = Packet("end", i))
  BY <1>3 DEF E
<1> HIDE DEF c, r, p1, p2, p3, p4, p5
<1> DEFINE q2 == p1 \o p2
           q3 == q2 \o p3
           q4 == q3 \o p4
           q5 == q4 \o p5
<1>7. q2 \in Seq(Packets) /\ Len(q2) = 1 + c /\ q2[1] = Packet("count", i)
      /\ \A j \in 2..1 + c : q2[j] = Packet("column", i)
  <2>1. /\ q2 \in Seq(Packets) /\ Len(q2) = Len(p1) + Len(p2)
        /\ \A j \in 1..Len(p1) : q2[j] = p1[j]
        /\ \A j \in Len(p1) + 1..Len(p1) + Len(p2) : q2[j] = p2[j - Len(p1)]
    <3>1. p1 \in Seq(Packets) /\ p2 \in Seq(Packets)
      BY <1>4, <1>5
    <3> QED BY ONLY <3>1, ConcatIs
  <2> HIDE DEF q2
  <2> QED BY <1>1, <1>4, <1>5, <2>1
<1> HIDE DEF q2
<1>8. q3 \in Seq(Packets) /\ Len(q3) = 1 + c + E /\ (\A j \in 1..1 + c : q3[j] = q2[j])
      /\ (eofMode => q3[2 + c] = Packet("end", i))
  <2>0. 1 + c \in Nat /\ E \in Nat
    BY <1>1
  <2>1. /\ q3 \in Seq(Packets) /\ Len(q3) = Len(q2) + Len(p3)
        /\ \A j \in 1..Len(q2) : q3[j] = q2[j]
        /\ \A j \in Len(q2) + 1..Len(q2) + Len(p3) : q3[j] = p3[j - Len(q2)]
    BY ONLY <1>6, <1>7, ConcatIs
  <2>2. eofMode => E = 1
    BY DEF E
  <2> HIDE DEF q3
  <2> QED BY <1>1, <1>6, <1>7, <2>0, <2>1, <2>2
<1> HIDE DEF q3
<1>9. q4 \in Seq(Packets) /\ Len(q4) = 1 + c + E + r /\ (\A j \in 1..1 + c + E : q4[j] = q3[j])
      /\ (\A j \in 2 + c + E .. 1 + c + E + r : q4[j] = Packet("row", i))
  <2>0. 1 + c + E \in Nat
    BY <1>1
  <2>1. /\ q4 \in Seq(Packets) /\ Len(q4) = Len(q3) + Len(p4)
        /\ \A j \in 1..Len(q3) : q4[j] = q3[j]
        /\ \A j \in Len(q3) + 1..Len(q3) + Len(p4) : q4[j] = p4[j - Len(q3)]
    <3>1. q3 \in Seq(Packets) /\ p4 \in Seq(Packets)
      BY <1>5, <1>8
    <3> QED BY ONLY <3>1, ConcatIs
  <2> HIDE DEF q4
  <2> QED BY <1>1, <1>5, <1>8, <2>0, <2>1
<1> HIDE DEF q4
<1>10. q5 \in Seq(Packets) /\ Len(q5) = 2 + c + E + r /\ (\A j \in 1..1 + c + E + r : q5[j] = q4[j])
       /\ q5[2 + c + E + r] = Packet("end", i)
  <2>0. 1 + c + E + r \in Nat
    BY <1>1
  <2>1. /\ q5 \in Seq(Packets) /\ Len(q5) = Len(q4) + Len(p5)
        /\ \A j \in 1..Len(q4) : q5[j] = q4[j]
        /\ \A j \in Len(q4) + 1..Len(q4) + Len(p5) : q5[j] = p5[j - Len(q4)]
    <3>1. q4 \in Seq(Packets) /\ p5 \in Seq(Packets)
      BY <1>4, <1>9
    <3> QED BY ONLY <3>1, ConcatIs
  <2> HIDE DEF q5
  <2> QED BY <1>1, <1>4, <1>9, <2>0, <2>1
<1>11. Answer(i) = q5
  BY <1>2 DEF q2, q3, q4
<1> HIDE DEF q5
<1>12. eofMode => E = 1
  BY DEF E
<1>13. /\ q5[1] = Packet("count", i)
       /\ \A j \in 2..1 + c : q5[j] = Packet("column", i)
       /\ eofMode => q5[2 + c] = Packet("end", i)
       /\ \A j \in 2 + c + E .. 1 + c + E + r : q5[j] = Packet("row", i)
  BY <1>1, <1>7, <1>8, <1>9, <1>10, <1>12
<1> QED BY <1>10, <1>11, <1>13 DEF c, r

\* Every other answer is one packet, and so is that to a SET.
LEMMA ShortAnswer ==
    /\ Answer(0) = <<Packet("ok", 0)>> /\ Answer(0) \in Seq(Packets)
    /\ \A i \in DOMAIN Statements : Statements[i].kind # "select" =>
          /\ Answer(i) = <<Packet(IF Statements[i].kind = "write" THEN "ok" ELSE "error", i)>>
          /\ Answer(i) \in Seq(Packets)
<1>1. Answer(0) = <<Packet("ok", 0)>> /\ Packet("ok", 0) \in Packets
  BY DEF Answer, Packet, Packets
<1>2. ASSUME NEW i \in DOMAIN Statements, Statements[i].kind # "select"
      PROVE  /\ Answer(i) = <<Packet(IF Statements[i].kind = "write" THEN "ok" ELSE "error", i)>>
             /\ Packet(IF Statements[i].kind = "write" THEN "ok" ELSE "error", i) \in Packets
  <2>1. i # 0 /\ i \in Nat /\ Statements[i].kind \in {"write", "wrong"}
    BY <1>2, StatementType
  <2> QED BY <2>1 DEF Answer, Packet, Packets
<1> QED BY <1>1, <1>2, OneIs

LEMMA AnswerType ==
    ASSUME NEW i \in DOMAIN Statements, eofMode \in BOOLEAN
    PROVE  /\ Answer(i) \in Seq(Packets) /\ Len(Answer(i)) > 0
           /\ \A j \in DOMAIN Answer(i) : Answer(i)[j].of = i
<1>1. CASE Statements[i].kind = "select"
  <2> DEFINE a == Answer(i)
             s == Statements[i]
  <2>1. s.cols \in Nat /\ s.rows \in Nat /\ E \in {0, 1} /\ (eofMode <=> E = 1)
    BY StatementType DEF E
  <2>2. /\ a \in Seq(Packets) /\ Len(a) = 2 + s.cols + E + s.rows
        /\ a[1] = Packet("count", i)
        /\ \A j \in 2..1 + s.cols : a[j] = Packet("column", i)
        /\ eofMode => a[2 + s.cols] = Packet("end", i)
        /\ \A j \in 2 + s.cols + E .. 1 + s.cols + E + s.rows : a[j] = Packet("row", i)
        /\ a[2 + s.cols + E + s.rows] = Packet("end", i)
    BY <1>1, SelectAnswer
  <2> HIDE DEF a, s
  <2>3. DOMAIN a = 1..2 + s.cols + E + s.rows
    BY <2>2
  <2>4. \A j \in DOMAIN a : a[j].of = i
    <3> SUFFICES ASSUME NEW j \in 1..2 + s.cols + E + s.rows PROVE a[j].of = i
      BY <2>3
    <3>1. \/ j = 1 \/ j \in 2..1 + s.cols \/ (eofMode /\ j = 2 + s.cols)
          \/ j \in 2 + s.cols + E .. 1 + s.cols + E + s.rows \/ j = 2 + s.cols + E + s.rows
      BY <2>1
    <3> QED BY <2>2, <3>1 DEF Packet
  <2> QED BY <2>1, <2>2, <2>4 DEF a
<1>2. CASE Statements[i].kind # "select"
  BY <1>2, ShortAnswer DEF Packet
<1> QED BY <1>1, <1>2

LEMMA AnswerKept ==
    ASSUME eofMode' = eofMode, NEW i
    PROVE  Answer(i)' = Answer(i)
BY DEF Answer

LEMMA TailRest ==
    ASSUME NEW S, NEW w \in Seq(S), NEW a \in Seq(S), NEW k \in Nat, w # <<>>, RestOf(w, a, k)
    PROVE  /\ RestOf(Tail(w), a, k + 1) /\ Tail(w) \in Seq(S) /\ Head(w) \in S
           /\ Head(w) = a[k + 1] /\ k + 1 <= Len(a)
           /\ k + 1 = Len(a) => Tail(w) = <<>>
<1> DEFINE t == Tail(w)
<1>1. /\ Head(w) = w[1] /\ t \in Seq(S) /\ Len(t) = Len(w) - 1 /\ \A i \in 1..Len(t) : t[i] = w[i + 1]
      /\ Len(w) \in Nat /\ Len(w) > 0 /\ Len(a) \in Nat /\ Head(w) \in S
  BY HeadTailProperties, LenProperties, EmptySeq
<1> HIDE DEF t
<1>2. Len(w) + k <= Len(a) /\ \A j \in 1..Len(w) : w[j] = a[k + j]
  BY DEF RestOf
<1>3. w[1] = a[k + 1]
  BY <1>1, <1>2
<1>4. \A i \in 1..Len(t) : t[i] = a[(k + 1) + i]
  <2> TAKE i \in 1..Len(t)
  <2>1. t[i] = w[i + 1] /\ i + 1 \in 1..Len(w) /\ k + (i + 1) = (k + 1) + i
    BY <1>1
  <2> QED BY <1>2, <2>1
<1>5. k + 1 = Len(a) => Len(t) = 0
  BY <1>1, <1>2
<1>6. Len(t) = 0 => t = <<>>
  BY <1>1, EmptySeq
<1> QED BY <1>1, <1>2, <1>3, <1>4, <1>5, <1>6 DEF RestOf, t

LEMMA CutRest ==
    ASSUME NEW S, NEW w \in Seq(S), NEW a \in Seq(S), NEW k \in Nat, NEW n \in 0..Len(w)
    PROVE  /\ SubSeq(w, 1, n) \in Seq(S) /\ Len(SubSeq(w, 1, n)) = n
           /\ \A j \in 1..n : SubSeq(w, 1, n)[j] = w[j]
           /\ RestOf(w, a, k) => RestOf(SubSeq(w, 1, n), a, k)
<1> DEFINE t == SubSeq(w, 1, n)
<1>1. Len(w) \in Nat /\ Len(a) \in Nat /\ n \in Nat /\ n <= Len(w)
  BY LenProperties
<1>2. t \in Seq(S) /\ Len(t) = n /\ \A j \in 1..n : t[j] = w[j]
  OBVIOUS
<1> HIDE DEF t
<1>3. ASSUME RestOf(w, a, k) PROVE RestOf(t, a, k)
  <2>1. Len(w) + k <= Len(a) /\ \A j \in 1..Len(w) : w[j] = a[k + j]
    BY <1>3 DEF RestOf
  <2>2. Len(t) + k <= Len(a)
    BY <1>1, <1>2, <2>1
  <2>3. \A j \in 1..Len(t) : t[j] = a[k + j]
    <3> TAKE j \in 1..Len(t)
    <3>1. j \in 1..n /\ j \in 1..Len(w)
      BY <1>1, <1>2
    <3> QED BY <1>2, <2>1, <3>1
  <2> QED BY <2>2, <2>3 DEF RestOf
<1> QED BY <1>2, <1>3 DEF t

-----------------------------------------------------------------------------
(* The link to MySQL: one step *)

\* run() returns, to a connection with nothing left on it unless it is stale.
LEMMA Returned ==
    ASSUME SqlInv, sql.pc # "rest", NEW result \in Result, Return(result),
           result.clean => /\ result.of \subseteq {sql.at}
                           /\ result.ok => ran[sql.at] > 0
                           /\ result.ok /\ Statements[sql.at].kind = "select" =>
                                 result.cols = Statements[sql.at].cols /\ result.rows = Statements[sql.at].rows,
           eofMode' = eofMode, ran' = ran, wire' \in Seq(Packets),
           \A j \in DOMAIN wire' : wire'[j].is = "count" => wire'[j].of \in DOMAIN Statements,
           ~stale' => wire' = <<>>,
           socket' \in {"none", "up", "cut"}, stale' \in BOOLEAN, cuts' \in 0..MaxCuts, slow' \in 0..MaxSlow
    PROVE  SqlInv'
<1> DEFINE n == Len(Statements)
<1>1. /\ sql.at \in DOMAIN Statements /\ ran \in [DOMAIN Statements -> 0..2] /\ results \in Seq(Result)
      /\ Len(results) = sql.at - 1 /\ eofMode \in BOOLEAN
      /\ \A i \in DOMAIN Statements : i > sql.at => ran[i] = 0
      /\ SqlResults
  BY DEF SqlInv, SqlTypes, SqlWhere
<1>2. DOMAIN Statements = 1..n /\ n \in Nat
  BY SqlAssumption
<1> HIDE DEF n
<1>3. /\ sql'.pc = "rest" /\ sql'.at = sql.at + 1 /\ sql'.set = 0 /\ sql'.round = 0 /\ sql'.again = FALSE
      /\ sql'.left = 0 /\ sql'.rows = 0 /\ sql'.cols = 0 /\ sql'.of = {}
      /\ sql' = [pc |-> "rest", at |-> sql.at + 1, set |-> 0, round |-> 0, again |-> FALSE, left |-> 0, rows |-> 0,
                 cols |-> 0, of |-> {}]
  BY DEF Return, Resting
<1>4. results' \in Seq(Result) /\ Len(results') = sql.at /\ results'[sql.at] = result
      /\ \A k \in 1..sql.at - 1 : results'[k] = results[k]
  <2>1. results' = Append(results, result)
    BY DEF Return
  <2>2. sql.at \in Nat /\ sql.at > 0
    BY <1>1, <1>2
  <2> HIDE DEF Result
  <2> QED BY <1>1, <2>1, <2>2, AppendProperties
<1>5. sql' \in SqlRec
  <2>1. SetUp \in Nat /\ Rounds6 \in Nat
    BY SqlAssumption
  <2>2. sql.at + 1 \in 1..Len(Statements) + 1
    BY <1>1, <1>2 DEF n
  <2> QED BY <1>3, <2>1, <2>2 DEF SqlRec
<1>6. SqlTypes'
  BY <1>1, <1>3, <1>4, <1>5 DEF SqlTypes
<1>7. SqlWhere'
  <2>1. /\ sql'.pc = "rest" /\ sql'.of = {} /\ sql'.cols = 0 /\ sql'.rows = 0 /\ ran' = ran
        /\ sql'.again = FALSE /\ sql'.at = sql.at + 1
    BY ONLY <1>3, ran' = ran
  <2>2. \A i \in DOMAIN Statements : i >= sql.at + 1 => ran[i] = 0
    BY ONLY <1>1, <1>2
  <2>3. \A i \in DOMAIN Statements : i > sql'.at => ran'[i] = 0
    BY ONLY <2>1, <2>2, <1>1, <1>2
  <2>4. sql'.at \in DOMAIN Statements => ran'[sql'.at] <= 0
    BY ONLY <2>1, <2>2, <1>1, <1>2
  <2> QED BY ONLY <2>1, <2>3, <2>4 DEF SqlWhere, Starting, Reading
<1>8. SqlReading'
  BY <1>3 DEF SqlReading, Reading
<1>9. SqlClean'
  BY <1>3 DEF SqlClean
<1>10. SqlResults'
  <2> SUFFICES ASSUME NEW k \in DOMAIN results', results'[k].clean
               PROVE  /\ results'[k].of \subseteq {k}
                      /\ results'[k].ok => ran'[k] > 0
                      /\ results'[k].ok /\ Statements[k].kind = "select" =>
                            results'[k].cols = Statements[k].cols /\ results'[k].rows = Statements[k].rows
    BY DEF SqlResults
  <2>1. k \in 1..sql.at /\ sql.at \in Nat
    BY <1>1, <1>2, <1>4
  <2>2. CASE k = sql.at
    BY <2>2, <1>4
  <2>3. CASE k \in 1..sql.at - 1
    <3>1. k \in DOMAIN results /\ results'[k] = results[k]
      BY <1>1, <1>4, <2>3
    <3> QED BY <1>1, <3>1 DEF SqlResults
  <2> QED BY <2>1, <2>2, <2>3
<1> QED BY <1>6, <1>7, <1>8, <1>9, <1>10 DEF SqlInv

\* A step in which nothing is returned leaves the results as they are.
LEMMA ResultsKept ==
    ASSUME SqlInv, results' = results, ran' \in [DOMAIN Statements -> 0..2],
           \A i \in DOMAIN Statements : ran'[i] >= ran[i]
    PROVE  SqlResults'
<1>1. SqlResults /\ ran \in [DOMAIN Statements -> 0..2] /\ DOMAIN results = 1..sql.at - 1
      /\ sql.at \in 1..Len(Statements) + 1 /\ DOMAIN Statements = 1..Len(Statements)
  BY SqlAssumption DEF SqlInv, SqlTypes, SqlRec
<1>2. DOMAIN results \subseteq DOMAIN Statements
  BY <1>1, SqlAssumption
<1> QED BY <1>1, <1>2 DEF SqlResults

LEMMA ResultsStay ==
    ASSUME SqlInv, results' = results, ran' = ran
    PROVE  SqlResults'
<1>1. ran \in [DOMAIN Statements -> 0..2]
  BY DEF SqlInv, SqlTypes
<1>2. \A i \in DOMAIN Statements : ran[i] >= ran[i]
  BY <1>1
<1> QED BY <1>1, <1>2, ResultsKept

LEMMA RunStatementKeeps == SqlInv /\ RunStatement => SqlInv'
<1> SUFFICES ASSUME SqlInv, RunStatement PROVE SqlInv'
  OBVIOUS
<1> USE DEF SqlInv, RunStatement
<1>0. DOMAIN Statements = 1..Len(Statements) /\ Len(Statements) \in Nat
  BY SqlAssumption
<1>1. /\ sql \in SqlRec /\ sql'.pc \in {"connect", "send"} /\ sql'.at = sql.at /\ sql'.set = sql.set
      /\ sql'.round = sql.round /\ sql'.again = FALSE /\ sql'.left = sql.left /\ sql'.rows = sql.rows
      /\ sql'.cols = sql.cols /\ sql'.of = sql.of /\ sql' \in SqlRec
      /\ (sql'.pc = "send" => socket # "none")
  BY DEF SqlTypes, SqlRec, Starting
<1>2. SqlTypes'
  BY <1>1 DEF SqlTypes
<1>3. SqlWhere'
  BY <1>0, <1>1 DEF SqlTypes, SqlWhere, Starting, Reading, SqlRec
<1>4. SqlReading' /\ SqlClean'
  BY <1>1 DEF SqlReading, Reading, SqlClean
<1>5. SqlResults'
  BY ResultsStay
<1> QED BY <1>2, <1>3, <1>4, <1>5

LEMMA Connect1Keeps == SqlInv /\ Connect1 => SqlInv'
<1> SUFFICES ASSUME SqlInv, Connect1 PROVE SqlInv'
  OBVIOUS
<1>0. sql \in SqlRec /\ sql.pc = "connect" /\ sql.of = {} /\ wire \in Seq(Packets) /\ stale \in BOOLEAN
  BY DEF SqlInv, SqlTypes, SqlWhere, Starting, Connect1
<1>1. CASE /\ socket' = "up" /\ wire' = <<>> /\ stale' = FALSE
           /\ sql' = [sql EXCEPT !.pc = "auth", !.round = 0] /\ UNCHANGED <<results, cuts>>
  <2>0. 0 \in 0..Rounds6 /\ "auth" \in {"rest", "failed"} \cup Starting \cup Reading /\ <<>> \in Seq(Packets)
        /\ DOMAIN <<>> = {}
    BY SqlAssumption DEF Starting
  <2>1. /\ sql'.pc = "auth" /\ sql'.at = sql.at /\ sql'.set = sql.set
        /\ sql'.round = 0 /\ sql'.again = sql.again /\ sql'.left = sql.left /\ sql'.rows = sql.rows
        /\ sql'.cols = sql.cols /\ sql'.of = sql.of /\ sql' \in SqlRec
    BY <1>0, <1>1, <2>0 DEF SqlRec
  <2> USE DEF SqlInv, Connect1
  <2>2. SqlTypes'
    BY <1>1, <2>0, <2>1 DEF SqlTypes
  <2>3. SqlWhere'
    BY <1>0, <1>1, <2>1 DEF SqlTypes, SqlWhere, Starting, Reading, SqlRec
  <2>4. SqlReading' /\ SqlClean'
    BY <1>0, <1>1, <2>1 DEF SqlReading, Reading, SqlClean
  <2>5. SqlResults'
    BY <1>1, ResultsStay
  <2> QED BY <2>2, <2>3, <2>4, <2>5
<1>2. CASE cuts < MaxCuts /\ cuts' = cuts + 1 /\ Return(Failure) /\ UNCHANGED <<socket, wire, stale>>
  <2>1. Failure \in Result /\ Failure.of = {} /\ ~Failure.ok
    BY <1>0 DEF Failure, Result
  <2>2. cuts' \in 0..MaxCuts /\ slow' \in 0..MaxSlow /\ socket' \in {"none", "up", "cut"}
    BY <1>2, SqlAssumption DEF SqlInv, SqlTypes, Connect1
  <2>3. ~stale => wire = <<>>
    BY <1>0 DEF SqlInv, SqlClean
  <2> QED BY <1>0, <1>2, <2>1, <2>2, <2>3, Returned DEF Connect1, SqlInv, SqlTypes
<1> QED BY <1>1, <1>2 DEF Connect1

LEMMA AuthenticateKeeps == SqlInv /\ Authenticate => SqlInv'
<1> SUFFICES ASSUME SqlInv, Authenticate PROVE SqlInv'
  OBVIOUS
<1>0. sql \in SqlRec /\ sql.pc = "auth" /\ sql.of = {} /\ wire \in Seq(Packets) /\ stale \in BOOLEAN
      /\ SetUp \in Nat /\ Rounds6 \in Nat /\ sql.round \in 0..Rounds6
  BY SqlAssumption DEF SqlInv, SqlTypes, SqlWhere, Starting, Authenticate, SqlRec
<1>1. CASE /\ \/ sql' = [sql EXCEPT !.pc = IF SetUp = 0 THEN "send" ELSE "set", !.set = 0]
              \/ sql.round < Rounds6 - 1 /\ sql' = [sql EXCEPT !.round = @ + 1]
           /\ UNCHANGED <<socket, results, cuts>>
  <2>0. {"auth", "set", "send"} \subseteq {"rest", "failed"} \cup Starting \cup Reading
    BY DEF Starting
  <2>1. /\ sql'.pc \in {"auth", "set", "send"} /\ sql'.at = sql.at
        /\ (sql'.pc = "set" => sql'.set < SetUp)
        /\ sql'.again = sql.again /\ sql'.left = sql.left /\ sql'.rows = sql.rows
        /\ sql'.cols = sql.cols /\ sql'.of = sql.of /\ sql' \in SqlRec
    <3>1. CASE sql' = [sql EXCEPT !.pc = IF SetUp = 0 THEN "send" ELSE "set", !.set = 0]
      <4>1. PICK p \in {"set", "send"} : p = (IF SetUp = 0 THEN "send" ELSE "set")
        OBVIOUS
      <4>2. sql' = [sql EXCEPT !.pc = p, !.set = 0] /\ (p = "set" => 0 < SetUp) /\ 0 \in 0..SetUp
        BY <1>0, <3>1, <4>1
      <4> QED BY <1>0, <2>0, <4>2 DEF SqlRec
    <3>2. CASE sql.round < Rounds6 - 1 /\ sql' = [sql EXCEPT !.round = @ + 1]
      <4>1. sql.round \in 0..Rounds6 - 1 => sql.round + 1 \in 0..Rounds6 - 1
        BY <1>0, <3>2
      <4>2. sql'.pc = sql.pc /\ sql'.at = sql.at /\ sql'.set = sql.set /\ sql'.again = sql.again /\ sql'.left = sql.left
            /\ sql'.rows = sql.rows /\ sql'.cols = sql.cols /\ sql'.of = sql.of
        BY <1>0, <3>2 DEF SqlRec
      <4>3. sql' \in SqlRec
        BY <1>0, <3>2, <4>1, SMTT(20) DEF SqlRec
      <4> QED BY <1>0, <2>0, <4>2, <4>3
    <3> QED BY <1>1, <3>1, <3>2
  <2> USE DEF SqlInv, Authenticate
  <2>2. SqlTypes'
    BY <1>1, <2>1 DEF SqlTypes
  <2>3. SqlWhere'
    BY <1>0, <1>1, <2>1 DEF SqlTypes, SqlWhere, Starting, Reading, SqlRec
  <2>4. SqlReading' /\ SqlClean'
    BY <1>0, <1>1, <2>1 DEF SqlReading, Reading, SqlClean
  <2>5. SqlResults'
    BY <1>1, ResultsStay
  <2> QED BY <2>2, <2>3, <2>4, <2>5
<1>2. CASE cuts < MaxCuts /\ cuts' = cuts + 1 /\ socket' = "none" /\ Return(Failure)
  <2>1. Failure \in Result /\ Failure.of = {} /\ ~Failure.ok
    BY <1>0 DEF Failure, Result
  <2>2. cuts' \in 0..MaxCuts /\ slow' \in 0..MaxSlow /\ socket' \in {"none", "up", "cut"}
    BY <1>2, SqlAssumption DEF SqlInv, SqlTypes, Authenticate
  <2>3. ~stale => wire = <<>>
    BY <1>0 DEF SqlInv, SqlClean
  <2> QED BY <1>0, <1>2, <2>1, <2>2, <2>3, Returned DEF Authenticate, SqlInv, SqlTypes
<1> QED BY <1>1, <1>2 DEF Authenticate

LEMMA SetOneKeeps == SqlInv /\ SetOne => SqlInv'
<1> SUFFICES ASSUME SqlInv, SetOne PROVE SqlInv'
  OBVIOUS
<1>0. /\ sql \in SqlRec /\ sql.pc = "set" /\ sql.of = {} /\ wire \in Seq(Packets) /\ stale \in BOOLEAN
      /\ socket \in {"up", "cut"} /\ sql.set < SetUp
      /\ (~stale => wire = <<>>)
  BY DEF SqlInv, SqlTypes, SqlWhere, SqlClean, Starting, SetOne
<1>1. /\ sql'.pc = "setRead" /\ sql'.at = sql.at /\ sql'.set = sql.set /\ sql'.again = sql.again
      /\ sql'.rows = sql.rows /\ sql'.cols = sql.cols /\ sql'.of = sql.of /\ sql' \in SqlRec
  <2>1. "setRead" \in {"rest", "failed"} \cup Starting \cup Reading
    BY DEF Starting
  <2> QED BY <1>0, <2>1 DEF SqlRec, SetOne
<1>2. /\ wire' \in Seq(Packets) /\ Len(wire') <= Len(wire) + 1
      /\ \A j \in DOMAIN wire' : wire'[j].is = "count" => wire'[j].of \in DOMAIN Statements
  <2>0. /\ wire \in Seq(Packets) /\ DOMAIN wire = 1..Len(wire) /\ Len(wire) \in Nat
        /\ \A j \in DOMAIN wire : wire[j].is = "count" => wire[j].of \in DOMAIN Statements
    BY DEF SqlInv, SqlTypes
  <2>1. CASE socket # "up"
    <3>1. wire' = wire
      BY <2>1 DEF SetOne
    <3> QED BY <2>0, <3>1
  <2>2. CASE socket = "up"
    <3> DEFINE a == <<Packet("ok", 0)>>
               u == wire \o a
    <3>1. a \in Seq(Packets) /\ Len(a) = 1 /\ a[1].is = "ok" /\ wire' = u
      BY <2>2, ShortAnswer DEF SetOne, Packet
    <3> HIDE DEF a
    <3>2. /\ u \in Seq(Packets) /\ Len(u) = Len(wire) + Len(a)
          /\ \A j \in 1..Len(wire) : u[j] = wire[j]
          /\ \A j \in Len(wire) + 1..Len(wire) + Len(a) : u[j] = a[j - Len(wire)]
      BY <2>0, <3>1, ConcatIs
    <3> HIDE DEF u
    <3>3. DOMAIN u = 1..Len(wire) + 1
      BY <3>1, <3>2
    <3>4. \A j \in DOMAIN u : u[j].is = "count" => u[j].of \in DOMAIN Statements
      <4> SUFFICES ASSUME NEW j \in 1..Len(wire) + 1, u[j].is = "count" PROVE u[j].of \in DOMAIN Statements
        BY <3>3
      <4>1. CASE j \in 1..Len(wire)
        BY <2>0, <3>2, <4>1
      <4>2. CASE j = Len(wire) + 1
        BY <2>0, <3>1, <3>2, <4>2
      <4> QED BY <2>0, <4>1, <4>2
    <3> QED BY <2>0, <3>1, <3>2, <3>4
  <2> QED BY <2>1, <2>2
<1>3. ~stale => Len(wire') <= 1
  BY <1>0, <1>2
<1> USE DEF SqlInv, SetOne
<1>4. SqlTypes'
  BY <1>1, <1>2 DEF SqlTypes
<1>5. SqlWhere'
  BY <1>0, <1>1 DEF SqlTypes, SqlWhere, Starting, Reading, SqlRec
<1>6. SqlReading' /\ SqlClean'
  BY <1>0, <1>1, <1>3 DEF SqlReading, Reading, SqlClean
<1>7. SqlResults'
  BY ResultsStay
<1> QED BY <1>4, <1>5, <1>6, <1>7

LEMMA TailTyped ==
    ASSUME SqlInv, wire # <<>>
    PROVE  /\ Tail(wire) \in Seq(Packets) /\ Len(Tail(wire)) = Len(wire) - 1 /\ Head(wire) \in Packets
           /\ \A j \in DOMAIN Tail(wire) : Tail(wire)[j].is = "count" => Tail(wire)[j].of \in DOMAIN Statements
           /\ Head(wire).is = "count" => Head(wire).of \in DOMAIN Statements
           /\ (Len(wire) <= 1 => Tail(wire) = <<>>)
<1> DEFINE t == Tail(wire)
<1>1. /\ wire \in Seq(Packets) /\ DOMAIN wire = 1..Len(wire) /\ Len(wire) \in Nat
      /\ \A j \in DOMAIN wire : wire[j].is = "count" => wire[j].of \in DOMAIN Statements
  BY DEF SqlInv, SqlTypes
<1> HIDE DEF Packets
<1>2. /\ Head(wire) = wire[1] /\ t \in Seq(Packets) /\ Len(t) = Len(wire) - 1 /\ \A i \in 1..Len(t) : t[i] = wire[i + 1]
      /\ Len(wire) > 0 /\ Head(wire) \in Packets
  BY <1>1, HeadTailProperties, EmptySeq
<1> HIDE DEF t
<1>3. DOMAIN t = 1..Len(t)
  BY <1>2
<1>4. \A j \in DOMAIN t : t[j].is = "count" => t[j].of \in DOMAIN Statements
  BY <1>1, <1>2, <1>3
<1>5. Len(wire) <= 1 => t = <<>>
  BY <1>1, <1>2, EmptySeq
<1> QED BY <1>1, <1>2, <1>4, <1>5 DEF t

LEMMA SetAnsweredKeeps == SqlInv /\ SetAnswered => SqlInv'
<1> SUFFICES ASSUME SqlInv, SetAnswered PROVE SqlInv'
  OBVIOUS
<1>0. /\ sql \in SqlRec /\ sql.pc = "setRead" /\ sql.of = {} /\ wire \in Seq(Packets) /\ stale \in BOOLEAN
      /\ socket \in {"up", "cut"} /\ sql.set < SetUp /\ SetUp \in Nat /\ sql.set \in 0..SetUp
      /\ (~stale => Len(wire) <= 1)
  BY SqlAssumption DEF SqlInv, SqlTypes, SqlWhere, SqlClean, Starting, SetAnswered, SqlRec
<1>1. /\ sql'.pc \in {"set", "send"} /\ sql'.at = sql.at /\ (sql'.pc = "set" => sql'.set < SetUp)
      /\ sql'.again = sql.again
      /\ sql'.rows = sql.rows /\ sql'.cols = sql.cols /\ sql'.of = sql.of /\ sql' \in SqlRec
  <2>1. {"set", "send"} \subseteq {"rest", "failed"} \cup Starting \cup Reading
    BY DEF Starting
  <2>0. PICK p \in {"set", "send"} : p = (IF sql.set + 1 = SetUp THEN "send" ELSE "set")
    OBVIOUS
  <2>2. sql' = [sql EXCEPT !.set = sql.set + 1, !.pc = p] /\ (p = "set" => sql.set + 1 < SetUp)
    BY <1>0, <2>0 DEF SetAnswered
  <2>3. sql.set + 1 \in 0..SetUp
    BY <1>0
  <2> QED BY <1>0, <2>1, <2>2, <2>3 DEF SqlRec
<1>2. /\ wire' \in Seq(Packets) /\ (~stale' => wire' = <<>> /\ ~stale) /\ stale' \in BOOLEAN /\ slow' \in 0..MaxSlow
      /\ \A j \in DOMAIN wire' : wire'[j].is = "count" => wire'[j].of \in DOMAIN Statements
  <2>1. CASE wire # <<>> /\ wire' = Tail(wire) /\ UNCHANGED <<stale, slow>>
    BY <1>0, <2>1, TailTyped DEF SqlInv, SqlTypes
  <2>2. CASE slow < MaxSlow /\ slow' = slow + 1 /\ stale' = TRUE /\ UNCHANGED wire
    BY <1>0, <2>2, SqlAssumption DEF SqlInv, SqlTypes
  <2>3. CASE socket = "cut" /\ wire = <<>> /\ UNCHANGED <<wire, stale, slow>>
    BY <1>0, <2>3 DEF SqlInv, SqlTypes
  <2> QED BY <2>1, <2>2, <2>3 DEF SetAnswered
<1> USE DEF SqlInv, SetAnswered
<1>4. SqlTypes'
  BY <1>1, <1>2 DEF SqlTypes
<1>5. SqlWhere'
  BY <1>0, <1>1 DEF SqlTypes, SqlWhere, Starting, Reading, SqlRec
<1>6. SqlReading' /\ SqlClean'
  BY <1>0, <1>1, <1>2 DEF SqlReading, Reading, SqlClean
<1>7. SqlResults'
  BY ResultsStay
<1> QED BY <1>4, <1>5, <1>6, <1>7

\* What there is to show of a reading after a step.
LEMMA ReadingNext ==
    ASSUME eofMode' = eofMode, NEW n, sql'.at = n, NEW k, Taken' = k,
           /\ RestOf(wire', Answer(n), k)
           /\ wire' # <<>> => ran'[n] > 0
           /\ sql'.pc # "read" => Statements[n].kind = "select" /\ ran'[n] > 0
           /\ sql'.pc = "columns" => sql'.left > 0 /\ sql'.left + sql'.cols = Statements[n].cols /\ sql'.rows = 0
           /\ sql'.pc = "eof" => eofMode /\ sql'.cols = Statements[n].cols /\ sql'.rows = 0
           /\ sql'.pc = "rows" => sql'.cols = Statements[n].cols /\ sql'.rows <= Statements[n].rows
    PROVE  SqlReading'
<1>1. Answer(sql.at)' = Answer(n)
  BY DEF Answer
<1> QED BY <1>1 DEF SqlReading

LEMMA ReadFailsKeeps == SqlInv /\ ReadFails => SqlInv'
<1> SUFFICES ASSUME SqlInv, ReadFails PROVE SqlInv'
  OBVIOUS
<1>0. /\ sql \in SqlRec /\ sql.pc \in Reading /\ stale \in BOOLEAN /\ socket \in {"up", "cut"}
      /\ slow' \in 0..MaxSlow
  <2>1. slow \in 0..MaxSlow /\ MaxSlow \in Nat
    BY SqlAssumption DEF SqlInv, SqlTypes
  <2>2. slow' \in 0..MaxSlow
    BY <2>1 DEF ReadFails
  <2> QED BY <2>2 DEF SqlInv, SqlTypes, SqlWhere, Reading, ReadFails
<1>1. /\ sql'.pc = "failed" /\ sql'.at = sql.at /\ sql'.set = sql.set /\ sql'.again = sql.again
      /\ sql'.rows = sql.rows /\ sql'.cols = sql.cols /\ sql'.of = sql.of /\ sql' \in SqlRec
  BY <1>0 DEF SqlRec, ReadFails
<1> USE DEF SqlInv, ReadFails
<1>4. SqlTypes'
  BY <1>0, <1>1 DEF SqlTypes
<1>5. SqlWhere'
  BY <1>0, <1>1 DEF SqlTypes, SqlWhere, Starting, Reading, SqlRec
<1>6. SqlReading' /\ SqlClean'
  BY <1>0, <1>1 DEF SqlReading, Reading, SqlClean
<1>7. SqlResults'
  BY ResultsStay
<1> QED BY <1>4, <1>5, <1>6, <1>7

LEMMA AgainKeeps == SqlInv /\ Again => SqlInv'
<1> SUFFICES ASSUME SqlInv, Again PROVE SqlInv'
  OBVIOUS
<1>0. /\ sql \in SqlRec /\ sql.pc = "failed" /\ ~sql.again /\ SetUp \in Nat /\ Rounds6 \in Nat
      /\ sql.at \in DOMAIN Statements /\ ran \in [DOMAIN Statements -> 0..2]
  BY SqlAssumption DEF SqlInv, SqlTypes, SqlWhere, Again
<1>1. /\ sql'.pc = "connect" /\ sql'.at = sql.at /\ sql'.set = 0 /\ sql'.round = 0 /\ sql'.again = TRUE
      /\ sql'.left = 0 /\ sql'.rows = 0 /\ sql'.cols = 0 /\ sql'.of = {} /\ sql' \in SqlRec
  <2>1. sql' = [pc |-> "connect", at |-> sql.at, set |-> 0, round |-> 0, again |-> TRUE, left |-> 0,
                rows |-> 0, cols |-> 0, of |-> {}]
    BY DEF Again, Resting
  <2>2. "connect" \in {"rest", "failed"} \cup Starting \cup Reading /\ sql.at \in 1..Len(Statements) + 1
    BY <1>0 DEF Starting, SqlRec
  <2> QED BY <1>0, <2>1, <2>2 DEF SqlRec
<1>2. wire' = <<>> /\ <<>> \in Seq(Packets) /\ DOMAIN <<>> = {}
  BY DEF Again
<1> USE DEF SqlInv, Again
<1>4. SqlTypes'
  BY <1>1, <1>2 DEF SqlTypes
<1>5. SqlWhere'
  BY <1>0, <1>1 DEF SqlTypes, SqlWhere, Starting, Reading, SqlRec
<1>6. SqlReading' /\ SqlClean'
  BY <1>0, <1>1 DEF SqlReading, Reading, SqlClean
<1>7. SqlResults'
  BY ResultsStay
<1> QED BY <1>4, <1>5, <1>6, <1>7

LEMMA GiveUpKeeps == SqlInv /\ GiveUp => SqlInv'
<1> SUFFICES ASSUME SqlInv, GiveUp PROVE SqlInv'
  OBVIOUS
<1>0. sql \in SqlRec /\ sql.pc = "failed" /\ wire \in Seq(Packets) /\ stale \in BOOLEAN /\ socket \in {"up", "cut"}
      /\ stale' = TRUE
  BY DEF SqlInv, SqlTypes, SqlWhere, GiveUp
<1>1. Failure \in Result /\ ~Failure.ok /\ (Failure.clean => Failure.of \subseteq {sql.at})
  <2>1. Failure.of = sql.of /\ sql.of \in SUBSET Nat /\ Failure.clean = ~stale
    BY <1>0 DEF Failure, SqlRec
  <2> QED BY <1>0, <2>1 DEF Failure, Result, SqlInv, SqlClean
<1> QED BY <1>0, <1>1, Returned DEF GiveUp, SqlInv, SqlTypes

LEMMA SendQueryKeeps == SqlInv /\ SendQuery => SqlInv'
<1> SUFFICES ASSUME SqlInv, SendQuery PROVE SqlInv'
  OBVIOUS
<1>a. PICK n \in DOMAIN Statements : n = sql.at
  BY DEF SqlInv, SqlWhere, SendQuery
<1>0. /\ sql \in SqlRec /\ sql.pc = "send" /\ sql.of = {} /\ sql.cols = 0 /\ sql.rows = 0
      /\ wire \in Seq(Packets) /\ stale \in BOOLEAN /\ socket \in {"up", "cut"} /\ (~stale => wire = <<>>)
      /\ eofMode \in BOOLEAN /\ ran \in [DOMAIN Statements -> 0..2]
      /\ ran[n] <= (IF sql.again THEN 1 ELSE 0) /\ sql.again \in BOOLEAN
      /\ \A j \in DOMAIN wire : wire[j].is = "count" => wire[j].of \in DOMAIN Statements
  BY <1>a DEF SqlInv, SqlTypes, SqlWhere, SqlClean, Starting, Reading, SendQuery, SqlRec
<1>1. PICK p \in {"failed", "read"} : sql' = [sql EXCEPT !.pc = p, !.of = {}] /\ (socket = "up" => p = "read")
  BY DEF SendQuery
<1>2. /\ sql'.pc = p /\ sql'.at = n /\ sql'.set = sql.set /\ sql'.again = sql.again
      /\ sql'.rows = 0 /\ sql'.cols = 0 /\ sql'.of = {} /\ sql' \in SqlRec
  <2>1. p \in {"rest", "failed"} \cup Starting \cup Reading /\ {} \in SUBSET Nat
    BY DEF Reading
  <2> QED BY <1>a, <1>0, <1>1, <2>1 DEF SqlRec
<1>3. Answer(n) \in Seq(Packets) /\ Len(Answer(n)) > 0 /\ Len(Answer(n)) \in Nat
      /\ (\A j \in DOMAIN Answer(n) : Answer(n)[j].of = n) /\ DOMAIN Answer(n) = 1..Len(Answer(n))
  BY <1>0, AnswerType, LenProperties
<1>4. /\ wire' \in Seq(Packets) /\ ran' \in [DOMAIN Statements -> 0..2]
      /\ ran'[n] <= (IF sql.again THEN 1 ELSE 0) + 1 /\ (wire' # <<>> /\ ~stale => ran'[n] > 0)
      /\ \A i \in DOMAIN Statements : ran'[i] >= ran[i] /\ (i # n => ran'[i] = ran[i])
      /\ \A j \in DOMAIN wire' : wire'[j].is = "count" => wire'[j].of \in DOMAIN Statements
      /\ (~stale => RestOf(wire', Answer(n), 0))
  <2>1. CASE socket = "up"
    <3> DEFINE a == Answer(n)
               u == wire \o a
    <3>1. wire' = u /\ ran' = [ran EXCEPT ![n] = ran[n] + 1]
      BY <1>a, <2>1 DEF SendQuery
    <3>2. /\ ran' \in [DOMAIN Statements -> 0..2] /\ ran'[n] = ran[n] + 1
          /\ \A i \in DOMAIN Statements : ran'[i] >= ran[i] /\ (i # n => ran'[i] = ran[i])
      <4>1. ran[n] \in 0..1
        BY <1>0
      <4> QED BY <1>0, <3>1, <4>1
    <3> HIDE DEF a
    <3>3. /\ u \in Seq(Packets) /\ Len(u) = Len(wire) + Len(a)
          /\ \A j \in 1..Len(wire) : u[j] = wire[j]
          /\ \A j \in Len(wire) + 1..Len(wire) + Len(a) : u[j] = a[j - Len(wire)]
      <4>1. wire \in Seq(Packets) /\ a \in Seq(Packets)
        BY <1>0, <1>3 DEF a
      <4> QED BY ONLY <4>1, ConcatIs
    <3>4. ~stale => u = a
      <4>1. a \in Seq(Packets)
        BY <1>3 DEF a
      <4> QED BY <1>0, <4>1, ConcatEmptySeq
    <3> HIDE DEF u
    <3>5. DOMAIN u = 1..Len(u) /\ Len(wire) \in Nat /\ Len(a) \in Nat /\ DOMAIN wire = 1..Len(wire)
      BY <1>0, <1>3, <3>3 DEF a
    <3>6. \A j \in DOMAIN u : u[j].is = "count" => u[j].of \in DOMAIN Statements
      <4> SUFFICES ASSUME NEW j \in 1..Len(wire) + Len(a), u[j].is = "count" PROVE u[j].of \in DOMAIN Statements
        BY <3>3, <3>5
      <4>1. CASE j \in 1..Len(wire)
        BY <1>0, <3>3, <3>5, <4>1
      <4>2. CASE j \in Len(wire) + 1..Len(wire) + Len(a)
        <5>1. j - Len(wire) \in 1..Len(a) /\ u[j] = a[j - Len(wire)]
          BY <3>3, <3>5, <4>2
        <5>2. a[j - Len(wire)].of = n
          BY <1>3, <5>1 DEF a
        <5> QED BY <5>1, <5>2
      <4> QED BY <3>5, <4>1, <4>2
    <3>7. RestOf(a, a, 0)
      <4>1. \A j \in 1..Len(a) : 0 + j = j
        BY <3>5
      <4> QED BY <3>5, <4>1 DEF RestOf
    <3>8. ran'[n] > 0
      BY <1>0, <3>2
    <3> QED BY <1>0, <3>1, <3>2, <3>3, <3>4, <3>6, <3>7, <3>8 DEF a
  <2>2. CASE socket # "up"
    <3>1. wire' = wire /\ ran' = ran
      BY <2>2 DEF SendQuery
    <3>2. Len(<<>>) = 0
      OBVIOUS
    <3>3. RestOf(<<>>, Answer(n), 0)
      BY <1>3, <3>2 DEF RestOf
    <3>4. ran[n] \in 0..2
      BY <1>0
    <3> QED BY <1>0, <3>1, <3>3, <3>4
  <2> QED BY <2>1, <2>2
<1>5. SqlTypes'
  BY <1>a, <1>2, <1>4 DEF SqlInv, SqlTypes, SendQuery
<1>6. SqlWhere'
  <2>1. \A i \in DOMAIN Statements : i > n => ran'[i] = 0
    <3> SUFFICES ASSUME NEW i \in DOMAIN Statements, i > n PROVE ran'[i] = 0
      OBVIOUS
    <3>1. i # n /\ ran[i] = 0
      BY <1>a, StatementType DEF SqlInv, SqlWhere
    <3> QED BY <1>4, <3>1
  <2> QED BY <1>a, <1>0, <1>2, <1>4, <2>1 DEF SqlInv, SqlWhere, Reading, Starting, SendQuery
<1>7. SqlReading'
  <2>1. CASE p = "failed" \/ stale
    BY <1>2, <2>1 DEF SqlReading, Reading, SendQuery
  <2>2. CASE p = "read" /\ ~stale
    <3>1. Taken' = 0 /\ sql'.pc = "read"
      BY <1>2, <2>2 DEF Taken
    <3> QED BY <1>2, <1>4, <2>2, <3>1, ReadingNext DEF SendQuery
  <2> QED BY <2>1, <2>2
<1>8. SqlClean'
  BY <1>2 DEF SqlClean, SendQuery
<1>9. SqlResults'
  BY <1>4, ResultsKept DEF SendQuery
<1> QED BY <1>5, <1>6, <1>7, <1>8, <1>9 DEF SqlInv

LEMMA CutKeeps == SqlInv /\ Cut => SqlInv'
<1> SUFFICES ASSUME SqlInv, Cut PROVE SqlInv'
  OBVIOUS
<1>0. /\ sql \in SqlRec /\ wire \in Seq(Packets) /\ stale \in BOOLEAN /\ socket = "up" /\ socket' = "cut"
      /\ cuts' \in 0..MaxCuts /\ Len(wire) \in Nat /\ DOMAIN wire = 1..Len(wire) /\ eofMode \in BOOLEAN
      /\ \A j \in DOMAIN wire : wire[j].is = "count" => wire[j].of \in DOMAIN Statements
  <2>1. cuts \in 0..MaxCuts /\ MaxCuts \in Nat
    BY SqlAssumption DEF SqlInv, SqlTypes
  <2>2. cuts' \in 0..MaxCuts
    BY <2>1 DEF Cut
  <2> QED BY <2>2 DEF SqlInv, SqlTypes, Cut
<1>1. PICK n \in 0..Len(wire) : wire' = SubSeq(wire, 1, n)
  BY DEF Cut
<1>2. wire' \in Seq(Packets) /\ Len(wire') = n /\ \A j \in 1..n : wire'[j] = wire[j]
  <2> DEFINE t == SubSeq(wire, 1, n)
  <2>1. t \in Seq(Packets) /\ Len(t) = n /\ \A j \in 1..n : t[j] = wire[j]
    BY <1>0, CutRest
  <2> QED BY <1>1, <2>1
<1>3. (wire = <<>> => wire' = <<>>) /\ (Len(wire) <= 1 => Len(wire') <= 1)
      /\ \A j \in DOMAIN wire' : wire'[j].is = "count" => wire'[j].of \in DOMAIN Statements
  <2>1. DOMAIN wire' = 1..n /\ 1..n \subseteq 1..Len(wire)
    BY <1>0, <1>2
  <2>2. wire = <<>> => wire' = <<>>
    BY <1>0, <1>2, EmptySeq
  <2> QED BY <1>0, <1>2, <2>1, <2>2
<1>4. SqlTypes'
  BY <1>0, <1>2, <1>3 DEF SqlInv, SqlTypes, Cut
<1>5. SqlWhere'
  BY <1>0 DEF SqlInv, SqlWhere, Cut
<1>6. SqlReading'
  <2>1. CASE sql.pc \notin Reading \/ stale
    BY <2>1 DEF SqlReading, Cut
  <2>2. CASE sql.pc \in Reading /\ ~stale
    <3>1. PICK i \in DOMAIN Statements : i = sql.at
      BY <2>2 DEF SqlInv, SqlWhere, Reading
    <3>2. PICK k : k = Taken
      OBVIOUS
    <3>3. k \in Nat
      <4>1. sql.cols \in Nat /\ sql.rows \in Nat
        BY <1>0 DEF SqlRec
      <4> QED BY <3>2, <4>1 DEF Taken
    <3>4. RestOf(wire, Answer(i), k) /\ (wire # <<>> => ran[i] > 0)
      BY <2>2, <3>1, <3>2 DEF SqlInv, SqlReading
    <3>5. RestOf(wire', Answer(i), k)
      <4>1. Answer(i) \in Seq(Packets)
        BY <1>0, AnswerType
      <4> QED BY <1>0, <1>1, <3>3, <3>4, <4>1, CutRest
    <3>6. Taken' = k
      BY <3>2 DEF Taken, Cut
    <3>7. wire' # <<>> => ran'[i] > 0
      BY <1>3, <3>4 DEF Cut
    <3>8. /\ sql.pc # "read" => Statements[i].kind = "select" /\ ran[i] > 0
          /\ sql.pc = "columns" => sql.left > 0 /\ sql.left + sql.cols = Statements[i].cols /\ sql.rows = 0
          /\ sql.pc = "eof" => eofMode /\ sql.cols = Statements[i].cols /\ sql.rows = 0
          /\ sql.pc = "rows" => sql.cols = Statements[i].cols /\ sql.rows <= Statements[i].rows
      BY <2>2, <3>1 DEF SqlInv, SqlReading
    <3> QED BY <3>1, <3>5, <3>6, <3>7, <3>8, ReadingNext DEF Cut
  <2> QED BY <2>1, <2>2
<1>7. SqlClean'
  BY <1>3 DEF SqlInv, SqlClean, Cut
<1>8. SqlResults'
  BY ResultsStay DEF Cut
<1> QED BY <1>4, <1>5, <1>6, <1>7, <1>8 DEF SqlInv

\* On a clean connection the next packet is the one that is expected, and the last of
\* an answer is the last there is.
LEMMA NextPacket ==
    ASSUME SqlInv, sql.pc \in Reading, wire # <<>>, ~stale, NEW n \in DOMAIN Statements, n = sql.at
    PROVE  /\ Head(wire).of = n /\ ran[n] > 0 /\ Taken \in Nat
           /\ RestOf(Tail(wire), Answer(n), Taken + 1)
           /\ Head(wire).is = "error" => Tail(wire) = <<>>
           /\ sql.pc = "read" =>
                 /\ Head(wire).is = "count" => Statements[n].kind = "select"
                 /\ Head(wire).is \notin {"count", "error"} => Statements[n].kind # "select" /\ Tail(wire) = <<>>
           /\ sql.pc = "rows" =>
                 /\ Head(wire).is = "end" => sql.rows = Statements[n].rows /\ Tail(wire) = <<>>
                 /\ Head(wire).is # "end" => sql.rows < Statements[n].rows
<1> DEFINE a == Answer(n)
           s == Statements[n]
<1>0. /\ sql \in SqlRec /\ wire \in Seq(Packets) /\ eofMode \in BOOLEAN
      /\ s.kind \in {"write", "wrong", "select"} /\ s.cols \in Nat /\ s.rows \in Nat /\ n \in Nat
      /\ sql.cols \in Nat /\ sql.rows \in Nat
  BY StatementType DEF SqlInv, SqlTypes, SqlRec
<1>1. PICK k \in Nat : k = Taken
  BY <1>0 DEF Taken
<1>2. RestOf(wire, a, k) /\ ran[n] > 0 /\ (sql.pc # "read" => s.kind = "select")
      /\ (sql.pc = "rows" => sql.cols = s.cols /\ sql.rows <= s.rows)
      /\ (sql.pc = "columns" => sql.cols < s.cols) /\ (sql.pc = "eof" => eofMode /\ sql.cols = s.cols)
  <2>1. sql.pc = "columns" => sql.left > 0 /\ sql.left + sql.cols = s.cols /\ sql.left \in Int
    BY <1>0 DEF SqlInv, SqlReading, SqlRec
  <2>2. sql.pc = "columns" => sql.cols < s.cols
    BY <1>0, <2>1
  <2> QED BY <1>1, <2>2 DEF SqlInv, SqlReading
<1>3. a \in Seq(Packets) /\ Len(a) \in Nat /\ \A j \in 1..Len(a) : a[j].of = n
  BY <1>0, AnswerType, LenProperties
<1>4. /\ RestOf(Tail(wire), a, k + 1) /\ Head(wire) = a[k + 1] /\ k + 1 <= Len(a)
      /\ k + 1 = Len(a) => Tail(wire) = <<>>
  BY <1>0, <1>2, <1>3, TailRest
<1>5. Head(wire).of = n
  BY <1>3, <1>4
<1>6. CASE s.kind # "select"
  <2>1. a = <<Packet(IF s.kind = "write" THEN "ok" ELSE "error", n)>>
    BY <1>6, ShortAnswer
  <2>2. Len(a) = 1 /\ a[1].is = (IF s.kind = "write" THEN "ok" ELSE "error")
    BY <2>1 DEF Packet
  <2> HIDE DEF a, s
  <2>3. k = 0 /\ Tail(wire) = <<>> /\ Head(wire).is \in {"ok", "error"} /\ sql.pc = "read"
    BY <1>0, <1>1, <1>2, <1>4, <1>6, <2>2
  <2> QED BY <1>0, <1>1, <1>2, <1>4, <1>5, <1>6, <2>3 DEF a, s
<1>7. CASE s.kind = "select"
  <2>1. /\ Len(a) = 2 + s.cols + E + s.rows
        /\ a[1] = Packet("count", n)
        /\ \A j \in 2..1 + s.cols : a[j] = Packet("column", n)
        /\ eofMode => a[2 + s.cols] = Packet("end", n)
        /\ \A j \in 2 + s.cols + E .. 1 + s.cols + E + s.rows : a[j] = Packet("row", n)
        /\ a[2 + s.cols + E + s.rows] = Packet("end", n)
    BY <1>0, <1>7, SelectAnswer
  <2>2. E \in {0, 1} /\ (eofMode <=> E = 1)
    BY <1>0 DEF E
  <2> HIDE DEF a, s
  <2>3. CASE sql.pc = "read"
    <3>1. k = 0 /\ Head(wire).is = "count"
      BY <1>1, <1>4, <2>1, <2>3 DEF Taken, Packet
    <3> QED BY <1>1, <1>2, <1>4, <1>5, <1>7, <2>3, <3>1 DEF a, s
  <2>4. CASE sql.pc = "columns"
    <3>1. k = 1 + sql.cols
      BY <1>1, <2>4 DEF Taken
    <3>2. k + 1 \in 2..1 + s.cols
      BY <1>0, <1>2, <2>4, <3>1
    <3>3. Head(wire).is = "column"
      BY <1>4, <2>1, <3>2 DEF Packet
    <3> QED BY <1>1, <1>2, <1>4, <1>5, <2>4, <3>3 DEF a, s
  <2>5. CASE sql.pc = "eof"
    <3>1. k = 1 + sql.cols
      BY <1>1, <2>5 DEF Taken
    <3>2. k + 1 = 2 + s.cols /\ eofMode
      BY <1>0, <1>2, <2>5, <3>1
    <3>3. Head(wire).is = "end"
      BY <1>4, <2>1, <3>2 DEF Packet
    <3> QED BY <1>1, <1>2, <1>4, <1>5, <2>5, <3>3 DEF a, s
  <2>6. CASE sql.pc = "rows"
    <3>1. k = 1 + s.cols + E + sql.rows
      BY <1>1, <1>2, <2>6 DEF Taken, E
    <3>2. CASE sql.rows < s.rows
      <4>1. k + 1 \in 2 + s.cols + E .. 1 + s.cols + E + s.rows
        <5>1. sql.rows \in Nat /\ s.rows \in Nat /\ s.cols \in Nat /\ E \in Nat
          BY <1>0, <2>2
        <5>2. \A c \in Nat, e \in Nat, r \in Nat, t \in Nat :
                 r < t => (1 + c + e + r) + 1 \in 2 + c + e .. 1 + c + e + t
          OBVIOUS
        <5>3. (1 + s.cols + E + sql.rows) + 1 \in 2 + s.cols + E .. 1 + s.cols + E + s.rows
          BY ONLY <3>2, <5>1, <5>2
        <5> QED BY ONLY <3>1, <5>3
      <4>2. Head(wire).is = "row"
        BY <1>4, <2>1, <4>1 DEF Packet
      <4> QED BY <1>1, <1>2, <1>4, <1>5, <2>6, <3>2, <4>2 DEF a, s
    <3>3. CASE sql.rows = s.rows
      <4>1. k + 1 = 2 + s.cols + E + s.rows
        <5>1. s.rows \in Nat /\ s.cols \in Nat /\ E \in Nat
          BY <1>0, <2>2
        <5>2. \A c \in Nat, e \in Nat, r \in Nat : (1 + c + e + r) + 1 = 2 + c + e + r
          OBVIOUS
        <5>3. k + 1 = (1 + s.cols + E + s.rows) + 1
          BY ONLY <3>1, <3>3
        <5>4. (1 + s.cols + E + s.rows) + 1 = 2 + s.cols + E + s.rows
          BY ONLY <5>1, <5>2
        <5> QED BY ONLY <5>3, <5>4
      <4>2. Head(wire).is = "end" /\ Tail(wire) = <<>>
        BY <1>4, <2>1, <4>1 DEF Packet
      <4> QED BY <1>1, <1>2, <1>4, <1>5, <2>6, <3>3, <4>2 DEF a, s
    <3> QED BY <1>0, <1>2, <2>6, <3>2, <3>3
  <2> QED BY <2>3, <2>4, <2>5, <2>6 DEF Reading
<1> QED BY <1>6, <1>7

LEMMA ReadPacketKeeps == SqlInv /\ ReadPacket => SqlInv'
<1> SUFFICES ASSUME SqlInv, ReadPacket PROVE SqlInv'
  OBVIOUS
<1> DEFINE h == Head(wire)
           of == sql.of \cup {h.of}
           done == [ok |-> TRUE, cols |-> sql.cols, rows |-> sql.rows, of |-> of, clean |-> ~stale]
           s == Statements[sql.at]
<1>0. /\ sql \in SqlRec /\ sql.pc \in Reading /\ wire # <<>> /\ wire' = Tail(wire) /\ stale \in BOOLEAN
      /\ UNCHANGED <<socket, eofMode, ran, stale, cuts, slow>> /\ socket \in {"up", "cut"}
      /\ sql.at \in DOMAIN Statements /\ sql.cols \in Nat /\ sql.rows \in Nat /\ sql.left \in Int /\ sql.of \in SUBSET Nat
      /\ eofMode \in BOOLEAN /\ cuts \in 0..MaxCuts /\ slow \in 0..MaxSlow
  BY DEF SqlInv, SqlTypes, SqlWhere, Reading, ReadPacket, SqlRec
<1>1. /\ wire' \in Seq(Packets) /\ h \in Packets
      /\ \A j \in DOMAIN wire' : wire'[j].is = "count" => wire'[j].of \in DOMAIN Statements
      /\ h.is = "count" => h.of \in DOMAIN Statements
  BY <1>0, TailTyped
<1>2. of \in SUBSET Nat /\ done \in Result /\ [done EXCEPT !.ok = FALSE] \in Result
      /\ (~stale => of \subseteq {sql.at})
  <2>1. h.of \in Nat
    BY <1>1 DEF Packets
  <2>2. ~stale => sql.of \subseteq {sql.at} /\ h.of = sql.at
    BY <1>0, NextPacket DEF SqlInv, SqlClean
  <2> QED BY <1>0, <2>1, <2>2 DEF Result
<1>3. \/ h.is = "error" /\ Return([done EXCEPT !.ok = FALSE])
      \/ /\ sql.pc = "read" /\ h.is = "count"
         /\ sql' = [sql EXCEPT !.pc = "columns", !.left = Statements[h.of].cols, !.of = of] /\ UNCHANGED results
      \/ sql.pc = "read" /\ h.is \notin {"error", "count"} /\ Return(done)
      \/ /\ sql.pc = "columns" /\ h.is # "error"
         /\ sql' = [sql EXCEPT !.left = @ - 1, !.cols = @ + 1, !.of = of,
                       !.pc = IF sql.left > 1 THEN "columns" ELSE IF eofMode THEN "eof" ELSE "rows"]
         /\ UNCHANGED results
      \/ sql.pc = "eof" /\ h.is # "error" /\ sql' = [sql EXCEPT !.pc = "rows", !.of = of] /\ UNCHANGED results
      \/ sql.pc = "rows" /\ h.is = "end" /\ Return(done)
      \/ /\ sql.pc = "rows" /\ h.is \notin {"error", "end"}
         /\ sql' = [sql EXCEPT !.rows = @ + 1, !.of = of] /\ UNCHANGED results
  BY DEF ReadPacket, Next1
<1>4. sql.pc # "rest"
  BY <1>0 DEF Reading
<1>5. sql.pc = "read" => sql.cols = 0 /\ sql.rows = 0
  BY DEF SqlInv, SqlWhere
<1>6. sql.pc # "read" /\ ~stale => s.kind = "select" /\ (sql.pc = "rows" => sql.cols = s.cols /\ sql.rows <= s.rows)
                                   /\ (sql.pc = "eof" => sql.cols = s.cols /\ sql.rows = 0 /\ eofMode)
                                   /\ (sql.pc = "columns" => sql.left > 0 /\ sql.left + sql.cols = s.cols /\ sql.rows = 0)
  BY <1>0 DEF SqlInv, SqlReading
\* A result.
<1>7. ASSUME NEW r \in Result, Return(r), r.of = of, r.clean = ~stale,
             ~stale => wire' = <<>>,
             ~stale /\ r.ok /\ s.kind = "select" => r.cols = s.cols /\ r.rows = s.rows
      PROVE  SqlInv'
  <2>1. ~stale => ran[sql.at] > 0
    BY <1>0, NextPacket
  <2>2. /\ r.clean => /\ r.of \subseteq {sql.at}
                      /\ r.ok => ran[sql.at] > 0
                      /\ r.ok /\ s.kind = "select" => r.cols = s.cols /\ r.rows = s.rows
        /\ ~stale' => wire' = <<>>
        /\ eofMode' = eofMode /\ ran' = ran /\ stale' \in BOOLEAN /\ cuts' \in 0..MaxCuts /\ slow' \in 0..MaxSlow
        /\ socket' \in {"none", "up", "cut"}
    BY <1>0, <1>2, <1>7, <2>1
  <2> QED BY <1>1, <1>4, <1>7, <2>2, Returned
\* A packet more.
<1>8. ASSUME UNCHANGED results, sql' \in SqlRec, sql'.pc \in Reading \ {"read"}, sql'.at = sql.at, sql'.of = of,
             sql'.again = sql.again,
             ~stale => /\ Taken' = Taken + 1 /\ s.kind = "select"
                       /\ sql'.pc = "columns" => sql'.left > 0 /\ sql'.left + sql'.cols = s.cols /\ sql'.rows = 0
                       /\ sql'.pc = "eof" => eofMode /\ sql'.cols = s.cols /\ sql'.rows = 0
                       /\ sql'.pc = "rows" => sql'.cols = s.cols /\ sql'.rows <= s.rows
      PROVE  SqlInv'
  <2>1. SqlTypes'
    BY <1>0, <1>1, <1>8 DEF SqlInv, SqlTypes
  <2>2. SqlWhere'
    BY <1>0, <1>8 DEF SqlInv, SqlWhere, Reading, Starting
  <2>3. SqlReading'
    <3>1. CASE stale
      BY <1>0, <3>1 DEF SqlReading
    <3>2. CASE ~stale
      <4>1. PICK n \in DOMAIN Statements : n = sql.at
        BY <1>0
      <4>2. RestOf(wire', Answer(n), Taken + 1) /\ ran[n] > 0
        BY <1>0, <3>2, <4>1, NextPacket
      <4>3. PICK k : k = Taken + 1
        OBVIOUS
      <4>4. /\ RestOf(wire', Answer(n), k) /\ Taken' = k /\ ran'[n] > 0 /\ sql'.at = n /\ eofMode' = eofMode
            /\ sql'.pc # "read"
            /\ Statements[n].kind = "select"
            /\ sql'.pc = "columns" => sql'.left > 0 /\ sql'.left + sql'.cols = Statements[n].cols /\ sql'.rows = 0
            /\ sql'.pc = "eof" => eofMode /\ sql'.cols = Statements[n].cols /\ sql'.rows = 0
            /\ sql'.pc = "rows" => sql'.cols = Statements[n].cols /\ sql'.rows <= Statements[n].rows
        BY <1>0, <1>8, <3>2, <4>1, <4>2, <4>3
      <4> QED BY <4>4, ReadingNext
    <3> QED BY <3>1, <3>2
  <2>4. SqlClean'
    BY <1>0, <1>2, <1>8 DEF SqlClean, Reading
  <2>5. SqlResults'
    BY <1>0, <1>8, ResultsStay
  <2> QED BY <2>1, <2>2, <2>3, <2>4, <2>5 DEF SqlInv
<1>9. CASE h.is = "error" /\ Return([done EXCEPT !.ok = FALSE])
  <2> DEFINE r == [done EXCEPT !.ok = FALSE]
  <2>1. r.of = of /\ r.clean = ~stale /\ ~r.ok
    OBVIOUS
  <2>2. ~stale => wire' = <<>>
    BY <1>0, <1>9, NextPacket
  <2> QED BY <1>2, <1>7, <1>9, <2>1, <2>2
<1>10. CASE /\ sql.pc = "read" /\ h.is = "count"
            /\ sql' = [sql EXCEPT !.pc = "columns", !.left = Statements[h.of].cols, !.of = of] /\ UNCHANGED results
  <2>1. Statements[h.of].cols \in Nat
    BY <1>1, <1>10, StatementType
  <2> HIDE DEF of
  <2>2. /\ sql' \in SqlRec /\ sql'.pc = "columns" /\ sql'.at = sql.at /\ sql'.of = of /\ sql'.again = sql.again
        /\ sql'.left = Statements[h.of].cols /\ sql'.cols = 0 /\ sql'.rows = 0
    <3>1. "columns" \in {"rest", "failed"} \cup Starting \cup Reading
      BY DEF Reading
    <3>2. PICK l \in Nat : l = Statements[h.of].cols
      BY <2>1
    <3>3. sql' = [sql EXCEPT !.pc = "columns", !.left = l, !.of = of] /\ l \in Int
      BY <1>10, <3>2
    <3>4. sql' \in SqlRec /\ sql'.pc = "columns" /\ sql'.at = sql.at /\ sql'.of = of /\ sql'.again = sql.again
          /\ sql'.left = l /\ sql'.cols = sql.cols /\ sql'.rows = sql.rows
      BY <1>0, <1>2, <3>1, <3>3 DEF SqlRec
    <3> QED BY <1>5, <1>10, <3>2, <3>4
  <2>3. Taken' = 1 /\ Taken = 0
    BY <1>10, <2>2 DEF Taken
  <2>4. ~stale => s.kind = "select" /\ h.of = sql.at
    BY <1>0, <1>10, NextPacket
  <2>5. ~stale => s.cols > 0 /\ s.cols \in Nat
    BY <1>0, <2>4, StatementType
  <2> QED BY <1>8, <1>10, <2>2, <2>3, <2>4, <2>5 DEF Reading
<1>11. CASE sql.pc = "read" /\ h.is \notin {"error", "count"} /\ Return(done)
  <2>1. done.of = of /\ done.clean = ~stale
    OBVIOUS
  <2>2. ~stale => wire' = <<>> /\ s.kind # "select"
    BY <1>0, <1>11, NextPacket
  <2> QED BY <1>2, <1>7, <1>11, <2>1, <2>2
<1>12. CASE /\ sql.pc = "columns" /\ h.is # "error"
            /\ sql' = [sql EXCEPT !.left = @ - 1, !.cols = @ + 1, !.of = of,
                          !.pc = IF sql.left > 1 THEN "columns" ELSE IF eofMode THEN "eof" ELSE "rows"]
            /\ UNCHANGED results
  <2>1. PICK p \in {"columns", "eof", "rows"} :
           p = (IF sql.left > 1 THEN "columns" ELSE IF eofMode THEN "eof" ELSE "rows")
    OBVIOUS
  <2> HIDE DEF of
  <2>a. PICK l \in Int : l = sql.left - 1
    BY <1>0
  <2>b. PICK c \in Nat : c = sql.cols + 1
    BY <1>0
  <2>2. sql' = [sql EXCEPT !.left = l, !.cols = c, !.of = of, !.pc = p]
    BY <1>12, <2>1, <2>a, <2>b
  <2>3. /\ sql' \in SqlRec /\ sql'.pc = p /\ sql'.at = sql.at /\ sql'.of = of /\ sql'.again = sql.again
        /\ sql'.left = sql.left - 1 /\ sql'.cols = sql.cols + 1 /\ sql'.rows = sql.rows
    <3>1. p \in {"rest", "failed"} \cup Starting \cup Reading
      BY DEF Reading
    <3>2. sql' \in SqlRec /\ sql'.pc = p /\ sql'.at = sql.at /\ sql'.of = of /\ sql'.again = sql.again
          /\ sql'.left = l /\ sql'.cols = c /\ sql'.rows = sql.rows
      BY <1>0, <1>2, <2>2, <3>1 DEF SqlRec
    <3> QED BY <2>a, <2>b, <3>2
  <2> HIDE DEF s
  <2>4. ~stale => sql.left > 0 /\ sql.left + sql.cols = s.cols /\ sql.rows = 0 /\ s.kind = "select" /\ s.rows \in Nat
    BY <1>0, <1>6, <1>12, StatementType DEF s
  <2>5. ~stale => Taken' = Taken + 1
    <3>1. Taken = 1 + sql.cols
      BY <1>12 DEF Taken
    <3>2. Taken' = (IF p = "rows" THEN 1 + sql'.cols + (IF eofMode THEN 1 ELSE 0) + sql'.rows ELSE 1 + sql'.cols)
      BY <1>0, <2>1, <2>3 DEF Taken
    <3>3. p = "rows" => ~eofMode
      BY <2>1
    <3> QED BY <1>0, <2>3, <2>4, <3>1, <3>2, <3>3
  <2>6. ~stale => /\ p = "columns" => sql'.left > 0 /\ sql'.left + sql'.cols = s.cols /\ sql'.rows = 0
                  /\ p = "eof" => eofMode /\ sql'.cols = s.cols /\ sql'.rows = 0
                  /\ p = "rows" => sql'.cols = s.cols /\ sql'.rows <= s.rows
    <3>1. /\ p = "columns" => sql.left > 1
          /\ p = "eof" => ~(sql.left > 1) /\ eofMode
          /\ p = "rows" => ~(sql.left > 1)
      BY <2>1
    <3>2. sql.left \in Int /\ sql.cols \in Nat
      BY <1>0
    <3>3. CASE p = "columns"
      BY <2>3, <2>4, <3>1, <3>2, <3>3
    <3>4. CASE p = "eof"
      BY <2>3, <2>4, <3>1, <3>2, <3>4
    <3>5. CASE p = "rows"
      BY <2>3, <2>4, <3>1, <3>2, <3>5
    <3> QED BY <3>3, <3>4, <3>5
  <2>7. p \in Reading \ {"read"}
    BY DEF Reading
  <2> QED BY <1>8, <1>12, <2>3, <2>4, <2>5, <2>6, <2>7 DEF s
<1>13. CASE sql.pc = "eof" /\ h.is # "error" /\ sql' = [sql EXCEPT !.pc = "rows", !.of = of] /\ UNCHANGED results
  <2> HIDE DEF of
  <2>3. /\ sql' \in SqlRec /\ sql'.pc = "rows" /\ sql'.at = sql.at /\ sql'.of = of /\ sql'.again = sql.again
        /\ sql'.left = sql.left /\ sql'.cols = sql.cols /\ sql'.rows = sql.rows
    BY <1>0, <1>2, <1>13 DEF SqlRec, Reading
  <2>4. ~stale => sql.cols = s.cols /\ sql.rows = 0 /\ s.kind = "select" /\ s.rows \in Nat /\ eofMode
    BY <1>0, <1>6, <1>13, StatementType
  <2>5. ~stale => Taken' = Taken + 1
    BY <1>0, <1>13, <2>3, <2>4 DEF Taken
  <2>6. ~stale => sql'.cols = s.cols /\ sql'.rows <= s.rows
    BY <2>3, <2>4
  <2> QED BY <1>8, <1>13, <2>3, <2>4, <2>5, <2>6 DEF Reading
<1>14. CASE sql.pc = "rows" /\ h.is = "end" /\ Return(done)
  <2>1. done.of = of /\ done.clean = ~stale /\ done.cols = sql.cols /\ done.rows = sql.rows
    OBVIOUS
  <2>2. ~stale => wire' = <<>> /\ sql.cols = s.cols /\ sql.rows = s.rows
    BY <1>0, <1>6, <1>14, NextPacket
  <2> QED BY <1>2, <1>7, <1>14, <2>1, <2>2
<1>15. CASE /\ sql.pc = "rows" /\ h.is \notin {"error", "end"}
            /\ sql' = [sql EXCEPT !.rows = @ + 1, !.of = of] /\ UNCHANGED results
  <2> HIDE DEF of
  <2>1. PICK r \in Nat : r = sql.rows + 1
    BY <1>0
  <2>2. sql' = [sql EXCEPT !.rows = r, !.of = of]
    BY <1>15, <2>1
  <2>3. /\ sql' \in SqlRec /\ sql'.pc = "rows" /\ sql'.at = sql.at /\ sql'.of = of /\ sql'.again = sql.again
        /\ sql'.left = sql.left /\ sql'.cols = sql.cols /\ sql'.rows = sql.rows + 1
    <3>1. sql'.rows = r /\ sql' \in SqlRec /\ sql'.pc = "rows" /\ sql'.at = sql.at /\ sql'.of = of
          /\ sql'.again = sql.again /\ sql'.left = sql.left /\ sql'.cols = sql.cols
      BY <1>0, <1>2, <1>15, <2>2 DEF SqlRec
    <3> QED BY <2>1, <3>1
  <2>4. ~stale => sql.cols = s.cols /\ sql.rows < s.rows /\ s.kind = "select" /\ s.rows \in Nat
    BY <1>0, <1>6, <1>15, StatementType, NextPacket
  <2>5. ~stale => Taken' = Taken + 1
    <3>1. Taken = 1 + sql.cols + (IF eofMode THEN 1 ELSE 0) + sql.rows
      BY <1>15 DEF Taken
    <3>2. Taken' = 1 + sql.cols + (IF eofMode THEN 1 ELSE 0) + (sql.rows + 1)
      BY <1>0, <2>3 DEF Taken
    <3>3. PICK e \in {0, 1} : e = (IF eofMode THEN 1 ELSE 0)
      OBVIOUS
    <3>4. Taken = 1 + sql.cols + e + sql.rows /\ Taken' = 1 + sql.cols + e + (sql.rows + 1)
      BY <3>1, <3>2, <3>3
    <3>5. sql.cols \in Nat /\ sql.rows \in Nat
      BY <1>0 DEF SqlRec
    <3> HIDE DEF h, of, s
    <3> QED BY ONLY <3>3, <3>4, <3>5
  <2>6. ~stale => sql'.cols = s.cols /\ sql'.rows <= s.rows
    BY <1>0, <2>3, <2>4
  <2> QED BY <1>8, <1>15, <2>3, <2>4, <2>5, <2>6 DEF Reading
<1> QED BY <1>3, <1>9, <1>10, <1>11, <1>12, <1>13, <1>14, <1>15

-----------------------------------------------------------------------------
(* The link to MySQL: the theorems *)

LEMMA SqlStarts == SqlInit => SqlInv
<1> SUFFICES ASSUME SqlInit PROVE SqlInv
  OBVIOUS
<1>1. /\ sql = [pc |-> "rest", at |-> 1, set |-> 0, round |-> 0, again |-> FALSE, left |-> 0, rows |-> 0,
                cols |-> 0, of |-> {}]
      /\ Len(Statements) \in Nat /\ {SetUp, Rounds6, MaxCuts, MaxSlow} \subseteq Nat
      /\ wire = <<>> /\ results = <<>> /\ ran = [i \in DOMAIN Statements |-> 0]
      /\ <<>> \in Seq(Packets) /\ <<>> \in Seq(Result) /\ DOMAIN <<>> = {} /\ Len(<<>>) = 0
  BY SqlAssumption DEF SqlInit, Resting
<1>2. sql \in SqlRec
  BY <1>1 DEF SqlRec
<1>3. SqlTypes
  <2>1. ran \in [DOMAIN Statements -> 0..2] /\ cuts \in 0..MaxCuts /\ slow \in 0..MaxSlow /\ Len(results) = sql.at - 1
    BY <1>1 DEF SqlInit
  <2> QED BY <1>1, <1>2, <2>1 DEF SqlTypes, SqlInit
<1>4. SqlWhere /\ SqlReading /\ SqlClean /\ SqlResults
  BY <1>1 DEF SqlWhere, SqlReading, SqlClean, SqlResults, Starting, Reading
<1> QED BY <1>3, <1>4 DEF SqlInv

LEMMA SqlStep == SqlInv /\ [SqlNext]_sqlVars => SqlInv'
<1> SUFFICES ASSUME SqlInv, [SqlNext]_sqlVars PROVE SqlInv'
  OBVIOUS
<1>1. CASE UNCHANGED sqlVars
  <2>1. Answer(sql.at)' = Answer(sql.at)
    BY <1>1 DEF sqlVars, Answer
  <2>2. SqlTypes' /\ SqlWhere'
    BY <1>1 DEF sqlVars, SqlInv, SqlTypes, SqlWhere
  <2>3. SqlReading'
    BY <1>1, <2>1 DEF sqlVars, SqlInv, SqlReading, Taken
  <2>4. SqlClean' /\ SqlResults'
    BY <1>1 DEF sqlVars, SqlInv, SqlClean, SqlResults
  <2> QED BY <2>2, <2>3, <2>4 DEF SqlInv
<1> QED BY <1>1, RunStatementKeeps, Connect1Keeps, AuthenticateKeeps, SetOneKeeps, SetAnsweredKeeps, SendQueryKeeps,
           ReadPacketKeeps, ReadFailsKeeps, AgainKeeps, GiveUpKeeps, CutKeeps DEF SqlNext

\* The invariant of a connection to MySQL that is used for one statement after another.
THEOREM SqlAlways == SqlSpec => []SqlInv
BY SqlStarts, SqlStep, PTL DEF SqlSpec

\* The connection, and what it hands to its callers, keep their types for any statements
\* and any number of cuts.
THEOREM SqlTyped == SqlSpec => []SqlTypeOK
<1>1. SqlInv => SqlTypeOK
  BY SqlAssumption DEF SqlInv, SqlTypes, SqlTypeOK, SqlRec, Reading, Starting
<1> QED BY <1>1, SqlAlways, PTL

\* What run() returns is the whole answer to its own statement, and nothing is left over
\* for the next one, unless a statement was given up on a connection that was kept; what it
\* reports as done was run once or twice.  For any statements, cuts and late answers.
THEOREM SqlAnswers == SqlSpec => []SqlInStep
<1>1. ASSUME SqlInv PROVE SqlInStep
  <2>1. ASSUME NEW k \in DOMAIN results PROVE ran[k] > 0 => ran[k] \in 1..2
    <3>1. k \in DOMAIN Statements
      <4>1. results \in Seq(Result) /\ Len(results) = sql.at - 1 /\ sql \in SqlRec
        BY <1>1 DEF SqlInv, SqlTypes
      <4>2. k \in 1..Len(results) /\ sql.at \in 1..Len(Statements) + 1
        BY ONLY <4>1, k \in DOMAIN results DEF SqlRec
      <4>3. DOMAIN Statements = 1..Len(Statements) /\ Len(Statements) \in Nat
        BY SqlAssumption
      <4> QED BY ONLY <4>1, <4>2, <4>3
    <3>2. ran[k] \in 0..2
      BY <1>1, <3>1 DEF SqlInv, SqlTypes
    <3> QED BY <3>2
  <2> QED BY <1>1, <2>1 DEF SqlInv, SqlResults, SqlClean, SqlInStep
<1> QED BY <1>1, SqlAlways, PTL

-----------------------------------------------------------------------------
(* Both links *)

\* While a client's connection and the one to MySQL each go their way, at the same time,
\* neither loses count of what was asked and what is answered: a request is never read out
\* of the middle of another's body, and no row is given to a statement that did not ask.
THEOREM LinksInStep == ConnSpec /\ SqlSpec => []InStep
<1>1. ConnInStep /\ SqlInStep => InStep
  BY DEF InStep
<1> QED BY <1>1, ConnNeverLosesCount, SqlAnswers, PTL
=============================================================================
