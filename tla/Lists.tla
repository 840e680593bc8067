------------------------------- MODULE Lists -------------------------------
(***************************************************************************)
(* What the code's loops over its lists compute, as recursive functions:   *)
(* the elements a loop keeps or erases, and a sum.                         *)
(***************************************************************************)
EXTENDS Integers, Sequences

Elems(q) == {q[i] : i \in DOMAIN q}

\* The elements of a sequence that are in a set, in their order.
Those(q, S) ==
    LET those[i \in 0..Len(q)] ==
            IF i = 0 THEN <<>>
            ELSE IF q[i] \in S THEN Append(those[i - 1], q[i]) ELSE those[i - 1]
    IN those[Len(q)]

Sum(s) == LET sum[i \in 0..Len(s)] == IF i = 0 THEN 0 ELSE sum[i - 1] + s[i] IN sum[Len(s)]

\* Sequences one after the other.
Join(qs) ==
    LET join[i \in 0..Len(qs)] == IF i = 0 THEN <<>> ELSE join[i - 1] \o qs[i] IN join[Len(qs)]

\* The sequence without its element at a place: erase() of an iterator.
Erase(q, i) == SubSeq(q, 1, i - 1) \o SubSeq(q, i + 1, Len(q))
=============================================================================
