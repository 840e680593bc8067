--------------------------- MODULE MCContentStore ---------------------------
(* Model checking instances of ContentStore; the .cfg files give the bounds. *)
EXTENDS ContentStore, TLC

CONSTANTS f1, f2, f3, f4, c1, c2

MCFiles    == {f1, f2, f3, f4}
MCContents == {c1, c2}

\* Files and contents are only compared for equality.
Symmetry == Permutations(MCFiles) \cup Permutations(MCContents)

=============================================================================
