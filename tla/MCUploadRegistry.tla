------------------------- MODULE MCUploadRegistry -------------------------
(* Instances of UploadRegistry for TLC: who takes part. *)
EXTENDS UploadRegistry

CONSTANTS tab, put, s1, s2, v1, v2

\* One client at a time: WebDAV requests whose file may change between them, a tab
\* and a WebDAV request with one and the same file, or a tab whose user's
\* files elsewhere leave no room.
Cast(c, v, n, q) == [clients |-> c, versions |-> v, together |-> FALSE, tries |-> n, quota |-> q]
OneAtATime == {Cast({put}, {v1, v2}, 2, 2), Cast({tab, put}, {v1}, 1, 2), Cast({tab}, {v1}, 1, 0)}

\* One tab, whose file may have been changed since it was closed.
ChangedFile == {Cast({tab}, {v1, v2}, 2, 2)}
=============================================================================
