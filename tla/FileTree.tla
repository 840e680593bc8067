------------------------------ MODULE FileTree ------------------------------
(***************************************************************************)
(* app::Vfs: folders and files as rows of ttd_entries, each with its       *)
(* parent's id and with its whole path, which the program keeps in step    *)
(* by itself, and the requests of the web page and of WebDAV that change   *)
(* them; an upload is two requests, with others between them.              *)
(*                                                                         *)
(* Requests are served one after the other here: a request is one action   *)
(* (ContentStore has the interleavings of the life of a file).  Calls to   *)
(* the database succeed.  A name is a sequence: a name somebody chose,     *)
(* then the numbers makeUniqueName() has added.  Contents, owners, notes,  *)
(* stars and links play no part in where an entry is.                      *)
(***************************************************************************)
EXTENDS Integers, Sequences, FiniteSets

CONSTANTS
    Names,       \* names somebody may choose
    Alike,       \* pairs <<m, n>>: as a LIKE pattern of SQLite m matches n as well
    MaxEntries,  \* BOUND: rows ever created
    MaxRequests  \* BOUND: requests served

ASSUME TreeAssumption ==
    /\ Alike \subseteq Names \X Names
    /\ MaxEntries \in Nat /\ MaxRequests \in Nat

VARIABLES
    tree,      \* ttd_entries: the row with id i is tree[i]
    slips,     \* requests served that leave paths or names wrong (see TreeSound)
    upload,    \* the upload that has begun and is not over
    requests

treeVars == <<tree, slips, upload, requests>>

-----------------------------------------------------------------------------
Root == 0

Row(parent, name, path, folder) ==
    [on |-> TRUE, parent |-> parent, name |-> name, path |-> path, folder |-> folder, trashed |-> FALSE]

Rows(t)      == {i \in DOMAIN t : t[i].on}
LiveRows(t)  == {i \in Rows(t) : ~t[i].trashed}
Least(S)     == CHOOSE i \in S : \A j \in S : i <= j
PathOf(t, i) == IF i = Root THEN <<>> ELSE t[i].path
Upper(path)  == SubSeq(path, 1, Len(path) - 1)

TreeTypeOK ==
    /\ Len(tree) <= MaxEntries /\ requests \in 0..MaxRequests
    /\ \A i \in Rows(tree) : /\ tree[i].parent \in 0..Len(tree)
                             /\ tree[i].name \in Seq(Names \cup Nat)
                             /\ tree[i].path \in Seq(Seq(Names \cup Nat))

NoUpload == [on |-> FALSE, parent |-> Root, path |-> <<>>, name |-> <<>>, replaces |-> Root]

TreeInit == tree = <<>> /\ slips = {} /\ upload = NoUpload /\ requests = 0

-----------------------------------------------------------------------------
(* What the database answers *)

\* getEntryByPath(), findByNameInFolder(): live rows only, the first of them.
AtPath(t, p)       == {i \in LiveRows(t) : t[i].path = p}
InFolder(t, f, n)  == {i \in LiveRows(t) : t[i].parent = f /\ t[i].name = n}
Children(t, f)     == {i \in Rows(t) : t[i].parent = f}

\* listChildrenRecursive(), trashed or not.
Below(t, f) ==
    LET level[n \in 0..Len(t)] ==
            IF n = 0 THEN Children(t, f)
            ELSE level[n - 1] \cup UNION {Children(t, i) : i \in level[n - 1]}
    IN level[Len(t)]

\* updatePathsUnder(): the row with the old path, and every row whose path is LIKE
\* the old one and more, wherever it hangs.
Like(m, n) == m = n \/ (<<Head(m), Head(n)>> \in Alike /\ Tail(m) = Tail(n))
Under(p, old) == \/ p = old
                 \/ Len(p) > Len(old) /\ \A k \in DOMAIN old : Like(old[k], p[k])
UpdatePathsUnder(t, old, new) ==
    [i \in DOMAIN t |->
        IF t[i].on /\ Under(t[i].path, old)
        THEN [t[i] EXCEPT !.path = new \o SubSeq(@, Len(old) + 1, Len(@))] ELSE t[i]]

-----------------------------------------------------------------------------
(* The helpers of Vfs *)

\* uniqueNameIn()
UniqueNameIn(t, f, n) ==
    LET candidate(k) == IF k = 1 THEN n ELSE Append(n, k)
    IN candidate(Least({k \in 1..Len(t) + 1 : InFolder(t, f, candidate(k)) = {}}))

\* ensureFolder(): the whole path at once, or part by part, creating what is missing.
EnsureFolder(t, path) ==
    LET found(u, p) == LET i == Least(AtPath(u, p)) IN [ok |-> u[i].folder, id |-> i, tree |-> u]
        walk[n \in 0..Len(path)] ==
            IF n = 0 THEN [ok |-> TRUE, id |-> Root, tree |-> t]
            ELSE LET w == walk[n - 1]
                     p == SubSeq(path, 1, n)
                 IN IF ~w.ok THEN w
                    ELSE IF AtPath(w.tree, p) # {} THEN found(w.tree, p)
                    ELSE [ok |-> TRUE, id |-> Len(w.tree) + 1,
                          tree |-> Append(w.tree, Row(w.id, path[n], p, TRUE))]
    IN IF path # <<>> /\ AtPath(t, path) # {} THEN found(t, path) ELSE walk[Len(path)]

RepathAlone(t, i, row, new) == [t EXCEPT ![i] = [row EXCEPT !.path = new]]

\* repath(): the row, then the paths of what a folder holds.
Repath(t, i, row, new) ==
    LET u == [t EXCEPT ![i] = [row EXCEPT !.path = new]]
    IN IF row.folder /\ t[i].path # new THEN UpdatePathsUnder(u, t[i].path, new) ELSE u

\* A repath() that reaches rows outside the folder: trashed ones or live ones that
\* have had the same path, or names that are LIKE its name, its own new path too.
Strays(t, i, new) ==
    /\ t[i].folder /\ t[i].path # new
    /\ \/ Under(new, t[i].path)
       \/ \E j \in Rows(t) \ (Below(t, i) \cup {i}) : Under(t[j].path, t[i].path)

Slip(t, i, new) == IF Strays(t, i, new) THEN {"path of another"} ELSE {}

Same(t) == [ok |-> FALSE, id |-> Root, tree |-> t, slip |-> {}]
Done(i, t, slip) == [ok |-> TRUE, id |-> i, tree |-> t, slip |-> slip]

\* Would row i come to lie in itself, as far as paths tell?
InsideItself(t, i, target) ==
    t[i].folder /\ Len(target) >= Len(t[i].path) /\ SubSeq(target, 1, Len(t[i].path)) = t[i].path

-----------------------------------------------------------------------------
(* The operations of Vfs: [ok, id, tree, slip] *)

CreateFolderIn(t, parent, n) ==
    LET f == EnsureFolder(t, parent)
    IN IF ~f.ok \/ InFolder(f.tree, f.id, n) # {} THEN Same(f.tree)
       ELSE Done(Len(f.tree) + 1, Append(f.tree, Row(f.id, n, Append(PathOf(f.tree, f.id), n), TRUE)), {})

RenameEntry(t, i, n) ==
    LET new == Append(Upper(t[i].path), n)
    IN IF t[i].name = n THEN Done(i, t, {})
       ELSE IF InFolder(t, t[i].parent, n) \ {i} # {} THEN Same(t)
       ELSE Done(i, Repath(t, i, [t[i] EXCEPT !.name = n], new), Slip(t, i, new))

MoveEntry(t, i, target) ==
    LET f   == EnsureFolder(t, target)
        n   == UniqueNameIn(f.tree, f.id, t[i].name)
        new == Append(PathOf(f.tree, f.id), n)
    IN IF ~f.ok \/ (f.id # t[i].parent /\ InsideItself(t, i, PathOf(f.tree, f.id))) THEN Same(f.tree)
       ELSE IF f.id = t[i].parent THEN Done(i, f.tree, {})
       ELSE Done(i, Repath(f.tree, i, [t[i] EXCEPT !.parent = f.id, !.name = n], new),
                 Slip(f.tree, i, new))

\* copy(): the row, then what the folder holds, parents (shorter paths) first; a row
\* whose parent was not copied is left out.
CopyEntry(t, i, target) ==
    LET f    == EnsureFolder(t, target)
        n    == UniqueNameIn(f.tree, f.id, t[i].name)
        u    == Append(f.tree, Row(f.id, n, Append(PathOf(f.tree, f.id), n), t[i].folder))
        below == Below(u, i)
        order == CHOOSE s \in [1..Cardinality(below) -> below] :
                    \A j, k \in DOMAIN s : j < k =>
                        \/ Len(u[s[j]].path) < Len(u[s[k]].path)
                        \/ Len(u[s[j]].path) = Len(u[s[k]].path) /\ s[j] < s[k]
        step[k \in 0..Len(order)] ==
            IF k = 0 THEN [tree |-> u, of |-> [x \in {i} |-> Len(u)]]
            ELSE LET s == step[k - 1]
                     c == u[order[k]]
                 IN IF c.parent \notin DOMAIN s.of THEN s
                    ELSE LET p == s.of[c.parent]
                         IN [tree |-> Append(s.tree, [c EXCEPT !.parent = p,
                                                          !.path = Append(s.tree[p].path, c.name)]),
                             of   |-> [x \in DOMAIN s.of \cup {order[k]} |->
                                          IF x = order[k] THEN Len(s.tree) + 1 ELSE s.of[x]]]
    IN IF ~f.ok \/ InsideItself(t, i, PathOf(f.tree, f.id)) THEN Same(f.tree)
       ELSE Done(Len(u), step[Len(order)].tree, {})

TrashEntry(t, i) ==
    IF t[i].trashed THEN Done(i, t, {})
    ELSE Done(i, [j \in DOMAIN t |-> IF j = i \/ (t[i].folder /\ j \in Below(t, i))
                                     THEN [t[j] EXCEPT !.trashed = TRUE] ELSE t[j]], {})

\* restore(): to the root when the folder it was in is gone or trashed itself.  Its
\* name is not compared with those in a folder that is there, and the paths of what
\* it holds are not touched.  All it holds comes back with it, what had been trashed
\* on its own before an entry took its name as well.
RestoreEntry(t, i) ==
    LET p     == t[i].parent
        away  == p # Root /\ (p \notin Rows(t) \/ t[p].trashed)
        n     == UniqueNameIn(t, Root, t[i].name)
        below == IF t[i].folder THEN Below(t, i) ELSE {}
        row   == IF away THEN [t[i] EXCEPT !.parent = Root, !.name = n, !.path = <<n>>] ELSE t[i]
        slip  == (IF away /\ below # {} THEN {"paths below"} ELSE {})
                 \cup (IF (~away /\ InFolder(t, p, t[i].name) # {})
                          \/ \E j, k \in below : j # k /\ t[j].parent = t[k].parent /\ t[j].name = t[k].name
                       THEN {"name taken"} ELSE {})
    IN IF ~t[i].trashed THEN Done(i, t, {})
       ELSE Done(i, [j \in DOMAIN t |-> IF j = i THEN [row EXCEPT !.trashed = FALSE]
                                        ELSE IF j \in below THEN [t[j] EXCEPT !.trashed = FALSE]
                                        ELSE t[j]], slip)

PurgeEntries(t, S) ==
    LET dead == S \cup UNION {Below(t, i) : i \in {j \in S : t[j].folder}}
    IN Done(Root, [j \in DOMAIN t |-> IF j \in dead THEN [t[j] EXCEPT !.on = FALSE] ELSE t[j]], {})

\* What emptyTrash() and emptyExpiredTrash() purge: trashed rows not below another.
TrashRoots(t) ==
    {i \in Rows(t) : t[i].trashed /\ ~(t[i].parent \in Rows(t) /\ t[t[i].parent].trashed)}

\* MOVE and COPY of WebDAV: what is in the way goes to the trash first, be it the
\* folder the entry is in; then the move or copy, and the name.
ClearWay(t, i, dest) ==
    LET way == AtPath(t, dest)
        u   == IF way = {} \/ Least(way) = i THEN t ELSE TrashEntry(t, Least(way)).tree
    IN [tree |-> u, slip |-> IF u[i].trashed /\ ~t[i].trashed THEN {"moved to the trash"} ELSE {}]
GiveName(r, name, slip) ==
    LET q == IF r.ok /\ r.tree[r.id].name # name THEN RenameEntry(r.tree, r.id, name) ELSE r
    IN [q EXCEPT !.slip = @ \cup r.slip \cup slip]

-----------------------------------------------------------------------------
(* Requests *)

\* Paths a client may name: of an entry, or one name further.
KnownPaths == {<<>>} \cup {tree[i].path : i \in LiveRows(tree)}
NewPaths   == KnownPaths \cup {Append(p, <<n>>) : p \in KnownPaths, n \in Names}

Serve(results) ==
    /\ requests < MaxRequests /\ requests' = requests + 1
    /\ \E r \in results : Len(r.tree) <= MaxEntries /\ tree' = r.tree /\ slips' = slips \cup r.slip
    /\ UNCHANGED upload

\* POST /api/folders, MKCOL
CreateFolder == Serve({CreateFolderIn(tree, p, <<n>>) : p \in NewPaths, n \in Names})

\* begin(): the folder is ensured, and the file of that name in it and those of the
\* same content are looked for.  Without any the name is taken as it is; else the user
\* has a link made at once, keeps both under a free name, or replaces the one of that
\* name, if need be one of the same content elsewhere.  The session remembers what has
\* been found.
AddFileIn(f, n) ==
    LET name == UniqueNameIn(f.tree, f.id, n)
    IN Append(f.tree, Row(f.id, name, Append(PathOf(f.tree, f.id), name), FALSE))

Begun(f, path, n, alike) ==
    LET hit  == InFolder(f.tree, f.id, n)
        same == {i \in {Least(hit) : h \in hit} : ~f.tree[i].folder}
        session(name, i) == [tree |-> f.tree, upload |-> [on |-> TRUE, parent |-> f.id, path |-> path,
                                                          name |-> name, replaces |-> i]]
    IN IF same \cup alike = {} THEN {session(n, Root)}
       ELSE {session(UniqueNameIn(f.tree, f.id, n), Root),
             [tree |-> AddFileIn(f, n), upload |-> NoUpload]}
            \cup {session(n, i) : i \in IF same # {} THEN same ELSE alike}

BeginUpload ==
    /\ ~upload.on /\ requests < MaxRequests /\ requests' = requests + 1
    /\ \E p \in KnownPaths, n \in Names,
          alike \in {{}} \cup {{i} : i \in {j \in LiveRows(tree) : ~tree[j].folder}} :
          \E f \in {EnsureFolder(tree, p)} :
             /\ f.ok
             /\ \E u \in Begun(f, p, <<n>>, alike) :
                   Len(u.tree) <= MaxEntries /\ tree' = u.tree /\ upload' = u.upload
    /\ UNCHANGED slips

\* complete(), its last step: the row is written as begin() would have it, whatever
\* has become of the folder and of the name.
FinishUpload ==
    /\ upload.on /\ upload' = NoUpload
    /\ LET row  == Row(upload.parent, upload.name, Append(upload.path, upload.name), FALSE)
           old  == Rows(tree) \cap {upload.replaces}
           gone == upload.parent # Root /\ (upload.parent \notin LiveRows(tree)
                                            \/ tree[upload.parent].path # upload.path)
       IN /\ IF old # {} THEN tree' = [i \in DOMAIN tree |-> IF i \in old THEN row ELSE tree[i]]
             ELSE Len(tree) < MaxEntries /\ tree' = Append(tree, row)
          /\ slips' = slips \cup (IF gone THEN {"folder gone"} ELSE {})
                           \cup (IF InFolder(tree, upload.parent, upload.name) \ old # {}
                                 THEN {"name taken"} ELSE {})
    /\ UNCHANGED requests

CancelUpload == upload.on /\ upload' = NoUpload /\ UNCHANGED <<tree, slips, requests>>

Rename  == Serve({RenameEntry(tree, i, <<n>>) : i \in Rows(tree), n \in Names})
Move    == Serve({MoveEntry(tree, i, p) : i \in Rows(tree), p \in KnownPaths})
Copy    == Serve({CopyEntry(tree, i, p) : i \in Rows(tree), p \in KnownPaths})
Trash   == Serve({TrashEntry(tree, i) : i \in Rows(tree)})
Restore == Serve({RestoreEntry(tree, i) : i \in Rows(tree)})
Purge   == Serve({PurgeEntries(tree, {i}) : i \in Rows(tree)})

\* The trash of one user, or what is old enough.
EmptyTrash == Serve({PurgeEntries(tree, S) : S \in SUBSET TrashRoots(tree) \ {{}}})

\* The requests of WebDAV name entries by path.
DavRows == {i \in LiveRows(tree) : Least(AtPath(tree, tree[i].path)) = i}

Mkcol == Serve({CreateFolderIn(tree, Upper(p), p[Len(p)]) :
                   p \in {x \in NewPaths \ {<<>>} : AtPath(tree, x) = {}}})

DavDelete == Serve({TrashEntry(tree, i) : i \in DavRows})
DavMove ==
    requests < MaxRequests /\ \E i \in DavRows, d \in NewPaths \ {<<>>} :
        \E u \in {ClearWay(tree, i, d)} : \E r \in {MoveEntry(u.tree, i, Upper(d))} :
            Serve({GiveName(r, d[Len(d)], u.slip)})
DavCopy ==
    requests < MaxRequests /\ \E i \in DavRows, d \in NewPaths \ {<<>>} :
        \E u \in {ClearWay(tree, i, d)} : \E r \in {CopyEntry(u.tree, i, Upper(d))} :
            Serve({GiveName(r, d[Len(d)], u.slip)})

TreeNext == CreateFolder \/ BeginUpload \/ FinishUpload \/ CancelUpload \/ Rename \/ Move \/ Copy \/ Trash \/ Restore
            \/ Purge \/ EmptyTrash \/ Mkcol \/ DavDelete \/ DavMove \/ DavCopy

TreeSpec == TreeInit /\ [][TreeNext]_treeVars

-----------------------------------------------------------------------------
(* Properties *)

\* Every live entry hangs in the root or in a live folder, its path is the path of
\* that folder and its own name, and no two of them in a folder have one name, after
\* any requests but those known to break it: a rename or move that reaches paths of
\* other entries, a folder restored out of a trashed one, a restore beside a new
\* entry of that name, or of a folder that gets two entries of one name back, a MOVE
\* that trashes what it is to move, and an upload whose folder is not there any more,
\* or whose name is taken, when it ends.
TreeSound ==
    slips = {} =>
        /\ \A i \in LiveRows(tree) :
              /\ tree[i].parent \in {Root} \cup {j \in LiveRows(tree) : tree[j].folder}
              /\ tree[i].path = Append(PathOf(tree, tree[i].parent), tree[i].name)
        /\ \A i, j \in LiveRows(tree) :
              tree[i].parent = tree[j].parent /\ tree[i].name = tree[j].name => i = j

\* move() never puts a folder inside itself (vfs.cpp says so of the check it makes):
\* not true once paths are wrong, see the run.
NoFolderInsideItself == \A i \in Rows(tree) : i \notin Below(tree, i)
=============================================================================
