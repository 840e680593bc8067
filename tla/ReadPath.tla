------------------------------ MODULE ReadPath ------------------------------
(***************************************************************************)
(* Downloads: serveFileContent() and streamFileRange() over the cache of   *)
(* blocks, while the file is replaced and purged, documents are asked for  *)
(* from the backend, and clients leave.                                    *)
(*                                                                         *)
(* A byte is known by the version of the file it is of and its place in    *)
(* it.  A version is cut into documents, one per chunk, and never uploaded *)
(* twice; a document is read in blocks of BlockSize bytes.                 *)
(***************************************************************************)
EXTENDS Integers, Sequences, FiniteSets, Lists

CONSTANTS
    Downloads,   \* GET requests
    Versions,    \* the file's contents in order: each the sizes of its chunks
    BlockSize,   \* kBlockSize
    Capacities,  \* downloadCacheBytes, and what applySettings() may make of it
    Ranges,      \* Range headers: [form, first, last], see ParseRange
    MaxBad       \* BOUND: answers of the backend that fail or come short

ASSUME ReadAssumption ==
    /\ BlockSize \in Nat \ {0} /\ Capacities \subseteq Nat /\ MaxBad \in Nat
    /\ Versions \in Seq(Seq(Nat \ {0}) \ {<<>>}) /\ Versions # <<>>
    /\ Ranges \subseteq [form : {"none", "suffix", "from", "both"}, first : Nat, last : Nat]

VARIABLES
    entry,     \* the file's row: its version (size, hash)
    rows,      \* its chunk rows: indexes of the chunks of version rowsOf
    rowsOf,
    writing,   \* the replacement: "none", "purged" or "rows"
    gone,      \* versions whose documents have been deleted
    cache,     \* BlockCache: [v, chunk, block, size], the last used first
    capacity,
    dl,        \* downloads
    bad

readVars == <<entry, rows, rowsOf, writing, gone, cache, capacity, dl, bad>>

-----------------------------------------------------------------------------
Lesser(a, b) == IF a <= b THEN a ELSE b

Size(v)        == Sum(Versions[v])
Offset(v, c)   == Sum(SubSeq(Versions[v], 1, c - 1))
Used(q)        == Sum([k \in DOMAIN q |-> q[k].size])

FreshDownload == [pc |-> "idle", opened |-> 1, listed |-> 1, chunks |-> {}, range |-> <<>>, pos |-> 0,
                  left |-> 0, block |-> <<>>, sent |-> <<>>]

ReadTypeOK ==
    /\ {entry, rowsOf} \subseteq DOMAIN Versions /\ rows \subseteq DOMAIN Versions[rowsOf]
    /\ capacity \in Capacities /\ bad \in 0..MaxBad
    /\ \A d \in Downloads : dl[d].pos + dl[d].left <= Size(dl[d].opened)

ReadInit ==
    /\ entry = 1 /\ rowsOf = 1 /\ rows = DOMAIN Versions[1] /\ writing = "none" /\ gone = {}
    /\ cache = <<>> /\ capacity \in Capacities
    /\ dl = [d \in Downloads |-> FreshDownload] /\ bad = 0

-----------------------------------------------------------------------------
(* Range headers *)

ParseRangeUnclamped(r, size) ==
    IF r.form = "none" THEN [ok |-> TRUE, start |-> 0, length |-> size]
    ELSE IF r.form = "both" /\ r.first < size /\ r.first <= r.last
    THEN [ok |-> TRUE, start |-> r.first, length |-> r.last - r.first + 1]
    ELSE [ok |-> FALSE, start |-> 0, length |-> size]

\* parseRangeHeader(): "all" of the file when it makes nothing of the header.
ParseRange(r, size) ==
    LET all    == [ok |-> TRUE, start |-> 0, length |-> size]
        unsat  == [all EXCEPT !.ok = FALSE]
        some(s, e) == IF e < s THEN unsat ELSE [ok |-> TRUE, start |-> s, length |-> e - s + 1]
    IN IF r.form = "none" THEN all
       ELSE IF size = 0 THEN unsat
       ELSE IF r.form = "suffix"
       THEN IF r.last = 0 THEN unsat ELSE some(size - Lesser(r.last, size), size - 1)
       ELSE IF r.first >= size THEN unsat
       ELSE some(r.first, IF r.form = "from" THEN size - 1 ELSE Lesser(r.last, size - 1))

\* What HTTP means by the same headers.
Asked(r, size) ==
    {p \in 0..size - 1 : CASE r.form = "none"   -> TRUE
                           [] r.form = "suffix" -> p >= size - r.last
                           [] r.form = "from"   -> p >= r.first
                           [] OTHER             -> p >= r.first /\ p <= r.last}

-----------------------------------------------------------------------------
(* The cache: each operation under its mutex *)

KeyWithoutChunk(b) == <<b.v, b.block>>
Key(b) == <<b.v, b.chunk, b.block>>
Evict(q, limit) ==
    LET kept == {n \in 0..Len(q) : Used(SubSeq(q, 1, n)) <= limit}
    IN SubSeq(q, 1, CHOOSE n \in kept : \A m \in kept : m <= n)
Places(q, k)    == {n \in DOMAIN q : Key(q[n]) = k}
Without(q, k)   == IF Places(q, k) = {} THEN q ELSE Erase(q, CHOOSE n \in Places(q, k) : TRUE)
Hit(q, k)       == {b \in {q[n] : n \in DOMAIN q} : Key(b) = k}
PutBlock(q, b)  == IF b.size > capacity THEN q ELSE Evict(<<b>> \o Without(q, Key(b)), capacity)

-----------------------------------------------------------------------------
(* A download *)

On(d, pc) == dl[d].pc = pc
File == <<entry, rows, rowsOf, writing, gone>>

\* getEntry() and serveFileContent(): 206, 200 or 416 and the length are decided.
Open(d) ==
    /\ On(d, "idle")
    /\ \E r \in Ranges :
          LET p == ParseRange(r, Size(entry))
          IN dl' = [dl EXCEPT ![d] = [FreshDownload EXCEPT !.pc = IF p.ok THEN "list" ELSE "refused",
                                          !.opened = entry, !.range = r,
                                          !.pos = p.start, !.left = p.length]]
    /\ UNCHANGED <<File, cache, capacity, bad>>

\* streamFileRange(): the rows are listed once.
List(d) ==
    /\ On(d, "list")
    /\ dl' = [dl EXCEPT ![d].pc = IF rows = {} THEN "failed" ELSE "block",
                        ![d].listed = rowsOf, ![d].chunks = rows]
    /\ UNCHANGED <<File, cache, capacity, bad>>

\* The chunk and the block of it that hold pos.
Chunk(x)    == {c \in x.chunks : /\ x.pos >= Offset(x.listed, c)
                                 /\ x.pos < Offset(x.listed, c) + Versions[x.listed][c]}
BlockAt(x)  == LET c == CHOOSE k \in Chunk(x) : TRUE
                   b == (x.pos - Offset(x.listed, c)) \div BlockSize
               IN [v |-> x.listed, chunk |-> c, block |-> b,
                   size |-> Lesser(BlockSize, Versions[x.listed][c] - b * BlockSize)]

FindBlock(d) ==
    LET x == dl[d]
        hit == Hit(cache, Key(BlockAt(x)))
        b == CHOOSE h \in hit : TRUE
    IN /\ On(d, "block") /\ x.left > 0
       /\ \/ /\ Chunk(x) = {} /\ dl' = [dl EXCEPT ![d].pc = "failed"] /\ UNCHANGED cache
          \/ /\ Chunk(x) # {} /\ hit = {} /\ dl' = [dl EXCEPT ![d].pc = "fetch"] /\ UNCHANGED cache
          \/ /\ Chunk(x) # {} /\ hit # {}
             /\ dl' = [dl EXCEPT ![d].pc = "send", ![d].block = <<b>>]
             /\ cache' = <<b>> \o Without(cache, Key(b))
       /\ UNCHANGED <<File, capacity, bad>>

\* readRange(): the block; less of it; or nothing, as when the document is deleted.
Fetch(d) ==
    /\ On(d, "fetch") /\ dl[d].listed \notin gone
    /\ dl' = [dl EXCEPT ![d].pc = "put", ![d].block = <<BlockAt(dl[d])>>]
    /\ UNCHANGED <<File, cache, capacity, bad>>
FetchShort(d) ==
    LET b == BlockAt(dl[d])
    IN /\ On(d, "fetch") /\ dl[d].listed \notin gone /\ bad < MaxBad /\ bad' = bad + 1
       /\ \E n \in 1..b.size - 1 :
             dl' = [dl EXCEPT ![d].pc = "put", ![d].block = <<[b EXCEPT !.size = n]>>]
       /\ UNCHANGED <<File, cache, capacity>>
FetchFails(d) ==
    /\ On(d, "fetch")
    /\ IF dl[d].listed \in gone THEN UNCHANGED bad ELSE bad < MaxBad /\ bad' = bad + 1
    /\ dl' = [dl EXCEPT ![d].pc = "failed"]
    /\ UNCHANGED <<File, cache, capacity>>

Put(d) ==
    /\ On(d, "put")
    /\ cache' = PutBlock(cache, dl[d].block[1])
    /\ dl' = [dl EXCEPT ![d].pc = "send"]
    /\ UNCHANGED <<File, capacity, bad>>

Send(d) ==
    LET x == dl[d]
        wanted == BlockAt(x)
        b == x.block[1]
        inBlock == x.pos - Offset(x.listed, wanted.chunk) - wanted.block * BlockSize
        take == Lesser(b.size - inBlock, x.left)
        from == Offset(b.v, b.chunk) + b.block * BlockSize + inBlock
    IN /\ On(d, "send")
       /\ dl' = [dl EXCEPT ![d] =
             IF inBlock >= b.size THEN [x EXCEPT !.pc = "failed"]
             ELSE [x EXCEPT !.pc = "block", !.block = <<>>, !.pos = @ + take, !.left = @ - take,
                            !.sent = @ \o [k \in 1..take |-> <<b.v, from + k - 1>>]]]
       /\ UNCHANGED <<File, cache, capacity, bad>>

\* The client has gone: the sink refuses, and the stream ends without an error.
ClientLeaves(d) ==
    /\ On(d, "send") /\ dl' = [dl EXCEPT ![d].pc = "left"]
    /\ UNCHANGED <<File, cache, capacity, bad>>

Ends(d) ==
    /\ \/ On(d, "block") /\ dl[d].left = 0
       \/ On(d, "list") /\ dl[d].left = 0
    /\ dl' = [dl EXCEPT ![d].pc = "whole"]
    /\ UNCHANGED <<File, cache, capacity, bad>>

-----------------------------------------------------------------------------
(* Meanwhile *)

\* An upload with Replace: purgeFileData(), updateEntry(), then addChunk() by chunk.
PurgeFileData ==
    /\ writing = "none" /\ entry < Len(Versions)
    /\ cache' = Those(cache, {b \in Elems(cache) : b.v # rowsOf})
    /\ gone' = gone \cup {rowsOf} /\ rows' = {} /\ writing' = "purged"
    /\ UNCHANGED <<entry, rowsOf, capacity, dl, bad>>
ReplaceEntry ==
    /\ writing = "purged" /\ writing' = "rows"
    /\ entry' = entry + 1 /\ rowsOf' = entry + 1 /\ rows' = {}
    /\ UNCHANGED <<gone, cache, capacity, dl, bad>>
AddRow ==
    /\ writing = "rows" /\ rows # DOMAIN Versions[rowsOf]
    /\ rows' = 1..Cardinality(rows) + 1
    /\ writing' = IF rows' = DOMAIN Versions[rowsOf] THEN "none" ELSE "rows"
    /\ UNCHANGED <<entry, rowsOf, gone, cache, capacity, dl, bad>>

SetCapacity ==
    /\ \E c \in Capacities \ {capacity} : capacity' = c /\ cache' = Evict(cache, c)
    /\ UNCHANGED <<File, dl, bad>>

-----------------------------------------------------------------------------
ReadNext ==
    \/ \E d \in Downloads : \/ Open(d) \/ List(d) \/ FindBlock(d) \/ Fetch(d) \/ FetchShort(d)
                            \/ FetchFails(d) \/ Put(d) \/ Send(d) \/ ClientLeaves(d) \/ Ends(d)
    \/ PurgeFileData \/ ReplaceEntry \/ AddRow \/ SetCapacity

ReadSpec == ReadInit /\ [][ReadNext]_readVars

-----------------------------------------------------------------------------
(* Properties *)

\* What a download has sent is, byte for byte, a beginning of the range its client
\* asked for, of one version of the file: the one its rows are of, whatever is in
\* the cache, was cut short or was replaced meanwhile.  Ended without an error it
\* has sent all of it, and a range is refused only when no byte of the file is in it.
\* The cache never outgrows its capacity and keeps each block once, as its document
\* has it.
DownloadsExact ==
    /\ \A d \in Downloads :
          LET x == dl[d]
              asked == IF x.pc = "idle" THEN {} ELSE Asked(x.range, Size(x.opened))
          IN /\ \A k \in DOMAIN x.sent :
                   /\ x.sent[k][1] = x.listed
                   /\ Cardinality({p \in asked : p < x.sent[k][2]}) = k - 1 /\ x.sent[k][2] \in asked
             /\ x.pc = "whole" => Len(x.sent) = Cardinality(asked)
             /\ x.pc = "refused" => asked = {}
    /\ Used(cache) <= capacity
    /\ \A k \in DOMAIN cache :
          /\ cache[k].size <= Lesser(BlockSize, Versions[cache[k].v][cache[k].chunk] - cache[k].block * BlockSize)
          /\ \A j \in DOMAIN cache : Key(cache[j]) = Key(cache[k]) => j = k
=============================================================================
