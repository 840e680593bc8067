------------------------------ MODULE MySqlLink ------------------------------
(***************************************************************************)
(* MysqlDatabase::run() over MysqlConnection: one statement at a time,     *)
(* under the mutex, on a connection that is made when it is needed, breaks,*)
(* or is slower than the client waits.  What the server sends is a queue   *)
(* of packets, each marked with the statement it answers.                  *)
(*                                                                         *)
(* The three SET statements of a new connection are statements too.  A     *)
(* packet that breaks off is a connection that does; packets longer than   *)
(* 16 MB are put together by readPacket() (see Codecs).                    *)
(***************************************************************************)
EXTENDS Integers, Sequences, FiniteSets

CONSTANTS
    Statements,   \* what the program asks, in order: [kind, rows, cols]
    SetUp,        \* SET statements of ensureConnection()
    Rounds6,      \* rounds of the handshake (6)
    MaxCuts,      \* BOUND: connections that break
    MaxSlow       \* BOUND: answers that come too late

\* A result has columns: a count of none is how a statement without a result is answered.
ASSUME SqlAssumption ==
    /\ {SetUp, Rounds6, MaxCuts, MaxSlow} \subseteq Nat
    /\ Statements \in Seq([kind : {"write", "wrong", "select"}, cols : Nat, rows : Nat])
    /\ \A i \in DOMAIN Statements : Statements[i].kind = "select" => Statements[i].cols > 0

VARIABLES
    sql,       \* the client: [pc, at, set, round, again, cols, rows]
    socket,    \* "none", "up" or "cut": what the client holds
    eofMode,   \* without CLIENT_DEPRECATE_EOF an EOF packet follows the columns
    wire,      \* packets on their way to the client
    ran,       \* how often the server has run each statement
    results,   \* what run() returned, in order: [ok, cols, rows], the statements whose
               \* packets it is made of, and whether the connection was clean
    stale,     \* a statement was given up and the connection kept
    cuts, slow

sqlVars == <<sql, socket, eofMode, wire, ran, results, stale, cuts, slow>>

-----------------------------------------------------------------------------
Packet(is, of) == [is |-> is, of |-> of]
Times(n, x)    == [k \in 1..n |-> x]

\* Statement 0 is a SET.
Answer(i) ==
    IF i = 0 THEN <<Packet("ok", 0)>>
    ELSE LET s == Statements[i]
         IN CASE s.kind = "write" -> <<Packet("ok", i)>>
              [] s.kind = "wrong" -> <<Packet("error", i)>>
              [] OTHER -> <<Packet("count", i)>> \o Times(s.cols, Packet("column", i))
                          \o (IF eofMode THEN <<Packet("end", i)>> ELSE <<>>)
                          \o Times(s.rows, Packet("row", i)) \o <<Packet("end", i)>>

Resting == [pc |-> "rest", at |-> 1, set |-> 0, round |-> 0, again |-> FALSE, left |-> 0, rows |-> 0,
            cols |-> 0, of |-> {}]

SqlTypeOK ==
    /\ sql.pc \in {"rest", "connect", "auth", "set", "setRead", "send", "read", "columns", "eof", "rows", "failed"}
    /\ sql.at \in 1..Len(Statements) + 1 /\ sql.set \in 0..SetUp /\ sql.round \in 0..Rounds6
    /\ socket \in {"none", "up", "cut"} /\ cuts \in 0..MaxCuts /\ slow \in 0..MaxSlow
    /\ Len(results) = sql.at - 1 /\ \A i \in DOMAIN ran : ran[i] \in 0..2

SqlInit ==
    /\ sql = Resting /\ socket = "none" /\ eofMode \in BOOLEAN /\ wire = <<>>
    /\ ran = [i \in DOMAIN Statements |-> 0] /\ results = <<>> /\ stale = FALSE /\ cuts = 0 /\ slow = 0

-----------------------------------------------------------------------------
(* run() *)

\* The connection is used if there is one; the server may have left it meanwhile.
RunStatement ==
    /\ sql.pc = "rest" /\ sql.at <= Len(Statements)
    /\ sql' = [sql EXCEPT !.pc = IF socket = "none" THEN "connect" ELSE "send", !.again = FALSE]
    /\ UNCHANGED <<socket, eofMode, wire, ran, results, stale, cuts, slow>>

Return(result) ==
    /\ results' = Append(results, result)
    /\ sql' = [Resting EXCEPT !.at = sql.at + 1]
Failure == [ok |-> FALSE, cols |-> 0, rows |-> 0, of |-> sql.of, clean |-> ~stale]

\* ensureConnection(): connect, the rounds of authenticate(), then the SET statements,
\* whose answers are read and not looked at.
Connect1 ==
    /\ sql.pc = "connect"
    /\ \/ /\ socket' = "up" /\ wire' = <<>> /\ stale' = FALSE
          /\ sql' = [sql EXCEPT !.pc = "auth", !.round = 0] /\ UNCHANGED <<results, cuts>>
       \/ cuts < MaxCuts /\ cuts' = cuts + 1 /\ Return(Failure) /\ UNCHANGED <<socket, wire, stale>>
    /\ UNCHANGED <<eofMode, ran, slow>>
Authenticate ==
    /\ sql.pc = "auth"
    /\ \/ sql' = [sql EXCEPT !.pc = IF SetUp = 0 THEN "send" ELSE "set", !.set = 0]
          /\ UNCHANGED <<socket, results, cuts>>
       \/ \* another method, or the long form
          /\ sql.round < Rounds6 - 1
          /\ sql' = [sql EXCEPT !.round = @ + 1] /\ UNCHANGED <<socket, results, cuts>>
       \/ \* refused, broken, or too many rounds
          /\ cuts < MaxCuts /\ cuts' = cuts + 1 /\ socket' = "none" /\ Return(Failure)
    /\ UNCHANGED <<eofMode, wire, ran, stale, slow>>

SetOne ==
    /\ sql.pc = "set"
    /\ wire' = IF socket = "up" THEN wire \o Answer(0) ELSE wire
    /\ sql' = [sql EXCEPT !.pc = "setRead"]
    /\ UNCHANGED <<socket, eofMode, ran, results, stale, cuts, slow>>
SetAnswered ==
    /\ sql.pc = "setRead"
    /\ \/ wire # <<>> /\ wire' = Tail(wire) /\ UNCHANGED <<stale, slow>>
       \/ \* nothing came in time, and the connection is kept
          /\ slow < MaxSlow /\ slow' = slow + 1 /\ stale' = TRUE /\ UNCHANGED wire
       \/ socket = "cut" /\ wire = <<>> /\ UNCHANGED <<wire, stale, slow>>
    /\ sql' = [sql EXCEPT !.set = @ + 1, !.pc = IF sql.set + 1 = SetUp THEN "send" ELSE "set"]
    /\ UNCHANGED <<socket, eofMode, ran, results, cuts>>

\* query(): the server runs what reaches it.  On a connection that is cut sending may
\* fail, or seem to succeed.
SendQuery ==
    /\ sql.pc = "send"
    /\ IF socket = "up"
       THEN /\ wire' = wire \o Answer(sql.at) /\ ran' = [ran EXCEPT ![sql.at] = @ + 1]
            /\ sql' = [sql EXCEPT !.pc = "read", !.of = {}]
       ELSE \E pc \in {"failed", "read"} :
               sql' = [sql EXCEPT !.pc = pc, !.of = {}] /\ UNCHANGED <<wire, ran>>
    /\ UNCHANGED <<socket, eofMode, results, stale, cuts, slow>>

\* readQueryResponse(), packet by packet.
Next1 == Head(wire)
ReadPacket ==
    /\ sql.pc \in {"read", "columns", "eof", "rows"} /\ wire # <<>> /\ wire' = Tail(wire)
    /\ LET of == sql.of \cup {Next1.of}
           done == [ok |-> TRUE, cols |-> sql.cols, rows |-> sql.rows, of |-> of, clean |-> ~stale]
           go(pc) == sql' = [sql EXCEPT !.pc = pc, !.of = of] /\ UNCHANGED results
       IN \/ Next1.is = "error" /\ Return([done EXCEPT !.ok = FALSE])
          \/ /\ sql.pc = "read" /\ Next1.is = "count"
             /\ sql' = [sql EXCEPT !.pc = "columns", !.left = Statements[Next1.of].cols, !.of = of]
             /\ UNCHANGED results
          \/ sql.pc = "read" /\ Next1.is \notin {"error", "count"} /\ Return(done)
          \/ /\ sql.pc = "columns" /\ Next1.is # "error"
             /\ sql' = [sql EXCEPT !.left = @ - 1, !.cols = @ + 1, !.of = of,
                           !.pc = IF sql.left > 1 THEN "columns" ELSE IF eofMode THEN "eof" ELSE "rows"]
             /\ UNCHANGED results
          \/ sql.pc = "eof" /\ Next1.is # "error" /\ go("rows")
          \/ sql.pc = "rows" /\ Next1.is = "end" /\ Return(done)
          \/ /\ sql.pc = "rows" /\ Next1.is \notin {"error", "end"}
             /\ sql' = [sql EXCEPT !.rows = @ + 1, !.of = of] /\ UNCHANGED results
    /\ UNCHANGED <<socket, eofMode, ran, stale, cuts, slow>>

\* The rest of an answer does not come in time, or at all: an error without a code.
ReadFails ==
    /\ sql.pc \in {"read", "columns", "eof", "rows"}
    /\ \/ slow < MaxSlow /\ slow' = slow + 1
       \/ socket = "cut" /\ wire = <<>> /\ UNCHANGED slow
    /\ sql' = [sql EXCEPT !.pc = "failed"]
    /\ UNCHANGED <<socket, eofMode, wire, ran, results, stale, cuts>>

\* run() closes the connection and asks once more; what fails then stays open.
Again ==
    /\ sql.pc = "failed" /\ ~sql.again
    /\ socket' = "none" /\ wire' = <<>> /\ stale' = FALSE
    /\ sql' = [Resting EXCEPT !.pc = "connect", !.at = sql.at, !.again = TRUE]
    /\ UNCHANGED <<eofMode, ran, results, cuts, slow>>
GiveUp ==
    /\ sql.pc = "failed" /\ sql.again /\ Return(Failure)
    /\ stale' = (socket # "none")
    /\ UNCHANGED <<socket, eofMode, wire, ran, cuts, slow>>

\* The connection breaks, with some of what was on its way.
Cut ==
    /\ socket = "up" /\ cuts < MaxCuts /\ cuts' = cuts + 1 /\ socket' = "cut"
    /\ \E n \in 0..Len(wire) : wire' = SubSeq(wire, 1, n)
    /\ UNCHANGED <<sql, eofMode, ran, results, stale, slow>>

SqlNext == RunStatement \/ Connect1 \/ Authenticate \/ SetOne \/ SetAnswered \/ SendQuery \/ ReadPacket
           \/ ReadFails \/ Again \/ GiveUp \/ Cut

SqlSpec == SqlInit /\ [][SqlNext]_sqlVars

-----------------------------------------------------------------------------
(* Properties *)

\* What run() returns as the answer to a statement is the answer to that statement,
\* whole, and nothing is left over for the next one, as long as no statement was given
\* up on a connection that was kept: a SET whose answer is late, or the second try.
\* What it reports as done has been run, and at most twice.
SqlInStep ==
    /\ \A k \in DOMAIN results : results[k].clean =>
          /\ results[k].of \subseteq {k}
          /\ results[k].ok => ran[k] \in 1..2
          /\ results[k].ok /\ Statements[k].kind = "select" =>
                results[k].cols = Statements[k].cols /\ results[k].rows = Statements[k].rows
    /\ sql.pc = "rest" /\ ~stale => wire = <<>>
=============================================================================
