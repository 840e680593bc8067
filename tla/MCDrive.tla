------------------------------- MODULE MCDrive -------------------------------
(***************************************************************************)
(* For TLC: the tree of files, downloads, connections, the server's life,  *)
(* users, the connection to MySQL, and questions to the codecs.  A         *)
(* behaviour is one of one of them (part), and the others rest.            *)
(***************************************************************************)
EXTENDS FileTree, ReadPath, Links, ServerLife, WebUsers, Codecs

CONSTANTS n1, n2, u1, u2

VARIABLE part

Parts == {"tree", "read", "connection", "server", "users", "mysql", "codecs"}

-----------------------------------------------------------------------------
(* Instances *)

FirstLikeSecond == {<<n1, n2>>}
NoneAlike == {}

TwoVersions == <<<<3, 1>>, <<2>>>>
Header(f, a, b) == [form |-> f, first |-> a, last |-> b]
Headers == {Header("none", 0, 0), Header("suffix", 0, 1), Header("both", 2, 9),
            Header("both", 2, 1), Header("from", 9, 0)}

Asking(f, c, k) == [form |-> f, chunks |-> c, keep |-> k]
Askings == {Asking("none", <<>>, TRUE), Asking("none", <<>>, FALSE), Asking("length", <<3>>, TRUE),
            Asking("chunked", <<2, 1>>, TRUE), Asking("chunked", <<>>, TRUE), Asking("length", <<2>>, FALSE)}
ThreeAskings == {<<x, y, Asking("none", <<>>, TRUE)>> : x \in Askings, y \in Askings}

NewOrUsed == {{}, {u1, u2}}

Statement(k, c, r) == [kind |-> k, cols |-> c, rows |-> r]
FourStatements == <<Statement("write", 0, 0), Statement("select", 1, 1), Statement("wrong", 0, 0),
                    Statement("select", 2, 0)>>

-----------------------------------------------------------------------------
(* Questions *)

Three == {<<3>>}
NumberQuestions ==
    ({"sum"} \X (0..70) \X (0..70) \X {0}) \cup ({"quotient"} \X (0..255) \X (0..63) \X {0})
    \cup ({"shift"} \X (0..70) \X (0..6) \X {0})
    \cup ({"residue"} \X {0, 1, 2, 7, 29, 60} \X {0, 1, 5, 16, 21, 27, 63} \X (1..40))
    \cup ({"inverse"} \X (0..40) \X (2..40) \X {0})
    \cup {q \in {"prime"} \X (0..91) \X {2, 3, 5, 7, 12} \X {0} : q[3] <= q[2] - 2 \/ q[2] < 4}
KeyQuestions ==
    ({"factors"} \X (2..130) \X (1..4) \X (0..5))
    \cup ({"generator"} \X {11, 23, 47, 59, 83, 107, 167, 179, 227})
    \cup ({"secret"} \X {23} \X {2, 3, 4} \X {1, 7} \X {3, 12} \X {2, 9, 17} \X {3, 8} \X {0, 2, 5})

\* Three constructors: with a flags field first and optional fields of every kind; with
\* none; and with a flags field that is not the first.
Arg(n, t, b) == [name |-> n, type |-> t, bit |-> b]
ThreeConstructors ==
    [p |-> <<Arg("flags", "flags", 0), Arg("a", "int", 0), Arg("x", "true", 1), Arg("v", "vector", 2), Arg("o", "object", 3)>>,
     q |-> <<Arg("i", "int", 0), Arg("w", "vector", 0)>>,
     r |-> <<Arg("o", "object", 0), Arg("flags", "flags", 0), Arg("j", "int", 1)>>]
Value(t, v) == [t |-> t, v |-> v]
Object(c, f) == [t |-> "object", v |-> c, fields |-> f]
OneOf(name, vals) == {<<>>} \cup {name :> v : v \in vals}
SomeInts == {Value("int", 0), Value("int", 3)}
SomeVectors == {Value("vector", <<>>), Value("vector", <<1, 2>>)}
SomeFlags(bits) == {<<>>} \cup {"flags" :> Value("flags", {b}) : b \in bits}
Qs == {Object("q", i @@ w) : i \in OneOf("i", SomeInts), w \in OneOf("w", SomeVectors)}
Rs == {Object("r", ("o" :> q) @@ j @@ f) : q \in Qs, j \in OneOf("j", {Value("int", 2)}), f \in SomeFlags({1})}
      \cup {Object("r", <<>>)}
Ps == {Object("p", a @@ x @@ v @@ o @@ f) :
          a \in OneOf("a", {Value("int", 3)}), x \in OneOf("x", {Value("true", TRUE), Value("true", FALSE)}),
          v \in OneOf("v", SomeVectors), o \in OneOf("o", Qs \cup Rs), f \in SomeFlags({2, 3})}

Blocks == SUBSET {1, 2}
Ciphers == {f \in [Blocks -> Blocks] : {f[b] : b \in Blocks} = Blocks}
Texts(S, least, most) == UNION {[1..n -> S] : n \in least..most}
WireQuestions ==
    ({"string"} \X (0..70)) \cup ({"length"} \X (0..600)) \cup ({"packet"} \X (0..13))
    \cup ({"object"} \X (Qs \cup Rs \cup Ps))
    \cup ({"ige"} \X Ciphers \X {<<>>, <<{1}>>, <<{}, {2}>>, <<{1, 2}, {1}, {1}>>} \X {<<{}, {}>>, <<{1}, {2}>>})
    \cup ({"ctr"} \X Texts(0..5, 1, 3)) \cup ({"message"} \X {4 * k : k \in 0..40} \X (0..7))
    \cup ({"hash"} \X Texts(0..5, 1, 3)) \cup ({"huffman"} \X Texts(0..4, 1, 5))
    \cup ({"match"} \X (0..4) \X (0..6) \X (1..5))

Json(t, v) == [t |-> t, v |-> v]
Arrays(S) == {Json("array", v) : v \in Texts(S, 0, 2)}
Leaves == {Json("word", "null"), Json("string", <<"\"">>), Json("array", <<>>), Json("object", <<>>)}
JsonValues ==
    {Json("word", w) : w \in {"null", "5"}}
    \cup {Json("string", v) : v \in Texts({"a", "\"", "\\", "newline", "control", "u", "n"}, 0, 2)}
    \cup Arrays(Leaves)
    \cup {Json("object", f) : f \in OneOf(<<"a">>, Leaves)
             \cup {(<<"a">> :> x) @@ (<<"\\">> :> y) : x \in Leaves, y \in Leaves}}
    \cup {Json("array", <<x>>) : x \in Arrays({Json("array", <<Json("array", <<Json("word", "5")>>)>>)})}
TextQuestions ==
    ({"path"} \X Texts({"/", "\\", ".", "a"}, 0, 5))
    \cup ({"utf8"} \X Texts({65, 128, 129, 193, 196, 225, 187, 240, 144}, 0, 4) \X {2, 3})
    \cup ({"codepoint"} \X ((0..300) \cup {2047, 2048, 4000, 7840, 55295, 55296, 57343, 57344, 65535, 65536, 1114111}))
    \cup ({"escape"} \X Texts({"a", "%", "+", " ", "2", "5"}, 0, 4))
    \cup ({"base64"} \X Texts({0, 1, 63, 128, 255}, 0, 4))
    \cup ({"json"} \X JsonValues) \cup ({"number"} \X (0..1023))
    \cup ({"day"} \X ((-26000 .. -25400) \cup (-800 .. 1600) \cup (10950..11100) \cup (47400..47700)))
    \cup ({"time"} \X {d * 86400 + s : d \in {-24000, -1, 0, 58, 59, 789, 11016, 24000}, s \in {0, 1, 3599, 3600, 86399}})

FamilyQuestions == [numbers |-> NumberQuestions, keys |-> KeyQuestions, wire |-> WireQuestions, text |-> TextQuestions]

-----------------------------------------------------------------------------
(* The behaviours *)

\* What rests starts in one way only.
Init ==
    /\ part \in Parts
    /\ TreeInit /\ ServerInit
    /\ ReadInit /\ (part # "read" => \A c \in Capacities : capacity <= c)
    /\ UsersInit /\ (part # "users" => \A t \in Tokens : sessions[t] = NoSession)
    /\ SqlInit /\ (part # "mysql" => eofMode)
    /\ ConnInit /\ (part # "connection" => cut = 0 /\ pipeline = CHOOSE x \in Pipelines : TRUE)
    /\ IF part = "codecs" THEN CodecInit ELSE question = <<"none">>

Next ==
    \/ part = "tree" /\ TreeNext
       /\ UNCHANGED <<part, readVars, connVars, serverVars, usersVars, sqlVars, codecVars>>
    \/ part = "read" /\ ReadNext
       /\ UNCHANGED <<part, treeVars, connVars, serverVars, usersVars, sqlVars, codecVars>>
    \/ part = "connection" /\ ConnNext
       /\ UNCHANGED <<part, treeVars, readVars, serverVars, usersVars, sqlVars, codecVars>>
    \/ part = "server" /\ ServerNext
       /\ UNCHANGED <<part, treeVars, readVars, connVars, usersVars, sqlVars, codecVars>>
    \/ part = "users" /\ UsersNext
       /\ UNCHANGED <<part, treeVars, readVars, connVars, serverVars, sqlVars, codecVars>>
    \/ part = "mysql" /\ SqlNext
       /\ UNCHANGED <<part, treeVars, readVars, connVars, serverVars, usersVars, codecVars>>

vars == <<part, treeVars, readVars, connVars, serverVars, usersVars, sqlVars, codecVars>>

\* See ServerLife.
Fairness ==
    /\ WF_serverVars(part = "server" /\ StartOrStop)
    /\ WF_serverVars(part = "server" /\ AcceptorStep)
    /\ WF_serverVars(part = "server" /\ BackgroundLoop)
    /\ \A w \in Workers : WF_serverVars(part = "server" /\ WorkerStep(w))

Spec == Init /\ [][Next]_vars /\ Fairness

TreeOnly == part = "tree" /\ Init /\ [][Next]_vars

-----------------------------------------------------------------------------
(* Properties *)

\* Every part keeps its types.
TypeOK == /\ TreeTypeOK /\ ReadTypeOK /\ ConnTypeOK /\ ServerTypeOK /\ UsersTypeOK /\ SqlTypeOK
          /\ part \in Parts

\* The codecs answer each question as their reference definitions do: see CodecsAgree.
AnswersAgree == part = "codecs" => []CodecsAgree

\* Nothing is used that is gone, stop() ends, and no queued connection is forgotten:
\* see UsesAlive, StopEnds and QueueServed.
ShutdownSafe == /\ [](part = "server" => UsesAlive)
                /\ part = "server" => StopEnds /\ QueueServed
=============================================================================
