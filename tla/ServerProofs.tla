---------------------------- MODULE ServerProofs ----------------------------
(***************************************************************************)
(* Proofs about the server around the uploads: no part of the program is   *)
(* used after its end (ServerInv), what a user was told of his account     *)
(* holds (UsersInv), a download sends what the file was (DownloadsRight),  *)
(* and entries are where their paths say (TreeInv).                        *)
(***************************************************************************)
EXTENDS ServerLife, WebUsers, ReadPath, FileTree, ListProofs, FiniteSetTheorems, TLAPS

-----------------------------------------------------------------------------
(* The server's life: the invariant *)

Tasks      == DOMAIN TaskUses
Before     == {"initDatabase", "initUsers", "initBackend", "initServer"}
Serving    == {"background", "connectAll", "up", "joinBackground", "closeListener", "notify", "joinAcceptor",
               "joinWorkers"}
Afterwards == {"clear", "disconnectAll", "uploads", "engine", "vfs", "users", "backend", "db", "stopped"}

\* What there is at each step of start() and stop().
AliveAt(m) ==
    CASE m = "initDatabase" -> {}
      [] m = "initUsers" -> {"db"}
      [] m = "initBackend" -> {"db", "users"}
      [] m = "engine" -> Components \ {"uploads"}
      [] m = "vfs" -> {"vfs", "users", "backend", "db"}
      [] m = "users" -> {"users", "backend", "db"}
      [] m = "backend" -> {"backend", "db"}
      [] m = "db" -> {"db"}
      [] m = "stopped" -> {}
      [] OTHER -> Components

WorkerPcs == {"none", "loop", "check", "asleep", "between", "handling", "exited"}

ServerInv ==
    /\ main \in Before \cup Serving \cup Afterwards \cup {"failed"}
    /\ main # "failed" => alive = AliveAt(main)
    /\ alive \subseteq Components
    /\ worker \in [Workers -> [pc : WorkerPcs, on : SUBSET Clients]]
    /\ background \in {"none", "sleep", "exited"} \cup Tasks
    /\ main \in Before \cup {"failed"} => \A w \in Workers : worker[w].pc = "none"
    /\ main \in Afterwards => \A w \in Workers : worker[w].pc = "exited"
    /\ background \in Tasks \cup {"sleep"} => main \in {"connectAll", "up", "joinBackground"}
    /\ main = "background" \/ main \in Before \cup {"failed"} => background = "none"
    /\ queue \in Seq(Clients) /\ Len(queue) <= QueueLimit + 1
    /\ acceptor \in {"none", "loop", "accept", "push", "exited"}
    /\ connecting \in {"none", "connect", "done"}

\* The steps of start() and of stop() in their order.
LEMMA StartOrder ==
    /\ After(Starts, "initDatabase") = "initUsers" /\ After(Starts, "initUsers") = "initBackend"
    /\ After(Starts, "initBackend") = "initServer" /\ After(Starts, "background") = "connectAll"
    /\ After(Starts, "connectAll") = "up"
<1>1. DOMAIN Starts = 1..7
  BY DEF Starts
<1>2. ASSUME NEW n \in 1..7, \A k \in 1..7 : k # n => Starts[k] # Starts[n]
      PROVE  After(Starts, Starts[n]) = Starts[n + 1]
  <2>1. (CHOOSE k \in DOMAIN Starts : Starts[k] = Starts[n]) = n
    BY <1>1, <1>2
  <2> QED BY <2>1 DEF After
<1>3. \A n \in 1..7, k \in 1..7 : k # n => Starts[k] # Starts[n]
  BY DEF Starts
<1> QED BY <1>2, <1>3 DEF Starts

LEMMA StopOrder ==
    /\ After(Stops, "joinBackground") = "closeListener" /\ After(Stops, "closeListener") = "notify"
    /\ After(Stops, "notify") = "joinAcceptor" /\ After(Stops, "joinAcceptor") = "joinWorkers"
    /\ After(Stops, "joinWorkers") = "clear" /\ After(Stops, "clear") = "disconnectAll"
    /\ After(Stops, "disconnectAll") = "uploads" /\ After(Stops, "uploads") = "engine"
    /\ After(Stops, "engine") = "vfs" /\ After(Stops, "vfs") = "users"
    /\ After(Stops, "users") = "backend" /\ After(Stops, "backend") = "db"
    /\ After(Stops, "db") = "stopped"
<1>1. DOMAIN Stops = 1..14
  BY DEF Stops
<1>2. ASSUME NEW n \in 1..14, \A k \in 1..14 : k # n => Stops[k] # Stops[n]
      PROVE  After(Stops, Stops[n]) = Stops[n + 1]
  <2>1. (CHOOSE k \in DOMAIN Stops : Stops[k] = Stops[n]) = n
    BY <1>1, <1>2
  <2> QED BY <2>1 DEF After
<1>3. \A n \in 1..14, k \in 1..14 : k # n => Stops[k] # Stops[n]
  BY DEF Stops
<1> QED BY <1>2, <1>3 DEF Stops

LEMMA TasksAre == Tasks = {"reap", "sessions", "trash", "persist"}
BY DEF Tasks, TaskUses

-----------------------------------------------------------------------------
LEMMA ServerStarts == ServerInit => ServerInv
<1> SUFFICES ASSUME ServerInit PROVE ServerInv
  OBVIOUS
<1>1. queue \in Seq(Clients) /\ Len(queue) <= QueueLimit + 1
  BY ServerAssumption DEF ServerInit
<1>2. worker \in [Workers -> [pc : WorkerPcs, on : SUBSET Clients]] /\ \A w \in Workers : worker[w].pc = "none"
  BY DEF ServerInit, WorkerPcs
<1>3. alive = {} /\ main = "initDatabase" /\ AliveAt(main) = {}
  BY DEF ServerInit, AliveAt
<1>4. background = "none" /\ acceptor = "none" /\ connecting = "none"
  BY DEF ServerInit
<1> QED BY <1>1, <1>2, <1>3, <1>4, TasksAre DEF ServerInv, Before, Serving, Afterwards

LEMMA MakeStep == ServerInv /\ Make => ServerInv'
<1> SUFFICES ASSUME ServerInv, Make PROVE ServerInv'
  OBVIOUS
<1>1. main \in {"initDatabase", "initUsers", "initBackend"}
  BY DEF Make, Makes
<1>2. \/ alive' = alive \cup Makes[main] /\ main' = After(Starts, main)
      \/ main' = "failed" /\ UNCHANGED alive
  BY DEF Make
<1>3. main' = "failed" \/ (main' \in Before /\ alive' = AliveAt(main'))
  BY <1>1, <1>2, StartOrder DEF ServerInv, Makes, Before, AliveAt, Components
<1>4. alive' \subseteq Components
  <2>1. Makes[main] \subseteq Components
    BY <1>1 DEF Makes, Components
  <2> QED BY <1>2, <2>1 DEF ServerInv
<1> QED BY <1>1, <1>3, <1>4 DEF Make, ServerInv, Before, Serving, Afterwards

LEMMA StartServerStep == ServerInv /\ StartServer => ServerInv'
<1> SUFFICES ASSUME ServerInv, StartServer PROVE ServerInv'
  OBVIOUS
<1> QED BY DEF StartServer, ServerInv, Before, Serving, Afterwards, WorkerPcs, AliveAt

LEMMA StartThreadsStep == ServerInv /\ StartThreads => ServerInv'
<1> SUFFICES ASSUME ServerInv, StartThreads PROVE ServerInv'
  OBVIOUS
<1> QED BY StartOrder, TasksAre DEF StartThreads, ServerInv, Before, Serving, Afterwards, AliveAt

LEMMA StopStep == ServerInv /\ Stop => ServerInv'
<1> SUFFICES ASSUME ServerInv, Stop PROVE ServerInv'
  OBVIOUS
<1>1. main' = "joinBackground"
  BY DEF Stop, Stops
<1> QED BY <1>1 DEF Stop, ServerInv, Before, Serving, Afterwards, AliveAt

LEMMA JoinsStep == ServerInv /\ (JoinBackground \/ CloseListener \/ NotifyAll) => ServerInv'
<1> SUFFICES ASSUME ServerInv, JoinBackground \/ CloseListener \/ NotifyAll PROVE ServerInv'
  OBVIOUS
<1>1. CASE JoinBackground
  BY <1>1, StopOrder, TasksAre DEF JoinBackground, ServerInv, Before, Serving, Afterwards, AliveAt
<1>2. CASE CloseListener
  BY <1>2, StopOrder, TasksAre DEF CloseListener, ServerInv, Before, Serving, Afterwards, AliveAt
<1>3. CASE NotifyAll
  <2>1. worker' \in [Workers -> [pc : WorkerPcs, on : SUBSET Clients]]
    BY <1>3 DEF NotifyAll, Woken, ServerInv, WorkerPcs
  <2> QED BY <1>3, <2>1, StopOrder, TasksAre DEF NotifyAll, ServerInv, Before, Serving, Afterwards, AliveAt
<1> QED BY <1>1, <1>2, <1>3

LEMMA JoinServerStep == ServerInv /\ (JoinServer \/ ClearQueue) => ServerInv'
<1> SUFFICES ASSUME ServerInv, JoinServer \/ ClearQueue PROVE ServerInv'
  OBVIOUS
<1>1. CASE JoinServer
  BY <1>1, StopOrder, TasksAre DEF JoinServer, ServerInv, Before, Serving, Afterwards, AliveAt
<1>2. CASE ClearQueue
  <2>1. queue' \in Seq(Clients) /\ Len(queue') <= QueueLimit + 1
    BY <1>2, ServerAssumption DEF ClearQueue
  <2> QED BY <1>2, <2>1, StopOrder, TasksAre DEF ClearQueue, ServerInv, Before, Serving, Afterwards, AliveAt
<1> QED BY <1>1, <1>2

LEMMA UnmakeStep == ServerInv /\ Unmake => ServerInv'
<1> SUFFICES ASSUME ServerInv, Unmake PROVE ServerInv'
  OBVIOUS
<1>1. main \in {"db", "users", "backend", "engine", "uploads", "vfs", "disconnectAll"}
  BY DEF Unmake, Components
<1>2. main' \in Afterwards /\ alive' = AliveAt(main') /\ alive' \subseteq Components
  BY <1>1, StopOrder DEF Unmake, ServerInv, AliveAt, Components, Afterwards
<1> QED BY <1>1, <1>2, TasksAre DEF Unmake, ServerInv, Before, Serving, Afterwards

\* Threads of the server and the background thread: nothing they do moves main.
LEMMA ThreadsStep ==
    ASSUME ServerInv, UNCHANGED <<main, alive>>,
           worker' \in [Workers -> [pc : WorkerPcs, on : SUBSET Clients]],
           \A w \in Workers : worker[w].pc \in {"none", "exited"} => worker'[w] = worker[w],
           \/ background' = background
           \/ background \notin {"none", "exited"} /\ background' \in {"sleep", "exited"} \cup Tasks,
           queue' \in Seq(Clients), Len(queue') <= QueueLimit + 1,
           acceptor' \in {"none", "loop", "accept", "push", "exited"},
           connecting' \in {"none", "connect", "done"}
    PROVE  ServerInv'
BY TasksAre DEF ServerInv, Before, Serving, Afterwards

LEMMA QueueStep ==
    ASSUME ServerInv
    PROVE  /\ \A c \in Clients : Len(queue) <= QueueLimit =>
                 Append(queue, c) \in Seq(Clients) /\ Len(Append(queue, c)) <= QueueLimit + 1
           /\ queue # <<>> => /\ Tail(queue) \in Seq(Clients) /\ Len(Tail(queue)) <= QueueLimit + 1
                              /\ Head(queue) \in Clients
<1>1. queue \in Seq(Clients) /\ Len(queue) <= QueueLimit + 1 /\ QueueLimit \in Nat
  BY ServerAssumption DEF ServerInv
<1> DEFINE S == Clients
<1>2. queue \in Seq(S)
  BY <1>1
<1> HIDE DEF S
<1>3. \A c \in S : Append(queue, c) \in Seq(S) /\ Len(Append(queue, c)) = Len(queue) + 1
  BY <1>2, AppendProperties
<1>4. queue # <<>> => Tail(queue) \in Seq(S) /\ Len(Tail(queue)) = Len(queue) - 1 /\ Head(queue) \in S
  BY <1>2, HeadTailProperties
<1> QED BY <1>1, <1>3, <1>4 DEF S

\* A step of one worker.
LEMMA WorkerGoes ==
    ASSUME ServerInv, NEW w \in Workers, NEW x \in [pc : WorkerPcs, on : SUBSET Clients],
           worker[w].pc \notin {"none", "exited"}, worker' = [worker EXCEPT ![w] = x],
           UNCHANGED <<main, alive, background, acceptor, connecting>>,
           UNCHANGED queue \/ (queue # <<>> /\ queue' = Tail(queue))
    PROVE  ServerInv'
<1>1. worker' \in [Workers -> [pc : WorkerPcs, on : SUBSET Clients]]
      /\ \A v \in Workers : worker[v].pc \in {"none", "exited"} => worker'[v] = worker[v]
  BY DEF ServerInv
<1>2. queue' \in Seq(Clients) /\ Len(queue') <= QueueLimit + 1
  BY QueueStep DEF ServerInv
<1> QED BY <1>1, <1>2, ThreadsStep DEF ServerInv

LEMMA WorkerStepKeeps ==
    ASSUME ServerInv, NEW w \in Workers, WorkerStep(w) PROVE ServerInv'
<1>0. worker[w] \in [pc : WorkerPcs, on : SUBSET Clients]
  BY DEF ServerInv
<1>1. \A pc \in WorkerPcs : [worker[w] EXCEPT !.pc = pc] \in [pc : WorkerPcs, on : SUBSET Clients]
  BY <1>0
<1>2. ASSUME NEW pc \in WorkerPcs, worker' = [worker EXCEPT ![w].pc = pc]
      PROVE  worker' = [worker EXCEPT ![w] = [worker[w] EXCEPT !.pc = pc]]
  BY <1>2 DEF ServerInv
<1>3. CASE Take(w)
  <2>1. [pc |-> "between", on |-> {Head(queue)}] \in [pc : WorkerPcs, on : SUBSET Clients]
    BY <1>3, QueueStep DEF Take, WorkerPcs
  <2> QED BY <1>3, <2>1, WorkerGoes DEF Take
<1>4. CASE HangUp(w)
  <2>1. [pc |-> "loop", on |-> {}] \in [pc : WorkerPcs, on : SUBSET Clients]
    BY DEF WorkerPcs
  <2> QED BY <1>4, <2>1, WorkerGoes DEF HangUp
<1>5. CASE WorkerLoop(w) \/ Wait(w) \/ WaitEnds(w) \/ Request(w) \/ Respond1(w)
  <2>1. \E pc \in WorkerPcs : worker' = [worker EXCEPT ![w].pc = pc]
    BY <1>5 DEF WorkerLoop, Wait, WaitEnds, Request, Respond1, WorkerPcs
  <2>2. worker[w].pc \notin {"none", "exited"} /\ UNCHANGED <<main, alive, background, acceptor, connecting, queue>>
    BY <1>5 DEF WorkerLoop, Wait, WaitEnds, Request, Respond1
  <2> QED BY <1>1, <1>2, <2>1, <2>2, WorkerGoes
<1> QED BY <1>3, <1>4, <1>5 DEF WorkerStep

LEMMA OthersStep ==
    ASSUME ServerInv, AcceptorStep \/ BackgroundLoop \/ ConnectAccounts \/ \E c \in Clients : Connect(c)
    PROVE  ServerInv'
<1>1. CASE AcceptLoop \/ BackgroundLoop \/ ConnectAccounts \/ \E c \in Clients : Connect(c)
  <2>1. UNCHANGED <<main, alive, worker, queue>> /\ acceptor' \in {"none", "loop", "accept", "push", "exited"}
        /\ connecting' \in {"none", "connect", "done"}
    BY <1>1 DEF AcceptLoop, BackgroundLoop, ConnectAccounts, Connect, ServerInv
  <2>2. \/ background' = background
        \/ background \notin {"none", "exited"} /\ background' \in {"sleep", "exited"} \cup Tasks
    <3>1. DOMAIN TaskUses = Tasks
      BY DEF Tasks
    <3> QED BY <1>1, <3>1, TasksAre DEF AcceptLoop, BackgroundLoop, ConnectAccounts, Connect
  <2> QED BY <2>1, <2>2, ThreadsStep DEF ServerInv
<1>2. CASE \E c \in Clients : Accept(c)
  <2>1. queue' \in Seq(Clients) /\ Len(queue') <= QueueLimit + 1
    BY <1>2, QueueStep, ServerAssumption DEF Accept, ServerInv
  <2>2. UNCHANGED <<main, alive, worker, background, connecting>> /\ acceptor' \in {"loop", "push"}
    BY <1>2 DEF Accept
  <2> QED BY <2>1, <2>2, ThreadsStep DEF ServerInv
<1>3. CASE NotifyOne
  <2>1. worker' \in [Workers -> [pc : WorkerPcs, on : SUBSET Clients]]
        /\ \A v \in Workers : worker[v].pc \in {"none", "exited"} => worker'[v] = worker[v]
    BY <1>3 DEF NotifyOne, Woken, ServerInv, WorkerPcs
  <2>2. UNCHANGED <<main, alive, queue, background, connecting>> /\ acceptor' = "loop"
    BY <1>3 DEF NotifyOne
  <2> QED BY <2>1, <2>2, ThreadsStep DEF ServerInv
<1> QED BY <1>1, <1>2, <1>3 DEF AcceptorStep

LEMMA ServerStep == ServerInv /\ [ServerNext]_serverVars => ServerInv'
<1>1. ServerInv /\ UNCHANGED serverVars => ServerInv'
  BY DEF serverVars, ServerInv
<1> QED BY <1>1, MakeStep, StartServerStep, StartThreadsStep, StopStep, JoinsStep, JoinServerStep, UnmakeStep,
           WorkerStepKeeps, OthersStep DEF ServerNext, StartOrStop

\* Every step of start() and stop(), and every thread, is one there is.
THEOREM ServerTyped == ServerSpec => []ServerTypeOK
<1>1. ServerInv => ServerTypeOK
  <2>1. Within(Starts) \cup Within(Stops) = Before \cup Serving \cup Afterwards
    <3>1. Within(Starts) = Before \cup {"background", "connectAll", "up"}
      BY DEF Within, Starts, Before
    <3>2. Within(Stops) = {"joinBackground", "closeListener", "notify", "joinAcceptor", "joinWorkers"} \cup Afterwards
      BY DEF Within, Stops, Afterwards
    <3> QED BY <3>1, <3>2 DEF Serving
  <2> QED BY <2>1 DEF ServerInv, ServerTypeOK, WorkerPcs, Tasks
<1> QED BY <1>1, ServerStarts, ServerStep, PTL DEF ServerSpec

\* Whatever a thread does, its component has been made and has not been destroyed:
\* stop() and a start() that failed join the threads that use a component before they let
\* go of it.
THEOREM UsedIsAlive == ServerSpec => []UsesAlive
<1>1. ServerInv => UsesAlive
  <2> SUFFICES ASSUME ServerInv PROVE UsesAlive
    OBVIOUS
  <2>1. \A w \in Workers : worker[w].pc = "handling" => alive = Components
    BY DEF ServerInv, Before, Serving, Afterwards, AliveAt
  <2>2. background \in Tasks => alive = Components
    BY DEF ServerInv, AliveAt
  <2>3. background \in Tasks => TaskUses[background] \subseteq Components
    BY TasksAre DEF TaskUses, Components
  <2>4. ASSUME main \in DOMAIN StopUses PROVE StopUses[main] \subseteq alive
    <3>1. main \in {"disconnectAll", "uploads", "backend"}
      BY <2>4 DEF StopUses
    <3> QED BY <3>1 DEF ServerInv, StopUses, AliveAt, Components
  <2> QED BY <2>1, <2>2, <2>3, <2>4 DEF UsesAlive, HandlerUses, Tasks
<1> QED BY <1>1, ServerStarts, ServerStep, PTL DEF ServerSpec

-----------------------------------------------------------------------------
(* Users and their sessions: the invariant *)

Changes == {"password", "lock", "unlock", "promote", "demote"}
Words   == Passwords \cup {""}

RowRec     == [on : BOOLEAN, used : BOOLEAN, password : Words, admin : BOOLEAN, enabled : BOOLEAN]
SessionRec == [user : Ids \cup {NoUser}, password : Words, expired : BOOLEAN]
CallRec    == [op : {"idle", "login", "delete"} \cup Changes,
               pc : {"", "session", "row", "read", "write", "sessions", "count", "delete"},
               user : Ids \cup {NoUser}, row : RowRec, read : RowRec, token : {NoUser},
               admins : SUBSET Ids, value : Words]

UsersTypes ==
    /\ users \in [Ids -> RowRec] /\ sessions \in [Tokens -> SessionRec] /\ call \in [Threads -> CallRec]
    /\ told \in [Ids -> [password : Words, enabled : BOOLEAN]]
    /\ races \subseteq {"row", "demoted", "login", "sessions kept", "admins"}
    /\ calls \in 0..MaxCalls /\ failed \in 0..MaxFailed

RowSound(r) == r.on => r.used /\ r.password \in Passwords

\* What a request has read, and what it will write of it.
CallSound(c) ==
    /\ c.op # "idle" => c.user \in Ids
    /\ c.pc \in {"session", "row"} => c.op = "login"
    /\ c.pc = "read" => c.op \in Changes /\ (c.op = "password" => c.value \in Passwords)
    /\ c.pc = "write" => /\ c.op \in Changes /\ (c.op = "password" => c.value \in Passwords)
                         /\ c.row = Changed(c, c.read)
    /\ c.pc = "sessions" => c.op \in {"password", "lock", "delete"}
    /\ c.pc \in {"count", "delete"} => c.op = "delete"
    /\ c.op = "login" => c.row = c.read /\ c.read.enabled
    /\ c.op = "login" \/ c.pc = "write" => c.read.on /\ RowSound(c.read)
    /\ c.op = "delete" /\ c.pc \in {"sessions", "delete"} =>
          (c.user \in c.admins => Cardinality(c.admins) > 1)

\* Ids are never used again: what a request or a session names has been a user.
KnownUsers ==
    /\ \A h \in Threads : call[h].op # "idle" => users[call[h].user].used
    /\ \A t \in Tokens : sessions[t].user \in Ids => users[sessions[t].user].used

UsersShape ==
    /\ UsersTypes /\ KnownUsers
    /\ \A u \in Ids : RowSound(users[u])
    /\ \A h \in Threads : CallSound(call[h])

NoRace == races \cap {"row", "login", "sessions kept"} = {}
Ending(u) == \E h \in Threads : /\ call[h].pc = "sessions" /\ call[h].op \in {"password", "lock"}
                                /\ call[h].user = u

LastTold == NoRace => \A u \in Existing : /\ users[u].password = told[u].password
                                          /\ users[u].enabled = told[u].enabled

SessionFits(t) == LET u == users[sessions[t].user]
                  IN sessions[t].password = u.password /\ u.enabled

\* Between a change and the end of the sessions they may be out of date.
SessionsCurrent ==
    NoRace => \A t \in Tokens :
        sessions[t].user \in Existing => Ending(sessions[t].user) \/ SessionFits(t)

SomeAdmin == races \cap {"row", "demoted", "admins"} = {} => Admins # {}

UsersInv == UsersShape /\ LastTold /\ SessionsCurrent /\ SomeAdmin

-----------------------------------------------------------------------------
(* Requests *)

LEMMA IdleIsCall == Idle \in CallRec /\ CallSound(Idle)
BY UsersAssumption DEF Idle, CallRec, RowRec, NoRow, Words, CallSound

\* A request that goes on: what it is now is sound, and so are the others.
LEMMA GoesOn ==
    ASSUME UsersShape, NEW h \in Threads, NEW c \in CallRec, Go(h, c), CallSound(c),
           c.op # "idle" => users'[c.user].used,
           \A u \in Ids : users[u].used => users'[u].used
    PROVE  /\ call' \in [Threads -> CallRec]
           /\ \A k \in Threads : CallSound(call'[k])
           /\ \A k \in Threads : call'[k].op # "idle" => users'[call'[k].user].used
<1>1. call' \in [Threads -> CallRec] /\ call'[h] = c /\ \A k \in Threads \ {h} : call'[k] = call[k]
  BY DEF Go, UsersShape, UsersTypes
<1>2. \A k \in Threads : CallSound(call'[k])
  BY <1>1 DEF UsersShape
<1>3. ASSUME NEW k \in Threads, call'[k].op # "idle" PROVE users'[call'[k].user].used
  <2>1. CASE k = h
    BY <1>1, <1>3, <2>1
  <2>2. CASE k # h
    <3>1. call[k].op # "idle" /\ call'[k] = call[k]
      BY <1>1, <1>3, <2>2
    <3>2. call[k].user \in Ids /\ users[call[k].user].used
      BY <3>1 DEF UsersShape, KnownUsers, CallSound
    <3> QED BY <3>1, <3>2
  <2> QED BY <2>1, <2>2
<1> QED BY <1>1, <1>2, <1>3

LEMMA Ended ==
    ASSUME UsersShape, NEW h \in Threads, End(h), \A u \in Ids : users[u].used => users'[u].used
    PROVE  /\ call' \in [Threads -> CallRec]
           /\ \A k \in Threads : CallSound(call'[k])
           /\ \A k \in Threads : call'[k].op # "idle" => users'[call'[k].user].used
           /\ call' = [call EXCEPT ![h] = Idle]
<1>1. Idle.op = "idle"
  BY DEF Idle
<1> QED BY <1>1, GoesOn, IdleIsCall DEF End, Go

LEMMA Begins ==
    ASSUME UsersShape, NEW h \in Threads, NEW c \in CallRec, Begin(h, c), CallSound(c),
           c.op # "idle" => users[c.user].used
    PROVE  UsersShape' /\ call' = [call EXCEPT ![h] = c]
<1>1. UNCHANGED <<users, sessions, told, races, failed>> /\ Go(h, c) /\ calls' = calls + 1 /\ calls < MaxCalls
  BY DEF Begin
<1>2. /\ call' \in [Threads -> CallRec]
      /\ \A k \in Threads : CallSound(call'[k])
      /\ \A k \in Threads : call'[k].op # "idle" => users'[call'[k].user].used
  BY <1>1, GoesOn
<1>3. calls' \in 0..MaxCalls
  <2>1. MaxCalls \in Nat /\ calls \in 0..MaxCalls
    BY UsersAssumption DEF UsersShape, UsersTypes
  <2> QED BY <1>1, <2>1
<1>4. UsersTypes'
  BY <1>1, <1>2, <1>3 DEF UsersShape, UsersTypes
<1> QED BY <1>1, <1>2, <1>4 DEF UsersShape, KnownUsers, Go

LEMMA LoginShape ==
    ASSUME UsersShape, NEW h \in Threads, Login(h) PROVE UsersShape'
<1>1. PICK u \in Existing : /\ users[u].enabled
                            /\ Begin(h, [Idle EXCEPT !.op = "login", !.pc = "session", !.user = u,
                                            !.row = users[u], !.read = users[u]])
  BY DEF Login
<1> DEFINE c == [Idle EXCEPT !.op = "login", !.pc = "session", !.user = u, !.row = users[u], !.read = users[u]]
<1>2. u \in Ids /\ users[u].on /\ users[u] \in RowRec /\ RowSound(users[u])
  BY DEF Existing, UsersShape, UsersTypes
<1>3. c \in CallRec
  BY <1>2, IdleIsCall DEF CallRec, Idle
<1>4. CallSound(c) /\ c.user = u
  BY <1>1, <1>2 DEF CallSound, Idle
<1>5. users[u].used
  BY <1>2 DEF RowSound
<1> HIDE DEF c
<1> QED BY <1>1, <1>3, <1>4, <1>5, Begins DEF c

LEMMA AskChangeShape ==
    ASSUME UsersShape, NEW h \in Threads, AskChange(h) PROVE UsersShape'
<1>1. PICK u \in Existing, op \in Changes, v \in Words :
          /\ op = "password" => v \in Passwords
          /\ Begin(h, [Idle EXCEPT !.op = op, !.pc = "read", !.user = u, !.value = v])
  <2>1. PICK u \in Existing :
        \/ \E p \in Passwords : Begin(h, [Idle EXCEPT !.op = "password", !.pc = "read", !.user = u, !.value = p])
        \/ \E on \in BOOLEAN : Begin(h, [Idle EXCEPT !.op = IF on THEN "unlock" ELSE "lock", !.pc = "read", !.user = u])
        \/ \E on \in BOOLEAN : Begin(h, [Idle EXCEPT !.op = IF on THEN "promote" ELSE "demote", !.pc = "read", !.user = u])
    BY DEF AskChange
  <2>2. CASE \E p \in Passwords : Begin(h, [Idle EXCEPT !.op = "password", !.pc = "read", !.user = u, !.value = p])
    BY <2>2 DEF Changes, Words
  <2>3. ASSUME NEW op \in Changes \ {"password"}, Begin(h, [Idle EXCEPT !.op = op, !.pc = "read", !.user = u])
        PROVE  \E v \in Words : Begin(h, [Idle EXCEPT !.op = op, !.pc = "read", !.user = u, !.value = v])
    <3>1. [Idle EXCEPT !.op = op, !.pc = "read", !.user = u]
          = [Idle EXCEPT !.op = op, !.pc = "read", !.user = u, !.value = ""]
      <4> DEFINE i == Idle
      <4>1. i.value = "" /\ i \in CallRec
        BY IdleIsCall DEF Idle
      <4> HIDE DEF i
      <4>2. [i EXCEPT !.op = op, !.pc = "read", !.user = u]
            = [i EXCEPT !.op = op, !.pc = "read", !.user = u, !.value = ""]
        BY <4>1 DEF CallRec
      <4> QED BY <4>2 DEF i
    <3> QED BY <2>3, <3>1 DEF Words
  <2> QED BY <2>1, <2>2, <2>3 DEF Changes
<1> DEFINE c == [Idle EXCEPT !.op = op, !.pc = "read", !.user = u, !.value = v]
<1>2. u \in Ids /\ users[u].on /\ users[u].used
  BY DEF Existing, UsersShape, UsersTypes, RowSound
<1>3. c \in CallRec
  BY <1>2, IdleIsCall DEF CallRec, Idle
<1>4. CallSound(c) /\ c.user = u
  BY <1>1, <1>2 DEF CallSound, Idle, Changes
<1> HIDE DEF c
<1> QED BY <1>1, <1>2, <1>3, <1>4, Begins DEF c

LEMMA AskDeleteShape ==
    ASSUME UsersShape, NEW h \in Threads, AskDelete(h) PROVE UsersShape'
<1>1. PICK u \in Existing : Begin(h, [Idle EXCEPT !.op = "delete", !.pc = "count", !.user = u])
  BY DEF AskDelete
<1> DEFINE c == [Idle EXCEPT !.op = "delete", !.pc = "count", !.user = u]
<1>2. u \in Ids /\ users[u].on /\ users[u].used
  BY DEF Existing, UsersShape, UsersTypes, RowSound
<1>3. c \in CallRec
  BY <1>2, IdleIsCall DEF CallRec, Idle
<1>4. CallSound(c) /\ c.user = u
  BY <1>2 DEF CallSound, Idle, Changes
<1> HIDE DEF c
<1> QED BY <1>1, <1>2, <1>3, <1>4, Begins DEF c

-----------------------------------------------------------------------------
(* Steps of requests *)

\* A row that is written: nobody is forgotten.
LEMMA WrittenShape ==
    ASSUME UsersShape, NEW h \in Threads, NEW row \in RowRec, RowSound(row), row.used, Written(h, row)
    PROVE  /\ users' \in [Ids -> RowRec] /\ \A u \in Ids : RowSound(users'[u])
           /\ \A u \in Ids : users[u].used => users'[u].used
           /\ races' \subseteq {"row", "demoted", "login", "sessions kept", "admins"}
BY DEF Written, UsersShape, UsersTypes

\* Sessions that stay or go name nobody new.
LEMMA SessionsShape ==
    ASSUME UsersShape, sessions' \in [Tokens -> SessionRec],
           \A t \in Tokens : sessions'[t].user \in Ids => sessions'[t].user = sessions[t].user,
           \A u \in Ids : users[u].used => users'[u].used
    PROVE  \A t \in Tokens : sessions'[t].user \in Ids => users'[sessions'[t].user].used
BY DEF UsersShape, KnownUsers

LEMMA NoSessionType == NoSession \in SessionRec /\ NoSession.user = NoUser /\ NoUser \notin Ids
BY UsersAssumption DEF NoSession, SessionRec, Words

LEMMA CreateSessionShape ==
    ASSUME UsersShape, NEW h \in Threads, CreateSession(h) PROVE UsersShape'
<1> DEFINE c == call[h]
           d == [c EXCEPT !.pc = "row"]
           r == c.read
<1>1. c \in CallRec /\ CallSound(c) /\ c.op = "login" /\ c.pc = "session"
  BY DEF CreateSession, At, UsersShape, UsersTypes
<1>2. PICK t \in Tokens :
          sessions' = [sessions EXCEPT ![t] = [user |-> c.user, password |-> r.password, expired |-> FALSE]]
  BY DEF CreateSession
<1>3. c.user \in Ids /\ users[c.user].used /\ r \in RowRec /\ r.password \in Words
  BY <1>1 DEF UsersShape, KnownUsers, CallSound, CallRec, RowRec
<1>4. Go(h, d) /\ UNCHANGED <<users, told, calls, failed>>
  BY DEF CreateSession, To
<1>5. d \in CallRec /\ d.user = c.user
  BY <1>1 DEF CallRec
<1>6. CallSound(d)
  BY <1>1 DEF CallSound, CallRec
<1>7. /\ call' \in [Threads -> CallRec]
      /\ \A k \in Threads : CallSound(call'[k])
      /\ \A k \in Threads : call'[k].op # "idle" => users'[call'[k].user].used
  <2> HIDE DEF d
  <2> QED BY <1>3, <1>4, <1>5, <1>6, GoesOn
<1>8. sessions' \in [Tokens -> SessionRec]
  BY <1>2, <1>3 DEF UsersShape, UsersTypes, SessionRec
<1>9. \A k \in Tokens : sessions'[k].user \in Ids => users'[sessions'[k].user].used
  BY <1>2, <1>3, <1>4 DEF UsersShape, UsersTypes, KnownUsers
<1>10. races' \subseteq {"row", "demoted", "login", "sessions kept", "admins"}
  BY DEF CreateSession, UsersShape, UsersTypes
<1> HIDE DEF c, d, r
<1> QED BY <1>4, <1>7, <1>8, <1>9, <1>10 DEF UsersShape, UsersTypes, KnownUsers

\* Calls that fail are counted.
LEMMA FailedCounts ==
    ASSUME UsersShape, UNCHANGED failed \/ (failed < MaxFailed /\ failed' = failed + 1)
    PROVE  failed' \in 0..MaxFailed
<1>1. MaxFailed \in Nat /\ failed \in 0..MaxFailed
  BY UsersAssumption DEF UsersShape, UsersTypes
<1> QED BY <1>1

LEMMA TouchUserShape ==
    ASSUME UsersShape, NEW h \in Threads, TouchUser(h) PROVE UsersShape'
<1>1. call[h] \in CallRec /\ CallSound(call[h]) /\ call[h].op = "login"
  BY DEF TouchUser, At, UsersShape, UsersTypes
<1>2. call[h].row \in RowRec /\ RowSound(call[h].row) /\ call[h].row.used
  BY <1>1 DEF CallSound, CallRec, RowSound
<1>3. End(h) /\ UNCHANGED <<sessions, told, calls>>
  BY DEF TouchUser
<1>4. failed' \in 0..MaxFailed
  BY FailedCounts DEF TouchUser
<1>5. /\ users' \in [Ids -> RowRec] /\ \A u \in Ids : RowSound(users'[u])
      /\ \A u \in Ids : users[u].used => users'[u].used
      /\ races' \subseteq {"row", "demoted", "login", "sessions kept", "admins"}
  <2>1. CASE Written(h, call[h].row)
    BY <1>2, <2>1, WrittenShape
  <2>2. CASE UNCHANGED <<users, races>>
    BY <2>2 DEF UsersShape, UsersTypes
  <2> QED BY <2>1, <2>2 DEF TouchUser
<1>6. \A t \in Tokens : sessions'[t].user \in Ids => users'[sessions'[t].user].used
  BY <1>3, <1>5, SessionsShape DEF UsersShape, UsersTypes
<1> QED BY <1>3, <1>4, <1>5, <1>6, Ended DEF UsersShape, UsersTypes, KnownUsers

LEMMA ChangedType ==
    ASSUME NEW c \in CallRec, c.op = "password" => c.value \in Passwords, NEW row \in RowRec,
           row.on, RowSound(row)
    PROVE  Changed(c, row) \in RowRec /\ RowSound(Changed(c, row)) /\ Changed(c, row).used /\ Changed(c, row).on
<1>1. CASE c.op = "password"
  BY <1>1 DEF Changed, RowRec, RowSound, Words, CallRec
<1>2. CASE c.op \in {"lock", "unlock"}
  BY <1>2 DEF Changed, RowRec, RowSound, Words, CallRec
<1>3. CASE c.op \notin {"password", "lock", "unlock"}
  BY <1>3 DEF Changed, RowRec, RowSound, Words, CallRec
<1> QED BY <1>1, <1>2, <1>3

LEMMA ReadUserShape ==
    ASSUME UsersShape, NEW h \in Threads, ReadUser(h) PROVE UsersShape'
<1> DEFINE c == call[h]
           u == c.user
           d == [c EXCEPT !.pc = "write", !.read = users[u], !.row = Changed(c, users[u])]
<1>1. c \in CallRec /\ CallSound(c) /\ c.pc = "read"
  BY DEF ReadUser, UsersShape, UsersTypes
<1>2. c.op \in Changes /\ u \in Ids /\ users[u].used /\ users[u] \in RowRec /\ RowSound(users[u])
  BY <1>1 DEF CallSound, Changes, UsersShape, UsersTypes, KnownUsers
<1>3. UNCHANGED <<users, sessions, told, races, calls, failed>>
  BY DEF ReadUser
<1>4. /\ call' \in [Threads -> CallRec]
      /\ \A k \in Threads : CallSound(call'[k])
      /\ \A k \in Threads : call'[k].op # "idle" => users'[call'[k].user].used
  <2>1. CASE users[u].on
    <3>1. Go(h, d)
      BY <2>1 DEF ReadUser
    <3>2. Changed(c, users[u]) \in RowRec
      BY <1>1, <1>2, <2>1, ChangedType DEF CallSound
    <3>3. d \in CallRec /\ d.user = u /\ d.op = c.op /\ d.value = c.value /\ d.pc = "write"
          /\ d.read = users[u] /\ d.row = Changed(c, users[u])
      BY <1>1, <1>2, <3>2 DEF CallRec
    <3>4. Changed(d, users[u]) = Changed(c, users[u])
      BY <3>3 DEF Changed
    <3>5. CallSound(d)
      <4> HIDE DEF d
      <4> QED BY <1>1, <1>2, <2>1, <3>3, <3>4 DEF CallSound, Changes
    <3> HIDE DEF d
    <3> QED BY <1>2, <1>3, <3>1, <3>3, <3>5, GoesOn
  <2>2. CASE ~users[u].on
    BY <1>3, <2>2, Ended DEF ReadUser
  <2> QED BY <2>1, <2>2
<1> HIDE DEF c, d, u
<1> QED BY <1>3, <1>4 DEF UsersShape, UsersTypes, KnownUsers

LEMMA WriteUserShape ==
    ASSUME UsersShape, NEW h \in Threads, WriteUser(h) PROVE UsersShape'
<1> DEFINE c == call[h]
           d == [c EXCEPT !.pc = "sessions"]
<1>1. c \in CallRec /\ CallSound(c) /\ c.pc = "write"
  BY DEF WriteUser, UsersShape, UsersTypes
<1>2. c.op \in Changes /\ c.user \in Ids /\ users[c.user].used
  BY <1>1 DEF CallSound, Changes, UsersShape, KnownUsers
<1>3. c.row \in RowRec /\ RowSound(c.row) /\ c.row.used
  <2>1. c.read \in RowRec /\ c.read.on /\ RowSound(c.read) /\ c.row = Changed(c, c.read)
    BY <1>1 DEF CallSound, CallRec
  <2> QED BY <1>1, <2>1, ChangedType DEF CallSound
<1>4. UNCHANGED <<sessions, calls>>
  BY DEF WriteUser
<1>5. failed' \in 0..MaxFailed
  BY FailedCounts DEF WriteUser
<1>6. /\ users' \in [Ids -> RowRec] /\ \A u \in Ids : RowSound(users'[u])
      /\ \A u \in Ids : users[u].used => users'[u].used
      /\ races' \subseteq {"row", "demoted", "login", "sessions kept", "admins"}
  <2>1. CASE Written(h, c.row)
    BY <1>3, <2>1, WrittenShape
  <2>2. CASE UNCHANGED <<users, races>>
    BY <2>2 DEF UsersShape, UsersTypes
  <2> QED BY <2>1, <2>2 DEF WriteUser
<1>7. /\ call' \in [Threads -> CallRec]
      /\ \A k \in Threads : CallSound(call'[k])
      /\ \A k \in Threads : call'[k].op # "idle" => users'[call'[k].user].used
  <2>1. CASE Go(h, d) /\ c.op \in {"password", "lock"}
    <3>1. d \in CallRec /\ d.user = c.user /\ d.op = c.op /\ d.pc = "sessions"
      BY <1>1 DEF CallRec
    <3>2. CallSound(d)
      <4> HIDE DEF d
      <4> QED BY <1>1, <1>2, <2>1, <3>1 DEF CallSound
    <3> HIDE DEF d
    <3> QED BY <1>2, <1>6, <2>1, <3>1, <3>2, GoesOn
  <2>2. CASE End(h)
    BY <1>6, <2>2, Ended
  <2> QED BY <2>1, <2>2 DEF WriteUser, To
<1>8. told' \in [Ids -> [password : Words, enabled : BOOLEAN]]
  <2>1. told \in [Ids -> [password : Words, enabled : BOOLEAN]] /\ c.value \in Words /\ c.row.enabled \in BOOLEAN
    BY <1>1, <1>3 DEF UsersShape, UsersTypes, CallRec, RowRec
  <2>2. CASE UNCHANGED told
    BY <2>1, <2>2
  <2> DEFINE x == told[c.user]
             y == CASE c.op = "password" -> [x EXCEPT !.password = c.value]
                    [] c.op \in {"lock", "unlock"} -> [x EXCEPT !.enabled = c.row.enabled]
                    [] OTHER -> x
  <2>3. CASE told' = [told EXCEPT ![c.user] = y]
    <3>1. x \in [password : Words, enabled : BOOLEAN]
      BY <1>2, <2>1
    <3>2. y \in [password : Words, enabled : BOOLEAN]
      <4> HIDE DEF x
      <4>1. CASE c.op = "password"
        BY <2>1, <3>1, <4>1
      <4>2. CASE c.op \in {"lock", "unlock"}
        BY <2>1, <3>1, <4>2
      <4>3. CASE c.op \notin {"password", "lock", "unlock"}
        BY <3>1, <4>3
      <4> QED BY <4>1, <4>2, <4>3
    <3> HIDE DEF y
    <3> QED BY <2>1, <2>3, <3>2
  <2> QED BY <2>2, <2>3 DEF WriteUser
<1> HIDE DEF c, d
<1> QED BY <1>4, <1>5, <1>6, <1>7, <1>8 DEF UsersShape, UsersTypes, KnownUsers

LEMMA DroppedShape ==
    ASSUME UsersShape, NEW u \in Ids
    PROVE  /\ DropSessions(u) \in [Tokens -> SessionRec]
           /\ \A t \in Tokens : DropSessions(u)[t].user \in Ids
                 => DropSessions(u)[t] = sessions[t] /\ sessions[t].user # u
BY NoSessionType DEF DropSessions, UsersShape, UsersTypes

LEMMA EndSessionsShape ==
    ASSUME UsersShape, NEW h \in Threads, EndSessions(h) PROVE UsersShape'
<1> DEFINE c == call[h]
           d == [c EXCEPT !.pc = "delete"]
<1>1. c \in CallRec /\ CallSound(c) /\ c.pc = "sessions"
  BY DEF EndSessions, UsersShape, UsersTypes
<1>2. c.op \in {"password", "lock", "delete"} /\ c.user \in Ids /\ users[c.user].used
  BY <1>1 DEF CallSound, UsersShape, KnownUsers
<1>3. UNCHANGED <<users, told, calls>>
  BY DEF EndSessions
<1>4. failed' \in 0..MaxFailed
  BY FailedCounts DEF EndSessions
<1>5. /\ call' \in [Threads -> CallRec]
      /\ \A k \in Threads : CallSound(call'[k])
      /\ \A k \in Threads : call'[k].op # "idle" => users'[call'[k].user].used
  <2>1. CASE Go(h, d) /\ c.op = "delete"
    <3>1. d \in CallRec /\ d.user = c.user /\ d.op = c.op /\ d.pc = "delete" /\ d.admins = c.admins
      BY <1>1 DEF CallRec
    <3>2. CallSound(d)
      <4> HIDE DEF d
      <4> QED BY <1>1, <1>2, <2>1, <3>1 DEF CallSound
    <3> HIDE DEF d
    <3> QED BY <1>2, <1>3, <2>1, <3>1, <3>2, GoesOn
  <2>2. CASE End(h)
    BY <1>3, <2>2, Ended
  <2> QED BY <2>1, <2>2 DEF EndSessions, To
<1>6. /\ sessions' \in [Tokens -> SessionRec]
      /\ \A t \in Tokens : sessions'[t].user \in Ids => sessions'[t].user = sessions[t].user
  <2>1. CASE sessions' = DropSessions(c.user)
    BY <1>2, <2>1, DroppedShape
  <2>2. CASE UNCHANGED sessions
    BY <2>2 DEF UsersShape, UsersTypes
  <2> QED BY <2>1, <2>2 DEF EndSessions
<1>7. \A t \in Tokens : sessions'[t].user \in Ids => users'[sessions'[t].user].used
  BY <1>3, <1>6, SessionsShape
<1>8. races' \subseteq {"row", "demoted", "login", "sessions kept", "admins"}
  BY DEF EndSessions, UsersShape, UsersTypes
<1> HIDE DEF c, d
<1> QED BY <1>3, <1>4, <1>5, <1>6, <1>7, <1>8 DEF UsersShape, UsersTypes, KnownUsers

LEMMA CountAdminsShape ==
    ASSUME UsersShape, NEW h \in Threads, CountAdmins(h) PROVE UsersShape'
<1> DEFINE c == call[h]
           u == c.user
           d == [c EXCEPT !.pc = "sessions", !.admins = Admins, !.read = users[u]]
<1>1. c \in CallRec /\ CallSound(c) /\ c.pc = "count" /\ c.op = "delete"
  BY DEF CountAdmins, At, UsersShape, UsersTypes
<1>2. u \in Ids /\ users[u].used /\ users[u] \in RowRec
  BY <1>1 DEF CallSound, UsersShape, UsersTypes, KnownUsers
<1>3. UNCHANGED <<users, sessions, told, races, calls, failed>>
  BY DEF CountAdmins
<1>4. /\ call' \in [Threads -> CallRec]
      /\ \A k \in Threads : CallSound(call'[k])
      /\ \A k \in Threads : call'[k].op # "idle" => users'[call'[k].user].used
  <2>1. CASE Go(h, d) /\ (users[u].admin => Cardinality(Admins) > 1)
    <3>1. d \in CallRec /\ d.user = u /\ d.op = "delete" /\ d.pc = "sessions" /\ d.admins = Admins
      BY <1>1, <1>2 DEF CallRec, Admins, Existing
    <3>2. u \in Admins => users[u].admin
      BY DEF Admins
    <3>3. CallSound(d)
      <4> HIDE DEF d
      <4> QED BY <1>2, <2>1, <3>1, <3>2 DEF CallSound
    <3> HIDE DEF d
    <3> QED BY <1>2, <1>3, <2>1, <3>1, <3>3, GoesOn
  <2>2. CASE End(h)
    BY <1>3, <2>2, Ended
  <2> QED BY <2>1, <2>2 DEF CountAdmins
<1> HIDE DEF c, d, u
<1> QED BY <1>3, <1>4 DEF UsersShape, UsersTypes, KnownUsers

LEMMA DeleteUserShape ==
    ASSUME UsersShape, NEW h \in Threads, DeleteUser(h) PROVE UsersShape'
<1> DEFINE u == call[h].user
<1>1. NoRow(TRUE) \in RowRec /\ RowSound(NoRow(TRUE)) /\ NoRow(TRUE).used /\ ~NoRow(TRUE).on
  BY DEF NoRow, RowRec, RowSound, Words
<1>2. UNCHANGED <<sessions, told, calls>> /\ End(h)
  BY DEF DeleteUser
<1>3. failed' \in 0..MaxFailed
  BY FailedCounts DEF DeleteUser
<1>4. /\ users' \in [Ids -> RowRec] /\ \A v \in Ids : RowSound(users'[v])
      /\ \A v \in Ids : users[v].used => users'[v].used
  BY <1>1 DEF DeleteUser, UsersShape, UsersTypes
<1>5. races' \subseteq {"row", "demoted", "login", "sessions kept", "admins"}
  BY DEF DeleteUser, UsersShape, UsersTypes
<1>6. \A t \in Tokens : sessions'[t].user \in Ids => users'[sessions'[t].user].used
  BY <1>2, <1>4, SessionsShape DEF UsersShape, UsersTypes
<1> QED BY <1>2, <1>3, <1>4, <1>5, <1>6, Ended DEF UsersShape, UsersTypes, KnownUsers

-----------------------------------------------------------------------------
(* Steps without a request *)

\* What only ends sessions, or lets them expire.
EndsSome == Logout \/ SessionExpires \/ UseExpired \/ CleanupExpiredSessions

LEMMA EndsSomeEffect ==
    ASSUME UsersShape, EndsSome
    PROVE  /\ UNCHANGED <<users, call, told, races, calls, failed>>
           /\ sessions' \in [Tokens -> SessionRec]
           /\ \A t \in Tokens : sessions'[t].user \in Ids
                 => sessions'[t].user = sessions[t].user /\ sessions'[t].password = sessions[t].password
<1>1. UNCHANGED <<users, call, told, races, calls, failed>>
  BY DEF EndsSome, Logout, SessionExpires, UseExpired, CleanupExpiredSessions
<1>2. CASE Logout \/ UseExpired \/ CleanupExpiredSessions
  BY <1>2, NoSessionType DEF Logout, UseExpired, CleanupExpiredSessions, UsersShape, UsersTypes
<1>3. CASE SessionExpires
  <2>1. PICK t \in Tokens : sessions' = [sessions EXCEPT ![t].expired = TRUE]
    BY <1>3 DEF SessionExpires
  <2>2. sessions \in [Tokens -> SessionRec]
    BY DEF UsersShape, UsersTypes
  <2>3. /\ [sessions[t] EXCEPT !.expired = TRUE] \in SessionRec
        /\ [sessions[t] EXCEPT !.expired = TRUE].user = sessions[t].user
        /\ [sessions[t] EXCEPT !.expired = TRUE].password = sessions[t].password
    BY <2>2 DEF SessionRec
  <2> QED BY <1>1, <2>1, <2>2, <2>3
<1> QED BY <1>1, <1>2, <1>3 DEF EndsSome

LEMMA EndsSomeShape == UsersShape /\ EndsSome => UsersShape'
<1> SUFFICES ASSUME UsersShape, EndsSome PROVE UsersShape'
  OBVIOUS
<1> QED BY EndsSomeEffect, SessionsShape DEF UsersShape, UsersTypes, KnownUsers

LEMMA CreateUserEffect ==
    ASSUME UsersShape, CreateUser
    PROVE  \E u \in Ids, p \in Passwords, admin \in BOOLEAN :
              /\ ~users[u].used
              /\ users' = [users EXCEPT ![u] = [on |-> TRUE, used |-> TRUE, password |-> p, admin |-> admin,
                                                enabled |-> TRUE]]
              /\ told' = [told EXCEPT ![u] = [password |-> p, enabled |-> TRUE]]
              /\ UNCHANGED <<sessions, call, races, failed>>
BY DEF CreateUser

LEMMA CreateUserShape == UsersShape /\ CreateUser => UsersShape'
<1> SUFFICES ASSUME UsersShape, CreateUser PROVE UsersShape'
  OBVIOUS
<1>1. PICK u \in Ids, p \in Passwords, admin \in BOOLEAN :
        /\ users' = [users EXCEPT ![u] = [on |-> TRUE, used |-> TRUE, password |-> p, admin |-> admin,
                                          enabled |-> TRUE]]
        /\ told' = [told EXCEPT ![u] = [password |-> p, enabled |-> TRUE]]
        /\ UNCHANGED <<sessions, call, races, failed>>
  BY CreateUserEffect
<1>2. calls' \in 0..MaxCalls
  <2>1. MaxCalls \in Nat /\ calls \in 0..MaxCalls
    BY UsersAssumption DEF UsersShape, UsersTypes
  <2> QED BY <2>1 DEF CreateUser
<1>3. /\ users' \in [Ids -> RowRec] /\ \A v \in Ids : RowSound(users'[v])
      /\ \A v \in Ids : users[v].used => users'[v].used
  BY <1>1 DEF UsersShape, UsersTypes, RowRec, RowSound, Words
<1>4. told' \in [Ids -> [password : Words, enabled : BOOLEAN]]
  BY <1>1 DEF UsersShape, UsersTypes, Words
<1>5. KnownUsers'
  BY <1>1, <1>3 DEF UsersShape, UsersTypes, KnownUsers, CallSound
<1> QED BY <1>1, <1>2, <1>3, <1>4, <1>5 DEF UsersShape, UsersTypes

-----------------------------------------------------------------------------
(* What changes hold *)

\* A row written without a race is the one that was read, but for what is changed.
LEMMA WrittenEffect ==
    ASSUME UsersShape, NEW h \in Threads, NEW row, Written(h, row), "row" \notin races'
    PROVE  /\ races \subseteq races' /\ (call[h].op # "demote" \/ "demoted" \in races')
           /\ users[call[h].user].on => users[call[h].user] = call[h].read
           /\ \A u \in Ids : users'[u] = IF u = call[h].user /\ users[u].on THEN row ELSE users[u]
BY DEF Written

\* Requests that only look leave users, sessions and what was told alone.
Looks(h) == Login(h) \/ AskChange(h) \/ ReadUser(h) \/ AskDelete(h) \/ CountAdmins(h)

LEMMA LooksEffect ==
    ASSUME UsersShape, NEW h \in Threads, Looks(h)
    PROVE  /\ UNCHANGED <<users, sessions, told, races, failed>>
           /\ \E c : call' = [call EXCEPT ![h] = c]
           /\ ~(call[h].pc = "sessions" /\ call[h].op \in {"password", "lock"})
<1>1. Idle.pc = "" /\ Idle.op = "idle"
  BY DEF Idle
<1>2. UNCHANGED <<users, sessions, told, races, failed>>
  BY DEF Looks, Login, AskChange, ReadUser, AskDelete, CountAdmins, Begin
<1>3. \E c : call' = [call EXCEPT ![h] = c]
  BY DEF Looks, Login, AskChange, ReadUser, AskDelete, CountAdmins, Begin, Go, End
<1>4. ~(call[h].pc = "sessions" /\ call[h].op \in {"password", "lock"})
  BY <1>1 DEF Looks, Login, AskChange, ReadUser, AskDelete, CountAdmins, Begin, At
<1> QED BY <1>2, <1>3, <1>4

Holds == LastTold /\ SessionsCurrent /\ SomeAdmin

LEMMA EndingStays ==
    ASSUME UsersShape, NEW h \in Threads, NEW c, call' = [call EXCEPT ![h] = c],
           ~(call[h].pc = "sessions" /\ call[h].op \in {"password", "lock"}), NEW u, Ending(u)
    PROVE  Ending(u)'
<1>1. PICK k \in Threads : call[k].pc = "sessions" /\ call[k].op \in {"password", "lock"} /\ call[k].user = u
  BY DEF Ending
<1>2. call'[k] = call[k]
  BY <1>1 DEF UsersShape, UsersTypes
<1> QED BY <1>1, <1>2 DEF Ending

\* What leaves the rows and what was told alone, and only ends sessions or makes one
\* that fits.
LEMMA RowsAlone ==
    ASSUME UsersShape, Holds, UNCHANGED <<users, told>>, races \subseteq races',
           NoRace' => \A t \in Tokens : /\ sessions'[t].user \in Existing
                                        /\ ~(sessions'[t].user = sessions[t].user
                                             /\ sessions'[t].password = sessions[t].password)
                                        => users[sessions'[t].user].password = sessions'[t].password
                                           /\ users[sessions'[t].user].enabled,
           NoRace' => \A u \in Existing : Ending(u) /\ ~Ending(u)' => \A t \in Tokens : sessions'[t].user # u
    PROVE  Holds'
<1>1. NoRace' => NoRace
  BY DEF NoRace
<1>2. Existing' = Existing /\ Admins' = Admins
  BY DEF Existing, Admins
<1>3. LastTold' /\ SomeAdmin'
  BY <1>1, <1>2 DEF LastTold, SomeAdmin, Holds
<1>4. SessionsCurrent'
  <2>1. ASSUME NoRace', NEW t \in Tokens, NEW u \in Existing, sessions'[t].user = u, ~Ending(u)'
        PROVE  users[u].password = sessions'[t].password /\ users[u].enabled
    <3>1. CASE sessions'[t].user = sessions[t].user /\ sessions'[t].password = sessions[t].password
      <4>1. ~Ending(u)
        BY <2>1
      <4> QED BY <1>1, <2>1, <3>1, <4>1 DEF Holds, SessionsCurrent, SessionFits
    <3>2. CASE ~(sessions'[t].user = sessions[t].user /\ sessions'[t].password = sessions[t].password)
      BY <2>1, <3>2
    <3> QED BY <3>1, <3>2
  <2>2. ASSUME NoRace', NEW t \in Tokens, NEW u \in Existing, sessions'[t].user = u
        PROVE  Ending(u)' \/ SessionFits(t)'
    BY <2>1, <2>2 DEF SessionFits
  <2> QED BY <1>2, <2>2 DEF SessionsCurrent, Ending
<1> QED BY <1>3, <1>4 DEF Holds

LEMMA LooksHolds ==
    ASSUME UsersShape, Holds, NEW h \in Threads, Looks(h) PROVE Holds'
<1>1. UNCHANGED <<users, sessions, told, races, failed>>
  BY LooksEffect
<1>2. \A u : Ending(u) => Ending(u)'
  BY LooksEffect, EndingStays
<1> QED BY <1>1, <1>2, RowsAlone

LEMMA EndsSomeHolds ==
    ASSUME UsersShape, Holds, EndsSome PROVE Holds'
<1>1. /\ UNCHANGED <<users, call, told, races, calls, failed>>
      /\ \A t \in Tokens : sessions'[t].user \in Ids
            => sessions'[t].user = sessions[t].user /\ sessions'[t].password = sessions[t].password
  BY EndsSomeEffect
<1>2. \A u : Ending(u) => Ending(u)'
  BY <1>1 DEF Ending
<1>3. Existing \subseteq Ids
  BY DEF Existing
<1> QED BY <1>1, <1>2, <1>3, RowsAlone

LEMMA CreateSessionHolds ==
    ASSUME UsersShape, Holds, NEW h \in Threads, CreateSession(h) PROVE Holds'
<1> DEFINE c == call[h]
<1>1. c \in CallRec /\ CallSound(c) /\ c.op = "login"
  BY DEF CreateSession, At, UsersShape, UsersTypes
<1>2. PICK t \in Tokens :
          sessions' = [sessions EXCEPT ![t] = [user |-> c.user, password |-> c.read.password, expired |-> FALSE]]
  BY DEF CreateSession
<1>3. UNCHANGED <<users, told>> /\ races \subseteq races'
  BY DEF CreateSession
<1>4. NoRace' => users[c.user] = c.read
  BY DEF CreateSession, NoRace
<1>5. c.read.enabled
  BY <1>1 DEF CallSound
<1>6. \A u : Ending(u) => Ending(u)'
  BY <1>1, EndingStays DEF CreateSession, To, Go
<1>7. sessions \in [Tokens -> SessionRec]
  BY DEF UsersShape, UsersTypes
<1> HIDE DEF c
<1>8. ASSUME NoRace', NEW k \in Tokens, ~(sessions'[k].user = sessions[k].user /\ sessions'[k].password = sessions[k].password)
      PROVE  users[sessions'[k].user].password = sessions'[k].password /\ users[sessions'[k].user].enabled
  <2>1. k = t
    BY <1>2, <1>7, <1>8
  <2>2. sessions'[k].user = c.user /\ sessions'[k].password = c.read.password
    BY <1>2, <1>7, <2>1
  <2> QED BY <1>4, <1>5, <1>8, <2>2
<1> QED BY <1>3, <1>6, <1>8, RowsAlone

LEMMA EndSessionsHolds ==
    ASSUME UsersShape, Holds, NEW h \in Threads, EndSessions(h) PROVE Holds'
<1> DEFINE c == call[h]
<1>1. c \in CallRec /\ CallSound(c) /\ c.pc = "sessions" /\ c.user \in Ids
  BY DEF EndSessions, UsersShape, UsersTypes, CallSound
<1>2. UNCHANGED <<users, told>> /\ races \subseteq races'
  BY DEF EndSessions
<1>3. NoRace' => sessions' = DropSessions(c.user)
  BY DEF EndSessions, NoRace
<1>4. PICK d : call' = [call EXCEPT ![h] = d]
  BY DEF EndSessions, To, Go, End
<1>5. ASSUME NoRace', NEW u \in Existing, Ending(u), ~Ending(u)', NEW t \in Tokens PROVE sessions'[t].user # u
  <2>1. u = c.user
    <3>1. PICK k \in Threads : call[k].pc = "sessions" /\ call[k].op \in {"password", "lock"} /\ call[k].user = u
      BY <1>5 DEF Ending
    <3>2. k # h => call'[k] = call[k]
      BY <1>4 DEF UsersShape, UsersTypes
    <3> QED BY <1>5, <3>1, <3>2 DEF Ending
  <2>2. u \in Ids
    BY DEF Existing
  <2> QED BY <1>1, <1>3, <1>5, <2>1, <2>2, DroppedShape
<1>6. ASSUME NoRace', NEW t \in Tokens, sessions'[t].user \in Existing PROVE sessions'[t] = sessions[t]
  <2>1. sessions'[t].user \in Ids
    BY <1>6 DEF Existing
  <2> QED BY <1>1, <1>3, <1>6, <2>1, DroppedShape
<1> HIDE DEF c
<1> QED BY <1>2, <1>5, <1>6, RowsAlone

\* An administrator who stays one.
LEMMA AdminStays ==
    ASSUME SomeAdmin, races \subseteq races',
           races' \cap {"row", "demoted", "admins"} = {} => Admins \subseteq Admins'
    PROVE  SomeAdmin'
BY DEF SomeAdmin

\* What changes rows, and leaves sessions alone: the passwords and locks are those told,
\* and who is deprived of a session is being seen to.
LEMMA SessionsAlone ==
    ASSUME UsersShape, Holds, UNCHANGED sessions, races \subseteq races', SomeAdmin',
           NoRace' => \A u \in Existing' :
               /\ users'[u].password = told'[u].password /\ users'[u].enabled = told'[u].enabled
               /\ \/ u \in Existing /\ Ending(u)'
                  \/ /\ u \in Existing /\ (Ending(u) => Ending(u)')
                     /\ users'[u].password = users[u].password /\ (users[u].enabled => users'[u].enabled)
                  \/ \A t \in Tokens : sessions[t].user # u
    PROVE  Holds'
<1>1. NoRace' => NoRace
  BY DEF NoRace
<1>2. LastTold'
  BY DEF LastTold
<1>3. SessionsCurrent'
  <2>1. ASSUME NoRace', NEW t \in Tokens, NEW u \in Existing', sessions'[t].user = u, ~Ending(u)'
        PROVE  sessions'[t].password = users'[u].password /\ users'[u].enabled
    <3>1. /\ u \in Existing /\ ~Ending(u)
          /\ users'[u].password = users[u].password /\ (users[u].enabled => users'[u].enabled)
      BY <2>1
    <3> QED BY <1>1, <2>1, <3>1 DEF Holds, SessionsCurrent, SessionFits
  <2>2. ASSUME NoRace', NEW t \in Tokens, NEW u \in Existing', sessions'[t].user = u
        PROVE  Ending(u)' \/ SessionFits(t)'
    BY <2>1, <2>2 DEF SessionFits
  <2> QED BY <2>2 DEF SessionsCurrent, Ending
<1> QED BY <1>2, <1>3 DEF Holds

LEMMA TouchUserHolds ==
    ASSUME UsersShape, Holds, NEW h \in Threads, TouchUser(h) PROVE Holds'
<1> DEFINE c == call[h]
<1>1. c \in CallRec /\ CallSound(c) /\ c.op = "login" /\ c.row = c.read
  BY DEF TouchUser, At, UsersShape, UsersTypes, CallSound
<1>2. UNCHANGED <<sessions, told>> /\ End(h) /\ races \subseteq races'
  BY DEF TouchUser, Written
<1>3. \A u : Ending(u) => Ending(u)'
  BY <1>1, <1>2, EndingStays DEF End, Go
<1>4. "row" \notin races' => \A u \in Ids : users'[u] = users[u]
  <2> SUFFICES ASSUME "row" \notin races' PROVE \A u \in Ids : users'[u] = users[u]
    OBVIOUS
  <2>1. CASE Written(h, c.row)
    BY <1>1, <2>1, WrittenEffect
  <2>2. CASE UNCHANGED users
    BY <2>2
  <2> QED BY <2>1, <2>2 DEF TouchUser
<1>5. "row" \notin races' => Existing' = Existing /\ Admins' = Admins
  BY <1>4 DEF Existing, Admins
<1>6. SomeAdmin'
  BY <1>2, <1>5, AdminStays DEF Holds
<1>7. NoRace' => NoRace /\ "row" \notin races'
  BY <1>2 DEF NoRace
<1>8. \A u \in Existing : u \in Ids
  BY DEF Existing
<1> HIDE DEF c
<1> QED BY <1>2, <1>3, <1>4, <1>5, <1>6, <1>7, <1>8, SessionsAlone DEF Holds, LastTold

\* What a change makes of a row, and what the user is told.
LEMMA ChangedIs ==
    ASSUME NEW c \in CallRec, NEW r \in RowRec, c.op \in Changes
    PROVE  /\ Changed(c, r).on = r.on
           /\ c.op = "password" => Changed(c, r).password = c.value /\ Changed(c, r).enabled = r.enabled
           /\ c.op # "password" => Changed(c, r).password = r.password
           /\ c.op \in {"unlock", "promote", "demote"} /\ r.enabled => Changed(c, r).enabled
           /\ c.op \in {"promote", "demote"} => Changed(c, r).enabled = r.enabled
           /\ c.op # "demote" /\ r.admin => Changed(c, r).admin
BY DEF Changed, RowRec, Changes

LEMMA WriteUserHolds ==
    ASSUME UsersShape, Holds, NEW h \in Threads, WriteUser(h) PROVE Holds'
<1> DEFINE c == call[h]
<1>1. c \in CallRec /\ CallSound(c) /\ c.pc = "write" /\ c.op \in Changes /\ c.row = Changed(c, c.read)
      /\ c.read \in RowRec /\ c.user \in Ids
  BY DEF WriteUser, UsersShape, UsersTypes, CallSound, CallRec, Changes
<1>0. PICK u \in Ids : u = c.user
  BY <1>1
<1>2. UNCHANGED sessions /\ races \subseteq races'
  BY DEF WriteUser, Written
<1>3. PICK d : call' = [call EXCEPT ![h] = d]
  BY DEF WriteUser, To, End, Go
<1>4. \A v : Ending(v) => Ending(v)'
  BY <1>1, <1>3, EndingStays
<1>5. CASE UNCHANGED <<users, told, races>>
  <2>1. SomeAdmin'
    BY <1>5 DEF Holds, SomeAdmin, Admins, Existing
  <2>2. Existing' = Existing
    BY <1>5 DEF Existing
  <2>3. NoRace' => NoRace
    BY <1>5 DEF NoRace
  <2> QED BY <1>2, <1>4, <1>5, <2>1, <2>2, <2>3, SessionsAlone DEF Holds, LastTold
<1>6. CASE /\ Written(h, c.row)
           /\ c.op \in {"password", "lock"} => call' = [call EXCEPT ![h] = [c EXCEPT !.pc = "sessions"]]
           /\ told' = [told EXCEPT ![u] = CASE c.op = "password" -> [@ EXCEPT !.password = c.value]
                                            [] c.op \in {"lock", "unlock"} -> [@ EXCEPT !.enabled = c.row.enabled]
                                            [] OTHER -> @]
  <2>1. "row" \notin races' => /\ users[u].on => users[u] = c.read
                               /\ \A v \in Ids : users'[v] = IF v = u /\ users[u].on THEN c.row ELSE users[v]
                               /\ c.op # "demote" \/ "demoted" \in races'
    BY <1>0, <1>6, WrittenEffect
  <2>2. "row" \notin races' => Existing' = Existing
    BY <1>1, <2>1, ChangedIs DEF Existing
  <2>3. SomeAdmin'
    <3>1. ASSUME races' \cap {"row", "demoted", "admins"} = {} PROVE Admins \subseteq Admins'
      <4>1. "row" \notin races' /\ c.op # "demote"
        BY <2>1, <3>1
      <4> SUFFICES ASSUME NEW v \in Admins PROVE v \in Admins'
        OBVIOUS
      <4>2. v \in Ids /\ v \in Existing' /\ users[v].admin /\ users[v].on
        BY <2>2, <4>1 DEF Admins, Existing
      <4>3. users'[v].admin
        BY <1>1, <2>1, <4>1, <4>2, ChangedIs
      <4> QED BY <4>2, <4>3 DEF Admins
    <3> QED BY <1>2, <3>1, AdminStays DEF Holds
  <2>4. ASSUME NoRace', NEW v \in Existing'
        PROVE  /\ users'[v].password = told'[v].password /\ users'[v].enabled = told'[v].enabled
               /\ v \in Existing
               /\ \/ Ending(v)'
                  \/ /\ Ending(v) => Ending(v)'
                     /\ users'[v].password = users[v].password /\ (users[v].enabled => users'[v].enabled)
    <3>1. "row" \notin races' /\ NoRace /\ v \in Ids /\ v \in Existing /\ users[v].on
      BY <1>2, <2>2, <2>4 DEF NoRace, Existing
    <3>2. users[v].password = told[v].password /\ users[v].enabled = told[v].enabled
      BY <3>1 DEF Holds, LastTold
    <3>3. CASE v # u
      <4>1. users'[v] = users[v] /\ told'[v] = told[v]
        BY <1>6, <2>1, <3>1, <3>3 DEF UsersShape, UsersTypes
      <4> QED BY <1>4, <3>1, <3>2, <4>1
    <3>4. CASE v = u
      <4>1. users'[u] = c.row /\ users[u] = c.read
        BY <2>1, <3>1, <3>4
      <4>2. told[u] \in [password : Words, enabled : BOOLEAN]
        BY <1>1 DEF UsersShape, UsersTypes
      <4>3. told'[u] = CASE c.op = "password" -> [told[u] EXCEPT !.password = c.value]
                         [] c.op \in {"lock", "unlock"} -> [told[u] EXCEPT !.enabled = c.row.enabled]
                         [] OTHER -> told[u]
        BY <1>1, <1>6 DEF UsersShape, UsersTypes
      <4>4. users'[u].password = told'[u].password /\ users'[u].enabled = told'[u].enabled
        <5>1. CASE c.op = "password"
          BY <1>1, <3>2, <3>4, <4>1, <4>2, <4>3, <5>1, ChangedIs
        <5>2. CASE c.op \in {"lock", "unlock"}
          BY <1>1, <3>2, <3>4, <4>1, <4>2, <4>3, <5>2, ChangedIs
        <5>3. CASE c.op \in {"promote", "demote"}
          BY <1>1, <3>2, <3>4, <4>1, <4>2, <4>3, <5>3, ChangedIs
        <5> QED BY <1>1, <5>1, <5>2, <5>3 DEF Changes
      <4>5. c.op \in {"password", "lock"} => Ending(u)'
        <5> SUFFICES ASSUME c.op \in {"password", "lock"} PROVE Ending(u)'
          OBVIOUS
        <5>1. call'[h] = [c EXCEPT !.pc = "sessions"]
          BY <1>6 DEF UsersShape, UsersTypes
        <5>2. call'[h].pc = "sessions" /\ call'[h].op = c.op /\ call'[h].user = u
          BY <1>0, <1>1, <5>1 DEF CallRec
        <5> QED BY <5>2 DEF Ending
      <4>6. c.op \notin {"password", "lock"} =>
               users'[u].password = users[u].password /\ (users[u].enabled => users'[u].enabled)
        BY <1>1, <4>1, ChangedIs DEF Changes
      <4> QED BY <1>4, <3>1, <3>4, <4>4, <4>5, <4>6
    <3> QED BY <3>3, <3>4
  <2> HIDE DEF c
  <2> QED BY <1>2, <2>3, <2>4, SessionsAlone
<1> QED BY <1>0, <1>5, <1>6 DEF WriteUser, To, Go

LEMMA CreateUserHolds ==
    ASSUME UsersShape, Holds, CreateUser PROVE Holds'
<1>1. PICK u \in Ids, p \in Passwords, admin \in BOOLEAN :
        /\ ~users[u].used
        /\ users' = [users EXCEPT ![u] = [on |-> TRUE, used |-> TRUE, password |-> p, admin |-> admin,
                                          enabled |-> TRUE]]
        /\ told' = [told EXCEPT ![u] = [password |-> p, enabled |-> TRUE]]
        /\ UNCHANGED <<sessions, call, races, failed>>
  BY CreateUserEffect
<1>2. ~users[u].on /\ \A t \in Tokens : sessions[t].user # u
  BY <1>1 DEF UsersShape, RowSound, KnownUsers
<1>3. \A v \in Ids \ {u} : users'[v] = users[v] /\ told'[v] = told[v]
  BY <1>1 DEF UsersShape, UsersTypes
<1>4. SomeAdmin'
  <2>1. Admins \subseteq Admins'
    BY <1>2, <1>3 DEF Admins, Existing
  <2> QED BY <1>1, <2>1, AdminStays DEF Holds
<1>5. ASSUME NoRace', NEW v \in Existing'
      PROVE  /\ users'[v].password = told'[v].password /\ users'[v].enabled = told'[v].enabled
             /\ v # u => v \in Existing /\ users'[v] = users[v]
  <2>1. CASE v = u
    BY <1>1, <2>1 DEF UsersShape, UsersTypes
  <2>2. CASE v # u
    <3>1. v \in Existing /\ NoRace
      BY <1>1, <1>3, <1>5, <2>2 DEF Existing, NoRace
    <3> QED BY <1>3, <2>2, <3>1 DEF Holds, LastTold, Existing
  <2> QED BY <2>1, <2>2
<1>6. \A v : Ending(v) => Ending(v)'
  BY <1>1 DEF Ending
<1>7. NoRace' => \A v \in Existing' :
        /\ users'[v].password = told'[v].password /\ users'[v].enabled = told'[v].enabled
        /\ \/ v \in Existing /\ Ending(v)'
           \/ /\ v \in Existing /\ (Ending(v) => Ending(v)')
              /\ users'[v].password = users[v].password /\ (users[v].enabled => users'[v].enabled)
           \/ \A t \in Tokens : sessions[t].user # v
  BY <1>2, <1>5, <1>6
<1>8. UNCHANGED sessions /\ races \subseteq races'
  BY <1>1
<1> QED BY ONLY UsersShape, Holds, <1>4, <1>7, <1>8, SessionsAlone

LEMMA DeleteUserHolds ==
    ASSUME UsersShape, Holds, NEW h \in Threads, DeleteUser(h) PROVE Holds'
<1> DEFINE c == call[h]
<1>1. c \in CallRec /\ CallSound(c) /\ c.op = "delete" /\ c.pc = "delete"
  BY DEF DeleteUser, At, UsersShape, UsersTypes
<1>2. PICK u \in Ids : u = c.user
  BY <1>1 DEF CallSound
<1>3. UNCHANGED <<sessions, told>> /\ End(h) /\ races \subseteq races'
  BY DEF DeleteUser
<1>4. \A v : Ending(v) => Ending(v)'
  BY <1>1, <1>3, EndingStays DEF End, Go
<1>5. /\ \A v \in Ids \ {u} : users'[v] = users[v]
      /\ users' = users \/ ~users'[u].on
      /\ users' # users /\ "admins" \notin races' => c.admins = Admins
  <2>1. \/ /\ users' = [users EXCEPT ![u] = NoRow(TRUE)]
           /\ races' = IF c.admins # Admins THEN races \cup {"admins"} ELSE races
        \/ UNCHANGED users
    BY <1>2 DEF DeleteUser
  <2>2. users \in [Ids -> RowRec] /\ ~NoRow(TRUE).on
    BY DEF UsersShape, UsersTypes, NoRow
  <2> HIDE DEF c
  <2> QED BY <2>1, <2>2
<1>6. Existing' \subseteq Existing /\ \A v \in Existing' : v \in Ids /\ users'[v] = users[v]
  BY <1>5 DEF Existing
<1>7. SomeAdmin'
  <2> SUFFICES ASSUME races' \cap {"row", "demoted", "admins"} = {} PROVE Admins' # {}
    BY DEF SomeAdmin
  <2>1. Admins # {} /\ Admins \subseteq Ids
    BY <1>3 DEF Holds, SomeAdmin, Admins, Existing
  <2>2. \E v \in Admins : v \in Ids \ {u} \/ users' = users
    <3>1. CASE users' = users
      BY <2>1, <3>1
    <3>2. CASE users' # users
      <4>1. u \in Admins => Cardinality(Admins) > 1
        BY <1>1, <1>2, <1>5, <3>2 DEF CallSound
      <4>2. Admins # {u}
        <5>1. Cardinality({u}) = 1
          BY FS_Singleton
        <5> QED BY <4>1, <5>1
      <4> QED BY <2>1, <4>2
    <3> QED BY <3>1, <3>2
  <2>3. \A v \in Admins : v \in Ids \ {u} \/ users' = users => v \in Admins'
    BY <1>5 DEF Admins, Existing
  <2> QED BY <2>2, <2>3
<1>8. NoRace' => NoRace
  BY <1>3 DEF NoRace
<1> HIDE DEF c
<1> QED BY <1>3, <1>4, <1>6, <1>7, <1>8, SessionsAlone DEF Holds, LastTold

-----------------------------------------------------------------------------
LEMMA UsersStart == UsersInit => UsersInv
<1> SUFFICES ASSUME UsersInit PROVE UsersInv
  OBVIOUS
<1> DEFINE p == CHOOSE x \in Passwords : TRUE
<1>1. PICK table \in Tables :
        LET has == CHOOSE f \in [table -> Tokens] : \A u, v \in table : f[u] = f[v] => u = v
            of(t) == {u \in table : has[u] = t}
        IN /\ users = [u \in Ids |-> IF u \in table \/ (table = {} /\ u = FirstAdmin)
                                    THEN [on |-> TRUE, used |-> TRUE, password |-> p, admin |-> TRUE,
                                          enabled |-> TRUE]
                                    ELSE NoRow(FALSE)]
           /\ told = [u \in Ids |-> [password |-> p, enabled |-> TRUE]]
           /\ sessions = [t \in Tokens |-> IF of(t) = {} THEN NoSession
                                          ELSE [user |-> CHOOSE u \in of(t) : TRUE, password |-> p,
                                                expired |-> FALSE]]
  BY DEF UsersInit
<1>2. p \in Passwords /\ table \subseteq Ids /\ FirstAdmin \in Ids
  BY UsersAssumption
<1>3. call = [h \in Threads |-> Idle] /\ races = {} /\ calls = 0 /\ failed = 0
  BY DEF UsersInit
<1> HIDE DEF p
<1>4. \A t \in Tokens : \/ sessions[t] = NoSession
                        \/ /\ sessions[t].user \in table /\ sessions[t].password = p
                           /\ sessions[t] = [user |-> sessions[t].user, password |-> p, expired |-> FALSE]
  BY <1>1
<1>5. /\ users \in [Ids -> RowRec]
      /\ \A u \in Ids : RowSound(users[u])
      /\ \A u \in Existing : users[u].password = p /\ users[u].enabled /\ users[u].admin
      /\ \A u \in table : users[u].on /\ users[u].used
      /\ Existing # {}
  BY <1>1, <1>2 DEF NoRow, RowRec, RowSound, Words, Existing
<1>6. /\ sessions \in [Tokens -> SessionRec]
      /\ \A t \in Tokens : sessions[t].user \in Ids => sessions[t].user \in table /\ sessions[t].password = p
  <2>1. \A t \in Tokens : sessions[t] \in SessionRec
    <3> SUFFICES ASSUME NEW t \in Tokens PROVE sessions[t] \in SessionRec
      OBVIOUS
    <3>1. CASE sessions[t] = NoSession
      BY <3>1, NoSessionType
    <3>2. CASE /\ sessions[t].user \in table
               /\ sessions[t] = [user |-> sessions[t].user, password |-> p, expired |-> FALSE]
      <4>1. \A u \in table : [user |-> u, password |-> p, expired |-> FALSE] \in SessionRec
        BY <1>2 DEF SessionRec, Words
      <4> QED BY <3>2, <4>1
    <3> QED BY <1>4, <3>1, <3>2
  <2>2. sessions = [t \in Tokens |-> sessions[t]]
    BY <1>1
  <2> QED BY <1>4, <2>1, <2>2, NoSessionType
<1>7. call \in [Threads -> CallRec] /\ \A h \in Threads : CallSound(call[h]) /\ call[h].op = "idle"
  BY <1>3, IdleIsCall DEF Idle
<1>8. calls \in 0..MaxCalls /\ failed \in 0..MaxFailed
  BY <1>3, UsersAssumption
<1>9. told \in [Ids -> [password : Words, enabled : BOOLEAN]]
      /\ \A u \in Ids : told[u].password = p /\ told[u].enabled = TRUE
  BY <1>1, <1>2 DEF Words
<1>10. UsersShape
  BY <1>2, <1>3, <1>5, <1>6, <1>7, <1>8, <1>9 DEF UsersShape, UsersTypes, KnownUsers
<1>11. LastTold
  BY <1>5, <1>9 DEF LastTold, Existing, RowRec
<1>12. SessionsCurrent
  BY <1>5, <1>6 DEF SessionsCurrent, SessionFits, Existing
<1>13. SomeAdmin
  BY <1>5 DEF SomeAdmin, Admins
<1> QED BY <1>10, <1>11, <1>12, <1>13 DEF UsersInv

LEMMA UsersStep == UsersInv /\ [UsersNext]_usersVars => UsersInv'
<1> SUFFICES ASSUME UsersInv, [UsersNext]_usersVars PROVE UsersShape' /\ Holds'
  BY DEF UsersInv, Holds
<1>0. UsersShape /\ Holds
  BY DEF UsersInv, Holds
<1>1. ASSUME NEW h \in Threads, Looks(h) PROVE UsersShape' /\ Holds'
  BY <1>0, <1>1, LooksHolds, LoginShape, AskChangeShape, ReadUserShape, AskDeleteShape, CountAdminsShape DEF Looks
<1>2. ASSUME NEW h \in Threads, CreateSession(h) PROVE UsersShape' /\ Holds'
  BY <1>0, <1>2, CreateSessionShape, CreateSessionHolds
<1>3. ASSUME NEW h \in Threads, TouchUser(h) PROVE UsersShape' /\ Holds'
  BY <1>0, <1>3, TouchUserShape, TouchUserHolds
<1>4. ASSUME NEW h \in Threads, WriteUser(h) PROVE UsersShape' /\ Holds'
  BY <1>0, <1>4, WriteUserShape, WriteUserHolds
<1>5. ASSUME NEW h \in Threads, EndSessions(h) PROVE UsersShape' /\ Holds'
  BY <1>0, <1>5, EndSessionsShape, EndSessionsHolds
<1>6. ASSUME NEW h \in Threads, DeleteUser(h) PROVE UsersShape' /\ Holds'
  BY <1>0, <1>6, DeleteUserShape, DeleteUserHolds
<1>7. CASE EndsSome
  BY <1>0, <1>7, EndsSomeShape, EndsSomeHolds
<1>8. CASE CreateUser
  BY <1>0, <1>8, CreateUserShape, CreateUserHolds
<1>9. CASE UNCHANGED usersVars
  BY <1>0, <1>9 DEF usersVars, UsersShape, UsersTypes, KnownUsers, Holds, LastTold, SessionsCurrent, SomeAdmin,
                    NoRace, Existing, Admins, Ending, SessionFits
<1> QED BY <1>1, <1>2, <1>3, <1>4, <1>5, <1>6, <1>7, <1>8, <1>9 DEF UsersNext, Looks, EndsSome

\* The rows of users, their sessions and the requests keep their types.
THEOREM UsersTyped == UsersSpec => []UsersTypeOK
<1>1. UsersInv => UsersTypeOK
  BY DEF UsersInv, UsersShape, UsersTypes, UsersTypeOK, RowSound, SessionRec
<1> QED BY <1>1, UsersStart, UsersStep, PTL DEF UsersSpec

\* A change of a user holds until the next one, sessions opened before it end with it, and
\* there is an administrator, but for the interleavings the model records in races: for any
\* users, threads, tokens and passwords.
THEOREM ChangesHold == UsersSpec => []AccessChangesHold
<1>1. ASSUME UsersInv, NoRace, NEW u \in Existing, ~Changing(u)
      PROVE  /\ users[u].password = told[u].password /\ users[u].enabled = told[u].enabled
             /\ \A t \in Tokens : sessions[t].user = u =>
                   sessions[t].password = users[u].password /\ users[u].enabled
  <2>1. ~Ending(u)
    BY <1>1 DEF Ending, Changing
  <2> QED BY <1>1, <2>1 DEF UsersInv, LastTold, SessionsCurrent, SessionFits
<1>2. UsersInv => AccessChangesHold
  BY <1>1 DEF AccessChangesHold, NoRace, UsersInv, SomeAdmin
<1> QED BY <1>2, UsersStart, UsersStep, PTL DEF UsersSpec

-----------------------------------------------------------------------------
(* Downloads: the invariant *)

Entries == [v : DOMAIN Versions, chunk : Nat, block : Nat, size : Nat]
Stages == {"idle", "refused", "list", "block", "fetch", "put", "send", "failed", "left", "whole"}
Transfers == [pc : Stages, opened : DOMAIN Versions, listed : DOMAIN Versions, chunks : SUBSET Nat,
              range : Ranges \cup {<<>>}, pos : Nat, left : Nat, block : Seq(Entries),
              sent : Seq(Nat \X Nat)]

SizeOf == [b \in Entries |-> b.size]
KeyOf  == [b \in Entries |-> Key(b)]

\* A block is of a chunk of its version, and no longer than the chunk is from its place.
Fits(b) == /\ b.chunk \in DOMAIN Versions[b.v]
           /\ b.size <= Lesser(BlockSize, Versions[b.v][b.chunk] - b.block * BlockSize)

\* Blocks as the cache may keep them, but for how much they are together.
Stored(q) == q \in Seq(Entries) /\ (\A b \in Elems(q) : Fits(b)) /\ Distinct(q, KeyOf)

\* The rows are of the first chunks of one version.
FileRight ==
    /\ {entry, rowsOf} \subseteq DOMAIN Versions /\ capacity \in Capacities /\ bad \in 0..MaxBad
    /\ \E n \in 0..Len(Versions[rowsOf]) : rows = 1..n
    /\ writing = "purged" => entry < Len(Versions)

\* The bytes of a version from a place on, one after the other.
Runs(s, v, start) == \A k \in DOMAIN s : s[k] = <<v, start + k - 1>>

\* A download that has begun: it has sent a beginning of the range it was opened for,
\* of the version its rows are of, and holds a block that is of the place it is at.
Serves(x) ==
    LET p == ParseRange(x.range, Size(x.opened))
    IN /\ x.pc # "idle" /\ x.range \in Ranges /\ x.chunks \subseteq DOMAIN Versions[x.listed]
       /\ x.pc = "refused" <=> ~p.ok
       /\ x.pos + x.left = p.start + p.length
       /\ x.pos = p.start + Len(x.sent)
       /\ Runs(x.sent, x.listed, p.start)
       /\ x.pc \in {"list", "refused"} => x.sent = <<>>
       /\ x.pc \in {"fetch", "put", "send"} => Chunk(x) # {}
       /\ x.pc \in {"put", "send"} =>
             \E b \in Entries : x.block = <<b>> /\ Fits(b) /\ Key(b) = Key(BlockAt(x))
       /\ x.pc = "whole" => x.left = 0

DownloadsRight ==
    /\ dl \in [Downloads -> Transfers]
    /\ \A d \in Downloads : dl[d] = FreshDownload \/ Serves(dl[d])

ReadInv == FileRight /\ Stored(cache) /\ Used(cache) <= capacity /\ DownloadsRight

-----------------------------------------------------------------------------
(* Versions and ranges *)

LEMMA VersionIs ==
    ASSUME NEW v \in DOMAIN Versions
    PROVE  /\ Versions[v] \in Seq(Nat) /\ Len(Versions[v]) \in Nat \ {0} /\ Size(v) \in Nat
           /\ DOMAIN Versions[v] = 1..Len(Versions[v])
           /\ \A c \in DOMAIN Versions[v] : Versions[v][c] \in Nat \ {0} /\ Offset(v, c) \in Nat
<1>1. PICK s : s = Versions[v]
  OBVIOUS
<1>2. s \in Seq(Nat \ {0}) /\ s # <<>>
  BY <1>1, ReadAssumption
<1>3. Len(s) \in Nat \ {0} /\ DOMAIN s = 1..Len(s) /\ \A c \in 1..Len(s) : s[c] \in Nat \ {0}
  BY <1>2
<1>4. s \in Seq(Nat)
  BY <1>2
<1>5. ASSUME NEW c \in 1..Len(s) PROVE Sum(SubSeq(s, 1, c - 1)) \in Nat
  <2>1. c - 1 \in 0..Len(s)
    BY <1>3
  <2>2. SubSeq(s, 1, c - 1) \in Seq(Nat)
    BY <1>4, <2>1, PrefixIs
  <2> QED BY <2>2, SumNat
<1>6. Sum(s) \in Nat
  BY <1>4, SumNat
<1> QED BY <1>1, <1>3, <1>4, <1>5, <1>6 DEF Size, Offset

\* A range that is granted is what the header asks for, and none of the file is in one
\* that is refused.
LEMMA Parsed ==
    ASSUME NEW r \in Ranges, NEW size \in Nat
    PROVE  \E p \in [ok : BOOLEAN, start : Nat, length : Nat] :
              /\ ParseRange(r, size) = p /\ p.start + p.length <= size
              /\ p.ok => Asked(r, size) = p.start..p.start + p.length - 1
              /\ ~p.ok => Asked(r, size) = {}
<1> DEFINE all == [ok |-> TRUE, start |-> 0, length |-> size]
           unsat == [ok |-> FALSE, start |-> 0, length |-> size]
           some(s, e) == [ok |-> TRUE, start |-> s, length |-> e - s + 1]
           T == [ok : BOOLEAN, start : Nat, length : Nat]
           Good(p) == /\ p.start + p.length <= size
                      /\ p.ok => Asked(r, size) = p.start..p.start + p.length - 1
                      /\ ~p.ok => Asked(r, size) = {}
           a == r.first
           z == r.last
<1>1. r.form \in {"none", "suffix", "from", "both"} /\ a \in Nat /\ z \in Nat
  BY ReadAssumption
<1>2. PICK A : A = Asked(r, size)
  OBVIOUS
<1>3. \A q \in Int : q \in A <=> q \in 0..size - 1 /\ (CASE r.form = "none"   -> TRUE
                           [] r.form = "suffix" -> q >= size - z
                           [] r.form = "from"   -> q >= a
                           [] OTHER             -> q >= a /\ q <= z)
  BY <1>2 DEF Asked
<1>4. A \subseteq Int
  BY <1>2 DEF Asked
<1> HIDE DEF a, z
<1>8. ASSUME NEW lo \in Int, NEW hi \in Int, \A q \in Int : q \in A <=> lo <= q /\ q <= hi
      PROVE  A = lo..hi
  <2>1. \A q \in Int : q \in A <=> q \in lo..hi
    BY <1>8
  <2>2. lo..hi \subseteq Int
    OBVIOUS
  <2> QED BY ONLY <1>4, <2>1, <2>2
<1>5. CASE r.form = "none"
  <2>1. ParseRange(r, size) = all
    BY <1>5 DEF ParseRange
  <2>2. A = 0..0 + size - 1
    <3>1. \A q \in Int : q \in A <=> 0 <= q /\ q <= 0 + size - 1
      BY <1>3, <1>5
    <3> QED BY <1>8, <3>1
  <2>3. all \in T /\ Good(all)
    BY <1>2, <2>2
  <2> QED BY <2>1, <2>3
<1>6. CASE r.form = "suffix"
  <2>1. CASE size = 0 \/ z = 0
    <3>1. ParseRange(r, size) = unsat
      BY <1>6, <2>1 DEF ParseRange, a, z
    <3>2. A = {}
      BY <1>1, <1>3, <1>4, <1>6, <2>1
    <3>3. unsat \in T /\ Good(unsat)
      BY <1>2, <3>2
    <3> QED BY <3>1, <3>3
  <2>2. CASE size # 0 /\ z # 0
    <3>1. PICK s : s = size - Lesser(z, size)
      OBVIOUS
    <3>2. s \in 0..size - 1 /\ s = (IF z <= size THEN size - z ELSE 0)
      BY <1>1, <2>2, <3>1 DEF Lesser
    <3>3. ParseRange(r, size) = some(s, size - 1)
      BY <1>6, <2>2, <3>1, <3>2 DEF ParseRange, z
    <3>4. A = s..s + (size - 1 - s + 1) - 1
      <4>1. \A q \in Int : q \in A <=> s <= q /\ q <= s + (size - 1 - s + 1) - 1
        BY <1>1, <1>3, <1>6, <3>2
      <4>2. s \in Int /\ s + (size - 1 - s + 1) - 1 \in Int
        BY <3>2
      <4> QED BY <1>8, <4>1, <4>2
    <3>5. some(s, size - 1) \in T /\ Good(some(s, size - 1))
      BY <1>2, <3>2, <3>4
    <3> QED BY <3>3, <3>5
  <2> QED BY <2>1, <2>2
<1>7. CASE r.form \in {"from", "both"}
  <2> DEFINE e == IF r.form = "from" THEN size - 1 ELSE Lesser(z, size - 1)
  <2>1. CASE a >= size \/ e < a
    <3>1. ParseRange(r, size) = unsat
      BY <1>1, <1>7, <2>1 DEF ParseRange, a, z
    <3>2. A = {}
      BY <1>1, <1>3, <1>4, <1>7, <2>1 DEF Lesser
    <3>3. unsat \in T /\ Good(unsat)
      BY <1>2, <3>2
    <3> QED BY <3>1, <3>3
  <2>2. CASE ~(a >= size \/ e < a)
    <3>1. PICK f : f = e
      OBVIOUS
    <3>2. f \in 0..size - 1 /\ a <= f /\ a < size /\ size # 0
          /\ f = (IF r.form = "from" \/ z >= size - 1 THEN size - 1 ELSE z)
      BY <1>1, <1>7, <2>2, <3>1 DEF Lesser
    <3>3. ParseRange(r, size) = some(a, f)
      BY <1>1, <1>7, <3>1, <3>2 DEF ParseRange, a, z
    <3>4. A = a..a + (f - a + 1) - 1
      <4>1. \A q \in Int : q \in A <=> a <= q /\ q <= a + (f - a + 1) - 1
        BY <1>1, <1>3, <1>7, <3>2
      <4>2. a \in Int /\ a + (f - a + 1) - 1 \in Int
        BY <1>1, <3>2
      <4> QED BY <1>8, <4>1, <4>2
    <3>5. some(a, f) \in T /\ Good(some(a, f))
      BY <1>1, <1>2, <3>2, <3>4
    <3> QED BY <3>3, <3>5
  <2> QED BY <2>1, <2>2
<1> QED BY <1>1, <1>5, <1>6, <1>7

\* The block of a place is of the version and the chunk it says, and fits in it.
LEMMA BlockIs ==
    ASSUME NEW x \in Transfers, x.chunks \subseteq DOMAIN Versions[x.listed], Chunk(x) # {}
    PROVE  BlockAt(x) \in Entries /\ Fits(BlockAt(x)) /\ BlockAt(x).v = x.listed
<1> DEFINE v == x.listed
           c == CHOOSE k \in Chunk(x) : TRUE
           o == x.pos - Offset(v, c)
           b == o \div BlockSize
           n == Versions[v][c]
<1>1. v \in DOMAIN Versions /\ x.pos \in Nat
  BY DEF Transfers
<1>2. c \in x.chunks /\ x.pos >= Offset(v, c) /\ x.pos < Offset(v, c) + Versions[v][c]
  BY DEF Chunk
<1>3. c \in DOMAIN Versions[v] /\ n \in Nat \ {0} /\ Offset(v, c) \in Nat /\ c \in Nat
  BY <1>1, <1>2, VersionIs
<1>4. o \in Nat /\ o < n
  BY <1>1, <1>2, <1>3
<1>5. BlockSize \in Nat \ {0}
  BY ReadAssumption
<1> HIDE DEF o
<1>6. b \in Nat /\ b * BlockSize <= o
  BY <1>4, <1>5
<1>7. BlockAt(x) = [v |-> v, chunk |-> c, block |-> b, size |-> Lesser(BlockSize, n - b * BlockSize)]
  BY DEF BlockAt, o
<1> HIDE DEF v, c, b, n
<1>8. b * BlockSize \in Nat
  BY <1>5, <1>6
<1>9. Lesser(BlockSize, n - b * BlockSize) \in Nat
  BY <1>3, <1>4, <1>5, <1>6, <1>8 DEF Lesser
<1>10. Lesser(BlockSize, n - b * BlockSize) <= Lesser(BlockSize, n - b * BlockSize)
  BY <1>9
<1>11. BlockAt(x) \in Entries /\ BlockAt(x).v = v
  BY <1>1, <1>3, <1>6, <1>7, <1>9 DEF Entries
<1>12. Fits(BlockAt(x))
  BY <1>3, <1>7, <1>10 DEF Fits, n
<1> QED BY <1>11, <1>12 DEF v

-----------------------------------------------------------------------------
(* The cache *)

\* What is used of the cache is what its blocks weigh.
LEMMA UsedIs ==
    ASSUME NEW q \in Seq(Entries)
    PROVE  Used(q) = Weight(q, SizeOf) /\ Used(q) \in Nat
<1>1. SizeOf \in [Entries -> Nat] /\ \A b \in Entries : SizeOf[b] = b.size
  BY DEF SizeOf, Entries
<1>2. \A k \in DOMAIN q : q[k] \in Entries
  OBVIOUS
<1>3. [k \in DOMAIN q |-> q[k].size] = [k \in DOMAIN q |-> SizeOf[q[k]]]
  BY <1>1, <1>2
<1>4. Used(q) = Weight(q, SizeOf)
  BY <1>3 DEF Used, Weight, Weights
<1> QED BY <1>1, <1>4, Weighed

\* The elements of a sequence, by their places.
LEMMA ElemsAt ==
    ASSUME NEW T, NEW q \in Seq(T)
    PROVE  /\ DOMAIN q = 1..Len(q) /\ Len(q) \in Nat /\ Elems(q) \subseteq T
           /\ \A k \in 1..Len(q) : q[k] \in Elems(q)
           /\ \A b \in Elems(q) : \E k \in 1..Len(q) : b = q[k]
  BY DEF Elems

\* Blocks are evicted from the end until the others are within the limit.
LEMMA Evicted ==
    ASSUME NEW q, Stored(q), NEW limit \in Nat
    PROVE  Stored(Evict(q, limit)) /\ Used(Evict(q, limit)) <= limit
<1> DEFINE kept == {n \in 0..Len(q) : Used(SubSeq(q, 1, n)) <= limit}
           n == CHOOSE i \in kept : \A m \in kept : m <= i
<1>1. q \in Seq(Entries) /\ DOMAIN q = 1..Len(q) /\ Len(q) \in Nat
  BY DEF Stored
<1>2. kept # {}
  <2>1. SubSeq(q, 1, 0) = <<>>
    BY SubSeqEmpty
  <2>2. <<>> \in Seq(Entries)
    OBVIOUS
  <2>3. Used(<<>>) = 0
    BY <2>2, UsedIs, WeightEmpty
  <2>4. PICK u : u = Used(SubSeq(q, 1, 0))
    OBVIOUS
  <2>5. u = 0
    BY <2>1, <2>3, <2>4, Zenon
  <2>6. u <= limit /\ 0 \in 0..Len(q)
    BY <1>1, <2>5
  <2> QED BY <2>4, <2>6
<1>3. \E i \in kept : \A m \in kept : m <= i
  <2>1. kept \in SUBSET (0..Len(q))
    OBVIOUS
  <2> HIDE DEF kept
  <2> QED BY <1>1, <1>2, <2>1, GreatestNat
<1>4. n \in kept
  <2> HIDE DEF kept
  <2> QED BY <1>3
<1>5. Evict(q, limit) = SubSeq(q, 1, n)
  BY DEF Evict
<1>6. n \in 0..Len(q) /\ Used(SubSeq(q, 1, n)) <= limit
  BY <1>4
<1> HIDE DEF n, kept
<1>7. PICK r : r = SubSeq(q, 1, n)
  OBVIOUS
<1>8. r \in Seq(Entries) /\ Len(r) = n /\ \A k \in 1..n : r[k] = q[k]
  BY <1>1, <1>6, <1>7, PrefixIs
<1>9. DOMAIN r = 1..n /\ \A k \in 1..n : k \in 1..Len(q)
  <2>1. DOMAIN r = 1..Len(r)
    BY <1>8
  <2> QED BY <1>1, <1>6, <1>8, <2>1
<1>10. \A b \in Elems(r) : Fits(b)
  <2>1. Elems(r) \subseteq Elems(q)
    BY <1>1, <1>8, <1>9 DEF Elems
  <2> QED BY <2>1 DEF Stored
<1>11. Distinct(r, KeyOf)
  <2>1. Distinct(q, KeyOf)
    BY DEF Stored
  <2> QED BY <1>1, <1>8, <1>9, <2>1 DEF Distinct
<1>12. Stored(r)
  BY <1>8, <1>10, <1>11 DEF Stored
<1> QED BY <1>5, <1>6, <1>7, <1>12

\* A block put first takes the place of the one with its key: what is used does not
\* change when that is the block itself.
LEMMA Fronted ==
    ASSUME NEW q, Stored(q), NEW b \in Entries, Fits(b)
    PROVE  /\ Stored(<<b>> \o Without(q, Key(b)))
           /\ b \in Elems(q) => Used(<<b>> \o Without(q, Key(b))) = Used(q)
<1>1. q \in Seq(Entries) /\ DOMAIN q = 1..Len(q) /\ Len(q) \in Nat /\ Distinct(q, KeyOf)
  BY DEF Stored
<1>2. KeyOf[b] = Key(b) /\ \A k \in 1..Len(q) : KeyOf[q[k]] = Key(q[k])
  BY <1>1 DEF KeyOf
<1>3. PICK w : w = Without(q, Key(b))
  OBVIOUS
<1>4. /\ w \in Seq(Entries) /\ Distinct(w, KeyOf) /\ Elems(w) \subseteq Elems(q)
      /\ \A y \in Elems(w) : KeyOf[y] # KeyOf[b]
      /\ b \in Elems(q) => Used(q) = Used(w) + SizeOf[b]
  <2>1. CASE Places(q, Key(b)) = {}
    <3>1. w = q
      BY <1>3, <2>1 DEF Without
    <3>2. \A k \in 1..Len(q) : Key(q[k]) # Key(b)
      BY <1>1, <2>1 DEF Places
    <3>3. \A y \in Elems(q) : \E k \in 1..Len(q) : y = q[k]
      BY <1>1, ElemsAt
    <3>4. b \notin Elems(q)
      BY <3>2, <3>3
    <3>5. \A y \in Elems(q) : KeyOf[y] # KeyOf[b]
      BY <1>2, <3>2, <3>3
    <3> QED BY <1>1, <3>1, <3>4, <3>5
  <2>2. CASE Places(q, Key(b)) # {}
    <3>1. PICK i : i = CHOOSE n \in Places(q, Key(b)) : TRUE
      OBVIOUS
    <3>2. i \in 1..Len(q) /\ Key(q[i]) = Key(b)
      BY <1>1, <2>2, <3>1 DEF Places
    <3>3. w = Erase(q, i)
      BY <1>3, <2>2, <3>1 DEF Without
    <3>4. w \in Seq(Entries)
      BY <1>1, <3>2, <3>3, ErasedIs
    <3>5. Elems(w) \subseteq Elems(q) /\ Distinct(w, KeyOf) /\ \A y \in Elems(w) : KeyOf[y] # KeyOf[q[i]]
      BY <1>1, <3>2, <3>3, ErasedAre
    <3>6. KeyOf[q[i]] = KeyOf[b]
      BY <1>2, <3>2
    <3>7. ASSUME b \in Elems(q) PROVE Used(q) = Used(w) + SizeOf[b]
      <4>1. PICK k \in 1..Len(q) : b = q[k]
        BY <1>1, <3>7, ElemsAt
      <4>2. k = i
        BY <1>1, <1>2, <3>2, <4>1 DEF Distinct
      <4>3. SizeOf \in [Entries -> Nat]
        BY DEF SizeOf, Entries
      <4>4. Weight(q, SizeOf) = Weight(w, SizeOf) + SizeOf[q[i]]
        BY <1>1, <3>2, <3>3, <4>3, WeightErase
      <4> QED BY <1>1, <3>4, <4>1, <4>2, <4>4, UsedIs
    <3> QED BY <3>4, <3>5, <3>6, <3>7
  <2> QED BY <2>1, <2>2
<1>5. PICK r : r = <<b>> \o w
  OBVIOUS
<1>6. r \in Seq(Entries) /\ Len(r) = Len(w) + 1 /\ r[1] = b /\ \A k \in 1..Len(w) : r[k + 1] = w[k]
  <2>1. <<b>> \in Seq(Entries) /\ Len(<<b>>) = 1 /\ <<b>>[1] = b
    OBVIOUS
  <2> QED BY <1>4, <1>5, <2>1
<1>7. DOMAIN w = 1..Len(w) /\ Len(w) \in Nat /\ DOMAIN r = 1..Len(w) + 1
  <2>1. DOMAIN w = 1..Len(w) /\ Len(w) \in Nat /\ DOMAIN r = 1..Len(r)
    BY <1>4, <1>6
  <2> QED BY <1>6, <2>1
<1>8. ASSUME NEW k \in 1..Len(w) + 1 PROVE k = 1 \/ \E j \in 1..Len(w) : k = j + 1
  <2>1. k # 1 => k - 1 \in 1..Len(w) /\ k = (k - 1) + 1
    BY <1>7
  <2> QED BY <2>1
<1>9. Elems(r) \subseteq Elems(w) \cup {b}
  <2> SUFFICES ASSUME NEW y \in Elems(r) PROVE y \in Elems(w) \cup {b}
    OBVIOUS
  <2>1. PICK k \in 1..Len(w) + 1 : y = r[k]
    BY <1>7 DEF Elems
  <2>2. CASE k = 1
    BY <1>6, <2>1, <2>2
  <2>3. CASE \E j \in 1..Len(w) : k = j + 1
    <3>1. PICK j \in 1..Len(w) : k = j + 1
      BY <2>3
    <3>2. y = w[j]
      BY <1>6, <2>1, <3>1
    <3> QED BY <1>7, <3>2 DEF Elems
  <2> QED BY <1>8, <2>2, <2>3
<1>10. Distinct(r, KeyOf)
  <2> SUFFICES ASSUME NEW i \in 1..Len(w) + 1, NEW k \in 1..Len(w) + 1, KeyOf[r[i]] = KeyOf[r[k]]
               PROVE  i = k
    BY <1>7 DEF Distinct
  <2>1. \A j \in 1..Len(w) : KeyOf[r[j + 1]] # KeyOf[b]
    BY <1>4, <1>6, <1>7 DEF Elems
  <2>2. \A j, l \in 1..Len(w) : KeyOf[r[j + 1]] = KeyOf[r[l + 1]] => j = l
    <3>1. \A j, l \in 1..Len(w) : KeyOf[w[j]] = KeyOf[w[l]] => j = l
      BY <1>4, <1>7 DEF Distinct
    <3> QED BY ONLY <1>6, <3>1
  <2>3. (i = 1 \/ \E j \in 1..Len(w) : i = j + 1) /\ (k = 1 \/ \E j \in 1..Len(w) : k = j + 1)
    BY <1>8
  <2> QED BY <1>6, <2>1, <2>2, <2>3
<1>11. Stored(r)
  BY <1>4, <1>6, <1>9, <1>10 DEF Stored
<1>12. ASSUME b \in Elems(q) PROVE Used(r) = Used(q)
  <2>1. SizeOf \in [Entries -> Nat]
    BY DEF SizeOf, Entries
  <2>2. Weight(r, SizeOf) = SizeOf[b] + Weight(w, SizeOf)
    BY <1>4, <1>5, <2>1, WeightCons
  <2>3. Used(r) = Weight(r, SizeOf) /\ Used(w) = Weight(w, SizeOf) /\ Used(w) \in Nat
    BY <1>4, <1>6, UsedIs
  <2>4. SizeOf[b] \in Nat
    BY <2>1
  <2> QED BY <1>4, <1>12, <2>2, <2>3, <2>4
<1> QED BY <1>3, <1>5, <1>11, <1>12

\* What is left when blocks are dropped is no more than there was.
LEMMA Dropped ==
    ASSUME NEW q, Stored(q), NEW S
    PROVE  Stored(Those(q, S)) /\ Used(Those(q, S)) <= Used(q)
<1>1. q \in Seq(Entries) /\ Distinct(q, KeyOf) /\ \A b \in Elems(q) : Fits(b)
  BY DEF Stored
<1>2. Those(q, S) \in Seq(Entries) /\ Elems(Those(q, S)) \subseteq Elems(q)
  BY <1>1, ThoseAre
<1>3. Distinct(Those(q, S), KeyOf)
  BY <1>1, ThoseDistinct
<1>4. SizeOf \in [Entries -> Nat]
  BY DEF SizeOf, Entries
<1>5. Weight(Those(q, S), SizeOf) <= Weight(q, SizeOf)
  BY <1>1, <1>4, ThoseLighter
<1> QED BY <1>1, <1>2, <1>3, <1>5, UsedIs DEF Stored

-----------------------------------------------------------------------------
(* Downloads *)

\* A download has not begun, or serves.
LEMMA BegunServes ==
    ASSUME DownloadsRight, NEW d \in Downloads
    PROVE  /\ dl[d] \in Transfers /\ dl \in [Downloads -> Transfers]
           /\ dl[d].pc = "idle" => dl[d] = FreshDownload
           /\ dl[d].pc # "idle" => Serves(dl[d])
  BY DEF DownloadsRight, Serves, FreshDownload

\* When one download becomes y, and y serves, the downloads are right.
LEMMA Becomes ==
    ASSUME DownloadsRight, NEW d \in Downloads, NEW y \in Transfers, Serves(y),
           dl' = [dl EXCEPT ![d] = y]
    PROVE  DownloadsRight'
<1>1. dl' \in [Downloads -> Transfers] /\ dl'[d] = y /\ \A e \in Downloads : e # d => dl'[e] = dl[e]
  BY DEF DownloadsRight
<1>2. ASSUME NEW e \in Downloads PROVE dl'[e] = FreshDownload \/ Serves(dl'[e])
  <2>1. dl[e] = FreshDownload \/ Serves(dl[e])
    BY DEF DownloadsRight
  <2>2. CASE e = d
    <3>1. dl'[e] = y
      BY <1>1, <2>2
    <3> QED BY <3>1, Zenon
  <2>3. CASE e # d
    <3>1. dl'[e] = dl[e]
      BY <1>1, <2>3
    <3> QED BY <2>1, <3>1, Zenon
  <2> QED BY <2>2, <2>3
<1> QED BY <1>1, <1>2 DEF DownloadsRight

\* Where a download is: the fields that say so.
SamePlan(x, y) == /\ y.opened = x.opened /\ y.listed = x.listed /\ y.chunks = x.chunks /\ y.range = x.range
                  /\ y.pos = x.pos /\ y.left = x.left /\ y.sent = x.sent

\* Held: the block that a download holds is of the place it is at.
Held(x) == \E b \in Entries : x.block = <<b>> /\ Fits(b) /\ Key(b) = Key(BlockAt(x))

LEMMA SamePlace ==
    ASSUME NEW x, NEW y, SamePlan(x, y)
    PROVE  Chunk(y) = Chunk(x) /\ BlockAt(y) = BlockAt(x)
<1>1. Chunk(y) = Chunk(x)
  BY DEF SamePlan, Chunk
<1>2. y.listed = x.listed /\ y.pos = x.pos
  BY DEF SamePlan
<1> QED BY ONLY <1>1, <1>2 DEF BlockAt

\* A download that stays where it is goes on serving.
LEMMA StaysThere ==
    ASSUME NEW x \in Transfers, Serves(x), x.pc # "refused", NEW y \in Transfers, SamePlan(x, y),
           y.pc \notin {"idle", "refused", "list"}, y.pc \in {"fetch", "put", "send"} => Chunk(x) # {},
           y.pc \in {"put", "send"} => Held(y), y.pc = "whole" => x.left = 0
    PROVE  Serves(y)
<1>1. Chunk(y) = Chunk(x) /\ BlockAt(y) = BlockAt(x)
  BY SamePlace
<1>2. PICK p : p = ParseRange(x.range, Size(x.opened))
  OBVIOUS
<1>3. p = ParseRange(y.range, Size(y.opened))
  BY <1>2 DEF SamePlan
<1>4. /\ x.range \in Ranges /\ x.chunks \subseteq DOMAIN Versions[x.listed] /\ p.ok
      /\ x.pos + x.left = p.start + p.length /\ x.pos = p.start + Len(x.sent)
      /\ Runs(x.sent, x.listed, p.start)
  BY ONLY <1>2, Serves(x), x.pc # "refused" DEF Serves
<1>5. /\ y.range \in Ranges /\ y.chunks \subseteq DOMAIN Versions[y.listed] /\ p.ok
      /\ y.pos + y.left = p.start + p.length /\ y.pos = p.start + Len(y.sent)
      /\ Runs(y.sent, y.listed, p.start)
  BY ONLY <1>4, SamePlan(x, y) DEF SamePlan
<1>6. y.pc = "whole" => y.left = 0
  BY DEF SamePlan
<1>7. y.pc # "idle" /\ y.pc # "refused" /\ y.pc # "list"
  OBVIOUS
<1>8. y.pc \in {"fetch", "put", "send"} => Chunk(y) # {}
  BY <1>1
<1>9. y.pc \in {"put", "send"} => \E b \in Entries : y.block = <<b>> /\ Fits(b) /\ Key(b) = Key(BlockAt(y))
  BY DEF Held
<1> QED BY ONLY <1>3, <1>5, <1>6, <1>7, <1>8, <1>9 DEF Serves

-----------------------------------------------------------------------------
(* Steps of a download *)

LEMMA OpenKeeps ==
    ASSUME FileRight, DownloadsRight, NEW d \in Downloads, Open(d)
    PROVE  DownloadsRight'
<1>1. PICK r \in Ranges : LET p == ParseRange(r, Size(entry))
          IN dl' = [dl EXCEPT ![d] = [FreshDownload EXCEPT !.pc = IF p.ok THEN "list" ELSE "refused",
                                          !.opened = entry, !.range = r,
                                          !.pos = p.start, !.left = p.length]]
  BY DEF Open
<1>2. entry \in DOMAIN Versions /\ 1 \in DOMAIN Versions
  BY ReadAssumption DEF FileRight
<1>3. Size(entry) \in Nat
  BY <1>2, VersionIs
<1>4. PICK p \in [ok : BOOLEAN, start : Nat, length : Nat] : ParseRange(r, Size(entry)) = p
  BY <1>3, Parsed
<1>5. PICK pc : pc = IF p.ok THEN "list" ELSE "refused"
  OBVIOUS
<1>6. PICK y : y = [FreshDownload EXCEPT !.pc = pc, !.opened = entry, !.range = r,
                                         !.pos = p.start, !.left = p.length]
  OBVIOUS
<1>7. dl' = [dl EXCEPT ![d] = y]
  BY <1>1, <1>4, <1>5, <1>6
<1>8. y = [pc |-> pc, opened |-> entry, listed |-> 1, chunks |-> {}, range |-> r, pos |-> p.start,
           left |-> p.length, block |-> <<>>, sent |-> <<>>]
  BY <1>6 DEF FreshDownload
<1>9. y \in Transfers
  <2>1. pc \in Stages /\ <<>> \in Seq(Entries) /\ <<>> \in Seq(Nat \X Nat) /\ {} \in SUBSET Nat
    BY <1>5 DEF Stages
  <2>2. p.start \in Nat /\ p.length \in Nat
    OBVIOUS
  <2> QED BY <1>2, <1>8, <2>1, <2>2 DEF Transfers
<1>10. /\ y.pc = pc /\ y.opened = entry /\ y.listed = 1 /\ y.chunks = {} /\ y.range = r /\ y.pos = p.start
       /\ y.left = p.length /\ y.sent = <<>>
  BY <1>8
<1>11. Serves(y)
  <2>1. p = ParseRange(y.range, Size(y.opened))
    BY <1>4, <1>10
  <2>2. y.pc # "idle" /\ (y.pc = "refused" <=> ~p.ok) /\ y.pc \notin {"fetch", "put", "send", "whole"}
    BY <1>5, <1>10
  <2>3. y.pos + y.left = p.start + p.length /\ y.pos = p.start + Len(y.sent) /\ DOMAIN y.sent = {}
    BY <1>10
  <2> QED BY ONLY <1>10, <2>1, <2>2, <2>3, r \in Ranges DEF Serves, Runs
<1> QED BY <1>7, <1>9, <1>11, Becomes

LEMMA ListKeeps ==
    ASSUME FileRight, DownloadsRight, NEW d \in Downloads, List(d)
    PROVE  DownloadsRight'
<1>1. PICK x : x = dl[d]
  OBVIOUS
<1>2. dl \in [Downloads -> Transfers] /\ x \in Transfers /\ Serves(x) /\ x.pc = "list"
  BY <1>1, BegunServes DEF List, On
<1>3. PICK pc : pc = IF rows = {} THEN "failed" ELSE "block"
  OBVIOUS
<1>4. PICK y : y = [x EXCEPT !.pc = pc, !.listed = rowsOf, !.chunks = rows]
  OBVIOUS
<1>5. dl' = [dl EXCEPT ![d] = y]
  <2>1. dl' = [dl EXCEPT ![d].pc = pc, ![d].listed = rowsOf, ![d].chunks = rows]
    BY <1>3 DEF List
  <2> QED BY <1>1, <1>2, <1>4, <2>1
<1>6. rowsOf \in DOMAIN Versions /\ rows \subseteq DOMAIN Versions[rowsOf] /\ rows \in SUBSET Nat
  <2>1. rowsOf \in DOMAIN Versions /\ \E n \in 0..Len(Versions[rowsOf]) : rows = 1..n
    BY DEF FileRight
  <2>2. DOMAIN Versions[rowsOf] = 1..Len(Versions[rowsOf]) /\ Len(Versions[rowsOf]) \in Nat
    BY <2>1, VersionIs
  <2> QED BY <2>1, <2>2
<1>7. /\ y \in Transfers /\ y.pc = pc /\ y.opened = x.opened /\ y.listed = rowsOf /\ y.chunks = rows
      /\ y.range = x.range /\ y.pos = x.pos /\ y.left = x.left /\ y.sent = x.sent
  <2>1. pc \in Stages
    BY <1>3 DEF Stages
  <2> QED BY <1>2, <1>4, <1>6, <2>1 DEF Transfers
<1>8. Serves(y)
  <2>1. PICK p : p = ParseRange(x.range, Size(x.opened))
    OBVIOUS
  <2>2. /\ x.range \in Ranges /\ p.ok /\ x.pos + x.left = p.start + p.length
        /\ x.pos = p.start + Len(x.sent) /\ x.sent = <<>>
    BY ONLY <1>2, <2>1 DEF Serves
  <2>3. p = ParseRange(y.range, Size(y.opened))
    BY <1>7, <2>1
  <2>4. y.pc \notin {"idle", "refused", "list", "fetch", "put", "send", "whole"}
    BY <1>3, <1>7
  <2>5. DOMAIN y.sent = {}
    BY <1>7, <2>2
  <2> QED BY ONLY <1>6, <1>7, <2>2, <2>3, <2>4, <2>5 DEF Serves, Runs
<1> QED BY <1>5, <1>7, <1>8, Becomes

\* A step that changes nothing of a download but what it does next and its block.
LEMMA TransferGoesOn ==
    ASSUME DownloadsRight, NEW d \in Downloads, dl[d].pc \notin {"idle", "refused"},
           NEW pc \in Stages, NEW block \in Seq(Entries),
           dl' = [dl EXCEPT ![d] = [dl[d] EXCEPT !.pc = pc, !.block = block]],
           pc \notin {"idle", "refused", "list"}, pc \in {"fetch", "put", "send"} => Chunk(dl[d]) # {},
           pc \in {"put", "send"} => \E b \in Entries : block = <<b>> /\ Fits(b) /\ Key(b) = Key(BlockAt(dl[d])),
           pc = "whole" => dl[d].left = 0
    PROVE  DownloadsRight'
<1>1. PICK x : x = dl[d]
  OBVIOUS
<1>2. x \in Transfers /\ Serves(x) /\ x.pc # "refused"
  BY <1>1, BegunServes
<1>3. PICK y : y = [x EXCEPT !.pc = pc, !.block = block]
  OBVIOUS
<1>4. y \in Transfers /\ SamePlan(x, y) /\ y.pc = pc /\ y.block = block
  BY <1>2, <1>3 DEF Transfers, SamePlan
<1>5. BlockAt(y) = BlockAt(x)
  BY <1>4, SamePlace
<1>6. pc \in {"put", "send"} => Held(y)
  BY <1>1, <1>4, <1>5 DEF Held
<1>7. Serves(y)
  BY <1>1, <1>2, <1>4, <1>6, StaysThere
<1>8. dl' = [dl EXCEPT ![d] = y]
  BY <1>1, <1>3
<1> QED BY <1>4, <1>7, <1>8, Becomes

\* A download that has a block is past finding it.
LEMMA HasBlock ==
    ASSUME DownloadsRight, NEW d \in Downloads, dl[d].pc \in {"fetch", "put", "send"}
    PROVE  /\ dl[d] \in Transfers /\ Chunk(dl[d]) # {}
           /\ BlockAt(dl[d]) \in Entries /\ Fits(BlockAt(dl[d])) /\ BlockAt(dl[d]).v = dl[d].listed
           /\ dl[d].pc \in {"put", "send"} => Held(dl[d])
<1>1. PICK x : x = dl[d]
  OBVIOUS
<1>2. x \in Transfers /\ Serves(x)
  BY <1>1, BegunServes
<1>3. Chunk(x) # {} /\ x.chunks \subseteq DOMAIN Versions[x.listed] /\ (x.pc \in {"put", "send"} => Held(x))
  BY ONLY <1>1, <1>2, dl[d].pc \in {"fetch", "put", "send"} DEF Serves, Held
<1>4. BlockAt(x) \in Entries /\ Fits(BlockAt(x)) /\ BlockAt(x).v = x.listed
  BY <1>2, <1>3, BlockIs
<1> QED BY <1>1, <1>2, <1>3, <1>4

LEMMA FindBlockKeeps ==
    ASSUME Stored(cache), Used(cache) <= capacity, DownloadsRight, NEW d \in Downloads, FindBlock(d)
    PROVE  DownloadsRight' /\ Stored(cache') /\ Used(cache') <= capacity
<1> DEFINE k == Key(BlockAt(dl[d]))
           b == CHOOSE h \in Hit(cache, k) : TRUE
<1>1. dl[d].pc = "block" /\ dl[d] \in Transfers /\ Serves(dl[d]) /\ dl \in [Downloads -> Transfers]
  BY BegunServes DEF FindBlock, On
<1>2. dl[d].block \in Seq(Entries)
  BY <1>1 DEF Transfers
<1>3. CASE Chunk(dl[d]) = {} /\ dl' = [dl EXCEPT ![d].pc = "failed"] /\ UNCHANGED cache
  <2>1. dl' = [dl EXCEPT ![d] = [dl[d] EXCEPT !.pc = "failed", !.block = dl[d].block]]
    BY <1>1, <1>3 DEF Transfers
  <2>2. DownloadsRight'
    BY <1>1, <1>2, <2>1, TransferGoesOn DEF Stages
  <2> QED BY <1>3, <2>2
<1>4. CASE Chunk(dl[d]) # {} /\ dl' = [dl EXCEPT ![d].pc = "fetch"] /\ UNCHANGED cache
  <2>1. dl' = [dl EXCEPT ![d] = [dl[d] EXCEPT !.pc = "fetch", !.block = dl[d].block]]
    BY <1>1, <1>4 DEF Transfers
  <2>2. DownloadsRight'
    BY <1>1, <1>2, <1>4, <2>1, TransferGoesOn DEF Stages
  <2> QED BY <1>4, <2>2
<1>5. CASE /\ Chunk(dl[d]) # {} /\ Hit(cache, k) # {}
           /\ dl' = [dl EXCEPT ![d].pc = "send", ![d].block = <<b>>]
           /\ cache' = <<b>> \o Without(cache, Key(b))
  <2>1. b \in Hit(cache, k)
    BY <1>5
  <2> HIDE DEF b
  <2>2. b \in Elems(cache) /\ Key(b) = k
    BY <2>1 DEF Hit, Elems
  <2>3. b \in Entries /\ Fits(b)
    <3>1. cache \in Seq(Entries) /\ \A y \in Elems(cache) : Fits(y)
      BY DEF Stored
    <3> QED BY <2>2, <3>1, ElemsAt
  <2>4. Stored(cache') /\ Used(cache') <= capacity
    BY <1>5, <2>2, <2>3, Fronted
  <2>5. dl' = [dl EXCEPT ![d] = [dl[d] EXCEPT !.pc = "send", !.block = <<b>>]]
    BY <1>1, <1>5 DEF Transfers
  <2>6. DownloadsRight'
    <3>1. <<b>> \in Seq(Entries)
      BY <2>3
    <3> QED BY <1>1, <1>5, <2>2, <2>3, <2>5, <3>1, TransferGoesOn DEF Stages
  <2> QED BY <2>4, <2>6
<1> QED BY <1>3, <1>4, <1>5 DEF FindBlock

LEMMA FetchKeeps ==
    ASSUME DownloadsRight, NEW d \in Downloads, Fetch(d)
    PROVE  DownloadsRight'
<1>1. dl[d].pc = "fetch" /\ dl[d] \in Transfers /\ dl \in [Downloads -> Transfers]
  BY BegunServes DEF Fetch, On
<1>2. PICK b \in Entries : b = BlockAt(dl[d]) /\ Fits(b) /\ Chunk(dl[d]) # {}
  BY <1>1, HasBlock
<1>3. dl' = [dl EXCEPT ![d] = [dl[d] EXCEPT !.pc = "put", !.block = <<b>>]]
  BY <1>1, <1>2 DEF Fetch, Transfers
<1>4. <<b>> \in Seq(Entries)
  OBVIOUS
<1> QED BY <1>1, <1>2, <1>3, <1>4, TransferGoesOn DEF Stages

LEMMA FetchShortKeeps ==
    ASSUME DownloadsRight, NEW d \in Downloads, FetchShort(d)
    PROVE  DownloadsRight'
<1>1. dl[d].pc = "fetch" /\ dl[d] \in Transfers /\ dl \in [Downloads -> Transfers]
  BY BegunServes DEF FetchShort, On
<1>2. PICK b \in Entries : b = BlockAt(dl[d]) /\ Fits(b) /\ Chunk(dl[d]) # {} /\ b.v = dl[d].listed
  BY <1>1, HasBlock
<1>3. PICK n \in 1..b.size - 1 : dl' = [dl EXCEPT ![d].pc = "put", ![d].block = <<[b EXCEPT !.size = n]>>]
  BY <1>2 DEF FetchShort
<1>4. PICK s : s = [b EXCEPT !.size = n]
  OBVIOUS
<1>5. s \in Entries /\ s.v = b.v /\ s.chunk = b.chunk /\ s.block = b.block /\ s.size = n /\ n <= b.size
  BY <1>4 DEF Entries
<1>6. Key(s) = Key(b)
  BY <1>5 DEF Key
<1>7. Fits(s)
  <2>1. PICK m : m = Lesser(BlockSize, Versions[b.v][b.chunk] - b.block * BlockSize)
    OBVIOUS
  <2>2. b.chunk \in DOMAIN Versions[b.v] /\ b.size <= m
    BY <1>2, <2>1 DEF Fits
  <2>3. m \in Int
    <3>1. b.v \in DOMAIN Versions /\ b.block \in Nat
      BY DEF Entries
    <3>2. Versions[b.v][b.chunk] \in Nat
      BY <2>2, <3>1, VersionIs
    <3>3. BlockSize \in Nat
      BY ReadAssumption
    <3>4. b.block * BlockSize \in Nat
      BY <3>1, <3>3
    <3> QED BY <2>1, <3>2, <3>3, <3>4 DEF Lesser
  <2>4. b.size \in Nat
    BY DEF Entries
  <2>5. s.size <= m
    BY <1>5, <2>2, <2>3, <2>4
  <2>6. m = Lesser(BlockSize, Versions[s.v][s.chunk] - s.block * BlockSize) /\ s.chunk \in DOMAIN Versions[s.v]
    BY ONLY <1>5, <2>1, <2>2
  <2> QED BY <2>5, <2>6 DEF Fits
<1>8. dl' = [dl EXCEPT ![d] = [dl[d] EXCEPT !.pc = "put", !.block = <<s>>]]
  BY <1>1, <1>3, <1>4 DEF Transfers
<1>9. <<s>> \in Seq(Entries)
  BY <1>5
<1>10. Key(s) = Key(BlockAt(dl[d]))
  BY <1>2, <1>6
<1> QED BY <1>1, <1>2, <1>5, <1>7, <1>8, <1>9, <1>10, TransferGoesOn DEF Stages

LEMMA PutKeeps ==
    ASSUME FileRight, Stored(cache), Used(cache) <= capacity, DownloadsRight, NEW d \in Downloads, Put(d)
    PROVE  DownloadsRight' /\ Stored(cache') /\ Used(cache') <= capacity
<1>1. dl[d].pc = "put" /\ dl[d] \in Transfers /\ dl \in [Downloads -> Transfers]
  BY BegunServes DEF Put, On
<1>2. PICK b \in Entries : dl[d].block = <<b>> /\ Fits(b) /\ Key(b) = Key(BlockAt(dl[d])) /\ Chunk(dl[d]) # {}
  BY <1>1, HasBlock DEF Held
<1>3. capacity \in Nat
  BY ReadAssumption DEF FileRight
<1>4. Stored(cache') /\ Used(cache') <= capacity
  <2>1. cache' = IF b.size > capacity THEN cache ELSE Evict(<<b>> \o Without(cache, Key(b)), capacity)
    BY <1>2 DEF Put, PutBlock
  <2>2. Stored(<<b>> \o Without(cache, Key(b)))
    BY <1>2, Fronted
  <2> QED BY <1>3, <2>1, <2>2, Evicted
<1>5. dl' = [dl EXCEPT ![d] = [dl[d] EXCEPT !.pc = "send", !.block = <<b>>]]
  BY <1>1, <1>2 DEF Put, Transfers
<1>6. <<b>> \in Seq(Entries)
  OBVIOUS
<1>7. DownloadsRight'
  BY <1>1, <1>2, <1>5, <1>6, TransferGoesOn DEF Stages
<1> QED BY <1>4, <1>7

\* The steps with which a download ends.
LEMMA EndsKeep ==
    ASSUME DownloadsRight, NEW d \in Downloads, FetchFails(d) \/ ClientLeaves(d) \/ Ends(d)
    PROVE  DownloadsRight'
<1>1. PICK pc \in {"failed", "left", "whole"} :
         /\ dl' = [dl EXCEPT ![d].pc = pc] /\ dl[d].pc \in {"fetch", "send", "block", "list"}
         /\ pc = "whole" => dl[d].left = 0
  BY DEF FetchFails, ClientLeaves, Ends, On
<1>2. dl[d] \in Transfers /\ dl \in [Downloads -> Transfers]
  BY BegunServes
<1>3. dl[d].block \in Seq(Entries)
  BY <1>2 DEF Transfers
<1>4. dl' = [dl EXCEPT ![d] = [dl[d] EXCEPT !.pc = pc, !.block = dl[d].block]]
  BY <1>1, <1>2 DEF Transfers
<1> QED BY <1>1, <1>3, <1>4, TransferGoesOn DEF Stages

\* The bytes that are sent next are those that come next in the range.
LEMMA SentIs ==
    ASSUME NEW T, NEW v, NEW start \in Nat, NEW sent \in Seq(T), NEW t \in Seq(T),
           Runs(sent, v, start), Runs(t, v, start + Len(sent))
    PROVE  /\ sent \o t \in Seq(T) /\ Len(sent \o t) = Len(sent) + Len(t)
           /\ Runs(sent \o t, v, start)
<1> DEFINE N == Len(sent)
           n == Len(t)
<1>1. N \in Nat /\ DOMAIN sent = 1..N /\ n \in Nat /\ DOMAIN t = 1..n
  OBVIOUS
<1>2. \A k \in 1..N : sent[k] = <<v, start + k - 1>>
  BY <1>1 DEF Runs
<1>3. \A k \in 1..n : t[k] = <<v, (start + N) + k - 1>>
  BY <1>1 DEF Runs
<1>4. PICK m : m = sent \o t
  OBVIOUS
<1>5. /\ m \in Seq(T) /\ Len(m) = Len(sent) + Len(t)
      /\ \A k \in 1..Len(sent) + Len(t) : m[k] = IF k <= Len(sent) THEN sent[k] ELSE t[k - Len(sent)]
  BY <1>4, ConcatProperties
<1> HIDE DEF N, n
<1>6. /\ Len(m) = N + n /\ DOMAIN m = 1..N + n
      /\ \A k \in 1..N + n : m[k] = IF k <= N THEN sent[k] ELSE t[k - N]
  <2>1. DOMAIN m = 1..Len(m)
    BY <1>5
  <2> QED BY <1>5, <2>1 DEF N, n
<1>7. ASSUME NEW k \in 1..N + n PROVE m[k] = <<v, start + k - 1>>
  <2>1. CASE k <= N
    <3>1. k \in 1..N
      BY <1>1, <2>1
    <3> QED BY <1>2, <1>6, <2>1, <3>1
  <2>2. CASE ~(k <= N)
    <3>1. k - N \in 1..n /\ (start + N) + (k - N) - 1 = start + k - 1
      BY <1>1, <2>2
    <3>2. t[k - N] = <<v, (start + N) + (k - N) - 1>>
      BY <1>3, <3>1
    <3> QED BY <1>6, <2>2, <3>1, <3>2
  <2> QED BY <2>1, <2>2
<1> QED BY <1>4, <1>5, <1>6, <1>7 DEF N, n, Runs

LEMMA SendKeeps ==
    ASSUME DownloadsRight, NEW d \in Downloads, Send(d)
    PROVE  DownloadsRight'
<1>1. PICK x : x = dl[d]
  OBVIOUS
<1>2. x.pc = "send" /\ x \in Transfers /\ Serves(x) /\ dl \in [Downloads -> Transfers]
  BY <1>1, BegunServes DEF Send, On
<1>3. PICK w \in Entries : w = BlockAt(x)
  BY <1>1, <1>2, HasBlock
<1>4. PICK b \in Entries : x.block = <<b>> /\ Fits(b) /\ Key(b) = Key(w)
  BY <1>1, <1>2, <1>3, HasBlock DEF Held
<1>5. Chunk(x) # {} /\ w.v = x.listed
  BY <1>1, <1>2, <1>3, HasBlock
<1>6. b.v = w.v /\ b.chunk = w.chunk /\ b.block = w.block
  BY <1>4 DEF Key
<1> DEFINE at == Offset(x.listed, w.chunk)
<1>7. PICK inBlock : inBlock = x.pos - at - w.block * BlockSize
  OBVIOUS
<1>8. PICK take : take = Lesser(b.size - inBlock, x.left)
  OBVIOUS
<1>9. PICK from : from = Offset(b.v, b.chunk) + b.block * BlockSize + inBlock
  OBVIOUS
<1>10. dl' = [dl EXCEPT ![d] =
             IF inBlock >= b.size THEN [x EXCEPT !.pc = "failed"]
             ELSE [x EXCEPT !.pc = "block", !.block = <<>>, !.pos = @ + take, !.left = @ - take,
                            !.sent = @ \o [k \in 1..take |-> <<b.v, from + k - 1>>]]]
  BY <1>1, <1>3, <1>4, <1>7, <1>8, <1>9 DEF Send
<1>11. CASE inBlock >= b.size
  <2>1. dl' = [dl EXCEPT ![d] = [x EXCEPT !.pc = "failed"]]
    BY <1>10, <1>11
  <2>2. x.block \in Seq(Entries)
    BY <1>2 DEF Transfers
  <2>3. [x EXCEPT !.pc = "failed"] = [x EXCEPT !.pc = "failed", !.block = x.block]
    BY <1>2 DEF Transfers
  <2>4. dl' = [dl EXCEPT ![d] = [dl[d] EXCEPT !.pc = "failed", !.block = dl[d].block]]
    BY <1>1, <2>1, <2>3
  <2> QED BY <1>1, <1>2, <2>2, <2>4, TransferGoesOn DEF Stages
<1>12. CASE ~(inBlock >= b.size)
  <2>1. /\ x.pos \in Nat /\ x.left \in Nat /\ x.listed \in DOMAIN Versions /\ x.sent \in Seq(Nat \X Nat)
        /\ x.opened \in DOMAIN Versions
    BY <1>2 DEF Transfers
  <2>2. at \in Nat /\ w.block \in Nat /\ b.size \in Nat /\ w.block * BlockSize \in Nat
    <3>1. w.chunk \in DOMAIN Versions[x.listed]
      BY <1>4, <1>5, <1>6 DEF Fits
    <3>2. at \in Nat
      BY <2>1, <3>1, VersionIs
    <3>3. w.block \in Nat /\ b.size \in Nat /\ BlockSize \in Nat
      BY ReadAssumption DEF Entries
    <3> QED BY <3>2, <3>3
  <2>3. from = x.pos
    <3>1. from = at + w.block * BlockSize + inBlock
      BY <1>5, <1>6, <1>9
    <3> HIDE DEF at
    <3>2. \A m \in Nat : inBlock = x.pos - at - m => at + m + inBlock = x.pos
      BY <2>1, <2>2
    <3> QED BY <1>7, <2>2, <3>1, <3>2
  <2>4. take \in Nat /\ take <= x.left
    <3>1. inBlock \in Int
      <4> HIDE DEF at
      <4>1. \A m \in Nat : x.pos - at - m \in Int
        BY <2>1, <2>2
      <4> QED BY <1>7, <2>2, <4>1
    <3> QED BY <1>8, <1>12, <2>1, <2>2, <3>1 DEF Lesser
  <2>5. PICK p : p = ParseRange(x.range, Size(x.opened))
    OBVIOUS
  <2>6. /\ x.range \in Ranges /\ x.chunks \subseteq DOMAIN Versions[x.listed] /\ p.ok
        /\ x.pos + x.left = p.start + p.length /\ x.pos = p.start + Len(x.sent)
        /\ Runs(x.sent, x.listed, p.start)
    BY ONLY <1>2, <2>5 DEF Serves
  <2>7. p.start \in Nat /\ p.length \in Nat
    <3>1. Size(x.opened) \in Nat
      BY <2>1, VersionIs
    <3> QED BY <2>5, <2>6, <3>1, Parsed
  <2>8. PICK more : more = x.sent \o [k \in 1..take |-> <<b.v, from + k - 1>>]
    OBVIOUS
  <2>9. /\ more \in Seq(Nat \X Nat) /\ Len(more) = Len(x.sent) + take
        /\ Runs(more, x.listed, p.start)
    <3>1. x.listed \in Nat
      <4>1. Versions \in Seq(Seq(Nat \ {0}) \ {<<>>})
        BY ReadAssumption
      <4>2. DOMAIN Versions = 1..Len(Versions)
        BY <4>1
      <4> QED BY <2>1, <4>2
    <3>2. more = x.sent \o [k \in 1..take |-> <<x.listed, (p.start + Len(x.sent)) + k - 1>>]
      BY <1>5, <1>6, <2>3, <2>6, <2>8
    <3>3. PICK t : t = [k \in 1..take |-> <<x.listed, (p.start + Len(x.sent)) + k - 1>>] /\ more = x.sent \o t
      BY ONLY <3>2
    <3>4. t \in Seq(Nat \X Nat) /\ Len(t) = take /\ Runs(t, x.listed, p.start + Len(x.sent))
      <4>1. \A k \in 1..take : (p.start + Len(x.sent)) + k - 1 \in Nat
        BY <2>1, <2>4, <2>7
      <4>2. t \in [1..take -> Nat \X Nat] /\ DOMAIN t = 1..take
        BY <3>1, <3>3, <4>1
      <4>3. t \in Seq(Nat \X Nat)
        BY <2>4, <4>2
      <4>4. Len(t) = take
        BY <2>4, <4>2, <4>3
      <4> QED BY <3>3, <4>3, <4>4 DEF Runs
    <3>5. more \in Seq(Nat \X Nat) /\ Len(more) = Len(x.sent) + Len(t) /\ Runs(more, x.listed, p.start)
      <4>1. x.sent \in Seq(Nat \X Nat) /\ p.start \in Nat /\ Runs(x.sent, x.listed, p.start)
        BY ONLY <2>1, <2>6, <2>7
      <4>2. PICK T, v, a, s : T = Nat \X Nat /\ v = x.listed /\ a = p.start /\ s = x.sent
        OBVIOUS
      <4>3. s \in Seq(T) /\ t \in Seq(T) /\ a \in Nat /\ Runs(s, v, a) /\ Runs(t, v, a + Len(s))
        BY ONLY <3>4, <4>1, <4>2
      <4>4. s \o t \in Seq(T) /\ Len(s \o t) = Len(s) + Len(t) /\ Runs(s \o t, v, a)
        BY ONLY <4>3, SentIs
      <4> QED BY ONLY <3>3, <4>2, <4>4
    <3> QED BY ONLY <3>4, <3>5
  <2>10. PICK y : y = [x EXCEPT !.pc = "block", !.block = <<>>, !.pos = x.pos + take,
                                !.left = x.left - take, !.sent = more]
    OBVIOUS
  <2>11. dl' = [dl EXCEPT ![d] = y]
    <3>1. [x EXCEPT !.pc = "block", !.block = <<>>, !.pos = @ + take, !.left = @ - take,
                            !.sent = @ \o [k \in 1..take |-> <<b.v, from + k - 1>>]] = y
      BY <1>2, <2>8, <2>10 DEF Transfers
    <3> QED BY <1>10, <1>12, <3>1
  <2>12. /\ y \in Transfers /\ y.pc = "block" /\ y.opened = x.opened /\ y.listed = x.listed
         /\ y.chunks = x.chunks /\ y.range = x.range /\ y.pos = x.pos + take /\ y.left = x.left - take
         /\ y.sent = more
    <3>1. x.pos + take \in Nat /\ x.left - take \in Nat /\ <<>> \in Seq(Entries) /\ "block" \in Stages
      BY <2>1, <2>4 DEF Stages
    <3> QED BY <1>2, <2>9, <2>10, <3>1 DEF Transfers
  <2>13. Serves(y)
    <3>1. p = ParseRange(y.range, Size(y.opened))
      BY <2>5, <2>12
    <3>2. y.pos + y.left = p.start + p.length
      BY <2>1, <2>4, <2>6, <2>7, <2>12
    <3>3. y.pos = p.start + Len(y.sent)
      <4>1. Len(x.sent) \in Nat
        BY <2>1
      <4>2. \A a, b2, c \in Nat : (a + b2) + c = a + (b2 + c)
        OBVIOUS
      <4>3. y.pos = (p.start + Len(x.sent)) + take /\ Len(y.sent) = Len(x.sent) + take
        BY ONLY <2>6, <2>9, <2>12
      <4> QED BY ONLY <2>4, <2>7, <4>1, <4>2, <4>3
    <3>4. Runs(y.sent, y.listed, p.start)
      BY <2>9, <2>12
    <3>5. y.range \in Ranges /\ y.chunks \subseteq DOMAIN Versions[y.listed] /\ p.ok
      BY <2>6, <2>12
    <3> QED BY ONLY <2>12, <3>1, <3>2, <3>3, <3>4, <3>5 DEF Serves
  <2> QED BY <2>11, <2>12, <2>13, Becomes
<1> QED BY <1>11, <1>12

-----------------------------------------------------------------------------
(* Meanwhile *)

LEMMA PurgeKeeps ==
    ASSUME ReadInv, PurgeFileData
    PROVE  FileRight' /\ Stored(cache') /\ Used(cache') <= capacity
<1>1. /\ entry < Len(Versions) /\ cache' = Those(cache, {b \in Elems(cache) : b.v # rowsOf})
      /\ rows' = {} /\ entry' = entry /\ rowsOf' = rowsOf /\ capacity' = capacity /\ bad' = bad
  BY DEF PurgeFileData
<1>2. FileRight /\ Stored(cache) /\ Used(cache) <= capacity
  BY DEF ReadInv
<1>3. Stored(cache') /\ Used(cache') <= Used(cache)
  BY <1>1, <1>2, Dropped
<1>4. Used(cache') \in Nat /\ Used(cache) \in Nat /\ capacity \in Nat
  BY <1>2, <1>3, UsedIs, ReadAssumption DEF Stored, FileRight
<1>5. \E n \in 0..Len(Versions[rowsOf]) : rows' = 1..n
  <2>1. Len(Versions[rowsOf]) \in Nat
    BY <1>2, VersionIs DEF FileRight
  <2>2. 0 \in 0..Len(Versions[rowsOf]) /\ 1..0 = {}
    BY <2>1
  <2> QED BY <1>1, <2>2
<1>6. FileRight'
  BY <1>1, <1>2, <1>5 DEF FileRight
<1> QED BY <1>2, <1>3, <1>4, <1>6

LEMMA ReplaceKeeps ==
    ASSUME FileRight, ReplaceEntry
    PROVE  FileRight'
<1>1. /\ writing = "purged" /\ writing' = "rows" /\ entry' = entry + 1 /\ rowsOf' = entry + 1
      /\ rows' = {} /\ capacity' = capacity /\ bad' = bad
  BY DEF ReplaceEntry
<1>2. DOMAIN Versions = 1..Len(Versions) /\ Len(Versions) \in Nat
  <2>1. Versions \in Seq(Seq(Nat \ {0}) \ {<<>>})
    BY ReadAssumption
  <2> QED BY <2>1
<1>3. entry + 1 \in DOMAIN Versions
  BY <1>1, <1>2 DEF FileRight
<1>4. Len(Versions[entry + 1]) \in Nat
  BY <1>3, VersionIs
<1>5. 0 \in 0..Len(Versions[entry + 1]) /\ 1..0 = {}
  BY <1>4
<1> QED BY <1>1, <1>3, <1>5 DEF FileRight

LEMMA AddRowKeeps ==
    ASSUME FileRight, AddRow
    PROVE  FileRight'
<1>1. /\ rows # DOMAIN Versions[rowsOf] /\ rows' = 1..Cardinality(rows) + 1
      /\ writing' \in {"none", "rows"} /\ entry' = entry /\ rowsOf' = rowsOf /\ capacity' = capacity /\ bad' = bad
  BY DEF AddRow
<1>2. rowsOf \in DOMAIN Versions
  BY DEF FileRight
<1>3. DOMAIN Versions[rowsOf] = 1..Len(Versions[rowsOf]) /\ Len(Versions[rowsOf]) \in Nat
  BY <1>2, VersionIs
<1>4. PICK n \in 0..Len(Versions[rowsOf]) : rows = 1..n
  BY DEF FileRight
<1>5. Cardinality(rows) = n
  <2>1. Cardinality(1..n) = IF 1 > n THEN 0 ELSE n - 1 + 1
    BY FS_Interval
  <2> QED BY <1>3, <1>4, <2>1
<1>6. n # Len(Versions[rowsOf])
  BY <1>1, <1>3, <1>4
<1>7. n + 1 \in 0..Len(Versions[rowsOf]) /\ rows' = 1..n + 1
  BY <1>1, <1>3, <1>5, <1>6
<1> QED BY <1>1, <1>7 DEF FileRight

LEMMA SetCapacityKeeps ==
    ASSUME FileRight, Stored(cache), SetCapacity
    PROVE  FileRight' /\ Stored(cache') /\ Used(cache') <= capacity'
<1>1. PICK c \in Capacities : capacity' = c /\ cache' = Evict(cache, c)
  BY DEF SetCapacity
<1>2. c \in Nat /\ entry' = entry /\ rowsOf' = rowsOf /\ rows' = rows /\ writing' = writing /\ bad' = bad
  BY ReadAssumption DEF SetCapacity, File
<1>3. Stored(cache') /\ Used(cache') <= capacity'
  BY <1>1, <1>2, Evicted
<1> QED BY <1>1, <1>2, <1>3 DEF FileRight

-----------------------------------------------------------------------------
(* The invariant holds *)

LEMMA ReadStarts == ReadInit => ReadInv
<1> SUFFICES ASSUME ReadInit PROVE ReadInv
  OBVIOUS
<1>1. /\ entry = 1 /\ rowsOf = 1 /\ rows = DOMAIN Versions[1] /\ writing = "none"
      /\ cache = <<>> /\ capacity \in Capacities
      /\ dl = [d \in Downloads |-> FreshDownload] /\ bad = 0
  BY DEF ReadInit
<1>2. 1 \in DOMAIN Versions /\ capacity \in Nat /\ MaxBad \in Nat
  BY <1>1, ReadAssumption
<1>3. rows = 1..Len(Versions[1]) /\ Len(Versions[1]) \in 0..Len(Versions[1])
  BY <1>1, <1>2, VersionIs
<1>4. FileRight
  BY <1>1, <1>2, <1>3 DEF FileRight
<1>5. <<>> \in Seq(Entries) /\ Elems(<<>>) = {} /\ Distinct(<<>>, KeyOf)
  BY DEF Elems, Distinct
<1>6. Stored(cache)
  BY <1>1, <1>5 DEF Stored
<1>7. Used(cache) <= capacity
  <2>1. Used(<<>>) = 0
    BY <1>5, UsedIs, WeightEmpty
  <2>2. Used(cache) = 0
    BY <1>1, <2>1
  <2> QED BY <1>2, <2>2
<1>8. DownloadsRight
  <2>1. FreshDownload \in Transfers
    <3>1. <<>> \in Seq(Entries) /\ <<>> \in Seq(Nat \X Nat) /\ {} \in SUBSET Nat /\ "idle" \in Stages
      BY DEF Stages
    <3> QED BY <1>2, <3>1 DEF FreshDownload, Transfers
  <2> QED BY <1>1, <2>1 DEF DownloadsRight
<1> QED BY <1>4, <1>6, <1>7, <1>8 DEF ReadInv

LEMMA ReadSteps == ReadInv /\ [ReadNext]_readVars => ReadInv'
<1> SUFFICES ASSUME ReadInv, [ReadNext]_readVars PROVE ReadInv'
  OBVIOUS
<1>1. FileRight /\ Stored(cache) /\ Used(cache) <= capacity /\ DownloadsRight
  BY DEF ReadInv
<1>2. ASSUME UNCHANGED <<File, capacity, bad>> PROVE FileRight' /\ capacity' = capacity
  BY <1>1, <1>2 DEF FileRight, File
<1>3. ASSUME UNCHANGED <<cache, capacity>> PROVE Stored(cache') /\ Used(cache') <= capacity'
  BY <1>1, <1>3
<1>4. ASSUME UNCHANGED dl PROVE DownloadsRight'
  BY <1>1, <1>4 DEF DownloadsRight
<1>5. ASSUME NEW d \in Downloads, Open(d) PROVE ReadInv'
  <2>1. DownloadsRight'
    BY <1>1, <1>5, OpenKeeps
  <2> QED BY <1>2, <1>3, <1>5, <2>1 DEF Open, ReadInv
<1>6. ASSUME NEW d \in Downloads, List(d) PROVE ReadInv'
  <2>1. DownloadsRight'
    BY <1>1, <1>6, ListKeeps
  <2> QED BY <1>2, <1>3, <1>6, <2>1 DEF List, ReadInv
<1>7. ASSUME NEW d \in Downloads, FindBlock(d) PROVE ReadInv'
  <2>1. DownloadsRight' /\ Stored(cache') /\ Used(cache') <= capacity
    BY <1>1, <1>7, FindBlockKeeps
  <2> QED BY <1>2, <1>7, <2>1 DEF FindBlock, ReadInv
<1>8. ASSUME NEW d \in Downloads, Fetch(d) PROVE ReadInv'
  <2>1. DownloadsRight'
    BY <1>1, <1>8, FetchKeeps
  <2> QED BY <1>2, <1>3, <1>8, <2>1 DEF Fetch, ReadInv
<1>9. ASSUME bad' = bad \/ (bad < MaxBad /\ bad' = bad + 1), UNCHANGED <<File, capacity>>
      PROVE  FileRight' /\ capacity' = capacity
  <2>1. bad' \in 0..MaxBad
    <3>1. bad \in 0..MaxBad /\ MaxBad \in Nat
      BY <1>1, ReadAssumption DEF FileRight
    <3> QED BY ONLY <1>9, <3>1
  <2> QED BY <1>1, <1>9, <2>1 DEF FileRight, File
<1>10. ASSUME NEW d \in Downloads, FetchShort(d) PROVE ReadInv'
  <2>1. DownloadsRight'
    BY <1>1, <1>10, FetchShortKeeps
  <2>2. bad < MaxBad /\ bad' = bad + 1 /\ UNCHANGED <<File, cache, capacity>>
    BY <1>10 DEF FetchShort
  <2> QED BY <1>3, <1>9, <2>1, <2>2 DEF ReadInv
<1>11. ASSUME NEW d \in Downloads, FetchFails(d) PROVE ReadInv'
  <2>1. DownloadsRight'
    BY <1>1, <1>11, EndsKeep
  <2>2. (bad' = bad \/ (bad < MaxBad /\ bad' = bad + 1)) /\ UNCHANGED <<File, cache, capacity>>
    BY <1>11 DEF FetchFails
  <2> QED BY <1>3, <1>9, <2>1, <2>2 DEF ReadInv
<1>12. ASSUME NEW d \in Downloads, Put(d) PROVE ReadInv'
  <2>1. DownloadsRight' /\ Stored(cache') /\ Used(cache') <= capacity
    BY <1>1, <1>12, PutKeeps
  <2> QED BY <1>2, <1>12, <2>1 DEF Put, ReadInv
<1>13. ASSUME NEW d \in Downloads, Send(d) PROVE ReadInv'
  <2>1. DownloadsRight'
    BY <1>1, <1>13, SendKeeps
  <2> QED BY <1>2, <1>3, <1>13, <2>1 DEF Send, ReadInv
<1>14. ASSUME NEW d \in Downloads, ClientLeaves(d) \/ Ends(d) PROVE ReadInv'
  <2>1. DownloadsRight'
    BY <1>1, <1>14, EndsKeep
  <2> QED BY <1>2, <1>3, <1>14, <2>1 DEF ClientLeaves, Ends, ReadInv
<1>15. CASE PurgeFileData
  <2>1. FileRight' /\ Stored(cache') /\ Used(cache') <= capacity
    BY <1>15, PurgeKeeps
  <2> QED BY <1>4, <1>15, <2>1 DEF PurgeFileData, ReadInv
<1>16. CASE ReplaceEntry
  <2>1. FileRight'
    BY <1>1, <1>16, ReplaceKeeps
  <2> QED BY <1>3, <1>4, <1>16, <2>1 DEF ReplaceEntry, ReadInv
<1>17. CASE AddRow
  <2>1. FileRight'
    BY <1>1, <1>17, AddRowKeeps
  <2> QED BY <1>3, <1>4, <1>17, <2>1 DEF AddRow, ReadInv
<1>18. CASE SetCapacity
  <2>1. FileRight' /\ Stored(cache') /\ Used(cache') <= capacity'
    BY <1>1, <1>18, SetCapacityKeeps
  <2> QED BY <1>4, <1>18, <2>1 DEF SetCapacity, ReadInv
<1>19. CASE UNCHANGED readVars
  BY <1>2, <1>3, <1>4, <1>19 DEF readVars, File, ReadInv
<1> QED BY <1>5, <1>6, <1>7, <1>8, <1>10, <1>11, <1>12, <1>13, <1>14, <1>15, <1>16, <1>17, <1>18, <1>19
        DEF ReadNext

LEMMA ReadAlways == ReadSpec => []ReadInv
<1> QED BY ReadStarts, ReadSteps, PTL DEF ReadSpec

-----------------------------------------------------------------------------
(* What it implies *)

\* A download that has begun was opened for a range of a version: the facts of it.
LEMMA ServesIs ==
    ASSUME NEW x \in Transfers, Serves(x)
    PROVE  \E p \in [ok : BOOLEAN, start : Nat, length : Nat] :
              /\ p.start + p.length <= Size(x.opened) /\ Size(x.opened) \in Nat
              /\ p.ok => Asked(x.range, Size(x.opened)) = p.start..p.start + p.length - 1
              /\ ~p.ok => Asked(x.range, Size(x.opened)) = {} /\ x.sent = <<>>
              /\ x.pc = "refused" <=> ~p.ok
              /\ x.pos + x.left = p.start + p.length /\ x.pos = p.start + Len(x.sent)
              /\ Runs(x.sent, x.listed, p.start) /\ x.pc # "idle" /\ (x.pc = "whole" => x.left = 0)
<1>1. x.opened \in DOMAIN Versions
  BY DEF Transfers
<1>2. Size(x.opened) \in Nat
  BY <1>1, VersionIs
<1>3. PICK p : p = ParseRange(x.range, Size(x.opened))
  OBVIOUS
<1>4. /\ x.range \in Ranges /\ x.pc # "idle" /\ (x.pc = "refused" <=> ~p.ok)
      /\ x.pos + x.left = p.start + p.length /\ x.pos = p.start + Len(x.sent)
      /\ Runs(x.sent, x.listed, p.start) /\ (x.pc \in {"list", "refused"} => x.sent = <<>>)
      /\ (x.pc = "whole" => x.left = 0)
  BY ONLY <1>3, Serves(x) DEF Serves
<1>5. /\ p \in [ok : BOOLEAN, start : Nat, length : Nat] /\ p.start + p.length <= Size(x.opened)
      /\ p.ok => Asked(x.range, Size(x.opened)) = p.start..p.start + p.length - 1
      /\ ~p.ok => Asked(x.range, Size(x.opened)) = {}
  BY <1>2, <1>3, <1>4, Parsed
<1> QED BY <1>2, <1>4, <1>5

LEMMA SentExactly ==
    ASSUME NEW x \in Transfers, Serves(x), NEW asked, asked = Asked(x.range, Size(x.opened))
    PROVE  /\ \A k \in DOMAIN x.sent :
                 /\ x.sent[k][1] = x.listed
                 /\ Cardinality({p \in asked : p < x.sent[k][2]}) = k - 1 /\ x.sent[k][2] \in asked
           /\ x.pc = "whole" => Len(x.sent) = Cardinality(asked)
           /\ x.pc = "refused" => asked = {}
<1>1. PICK p \in [ok : BOOLEAN, start : Nat, length : Nat] :
              /\ p.start + p.length <= Size(x.opened) /\ Size(x.opened) \in Nat
              /\ p.ok => asked = p.start..p.start + p.length - 1
              /\ ~p.ok => asked = {} /\ x.sent = <<>>
              /\ x.pc = "refused" <=> ~p.ok
              /\ x.pos + x.left = p.start + p.length /\ x.pos = p.start + Len(x.sent)
              /\ Runs(x.sent, x.listed, p.start) /\ x.pc # "idle" /\ (x.pc = "whole" => x.left = 0)
  BY ServesIs
<1>2. PICK N, a, n : N = Len(x.sent) /\ a = p.start /\ n = p.length
  OBVIOUS
<1>3. N \in Nat /\ DOMAIN x.sent = 1..N /\ x.left \in Nat /\ x.pos \in Nat /\ a \in Nat /\ n \in Nat
  BY <1>2 DEF Transfers
<1>4. x.pos + x.left = a + n /\ x.pos = a + N
  BY ONLY <1>1, <1>2
<1>5. N + x.left = n
  BY ONLY <1>3, <1>4
<1>6. ASSUME NEW k \in 1..N
      PROVE  /\ x.sent[k][1] = x.listed
             /\ Cardinality({q \in asked : q < x.sent[k][2]}) = k - 1 /\ x.sent[k][2] \in asked
  <2>1. x.sent[k] = <<x.listed, a + k - 1>>
    BY <1>1, <1>2, <1>3 DEF Runs
  <2>2. p.ok
    <3>1. x.sent # <<>>
      BY <1>3
    <3> QED BY <1>1, <3>1
  <2>3. asked = a..a + n - 1
    BY <1>1, <1>2, <2>2
  <2>4. a + k - 1 \in asked
    BY <1>3, <1>5, <2>3
  <2>5. {q \in asked : q < a + k - 1} = a..a + k - 2
    <3>1. \A q \in Int : q \in a..a + n - 1 /\ q < a + k - 1 <=> q \in a..a + k - 2
      BY <1>3, <1>5
    <3>2. a..a + n - 1 \subseteq Int /\ a..a + k - 2 \subseteq Int
      OBVIOUS
    <3> QED BY ONLY <2>3, <3>1, <3>2
  <2>6. Cardinality(a..a + k - 2) = k - 1
    <3>1. a \in Int /\ a + k - 2 \in Int
      BY <1>3
    <3>2. Cardinality(a..a + k - 2) = IF a > a + k - 2 THEN 0 ELSE (a + k - 2) - a + 1
      BY ONLY <3>1, FS_Interval
    <3>3. (IF a > a + k - 2 THEN 0 ELSE (a + k - 2) - a + 1) = k - 1
      BY <1>3
    <3> QED BY <3>2, <3>3
  <2>7. PICK c : c = a + k - 1
    OBVIOUS
  <2>8. Cardinality({q \in asked : q < c}) = k - 1 /\ c \in asked
    BY ONLY <2>4, <2>5, <2>6, <2>7
  <2>9. x.sent[k][1] = x.listed /\ x.sent[k][2] = c
    BY <2>1, <2>7
  <2> QED BY ONLY <2>8, <2>9
<1>7. ASSUME x.pc = "whole" PROVE N = Cardinality(asked)
  <2>1. x.left = 0 /\ asked = a..a + n - 1
    BY <1>1, <1>2, <1>7
  <2>2. a \in Int /\ a + n - 1 \in Int
    BY <1>3
  <2>3. Cardinality(a..a + n - 1) = IF a > a + n - 1 THEN 0 ELSE (a + n - 1) - a + 1
    BY ONLY <2>2, FS_Interval
  <2>4. (IF a > a + n - 1 THEN 0 ELSE (a + n - 1) - a + 1) = n
    BY <1>3
  <2> QED BY <1>3, <1>5, <2>1, <2>3, <2>4
<1>8. x.pc = "refused" => asked = {}
  BY <1>1
<1> QED BY <1>2, <1>3, <1>6, <1>7, <1>8

LEMMA ReadInvExact == ReadInv => DownloadsExact
<1> SUFFICES ASSUME ReadInv PROVE DownloadsExact
  OBVIOUS
<1>1. FileRight /\ Stored(cache) /\ Used(cache) <= capacity /\ DownloadsRight
  BY DEF ReadInv
<1> DEFINE Exact(x, asked) ==
             /\ \A k \in DOMAIN x.sent :
                   /\ x.sent[k][1] = x.listed
                   /\ Cardinality({p \in asked : p < x.sent[k][2]}) = k - 1 /\ x.sent[k][2] \in asked
             /\ x.pc = "whole" => Len(x.sent) = Cardinality(asked)
             /\ x.pc = "refused" => asked = {}
<1>2. ASSUME NEW d \in Downloads, NEW asked,
             asked = IF dl[d].pc = "idle" THEN {} ELSE Asked(dl[d].range, Size(dl[d].opened))
      PROVE  Exact(dl[d], asked)
  <2>1. PICK x : x = dl[d]
    OBVIOUS
  <2>2. CASE x.pc = "idle"
    <3>1. x = FreshDownload
      BY <1>1, <2>1, <2>2, BegunServes
    <3>2. x.sent = <<>> /\ DOMAIN x.sent = {}
      BY <3>1 DEF FreshDownload
    <3> QED BY <2>1, <2>2, <3>2
  <2>3. CASE x.pc # "idle"
    <3>1. x \in Transfers /\ Serves(x) /\ asked = Asked(x.range, Size(x.opened))
      BY <1>1, <1>2, <2>1, <2>3, BegunServes
    <3>2. /\ \A k \in DOMAIN x.sent :
                 /\ x.sent[k][1] = x.listed
                 /\ Cardinality({p \in asked : p < x.sent[k][2]}) = k - 1 /\ x.sent[k][2] \in asked
          /\ x.pc = "whole" => Len(x.sent) = Cardinality(asked)
          /\ x.pc = "refused" => asked = {}
      BY ONLY <3>1, SentExactly
    <3> QED BY ONLY <2>1, <3>2
  <2> QED BY <2>2, <2>3
<1>3. ASSUME NEW k \in DOMAIN cache
      PROVE  /\ cache[k].size <= Lesser(BlockSize, Versions[cache[k].v][cache[k].chunk] - cache[k].block * BlockSize)
             /\ \A j \in DOMAIN cache : Key(cache[j]) = Key(cache[k]) => j = k
  <2>1. cache \in Seq(Entries) /\ (\A b \in Elems(cache) : Fits(b)) /\ Distinct(cache, KeyOf)
    BY <1>1 DEF Stored
  <2>2. Fits(cache[k])
    BY <2>1 DEF Elems
  <2>3. \A j \in DOMAIN cache : KeyOf[cache[j]] = Key(cache[j])
    BY <2>1 DEF KeyOf
  <2>4. \A j \in DOMAIN cache : Key(cache[j]) = Key(cache[k]) => j = k
    BY <2>1, <2>3 DEF Distinct
  <2> QED BY <2>2, <2>4 DEF Fits
<1>4. ASSUME NEW d \in Downloads
      PROVE  Exact(dl[d], IF dl[d].pc = "idle" THEN {} ELSE Asked(dl[d].range, Size(dl[d].opened)))
  <2>1. PICK asked : asked = IF dl[d].pc = "idle" THEN {} ELSE Asked(dl[d].range, Size(dl[d].opened))
    OBVIOUS
  <2> HIDE DEF Exact
  <2>2. Exact(dl[d], asked)
    BY <1>2, <2>1
  <2> QED BY ONLY <2>1, <2>2
<1>5. DownloadsExact <=> /\ \A d \in Downloads : Exact(dl[d], IF dl[d].pc = "idle" THEN {}
                                                             ELSE Asked(dl[d].range, Size(dl[d].opened)))
                         /\ Used(cache) <= capacity
                         /\ \A k \in DOMAIN cache :
                               /\ cache[k].size <= Lesser(BlockSize, Versions[cache[k].v][cache[k].chunk]
                                                                       - cache[k].block * BlockSize)
                               /\ \A j \in DOMAIN cache : Key(cache[j]) = Key(cache[k]) => j = k
  BY Zenon DEF DownloadsExact
<1> HIDE DEF Exact
<1> QED BY <1>1, <1>3, <1>4, <1>5

\* What a download has sent is the beginning of the range its client asked for, byte for
\* byte of one version of the file, and the cache keeps its blocks as they are and
\* within its capacity: DownloadsExact, however many downloads, versions, chunks and
\* blocks there are, and however often the backend fails.
THEOREM ServedExactly == ReadSpec => []DownloadsExact
<1> QED BY ReadAlways, ReadInvExact, PTL

\* The variables of the read path keep to their types, and a download never has more
\* left to send than there is of the file it was opened on.
THEOREM ReadTyped == ReadSpec => []ReadTypeOK
<1>1. ReadInv => ReadTypeOK
  <2> SUFFICES ASSUME ReadInv PROVE ReadTypeOK
    OBVIOUS
  <2>1. FileRight /\ DownloadsRight
    BY DEF ReadInv
  <2>2. rows \subseteq DOMAIN Versions[rowsOf]
    <3>1. rowsOf \in DOMAIN Versions /\ \E n \in 0..Len(Versions[rowsOf]) : rows = 1..n
      BY <2>1 DEF FileRight
    <3>2. DOMAIN Versions[rowsOf] = 1..Len(Versions[rowsOf]) /\ Len(Versions[rowsOf]) \in Nat
      BY <3>1, VersionIs
    <3> QED BY <3>1, <3>2
  <2>3. ASSUME NEW d \in Downloads PROVE dl[d].pos + dl[d].left <= Size(dl[d].opened)
    <3>1. PICK x : x = dl[d]
      OBVIOUS
    <3>2. CASE x.pc = "idle"
      <4>1. x = FreshDownload
        BY <2>1, <3>1, <3>2, BegunServes
      <4>2. x.pos = 0 /\ x.left = 0 /\ x.opened = 1
        BY <4>1 DEF FreshDownload
      <4>3. 1 \in DOMAIN Versions
        BY ReadAssumption
      <4>4. Size(x.opened) \in Nat
        BY <4>2, <4>3, VersionIs
      <4> QED BY <3>1, <4>2, <4>4
    <3>3. CASE x.pc # "idle"
      <4>1. x \in Transfers /\ Serves(x)
        BY <2>1, <3>1, <3>3, BegunServes
      <4>2. PICK p \in [ok : BOOLEAN, start : Nat, length : Nat] :
               p.start + p.length <= Size(x.opened) /\ x.pos + x.left = p.start + p.length
        BY <4>1, ServesIs
      <4> QED BY <3>1, <4>2
    <3> QED BY <3>2, <3>3
  <2> QED BY <2>1, <2>2, <2>3 DEF ReadTypeOK, FileRight
<1> QED BY <1>1, ReadAlways, PTL

-----------------------------------------------------------------------------
(* The tree of files: the invariant *)

NameT == Seq(Names \cup Nat)
PathT == Seq(NameT)
RowT  == [on : BOOLEAN, parent : Nat, name : NameT, path : PathT, folder : BOOLEAN, trashed : BOOLEAN]

TreeShape(t) == t \in Seq(RowT) /\ \A i \in DOMAIN t : t[i].parent <= Len(t)

\* Every row, trashed or not, hangs in a folder, and has its path; what is live hangs
\* in what is live, under a name of its own.
PathRight(t, i) == t[i].path = Append(PathOf(t, t[i].parent), t[i].name)
Hanging(t) == \A i \in Rows(t) : t[i].parent \in {Root} \cup {j \in Rows(t) : t[j].folder}
Placing(t) == \A i \in Rows(t) : PathRight(t, i)
LiveIn(t) == \A i \in LiveRows(t) : t[i].parent \in {Root} \cup LiveRows(t)
OwnNames(t) == \A i, j \in LiveRows(t) : t[i].parent = t[j].parent /\ t[i].name = t[j].name => i = j
Sound(t) == Hanging(t) /\ Placing(t) /\ LiveIn(t) /\ OwnNames(t)

\* Rows stay where they are, and files and folders what they are.
Keeps(t, u) == Len(t) <= Len(u) /\ \A i \in DOMAIN t : u[i].folder = t[i].folder

-----------------------------------------------------------------------------
(* Rows *)

LEMMA LeastIs ==
    ASSUME NEW T \in SUBSET Nat, T # {}
    PROVE  Least(T) \in T /\ \A m \in T : Least(T) <= m
<1>1. \E n \in T : \A m \in T : n <= m
  BY LeastNat
<1> QED BY <1>1 DEF Least

LEMMA ShapeRow ==
    ASSUME NEW t, TreeShape(t), NEW i \in DOMAIN t
    PROVE  /\ t[i] \in RowT /\ t[i].parent \in 0..Len(t) /\ i \in 1..Len(t) /\ i # Root
           /\ Len(t) \in Nat /\ DOMAIN t = 1..Len(t)
<1>1. t \in Seq(RowT) /\ t[i].parent <= Len(t)
  BY DEF TreeShape
<1>2. Len(t) \in Nat /\ DOMAIN t = 1..Len(t) /\ t[i] \in RowT
  BY <1>1
<1>3. t[i].parent \in Nat
  BY <1>2 DEF RowT
<1> QED BY <1>1, <1>2, <1>3 DEF Root

\* A list of rows is one if it gives each place a row.
LEMMA ShapeBuilt ==
    ASSUME NEW n \in Nat, NEW u, DOMAIN u = 1..n, u = [i \in 1..n |-> u[i]],
           \A i \in 1..n : u[i] \in RowT /\ u[i].parent <= n
    PROVE  TreeShape(u) /\ Len(u) = n
<1>1. u \in [1..n -> RowT]
  OBVIOUS
<1>2. u \in Seq(RowT)
  BY <1>1, SeqDef
<1>3. Len(u) = n
  BY <1>1, <1>2, LenProperties
<1> QED BY <1>2, <1>3 DEF TreeShape

LEMMA PathOfType ==
    ASSUME NEW t, TreeShape(t), NEW i \in 0..Len(t)
    PROVE  PathOf(t, i) \in PathT
<1>1. CASE i = Root
  BY <1>1, EmptySeq DEF PathOf, PathT
<1>2. CASE i # Root
  <2>1. t \in Seq(RowT)
    BY DEF TreeShape
  <2>2. i \in DOMAIN t
    BY <1>2, <2>1 DEF Root
  <2>3. t[i].path \in PathT
    BY <2>2, ShapeRow DEF RowT
  <2> QED BY <1>2, <2>3 DEF PathOf
<1> QED BY <1>1, <1>2

-----------------------------------------------------------------------------
(* What is below an entry *)

Levels(t, f, level) ==
    /\ level \in [0..Len(t) -> SUBSET DOMAIN t] /\ level[0] = Children(t, f)
    /\ \A n \in 1..Len(t) : level[n] = level[n - 1] \cup UNION {Children(t, i) : i \in level[n - 1]}

LEMMA LevelsExist ==
    ASSUME NEW t \in Seq(RowT), NEW f
    PROVE  \E level : Levels(t, f, level)
<1> DEFINE N == Len(t)
           V == SUBSET DOMAIN t
           step == [p \in V \X (1..N) |-> p[1] \cup UNION {Children(t, i) : i \in p[1]}]
<1>1. N \in Nat /\ \A i : Children(t, i) \in V
  BY DEF Children, Rows
<1> HIDE DEF N, V
<1>2. \A p \in V : p \cup UNION {Children(t, i) : i \in p} \in V
  BY <1>1 DEF V
<1>3. step \in [V \X (1..N) -> V]
  BY <1>2
<1>4. \A p \in V, i \in 1..N : step[<<p, i>>] = p \cup UNION {Children(t, j) : j \in p}
  OBVIOUS
<1> HIDE DEF step
<1>5. PICK g : Follows(g, N, V, Children(t, f), step)
  BY <1>1, <1>3, Recursion, Zenon
<1>6. ASSUME NEW i \in 1..N PROVE g[i] = g[i - 1] \cup UNION {Children(t, j) : j \in g[i - 1]}
  <2>1. i - 1 \in 0..N
    BY <1>1
  <2> QED BY <1>4, <1>5, <2>1 DEF Follows
<1> QED BY <1>5, <1>6 DEF Levels, Follows, N, V

LEMMA BelowLevels ==
    ASSUME NEW t \in Seq(RowT), NEW f
    PROVE  \E level : Levels(t, f, level) /\ Below(t, f) = level[Len(t)]
<1> DEFINE N == Len(t)
           Is(h) == h = [n \in 0..N |-> IF n = 0 THEN Children(t, f)
                                        ELSE h[n - 1] \cup UNION {Children(t, i) : i \in h[n - 1]}]
           h == CHOOSE x : Is(x)
<1>1. N \in Nat
  OBVIOUS
<1>2. Below(t, f) = h[N]
  BY DEF Below
<1>3. PICK g : Levels(t, f, g)
  BY LevelsExist
<1>4. /\ g \in [0..N -> SUBSET DOMAIN t] /\ g[0] = Children(t, f)
      /\ \A n \in 1..N : g[n] = g[n - 1] \cup UNION {Children(t, i) : i \in g[n - 1]}
  BY <1>3 DEF Levels
<1> HIDE DEF N
<1>5. Is(g)
  <2>1. \A n \in 0..N : n # 0 => n \in 1..N
    BY <1>1
  <2>2. \A n \in 0..N : g[n] = IF n = 0 THEN Children(t, f)
                               ELSE g[n - 1] \cup UNION {Children(t, i) : i \in g[n - 1]}
    BY <1>4, <2>1
  <2> QED BY <1>4, <2>2
<1>6. Is(h)
  <2> HIDE DEF Is
  <2> QED BY <1>5
<1> HIDE DEF h
<1>7. \A n \in 0..N : h[n] = IF n = 0 THEN Children(t, f)
                             ELSE h[n - 1] \cup UNION {Children(t, i) : i \in h[n - 1]}
  BY <1>6
<1>8. DOMAIN h = 0..N /\ h = [n \in 0..N |-> h[n]]
  BY <1>6
<1> HIDE DEF Is
<1> DEFINE G == {n \in 0..N : h[n] = g[n]}
<1>9. 0 \in G
  <2>1. 0 \in 0..N
    BY <1>1
  <2>2. h[0] = Children(t, f)
    BY ONLY <2>1, <1>7
  <2> QED BY <1>4, <2>1, <2>2
<1>10. ASSUME NEW n \in 0..N - 1, n \in G PROVE n + 1 \in G
  <2>1. n + 1 \in 0..N /\ n + 1 \in 1..N /\ n + 1 # 0 /\ (n + 1) - 1 = n
    BY <1>1
  <2>2. /\ h[n + 1] = h[n] \cup UNION {Children(t, i) : i \in h[n]}
        /\ g[n + 1] = g[n] \cup UNION {Children(t, i) : i \in g[n]}
    BY <1>4, <1>7, <2>1
  <2>3. h[n] = g[n]
    BY <1>10
  <2>4. h[n + 1] = g[n + 1]
    BY <2>2, <2>3
  <2> QED BY <2>1, <2>4
<1>11. N \in G
  <2> HIDE DEF G
  <2>1. N \in 0..N
    BY <1>1
  <2> QED BY <1>1, <1>9, <1>10, <2>1, UpTo
<1> QED BY <1>2, <1>3, <1>11 DEF N

\* All it finds is in every set that has the children of f, and with a row its children.
LEMMA BelowLeast ==
    ASSUME NEW t \in Seq(RowT), NEW f, NEW X,
           \A i \in Rows(t) : t[i].parent = f \/ t[i].parent \in X => i \in X
    PROVE  Below(t, f) \subseteq X
<1>1. PICK level : Levels(t, f, level) /\ Below(t, f) = level[Len(t)]
  BY BelowLevels
<1> DEFINE N == Len(t)
           G == {n \in 0..N : level[n] \subseteq X}
<1>2. N \in Nat
  OBVIOUS
<1>3. Children(t, f) \subseteq X /\ \A i \in X : Children(t, i) \subseteq X
  BY DEF Children
<1>4. 0 \in G
  BY <1>1, <1>2, <1>3 DEF Levels
<1>5. ASSUME NEW n \in 0..N - 1, n \in G PROVE n + 1 \in G
  <2>1. n + 1 \in 0..N /\ n + 1 \in 1..N /\ (n + 1) - 1 = n
    BY <1>2
  <2>2. level[n + 1] = level[n] \cup UNION {Children(t, i) : i \in level[n]}
    BY <1>1, <2>1 DEF Levels
  <2>3. level[n] \subseteq X
    BY <1>5
  <2>4. level[n + 1] \subseteq X
    BY <1>3, <2>2, <2>3
  <2> QED BY <2>1, <2>4
<1>6. N \in G
  <2> HIDE DEF G
  <2>1. N \in 0..N
    BY <1>2
  <2> HIDE DEF N
  <2> QED BY <1>2, <1>4, <1>5, <2>1, UpTo
<1> QED BY <1>1, <1>6

\* Nothing below is missed: a level that is not all of it has one row more than the
\* one before, and there are not so many.
LEMMA BelowClosed ==
    ASSUME NEW t \in Seq(RowT), NEW f
    PROVE  /\ Below(t, f) \subseteq Rows(t)
           /\ \A i \in Rows(t) : t[i].parent = f \/ t[i].parent \in Below(t, f) => i \in Below(t, f)
<1>1. PICK level : Levels(t, f, level) /\ Below(t, f) = level[Len(t)]
  BY BelowLevels
<1> DEFINE N == Len(t)
           Closed(n) == \A i \in level[n] : Children(t, i) \subseteq level[n]
           G == {n \in 0..N : Children(t, f) \subseteq level[n] /\ (Closed(n) \/ Cardinality(level[n]) > n)}
<1>2. N \in Nat /\ DOMAIN t = 1..N
  OBVIOUS
<1>3. /\ level \in [0..N -> SUBSET (1..N)] /\ level[0] = Children(t, f)
      /\ \A n \in 1..N : level[n] = level[n - 1] \cup UNION {Children(t, i) : i \in level[n - 1]}
  BY <1>1, <1>2 DEF Levels
<1> HIDE DEF N
<1>4. IsFiniteSet(1..N) /\ Cardinality(1..N) <= N
  BY <1>2, FS_Interval
<1>5. \A n \in 0..N : IsFiniteSet(level[n]) /\ Cardinality(level[n]) \in Nat /\ Cardinality(level[n]) <= Cardinality(1..N)
  BY <1>3, <1>4, FS_Subset, FS_CardinalityType
<1>6. 0 \in G
  <2>1. 0 \in 0..N
    BY <1>2
  <2>2. CASE level[0] = {}
    BY <1>3, <2>1, <2>2
  <2>3. CASE level[0] # {}
    <3>1. Cardinality(level[0]) # 0
      BY <1>5, <2>1, <2>3, FS_EmptySet
    <3> QED BY <1>3, <1>5, <2>1, <3>1
  <2> QED BY <2>2, <2>3
<1>7. ASSUME NEW n \in 0..N - 1, n \in G PROVE n + 1 \in G
  <2>1. n \in 0..N /\ n + 1 \in 0..N /\ n + 1 \in 1..N /\ (n + 1) - 1 = n
    BY <1>2
  <2>2. level[n + 1] = level[n] \cup UNION {Children(t, i) : i \in level[n]}
    BY <1>3, <2>1
  <2>3. Children(t, f) \subseteq level[n + 1]
    BY <1>7, <2>2
  <2>4. CASE Closed(n)
    <3>1. level[n + 1] = level[n]
      BY <2>2, <2>4
    <3>2. Closed(n + 1)
      BY <2>4, <3>1
    <3> QED BY <2>1, <2>3, <3>2
  <2>5. CASE ~Closed(n)
    <3>1. PICK c \in level[n + 1] : c \notin level[n]
      BY <2>2, <2>5
    <3>2. Cardinality(level[n]) > n
      BY <1>7, <2>5
    <3>3. Cardinality(level[n] \cup {c}) = Cardinality(level[n]) + 1
      BY <1>5, <2>1, <3>1, FS_AddElement
    <3>4. level[n] \cup {c} \in SUBSET level[n + 1]
      BY <2>2, <3>1
    <3>5. Cardinality(level[n] \cup {c}) <= Cardinality(level[n + 1])
      BY <1>5, <2>1, <3>4, FS_Subset
    <3>6. Cardinality(level[n + 1]) > n + 1
      BY <1>5, <2>1, <3>2, <3>3, <3>5
    <3> QED BY <2>1, <2>3, <3>6
  <2> QED BY <2>4, <2>5
<1>8. N \in G
  <2> HIDE DEF G
  <2>1. N \in 0..N
    BY <1>2
  <2> QED BY <1>2, <1>6, <1>7, <2>1, UpTo
<1>9. Closed(N)
  <2>1. N \in 0..N
    BY <1>2
  <2>2. ~(Cardinality(level[N]) > N)
    BY <1>2, <1>4, <1>5, <2>1, FS_CardinalityType
  <2> QED BY <1>8, <2>2
<1>10. \A i \in Rows(t) : t[i].parent = f \/ t[i].parent \in Below(t, f) => i \in Below(t, f)
  BY <1>1, <1>8, <1>9 DEF Children, N
<1>11. Below(t, f) \subseteq Rows(t)
  BY BelowLeast
<1> QED BY <1>10, <1>11

\* What is below f hangs in it or in something below it.
LEMMA BelowHangs ==
    ASSUME NEW t \in Seq(RowT), NEW f, NEW i \in Below(t, f)
    PROVE  t[i].parent = f \/ t[i].parent \in Below(t, f)
<1> DEFINE X == {j \in Below(t, f) : t[j].parent = f \/ t[j].parent \in Below(t, f)}
<1>1. Below(t, f) \subseteq X
  <2>1. \A j \in Rows(t) : t[j].parent = f \/ t[j].parent \in X => j \in X
    BY BelowClosed
  <2> HIDE DEF X
  <2> QED BY <2>1, BelowLeast
<1> QED BY <1>1

-----------------------------------------------------------------------------
(* Paths *)

\* One path goes on where another ends.
Ahead(a, p) == Len(a) <= Len(p) /\ \A k \in 1..Len(a) : p[k] = a[k]
Rebased(p, old, new) == new \o SubSeq(p, Len(old) + 1, Len(p))

LEMMA PathAppend ==
    ASSUME NEW p \in PathT, NEW n \in NameT
    PROVE  /\ Append(p, n) \in PathT /\ Len(Append(p, n)) = Len(p) + 1 /\ Len(p) \in Nat
           /\ \A k \in 1..Len(p) : Append(p, n)[k] = p[k]
           /\ Append(p, n)[Len(p) + 1] = n
           /\ Upper(Append(p, n)) = p
<1> DEFINE q == Append(p, n)
<1>1. /\ q \in PathT /\ Len(q) = Len(p) + 1 /\ Len(p) \in Nat
      /\ (\A k \in 1..Len(p) : q[k] = p[k]) /\ q[Len(p) + 1] = n
  BY DEF PathT
<1> HIDE DEF q
<1>2. Upper(q) = p
  <2>1. Upper(q) = SubSeq(q, 1, Len(p))
    BY <1>1 DEF Upper
  <2>2. \A k \in 1..Len(p) : q[k] \in NameT
    BY <1>1 DEF PathT
  <2>3. /\ SubSeq(q, 1, Len(p)) \in Seq(NameT)
        /\ Len(SubSeq(q, 1, Len(p))) = IF 1 <= Len(p) THEN Len(p) - 1 + 1 ELSE 0
        /\ \A k \in 1..Len(p) - 1 + 1 : SubSeq(q, 1, Len(p))[k] = q[1 + k - 1]
    BY <1>1, <2>2, SubSeqProperties
  <2>4. Len(SubSeq(q, 1, Len(p))) = Len(p)
    BY <1>1, <2>3
  <2>5. \A k \in 1..Len(p) : SubSeq(q, 1, Len(p))[k] = p[k]
    BY <1>1, <2>3
  <2>6. p \in Seq(NameT)
    BY DEF PathT
  <2>7. SubSeq(q, 1, Len(p)) = p
    BY <2>3, <2>4, <2>5, <2>6, SeqEqual
  <2> QED BY <2>1, <2>7
<1> QED BY <1>1, <1>2 DEF q

LEMMA AheadAppend ==
    ASSUME NEW a \in PathT, NEW p \in PathT, NEW n \in NameT, Ahead(a, p)
    PROVE  Ahead(a, Append(p, n)) /\ Len(a) < Len(Append(p, n))
<1>1. Len(a) \in Nat
  BY DEF PathT
<1> QED BY <1>1, PathAppend DEF Ahead

LEMMA RebasedType ==
    ASSUME NEW p \in PathT, NEW old \in PathT, NEW new \in PathT
    PROVE  Rebased(p, old, new) \in PathT
<1>1. Len(old) \in Nat /\ Len(p) \in Nat /\ \A k \in Len(old) + 1..Len(p) : p[k] \in NameT
  BY DEF PathT
<1>2. SubSeq(p, Len(old) + 1, Len(p)) \in Seq(NameT)
  BY <1>1, SubSeqProperties
<1> QED BY <1>2, ConcatProperties DEF Rebased, PathT

LEMMA RebasedSelf ==
    ASSUME NEW old \in PathT, NEW new \in PathT
    PROVE  Rebased(old, old, new) = new
<1>1. Len(old) \in Nat
  BY DEF PathT
<1>2. SubSeq(old, Len(old) + 1, Len(old)) = <<>>
  BY <1>1, SubSeqEmpty
<1> QED BY <1>2, ConcatEmptySeq DEF Rebased, PathT

LEMMA RebasedAppend ==
    ASSUME NEW p \in PathT, NEW n \in NameT, NEW old \in PathT, NEW new \in PathT, Ahead(old, p)
    PROVE  Rebased(Append(p, n), old, new) = Append(Rebased(p, old, new), n)
<1> DEFINE q == Append(p, n)
           m == Len(old)
           a == SubSeq(p, m + 1, Len(p))
           b == SubSeq(q, m + 1, Len(q))
<1>1. /\ q \in PathT /\ Len(q) = Len(p) + 1 /\ (\A k \in 1..Len(p) : q[k] = p[k]) /\ q[Len(p) + 1] = n
  BY PathAppend
<1>2. m \in Nat /\ m <= Len(p) /\ Len(p) \in Nat /\ Len(new) \in Nat
  BY DEF Ahead, PathT
<1>3. /\ \A k \in m + 1..Len(p) : p[k] \in NameT
      /\ \A k \in m + 1..Len(q) : q[k] \in NameT
  BY <1>1, <1>2 DEF PathT
<1> HIDE DEF q, m
<1>4. a \in Seq(NameT) /\ Len(a) = Len(p) - m /\ \A k \in 1..Len(p) - m : a[k] = p[m + k]
  <2>1. /\ a \in Seq(NameT) /\ Len(a) = IF m + 1 <= Len(p) THEN Len(p) - (m + 1) + 1 ELSE 0
        /\ \A k \in 1..Len(p) - (m + 1) + 1 : a[k] = p[(m + 1) + k - 1]
    BY <1>2, <1>3, SubSeqProperties
  <2> HIDE DEF a
  <2>2. \A k \in 1..Len(p) - m : a[k] = p[m + k]
    <3>1. \A k \in 1..Len(p) - m : k \in 1..Len(p) - (m + 1) + 1 /\ (m + 1) + k - 1 = m + k
      BY <1>2
    <3> QED BY <2>1, <3>1
  <2> QED BY <1>2, <2>1, <2>2
<1>5. b \in Seq(NameT) /\ Len(b) = Len(p) - m + 1 /\ \A k \in 1..Len(p) - m + 1 : b[k] = q[m + k]
  <2>1. /\ b \in Seq(NameT) /\ Len(b) = IF m + 1 <= Len(q) THEN Len(q) - (m + 1) + 1 ELSE 0
        /\ \A k \in 1..Len(q) - (m + 1) + 1 : b[k] = q[(m + 1) + k - 1]
    BY <1>1, <1>2, <1>3, SubSeqProperties
  <2> HIDE DEF b
  <2>2. Len(q) - (m + 1) + 1 = Len(p) - m + 1 /\ m + 1 <= Len(q)
    BY <1>1, <1>2
  <2>3. \A k \in Nat : (m + 1) + k - 1 = m + k
    BY <1>2
  <2>4. \A k \in 1..Len(p) - m + 1 : b[k] = q[(m + 1) + k - 1]
    BY ONLY <2>1, <2>2
  <2>5. \A k \in 1..Len(p) - m + 1 : b[k] = q[m + k]
    <3>1. \A k \in 1..Len(p) - m + 1 : k \in Nat
      BY <1>2
    <3> QED BY ONLY <2>3, <2>4, <3>1
  <2> QED BY ONLY <2>1, <2>2, <2>5
<1> HIDE DEF a, b
<1>6. new \in Seq(NameT)
  BY DEF PathT
<1>7. /\ new \o a \in Seq(NameT) /\ Len(new \o a) = Len(new) + Len(a)
      /\ \A k \in 1..Len(new) + Len(a) : (new \o a)[k] = IF k <= Len(new) THEN new[k] ELSE a[k - Len(new)]
  BY <1>4, <1>6, ConcatProperties
<1>8. /\ new \o b \in Seq(NameT) /\ Len(new \o b) = Len(new) + Len(b)
      /\ \A k \in 1..Len(new) + Len(b) : (new \o b)[k] = IF k <= Len(new) THEN new[k] ELSE b[k - Len(new)]
  BY <1>5, <1>6, ConcatProperties
<1> DEFINE c == new \o a
           d == new \o b
           e == Append(c, n)
<1>9. /\ e \in Seq(NameT) /\ Len(e) = Len(c) + 1
      /\ (\A k \in 1..Len(c) : e[k] = c[k]) /\ e[Len(c) + 1] = n
  <2>1. c \in PathT
    BY <1>7 DEF PathT
  <2> HIDE DEF c
  <2> QED BY <2>1, PathAppend DEF PathT
<1> HIDE DEF c, d, e
<1>10. Len(d) = Len(e)
  BY <1>2, <1>4, <1>5, <1>7, <1>8, <1>9 DEF c, d
<1>11. ASSUME NEW k \in 1..Len(d) PROVE d[k] = e[k]
  <2>1. Len(d) = Len(new) + (Len(p) - m) + 1 /\ Len(c) = Len(new) + (Len(p) - m)
    BY <1>2, <1>4, <1>5, <1>7, <1>8 DEF c, d
  <2>2. CASE k <= Len(new)
    <3>1. k \in 1..Len(new) + Len(a) /\ k \in 1..Len(new) + Len(b) /\ k \in 1..Len(c)
      BY <1>2, <1>4, <1>5, <2>1, <2>2
    <3> QED BY <1>7, <1>8, <1>9, <2>2, <3>1 DEF c, d
  <2>3. CASE ~(k <= Len(new)) /\ k <= Len(c)
    <3>1. /\ k \in 1..Len(new) + Len(a) /\ k \in 1..Len(new) + Len(b) /\ k \in 1..Len(c)
          /\ k - Len(new) \in 1..Len(p) - m /\ k - Len(new) \in 1..Len(p) - m + 1
          /\ m + (k - Len(new)) \in 1..Len(p)
      <4>1. /\ Len(a) = Len(p) - m /\ Len(b) = Len(p) - m + 1 /\ Len(c) = Len(new) + (Len(p) - m)
            /\ m \in Nat /\ m <= Len(p) /\ Len(p) \in Nat /\ Len(new) \in Nat
        BY <1>2, <1>4, <1>5, <2>1
      <4>2. k \in Nat /\ k > Len(new) /\ k <= Len(new) + (Len(p) - m)
        BY ONLY <2>1, <2>3, <4>1, k \in 1..Len(d)
      <4> QED BY ONLY <4>1, <4>2
    <3>2. d[k] = b[k - Len(new)] /\ e[k] = a[k - Len(new)]
      BY <1>7, <1>8, <1>9, <2>3, <3>1 DEF c, d
    <3>3. b[k - Len(new)] = q[m + (k - Len(new))] /\ a[k - Len(new)] = p[m + (k - Len(new))]
      BY ONLY <1>4, <1>5, <3>1
    <3>4. q[m + (k - Len(new))] = p[m + (k - Len(new))]
      BY ONLY <1>1, <3>1
    <3> QED BY ONLY <3>2, <3>3, <3>4
  <2>4. CASE k > Len(c)
    <3>1. k = Len(c) + 1 /\ k = Len(new) + (Len(p) - m) + 1
      BY <1>2, <2>1, <2>4
    <3>2. /\ k \in 1..Len(new) + (Len(p) - m + 1) /\ ~(k <= Len(new)) /\ k - Len(new) = Len(p) - m + 1
          /\ k - Len(new) \in 1..Len(p) - m + 1 /\ m + (k - Len(new)) = Len(p) + 1
      BY <1>2, <3>1
    <3>3. k \in 1..Len(new) + Len(b)
      BY <1>5, <3>2
    <3>4. d[k] = b[k - Len(new)] /\ e[k] = n
      BY <1>8, <1>9, <3>1, <3>2, <3>3 DEF d
    <3> QED BY <1>1, <1>5, <3>2, <3>4
  <2> QED BY <2>1, <2>2, <2>3, <2>4, <1>2
<1>12. d = e
  BY <1>8, <1>9, <1>10, <1>11, SeqEqual DEF d
<1> QED BY <1>12 DEF Rebased, a, b, c, d, e, q, m

LEMMA AheadUnder ==
    ASSUME NEW p \in PathT, NEW old \in PathT, Ahead(old, p), Len(old) < Len(p) \/ p = old
    PROVE  Under(p, old)
<1>1. Len(old) \in Nat /\ Len(p) \in Nat /\ DOMAIN old = 1..Len(old)
  BY DEF PathT
<1>2. \A k \in DOMAIN old : Like(old[k], p[k])
  BY <1>1 DEF Ahead, Like
<1> QED BY <1>1, <1>2 DEF Under

-----------------------------------------------------------------------------
(* A row more *)

Grown(t, u) == Len(t) <= Len(u) /\ \A i \in DOMAIN t : u[i] = t[i]

LEMMA GrownFurther ==
    ASSUME NEW t, TreeShape(t), NEW u, TreeShape(u), NEW v, TreeShape(v), Grown(t, u), Grown(u, v)
    PROVE  Grown(t, v)
<1>1. /\ Len(t) \in Nat /\ Len(u) \in Nat /\ Len(v) \in Nat
      /\ DOMAIN t = 1..Len(t) /\ DOMAIN u = 1..Len(u)
  BY DEF TreeShape
<1> QED BY <1>1 DEF Grown

\* Where something can be put: the root, or a folder that is not in the trash.
Place(t, f, p) ==
    \/ f = Root /\ p = <<>>
    \/ f \in LiveRows(t) /\ t[f].folder /\ t[f].path = p

LEMMA PlacePath ==
    ASSUME NEW t, TreeShape(t), NEW f, NEW p, Place(t, f, p)
    PROVE  PathOf(t, f) = p /\ f \in 0..Len(t)
<1>1. CASE f = Root /\ p = <<>>
  BY <1>1 DEF PathOf, Root, TreeShape
<1>2. CASE f \in LiveRows(t) /\ t[f].folder /\ t[f].path = p
  <2>1. f \in DOMAIN t
    BY <1>2 DEF LiveRows, Rows
  <2> QED BY <1>2, <2>1, ShapeRow DEF PathOf
<1> QED BY <1>1, <1>2 DEF Place

LEMMA RowMore ==
    ASSUME NEW t, TreeShape(t), NEW r \in RowT, r.parent \in 0..Len(t), r.on
    PROVE  LET u == Append(t, r)
           IN  /\ TreeShape(u) /\ Grown(t, u) /\ Len(u) = Len(t) + 1 /\ u[Len(u)] = r /\ Len(t) \in Nat
               /\ DOMAIN t = 1..Len(t) /\ DOMAIN u = 1..Len(t) + 1
               /\ Rows(u) = Rows(t) \cup {Len(u)}
               /\ LiveRows(u) = LiveRows(t) \cup (IF r.trashed THEN {} ELSE {Len(u)})
<1> DEFINE u == Append(t, r)
<1>1. t \in Seq(RowT) /\ \A i \in DOMAIN t : t[i].parent <= Len(t) /\ t[i].parent \in Nat
  BY ShapeRow DEF TreeShape
<1>2. /\ u \in Seq(RowT) /\ Len(u) = Len(t) + 1 /\ Len(t) \in Nat /\ u[Len(t) + 1] = r
      /\ DOMAIN t = 1..Len(t) /\ DOMAIN u = 1..Len(t) + 1 /\ \A i \in 1..Len(t) : u[i] = t[i]
  BY <1>1
<1> HIDE DEF u
<1>3. TreeShape(u)
  <2> SUFFICES ASSUME NEW i \in DOMAIN u PROVE u[i].parent <= Len(u)
    BY <1>2 DEF TreeShape
  <2>1. CASE i = Len(t) + 1
    BY <1>2, <2>1
  <2>2. CASE i # Len(t) + 1
    <3>1. i \in DOMAIN t /\ u[i] = t[i]
      BY <1>2, <2>2
    <3> QED BY <1>1, <1>2, <3>1
  <2> QED BY <2>1, <2>2
<1>4. Rows(u) = Rows(t) \cup {Len(u)}
  BY <1>2 DEF Rows
<1>5. LiveRows(u) = LiveRows(t) \cup (IF r.trashed THEN {} ELSE {Len(u)})
  BY <1>2, <1>4 DEF LiveRows, Rows
<1> QED BY <1>2, <1>3, <1>4, <1>5 DEF u, Grown

LEMMA RowIn ==
    ASSUME NEW f \in Nat, NEW n \in NameT, NEW p \in PathT, NEW b \in BOOLEAN
    PROVE  /\ Row(f, n, p, b) \in RowT /\ Row(f, n, p, b).on /\ Row(f, n, p, b).parent = f /\ ~Row(f, n, p, b).trashed
           /\ Row(f, n, p, b).name = n /\ Row(f, n, p, b).path = p /\ Row(f, n, p, b).folder = b
BY DEF Row, RowT

\* A row that hangs in a folder, and if it is live in a live one where nothing has its
\* name.
LEMMA AddRowSound ==
    ASSUME NEW t, TreeShape(t), Sound(t), NEW r \in RowT, r.on,
           r.parent \in {Root} \cup {j \in Rows(t) : t[j].folder}, r.path = Append(PathOf(t, r.parent), r.name),
           ~r.trashed => r.parent \in {Root} \cup LiveRows(t) /\ InFolder(t, r.parent, r.name) = {}
    PROVE  Sound(Append(t, r))
<1> DEFINE u == Append(t, r)
           new == IF r.trashed THEN {} ELSE {Len(u)}
<1>1. Len(t) \in Nat /\ DOMAIN t = 1..Len(t)
  BY DEF TreeShape
<1>2. r.parent \in 0..Len(t)
  BY <1>1 DEF Rows, Root
<1>3. /\ TreeShape(u) /\ Grown(t, u) /\ Len(u) = Len(t) + 1 /\ u[Len(u)] = r
      /\ Rows(u) = Rows(t) \cup {Len(u)} /\ LiveRows(u) = LiveRows(t) \cup new
  BY <1>2, RowMore
<1>4. new = {} \/ (new = {Len(u)} /\ ~r.trashed)
  OBVIOUS
<1> HIDE DEF u, new
<1>5. /\ Rows(t) \subseteq DOMAIN t /\ LiveRows(t) \subseteq Rows(t) /\ Len(u) \notin DOMAIN t /\ Root \notin DOMAIN t
      /\ \A i \in DOMAIN t : u[i] = t[i]
  BY <1>1, <1>3 DEF Rows, LiveRows, Root, Grown
<1>6. \A i : i = Root \/ i \in DOMAIN t => PathOf(u, i) = PathOf(t, i)
  BY <1>5 DEF PathOf
<1>7. Hanging(u)
  BY <1>3, <1>5 DEF Sound, Hanging
<1>8. Placing(u)
  <2>1. ASSUME NEW i \in Rows(t) PROVE PathRight(u, i)
    <3>1. t[i].parent = Root \/ t[i].parent \in DOMAIN t
      BY <1>5, <2>1 DEF Sound, Hanging
    <3> QED BY <1>5, <1>6, <2>1, <3>1 DEF Sound, Placing, PathRight
  <2>2. PathRight(u, Len(u))
    BY <1>3, <1>5, <1>6 DEF PathRight
  <2> QED BY <1>3, <2>1, <2>2 DEF Placing
<1>9. LiveIn(u)
  BY <1>3, <1>4, <1>5 DEF Sound, LiveIn
<1>10. OwnNames(u)
  <2>1. ~r.trashed => \A i \in LiveRows(t) : ~(t[i].parent = r.parent /\ t[i].name = r.name)
    BY DEF InFolder
  <2> QED BY <1>3, <1>4, <1>5, <2>1 DEF Sound, OwnNames
<1> QED BY <1>7, <1>8, <1>9, <1>10 DEF Sound, u

\* What is put in a place under a name nothing has there.
LEMMA AddSound ==
    ASSUME NEW t, TreeShape(t), Sound(t), NEW f, NEW p, Place(t, f, p), NEW n \in NameT, InFolder(t, f, n) = {},
           NEW b \in BOOLEAN
    PROVE  Sound(Append(t, Row(f, n, Append(p, n), b)))
<1> DEFINE r == Row(f, n, Append(p, n), b)
<1>1. PathOf(t, f) = p /\ f \in 0..Len(t) /\ p \in PathT
  BY PlacePath, PathOfType
<1>2. Len(t) \in Nat
  BY DEF TreeShape
<1>3. /\ r \in RowT /\ r.on /\ r.parent = f /\ ~r.trashed /\ r.name = n /\ r.path = Append(p, n) /\ r.folder = b
  <2> DEFINE q == Append(p, n)
  <2>1. f \in Nat /\ q \in PathT
    BY <1>1, <1>2, PathAppend
  <2> HIDE DEF q
  <2>2. /\ Row(f, n, q, b) \in RowT /\ Row(f, n, q, b).on /\ Row(f, n, q, b).parent = f /\ ~Row(f, n, q, b).trashed
        /\ Row(f, n, q, b).name = n /\ Row(f, n, q, b).path = q /\ Row(f, n, q, b).folder = b
    BY ONLY <2>1, n \in NameT, b \in BOOLEAN, RowIn
  <2> QED BY <2>2 DEF q
<1>4. f \in {Root} \cup LiveRows(t) /\ f \in {Root} \cup {j \in Rows(t) : t[j].folder}
  BY DEF Place, LiveRows
<1> HIDE DEF r
<1>5. Sound(Append(t, r))
  BY <1>1, <1>3, <1>4, AddRowSound
<1> QED BY <1>5 DEF r

-----------------------------------------------------------------------------
(* Free names and folders that are there *)

\* There are more names to try than rows.
LEMMA FreeName ==
    ASSUME NEW t, TreeShape(t), NEW f, NEW n \in NameT
    PROVE  UniqueNameIn(t, f, n) \in NameT /\ InFolder(t, f, UniqueNameIn(t, f, n)) = {}
<1> DEFINE N == Len(t)
           candidate(k) == IF k = 1 THEN n ELSE Append(n, k)
           Free == {k \in 1..N + 1 : InFolder(t, f, candidate(k)) = {}}
<1>1. N \in Nat /\ DOMAIN t = 1..N
  BY DEF TreeShape
<1>2. UniqueNameIn(t, f, n) = candidate(Least(Free))
  BY DEF UniqueNameIn
<1>3. \A k \in Nat : candidate(k) \in NameT
  BY DEF NameT
<1>4. \A k, l \in Nat : candidate(k) = candidate(l) => k = l
  <2>1. n \in Seq(Names \cup Nat)
    BY DEF NameT
  <2>2. Len(n) \in Nat
    BY <2>1
  <2>3. \A k \in Nat : Len(Append(n, k)) = Len(n) + 1 /\ Append(n, k)[Len(n) + 1] = k
    BY <2>1
  <2>4. \A k \in Nat : Append(n, k) # n
    BY <2>2, <2>3
  <2>5. \A k, l \in Nat : Append(n, k) = Append(n, l) => k = l
    BY <2>3
  <2> QED BY <2>4, <2>5
<1> HIDE DEF N, candidate
<1>5. Free # {}
  <2> SUFFICES ASSUME Free = {} PROVE FALSE
    OBVIOUS
  <2> DEFINE g == [k \in 1..N + 1 |-> CHOOSE i : i \in InFolder(t, f, candidate(k))]
  <2>1. \A k \in 1..N + 1 : g[k] \in InFolder(t, f, candidate(k))
    OBVIOUS
  <2>2. \A k \in 1..N + 1 : g[k] \in 1..N /\ t[g[k]].name = candidate(k)
    BY <1>1, <2>1 DEF InFolder, LiveRows, Rows
  <2>3. g \in [1..N + 1 -> 1..N]
    BY <2>2
  <2>4. /\ IsFiniteSet(1..N + 1) /\ IsFiniteSet(1..N)
        /\ Cardinality(1..N) = N /\ Cardinality(1..N + 1) = N + 1
    BY <1>1, FS_Interval
  <2> HIDE DEF g
  <2>5. \E k, l \in 1..N + 1 : k # l /\ g[k] = g[l]
    BY <1>1, <2>3, <2>4, FS_PigeonHole
  <2> QED BY <1>1, <1>4, <2>2, <2>5
<1>6. Least(Free) \in Free
  <2>1. Free \in SUBSET Nat
    BY <1>1
  <2> HIDE DEF Free
  <2> QED BY <1>5, <2>1, LeastIs
<1>7. Least(Free) \in Nat
  BY <1>1, <1>6
<1> HIDE DEF Free
<1>8. InFolder(t, f, candidate(Least(Free))) = {}
  BY <1>6 DEF Free
<1> QED BY <1>2, <1>3, <1>7, <1>8

LEMMA AtPathIs ==
    ASSUME NEW t \in Seq(RowT), NEW p, AtPath(t, p) # {}
    PROVE  /\ Least(AtPath(t, p)) \in LiveRows(t) /\ t[Least(AtPath(t, p))].path = p
           /\ Least(AtPath(t, p)) \in DOMAIN t
<1>1. AtPath(t, p) \subseteq Nat
  <2>1. AtPath(t, p) \subseteq DOMAIN t
    BY DEF AtPath, LiveRows, Rows
  <2>2. DOMAIN t \subseteq Nat
    OBVIOUS
  <2> QED BY <2>1, <2>2
<1>2. Least(AtPath(t, p)) \in AtPath(t, p)
  BY <1>1, LeastIs
<1> QED BY <1>2 DEF AtPath, LiveRows, Rows

\* A folder that is looked for: the rows there are and what has been added, and where
\* the folder is.
Walk == [ok : BOOLEAN, id : Nat, tree : Seq(RowT)]
Found(u, p) == LET i == Least(AtPath(u, p)) IN [ok |-> u[i].folder, id |-> i, tree |-> u]
Further(w, p, n) ==
    IF ~w.ok THEN w
    ELSE IF AtPath(w.tree, p) # {} THEN Found(w.tree, p)
    ELSE [ok |-> TRUE, id |-> Len(w.tree) + 1, tree |-> Append(w.tree, Row(w.id, n, p, TRUE))]

Walked(t, p, w) ==
    /\ w \in Walk /\ TreeShape(w.tree) /\ Grown(t, w.tree) /\ w.id <= Len(w.tree)
    /\ (w.ok => Place(w.tree, w.id, p))
    /\ (Sound(t) => Sound(w.tree))

LEMMA FoundIs ==
    ASSUME NEW t, NEW u, TreeShape(u), Grown(t, u), Sound(t) => Sound(u), NEW p, AtPath(u, p) # {}
    PROVE  Walked(t, p, Found(u, p))
<1> DEFINE i == Least(AtPath(u, p))
<1>1. i \in LiveRows(u) /\ u[i].path = p /\ i \in DOMAIN u
  BY AtPathIs DEF TreeShape
<1>2. u[i] \in RowT /\ i \in 1..Len(u) /\ u \in Seq(RowT)
  BY <1>1, ShapeRow DEF TreeShape
<1>3. Found(u, p) = [ok |-> u[i].folder, id |-> i, tree |-> u]
  BY DEF Found
<1> HIDE DEF i
<1>4. u[i].folder \in BOOLEAN /\ i \in Nat /\ i <= Len(u)
  BY <1>2 DEF RowT
<1> QED BY <1>1, <1>2, <1>3, <1>4 DEF Walked, Walk, Place

LEMMA WalkFurther ==
    ASSUME NEW t, TreeShape(t), NEW q \in PathT, NEW w, Walked(t, q, w), NEW n \in NameT
    PROVE  Walked(t, Append(q, n), Further(w, Append(q, n), n)) \/ ~w.ok
<1> SUFFICES ASSUME w.ok PROVE Walked(t, Append(q, n), Further(w, Append(q, n), n))
  OBVIOUS
<1> DEFINE p == Append(q, n)
           u == w.tree
<1>1. /\ w \in Walk /\ TreeShape(u) /\ Grown(t, u) /\ w.id <= Len(u) /\ Place(u, w.id, q)
      /\ (Sound(t) => Sound(u))
  BY DEF Walked
<1>2. p \in PathT
  BY PathAppend
<1>3. CASE AtPath(u, p) # {}
  <2>1. Further(w, p, n) = Found(u, p)
    BY <1>3 DEF Further
  <2> HIDE DEF p, u
  <2>2. Walked(t, p, Found(u, p))
    BY <1>1, <1>3, FoundIs
  <2> QED BY <2>1, <2>2 DEF p
<1>4. CASE AtPath(u, p) = {}
  <2> DEFINE r == Row(w.id, n, p, TRUE)
             v == Append(u, r)
  <2>1. Further(w, p, n) = [ok |-> TRUE, id |-> Len(u) + 1, tree |-> v]
    BY <1>4 DEF Further
  <2>2. w.id \in Nat /\ u \in Seq(RowT) /\ Len(u) \in Nat /\ w.id \in 0..Len(u)
    BY <1>1 DEF Walk, TreeShape
  <2>3. Sound(u) => Sound(v)
    <3> SUFFICES ASSUME Sound(u) PROVE Sound(v)
      OBVIOUS
    <3>1. InFolder(u, w.id, n) = {}
      <4> SUFFICES ASSUME NEW j \in LiveRows(u), u[j].parent = w.id, u[j].name = n PROVE FALSE
        BY DEF InFolder
      <4>1. j \in Rows(u)
        BY DEF LiveRows
      <4>2. u[j].path = Append(PathOf(u, w.id), n)
        BY <4>1 DEF Sound, Placing, PathRight
      <4>3. PathOf(u, w.id) = q
        BY <1>1, PlacePath
      <4>4. j \in AtPath(u, p)
        BY <4>2, <4>3 DEF AtPath
      <4> QED BY <1>4, <4>4
    <3> HIDE DEF u
    <3> QED BY <1>1, <3>1, AddSound
  <2> HIDE DEF p, u
  <2>4. r \in RowT /\ r.on /\ ~r.trashed /\ r.parent = w.id /\ r.folder /\ r.path = p
    BY <1>2, <2>2 DEF Row, RowT
  <2> HIDE DEF r
  <2>5. /\ TreeShape(v) /\ Grown(u, v) /\ Len(v) = Len(u) + 1 /\ v[Len(v)] = r
        /\ LiveRows(v) = LiveRows(u) \cup {Len(v)} /\ DOMAIN u = 1..Len(u)
    BY <1>1, <2>2, <2>4, RowMore
  <2> HIDE DEF v
  <2>6. Place(v, Len(u) + 1, p)
    BY <2>4, <2>5 DEF Place
  <2>7. Grown(t, v)
    BY <1>1, <2>5, GrownFurther
  <2>8. v \in Seq(RowT)
    BY <2>5 DEF TreeShape
  <2>9. Walked(t, p, [ok |-> TRUE, id |-> Len(u) + 1, tree |-> v])
    BY <1>1, <2>2, <2>3, <2>5, <2>6, <2>7, <2>8 DEF Walked, Walk
  <2> QED BY <2>1, <2>9 DEF p
<1> QED BY <1>3, <1>4

LEMMA FirstAppend ==
    ASSUME NEW path \in PathT, NEW n \in 1..Len(path)
    PROVE  /\ SubSeq(path, 1, n - 1) \in PathT /\ path[n] \in NameT
           /\ SubSeq(path, 1, n) = Append(SubSeq(path, 1, n - 1), path[n])
<1>1. path \in Seq(NameT) /\ 1 \in Nat /\ n \in Nat /\ Len(path) \in Nat
  BY DEF PathT
<1>2. \A k \in 1..n - 1 : path[k] \in NameT
  BY <1>1
<1>3. SubSeq(path, 1, n - 1) \in Seq(NameT) /\ path[n] \in NameT
  BY <1>1, <1>2, SubSeqProperties
<1>4. SubSeq(path, 1, n) = SubSeq(path, 1, n - 1) \o <<path[n]>>
  <2>1. 1 \in 1..Len(path) /\ n \in 1..Len(path)
    BY <1>1
  <2> QED BY <1>1, <2>1, SubSeqRecursiveSecond
<1>5. SubSeq(path, 1, n - 1) \o <<path[n]>> = Append(SubSeq(path, 1, n - 1), path[n])
  <2> DEFINE s == SubSeq(path, 1, n - 1)
  <2> HIDE DEF s
  <2> QED BY <1>3 DEF s
<1> QED BY <1>3, <1>4, <1>5 DEF PathT

LEMMA FurtherType ==
    ASSUME NEW w \in Walk, NEW p \in PathT, NEW n \in NameT
    PROVE  Further(w, p, n) \in Walk
<1>1. w.tree \in Seq(RowT) /\ w.id \in Nat
  BY DEF Walk
<1>2. CASE AtPath(w.tree, p) # {}
  <2> DEFINE i == Least(AtPath(w.tree, p))
  <2>1. i \in DOMAIN w.tree
    BY <1>1, <1>2, AtPathIs
  <2> HIDE DEF i
  <2>2. i \in Nat /\ w.tree[i] \in RowT
    BY <1>1, <2>1
  <2>3. Found(w.tree, p) \in Walk
    BY <1>1, <2>2 DEF Found, Walk, RowT, i
  <2> QED BY <1>2, <2>3 DEF Further
<1>3. CASE AtPath(w.tree, p) = {}
  <2> DEFINE r == Row(w.id, n, p, TRUE)
  <2>1. r \in RowT
    BY <1>1 DEF Row, RowT
  <2> HIDE DEF r
  <2>2. Append(w.tree, r) \in Seq(RowT) /\ Len(w.tree) + 1 \in Nat
    BY <1>1, <2>1
  <2> QED BY <1>3, <2>2 DEF Further, Walk, r
<1> QED BY <1>2, <1>3

Walks(t, path, g) ==
    /\ g \in [0..Len(path) -> Walk] /\ g[0] = [ok |-> TRUE, id |-> Root, tree |-> t]
    /\ \A n \in 1..Len(path) : g[n] = Further(g[n - 1], SubSeq(path, 1, n), path[n])

LEMMA WalkExists ==
    ASSUME NEW t, TreeShape(t), NEW path \in PathT
    PROVE  \E g : Walks(t, path, g)
<1> DEFINE N == Len(path)
           first == [ok |-> TRUE, id |-> Root, tree |-> t]
           step == [p \in Walk \X (1..N) |-> Further(p[1], SubSeq(path, 1, p[2]), path[p[2]])]
<1>1. N \in Nat
  BY DEF PathT
<1>2. first \in Walk
  BY DEF Walk, TreeShape, Root
<1>3. ASSUME NEW w \in Walk, NEW n \in 1..N PROVE Further(w, SubSeq(path, 1, n), path[n]) \in Walk
  <2> DEFINE p == SubSeq(path, 1, n)
             q == SubSeq(path, 1, n - 1)
  <2>1. q \in PathT /\ path[n] \in NameT /\ p = Append(q, path[n])
    BY FirstAppend
  <2> HIDE DEF p, q
  <2>2. p \in PathT
    BY <2>1, PathAppend
  <2> QED BY <2>1, <2>2, FurtherType DEF p
<1> HIDE DEF N, first
<1>4. step \in [Walk \X (1..N) -> Walk]
  BY <1>3
<1>5. \A w \in Walk, n \in 1..N : step[<<w, n>>] = Further(w, SubSeq(path, 1, n), path[n])
  OBVIOUS
<1> HIDE DEF step
<1>6. PICK g : Follows(g, N, Walk, first, step)
  BY <1>1, <1>2, <1>4, Recursion, Zenon
<1>7. ASSUME NEW n \in 1..N PROVE g[n] = Further(g[n - 1], SubSeq(path, 1, n), path[n])
  <2>1. n - 1 \in 0..N
    BY <1>1
  <2> QED BY <1>5, <1>6, <2>1 DEF Follows
<1> QED BY <1>6, <1>7 DEF Walks, Follows, N, first

LEMMA EnsureFolderWalks ==
    ASSUME NEW t, TreeShape(t), NEW path \in PathT, ~(path # <<>> /\ AtPath(t, path) # {})
    PROVE  \E g : Walks(t, path, g) /\ EnsureFolder(t, path) = g[Len(path)]
<1> DEFINE N == Len(path)
           first == [ok |-> TRUE, id |-> Root, tree |-> t]
           Next1(w, n) == Further(w, SubSeq(path, 1, n), path[n])
           Is(h) == h = [n \in 0..N |-> IF n = 0 THEN first ELSE Next1(h[n - 1], n)]
           h == CHOOSE x : Is(x)
<1>1. N \in Nat
  BY DEF PathT
<1>2. EnsureFolder(t, path) = h[N]
  BY DEF EnsureFolder, Further, Found
<1>3. PICK g : Walks(t, path, g)
  BY WalkExists
<1>4. g \in [0..N -> Walk] /\ g[0] = first /\ \A n \in 1..N : g[n] = Next1(g[n - 1], n)
  BY <1>3 DEF Walks
<1> HIDE DEF N, first, Next1
<1>5. Is(g)
  <2>1. \A n \in 0..N : n # 0 => n \in 1..N
    BY <1>1
  <2>2. \A n \in 0..N : g[n] = IF n = 0 THEN first ELSE Next1(g[n - 1], n)
    BY <1>4, <2>1
  <2> QED BY <1>4, <2>2
<1>6. Is(h)
  <2> HIDE DEF Is
  <2> QED BY <1>5
<1> HIDE DEF h
<1>7. \A n \in 0..N : h[n] = IF n = 0 THEN first ELSE Next1(h[n - 1], n)
  BY <1>6
<1> HIDE DEF Is
<1> DEFINE G == {n \in 0..N : h[n] = g[n]}
<1>8. 0 \in G
  <2>1. 0 \in 0..N
    BY <1>1
  <2>2. h[0] = first
    BY ONLY <2>1, <1>7
  <2> QED BY <1>4, <2>1, <2>2
<1>9. ASSUME NEW n \in 0..N - 1, n \in G PROVE n + 1 \in G
  <2>1. n + 1 \in 0..N /\ n + 1 \in 1..N /\ n + 1 # 0 /\ (n + 1) - 1 = n
    BY <1>1
  <2>2. h[n + 1] = Next1(h[n], n + 1) /\ g[n + 1] = Next1(g[n], n + 1)
    BY <1>4, <1>7, <2>1
  <2>3. h[n] = g[n]
    BY <1>9
  <2>4. h[n + 1] = g[n + 1]
    BY <2>2, <2>3
  <2> QED BY <2>1, <2>4
<1>10. N \in G
  <2> HIDE DEF G
  <2>1. N \in 0..N
    BY <1>1
  <2> QED BY <1>1, <1>8, <1>9, <2>1, UpTo
<1> QED BY <1>2, <1>3, <1>10 DEF N

\* ensureFolder() leaves what is there as it is, and answers with the folder of that
\* path or says that there is a file.
LEMMA EnsureFolderIs ==
    ASSUME NEW t, TreeShape(t), NEW path \in PathT
    PROVE  Walked(t, path, EnsureFolder(t, path))
<1>1. Grown(t, t)
  BY DEF Grown, TreeShape
<1>2. CASE path # <<>> /\ AtPath(t, path) # {}
  <2>1. EnsureFolder(t, path) = Found(t, path)
    BY <1>2 DEF EnsureFolder, Found
  <2> QED BY <1>1, <1>2, <2>1, FoundIs
<1>3. CASE ~(path # <<>> /\ AtPath(t, path) # {})
  <2>1. PICK g : Walks(t, path, g) /\ EnsureFolder(t, path) = g[Len(path)]
    BY <1>3, EnsureFolderWalks
  <2> DEFINE N == Len(path)
             G == {n \in 0..N : Walked(t, SubSeq(path, 1, n), g[n])}
  <2>2. N \in Nat
    BY DEF PathT
  <2>3. 0 \in G
    <3>1. SubSeq(path, 1, 0) = <<>>
      BY SubSeqEmpty
    <3>2. g[0] = [ok |-> TRUE, id |-> Root, tree |-> t]
      BY <2>1 DEF Walks
    <3>3. Walked(t, <<>>, [ok |-> TRUE, id |-> Root, tree |-> t])
      BY <1>1 DEF Walked, Walk, Place, TreeShape, Root
    <3>4. Walked(t, SubSeq(path, 1, 0), g[0])
      BY <3>1, <3>2, <3>3
    <3> QED BY <2>2, <3>4
  <2>4. ASSUME NEW n \in 0..N - 1, n \in G PROVE n + 1 \in G
    <3>1. n + 1 \in 0..N /\ n + 1 \in 1..N /\ (n + 1) - 1 = n
      BY <2>2
    <3> DEFINE q == SubSeq(path, 1, n)
               w == g[n]
               x == path[n + 1]
    <3>2. q \in PathT /\ x \in NameT /\ SubSeq(path, 1, n + 1) = Append(q, x)
      BY <3>1, FirstAppend
    <3>3. g[n + 1] = Further(w, Append(q, x), x)
      BY <2>1, <3>1, <3>2 DEF Walks
    <3>4. Walked(t, q, w)
      BY <2>4
    <3> HIDE DEF q, w, x
    <3>5. Walked(t, Append(q, x), g[n + 1])
      <4>1. CASE w.ok
        BY <3>2, <3>3, <3>4, <4>1, WalkFurther
      <4>2. CASE ~w.ok
        <5>1. Further(w, Append(q, x), x) = w
          BY <4>2 DEF Further
        <5> QED BY <3>3, <3>4, <4>2, <5>1 DEF Walked
      <4> QED BY <4>1, <4>2
    <3> QED BY <3>1, <3>2, <3>5
  <2>5. N \in G
    <3> HIDE DEF G
    <3>1. N \in 0..N
      BY <2>2
    <3> HIDE DEF N
    <3> QED BY <2>2, <2>3, <2>4, <3>1, UpTo
  <2>6. SubSeq(path, 1, N) = path
    BY SubSeqFull DEF PathT
  <2> QED BY <2>1, <2>5, <2>6
<1> QED BY <1>2, <1>3

-----------------------------------------------------------------------------
(* Paths that change *)

LEMMA BelowAhead ==
    ASSUME NEW t, TreeShape(t), Hanging(t), Placing(t), NEW f \in Rows(t), NEW j \in Below(t, f)
    PROVE  Ahead(t[f].path, t[j].path) /\ Len(t[f].path) < Len(t[j].path) /\ j # f
<1> DEFINE X == {i \in Rows(t) : Ahead(t[f].path, t[i].path) /\ Len(t[f].path) < Len(t[i].path)}
<1>1. t \in Seq(RowT)
  BY DEF TreeShape
<1>2. \A i \in Rows(t) : i \in DOMAIN t /\ i # Root /\ t[i].path \in PathT /\ t[i].name \in NameT
  BY ShapeRow DEF Rows, RowT
<1>3. \A i \in Rows(t) : Len(t[i].path) \in Nat
  BY <1>2 DEF PathT
<1>4. ASSUME NEW i \in Rows(t), t[i].parent = f \/ t[i].parent \in X PROVE i \in X
  <2> DEFINE k == t[i].parent
  <2>1. k \in Rows(t) /\ k # Root /\ Ahead(t[f].path, t[k].path)
    BY <1>2, <1>3, <1>4 DEF Ahead
  <2>2. t[i].path = Append(t[k].path, t[i].name)
    BY <2>1 DEF Placing, PathRight, PathOf
  <2> QED BY <1>2, <2>1, <2>2, AheadAppend
<1>5. Below(t, f) \subseteq X
  <2> HIDE DEF X
  <2> QED BY <1>1, <1>4, BelowLeast
<1>6. Len(t[f].path) < Len(t[j].path)
  BY <1>5
<1>7. j # f
  BY <1>3, <1>6
<1> QED BY <1>5, <1>7

LEMMA NothingBelowFile ==
    ASSUME NEW t, TreeShape(t), Hanging(t), NEW f \in Rows(t), ~t[f].folder
    PROVE  Below(t, f) = {}
<1>1. t \in Seq(RowT) /\ f # Root
  BY ShapeRow DEF TreeShape, Rows
<1> DEFINE X == {}
<1>2. \A i \in Rows(t) : t[i].parent = f \/ t[i].parent \in X => i \in X
  BY <1>1 DEF Hanging
<1>3. Below(t, f) \subseteq X
  <2> HIDE DEF X
  <2> QED BY <1>1, <1>2, BelowLeast
<1> QED BY <1>3

Repathed(r, p) == [r EXCEPT !.path = p]

LEMMA RepathedIs ==
    ASSUME NEW r \in RowT, NEW p \in PathT
    PROVE  /\ Repathed(r, p) \in RowT /\ Repathed(r, p).path = p /\ Repathed(r, p).parent = r.parent
           /\ Repathed(r, p).on = r.on /\ Repathed(r, p).name = r.name
           /\ Repathed(r, p).folder = r.folder /\ Repathed(r, p).trashed = r.trashed
BY DEF Repathed, RowT

\* v is u with the paths from old on replaced.
Updated(u, v, old, new) ==
    \A j \in DOMAIN u :
        /\ u[j].on /\ Under(u[j].path, old) => v[j] = Repathed(u[j], Rebased(u[j].path, old, new))
        /\ ~(u[j].on /\ Under(u[j].path, old)) => v[j] = u[j]

LEMMA UpdateIs ==
    ASSUME NEW u, TreeShape(u), NEW old \in PathT, NEW new \in PathT,
           NEW v, v = UpdatePathsUnder(u, old, new)
    PROVE  TreeShape(v) /\ Len(v) = Len(u) /\ DOMAIN v = DOMAIN u /\ Updated(u, v, old, new)
<1> DEFINE n == Len(u)
<1>1. n \in Nat /\ DOMAIN u = 1..n /\ \A i \in 1..n : u[i] \in RowT /\ u[i].parent <= n
  BY DEF TreeShape
<1>2. v = [i \in 1..n |-> IF u[i].on /\ Under(u[i].path, old)
                          THEN Repathed(u[i], Rebased(u[i].path, old, new)) ELSE u[i]]
  BY <1>1 DEF UpdatePathsUnder, Rebased, Repathed
<1> HIDE DEF n
<1>3. Updated(u, v, old, new)
  BY <1>1, <1>2 DEF Updated
<1>4. DOMAIN v = 1..n /\ v = [i \in 1..n |-> v[i]]
  BY <1>2
<1>5. ASSUME NEW i \in 1..n PROVE v[i] \in RowT /\ v[i].parent <= n
  <2>1. u[i] \in RowT /\ u[i].parent <= n
    BY <1>1
  <2>2. Rebased(u[i].path, old, new) \in PathT
    BY <2>1, RebasedType DEF RowT
  <2> DEFINE r == Repathed(u[i], Rebased(u[i].path, old, new))
  <2>3. r \in RowT /\ r.parent = u[i].parent
    BY <2>1, <2>2, RepathedIs
  <2>4. v[i] = u[i] \/ v[i] = r
    BY <1>2
  <2> HIDE DEF r
  <2> QED BY <2>1, <2>3, <2>4
<1>6. TreeShape(v) /\ Len(v) = n
  BY <1>1, <1>4, <1>5, ShapeBuilt
<1> QED BY <1>1, <1>3, <1>4, <1>6 DEF n

\* One row that changes.
PutRow(t, i, r) == [t EXCEPT ![i] = r]

LEMMA RowChanged ==
    ASSUME NEW t, TreeShape(t), NEW i \in DOMAIN t, NEW r \in RowT, r.parent <= Len(t), NEW u, u = PutRow(t, i, r)
    PROVE  /\ TreeShape(u) /\ Len(u) = Len(t) /\ DOMAIN u = DOMAIN t
           /\ u[i] = r /\ \A j \in DOMAIN t : j # i => u[j] = t[j]
<1> DEFINE n == Len(t)
<1>1. n \in Nat /\ DOMAIN t = 1..n /\ t \in Seq(RowT) /\ \A j \in 1..n : t[j].parent <= n
  BY DEF TreeShape
<1>2. /\ u \in Seq(RowT) /\ Len(u) = n
      /\ \A j \in 1..n : u[j] = IF j = i THEN r ELSE t[j]
  BY <1>1, ExceptSeq DEF PutRow
<1>3. DOMAIN u = 1..n
  BY <1>2
<1> QED BY <1>1, <1>2, <1>3 DEF TreeShape

\* What repath() makes of the rows: u has the new row, v also what follows from it.
Deep(t, i, row, new) == row.folder /\ t[i].path # new

LEMMA RepathIs ==
    ASSUME NEW t, TreeShape(t), NEW i \in DOMAIN t, NEW row \in RowT, row.parent <= Len(t),
           NEW new \in PathT, NEW u, u = PutRow(t, i, Repathed(row, new)),
           NEW v, v = Repath(t, i, row, new)
    PROVE  /\ TreeShape(u) /\ Len(u) = Len(t) /\ DOMAIN u = DOMAIN t /\ u[i] = Repathed(row, new)
           /\ \A j \in DOMAIN t : j # i => u[j] = t[j]
           /\ TreeShape(v) /\ Len(v) = Len(t) /\ DOMAIN v = DOMAIN t
           /\ Deep(t, i, row, new) => Updated(u, v, t[i].path, new)
           /\ ~Deep(t, i, row, new) => v = u
<1> DEFINE r == Repathed(row, new)
           old == t[i].path
<1>1. r \in RowT /\ r.parent = row.parent /\ old \in PathT
  BY ShapeRow, RepathedIs DEF RowT
<1>2. v = IF Deep(t, i, row, new) THEN UpdatePathsUnder(u, old, new) ELSE u
  BY DEF Repath, Deep, Repathed, PutRow
<1> HIDE DEF r
<1>3. /\ TreeShape(u) /\ Len(u) = Len(t) /\ DOMAIN u = DOMAIN t
      /\ u[i] = r /\ \A j \in DOMAIN t : j # i => u[j] = t[j]
  <2>1. u = PutRow(t, i, r)
    BY DEF r
  <2> QED BY <1>1, <2>1, RowChanged
<1> HIDE DEF old
<1>4. CASE Deep(t, i, row, new)
  <2>1. v = UpdatePathsUnder(u, old, new)
    BY <1>2, <1>4
  <2>2. TreeShape(v) /\ Len(v) = Len(u) /\ DOMAIN v = DOMAIN u /\ Updated(u, v, old, new)
    BY <1>1, <1>3, <2>1, UpdateIs
  <2> QED BY <1>3, <1>4, <2>2 DEF r, old
<1>5. CASE ~Deep(t, i, row, new)
  BY <1>2, <1>3, <1>5 DEF r
<1> QED BY <1>4, <1>5

SameButPath(r, s) ==
    s.on = r.on /\ s.name = r.name /\ s.parent = r.parent /\ s.folder = r.folder /\ s.trashed = r.trashed

LEMMA RepathRows ==
    ASSUME NEW t, TreeShape(t), NEW i \in DOMAIN t, NEW row \in RowT, row.parent <= Len(t),
           NEW new \in PathT, NEW v, v = Repath(t, i, row, new)
    PROVE  /\ TreeShape(v) /\ Len(v) = Len(t) /\ DOMAIN v = DOMAIN t
           /\ SameButPath(row, v[i]) /\ \A j \in DOMAIN t : j # i => SameButPath(t[j], v[j])
<1> DEFINE r == Repathed(row, new)
           u == PutRow(t, i, r)
           old == t[i].path
<1>1. /\ TreeShape(u) /\ DOMAIN u = DOMAIN t /\ u[i] = r /\ \A j \in DOMAIN t : j # i => u[j] = t[j]
      /\ TreeShape(v) /\ Len(v) = Len(t) /\ DOMAIN v = DOMAIN t
      /\ Deep(t, i, row, new) => Updated(u, v, old, new)
      /\ ~Deep(t, i, row, new) => v = u
  <2>1. u = PutRow(t, i, Repathed(row, new))
    OBVIOUS
  <2> HIDE DEF u
  <2> QED BY <2>1, RepathIs
<1>2. SameButPath(row, r)
  BY RepathedIs DEF SameButPath
<1>3. old \in PathT
  BY ShapeRow DEF RowT
<1> HIDE DEF r, u, old
<1>4. ASSUME NEW j \in DOMAIN t PROVE SameButPath(u[j], v[j])
  <2>1. u[j] \in RowT
    BY <1>1, ShapeRow
  <2>2. Rebased(u[j].path, old, new) \in PathT
    BY <1>3, <2>1, RebasedType DEF RowT
  <2>3. v[j] = u[j] \/ v[j] = Repathed(u[j], Rebased(u[j].path, old, new))
    BY <1>1 DEF Updated
  <2> QED BY <2>1, <2>2, <2>3, RepathedIs DEF SameButPath
<1>5. \A j \in DOMAIN t : u[j] = IF j = i THEN r ELSE t[j]
  BY <1>1
<1> QED BY <1>1, <1>2, <1>4, <1>5 DEF SameButPath

Elsewhere(t, i, f) ==
    f = Root \/ (f \in Rows(t) /\ t[f].folder /\ f \notin Below(t, i) /\ f # i)

\* repath() keeps the rows in order if the row is to lie in a folder that is not below
\* it, under a free name, and no row outside it is named by its path.
LEMMA RepathSound ==
    ASSUME NEW t, TreeShape(t), Sound(t), NEW i \in Rows(t),
           NEW row \in RowT, row.parent <= Len(t), row.folder = t[i].folder, row.on, row.trashed = t[i].trashed,
           Elsewhere(t, i, row.parent), NEW new, new = Append(PathOf(t, row.parent), row.name), ~Strays(t, i, new),
           ~row.trashed => /\ row.parent \in {Root} \cup LiveRows(t)
                           /\ InFolder(t, row.parent, row.name) \ {i} = {}
    PROVE  Sound(Repath(t, i, row, new))
<1> DEFINE v == Repath(t, i, row, new)
           u == PutRow(t, i, Repathed(row, new))
           old == t[i].path
           below == Below(t, i)
<1>1. i \in DOMAIN t /\ t \in Seq(RowT) /\ i # Root /\ i \notin below /\ row.parent \in 0..Len(t)
  <2>1. i \in DOMAIN t /\ t \in Seq(RowT) /\ i # Root
    BY ShapeRow DEF Rows, TreeShape
  <2>2. row.parent \in 0..Len(t)
    BY <2>1 DEF RowT
  <2> QED BY <2>1, <2>2, BelowAhead DEF Sound
<1>2. new \in PathT /\ old \in PathT
  BY <1>1, PathOfType, PathAppend, ShapeRow DEF RowT
<1>3. /\ DOMAIN u = DOMAIN t /\ u[i] = Repathed(row, new)
      /\ \A j \in DOMAIN t : j # i => u[j] = t[j]
      /\ Deep(t, i, row, new) => Updated(u, v, old, new)
      /\ ~Deep(t, i, row, new) => v = u
  <2>1. u = PutRow(t, i, Repathed(row, new)) /\ v = Repath(t, i, row, new)
    OBVIOUS
  <2> HIDE DEF u, v
  <2> QED BY <1>1, <1>2, <2>1, RepathIs
<1>4. /\ TreeShape(v) /\ Len(v) = Len(t) /\ DOMAIN v = DOMAIN t
      /\ v[i].on = row.on /\ v[i].name = row.name /\ v[i].parent = row.parent /\ v[i].folder = row.folder
      /\ v[i].trashed = row.trashed
      /\ \A j \in DOMAIN t : j # i => /\ v[j].on = t[j].on /\ v[j].name = t[j].name /\ v[j].parent = t[j].parent
                                      /\ v[j].folder = t[j].folder /\ v[j].trashed = t[j].trashed
  <2> SUFFICES /\ TreeShape(v) /\ Len(v) = Len(t) /\ DOMAIN v = DOMAIN t /\ SameButPath(row, v[i])
               /\ \A j \in DOMAIN t : j # i => SameButPath(t[j], v[j])
    BY DEF SameButPath
  <2>1. v = Repath(t, i, row, new)
    OBVIOUS
  <2> HIDE DEF v, u, old, below
  <2> QED BY <1>1, <1>2, <2>1, RepathRows
<1>5. u[i].path = new
  <2>1. Repathed(row, new).path = new
    BY <1>2, RepathedIs
  <2> HIDE DEF u
  <2> QED BY <1>3, <2>1
<1> HIDE DEF u, v, old, below
<1>6. Rows(v) = Rows(t) /\ LiveRows(v) = LiveRows(t) /\ \A j \in Rows(t) : v[j].folder = t[j].folder
  <2>1. v[i].on = t[i].on /\ v[i].trashed = t[i].trashed /\ v[i].folder = t[i].folder
    BY <1>4 DEF Rows
  <2>2. \A j \in DOMAIN t : v[j].on = t[j].on /\ v[j].trashed = t[j].trashed /\ v[j].folder = t[j].folder
    BY <1>4, <2>1
  <2>3. Rows(v) = Rows(t)
    BY <1>4, <2>2 DEF Rows
  <2>4. LiveRows(v) = LiveRows(t)
    BY <2>2, <2>3 DEF LiveRows, Rows
  <2> QED BY <2>2, <2>3, <2>4 DEF Rows
<1>7. Hanging(v)
  BY <1>4, <1>6 DEF Sound, Hanging, Elsewhere, Rows
<1>8. LiveIn(v)
  BY <1>4, <1>6 DEF Sound, LiveIn, LiveRows, Rows
<1>9. OwnNames(v)
  <2>1. ASSUME NEW j \in LiveRows(t), i \in LiveRows(t), j # i, t[j].parent = row.parent, t[j].name = row.name
        PROVE  FALSE
    <3>1. ~row.trashed
      BY <2>1 DEF LiveRows
    <3> QED BY <2>1, <3>1 DEF InFolder
  <2>2. \A j \in LiveRows(t) : j \in DOMAIN t
    BY DEF LiveRows, Rows
  <2> QED BY <1>4, <1>6, <2>1, <2>2 DEF Sound, OwnNames
\* Where paths have changed: in the row and below it.
<1>10. CASE Deep(t, i, row, new)
  <2>1. ASSUME NEW j \in Rows(t), j # i
        PROVE  v[j].path = IF j \in below THEN Rebased(t[j].path, old, new) ELSE t[j].path
    <3>1. j \in DOMAIN t /\ t[j].on /\ u[j] = t[j] /\ t[j] \in RowT
      BY <1>3, <2>1, ShapeRow DEF Rows
    <3>2. CASE j \in below
      <4>1. Under(t[j].path, old)
        <5>1. Ahead(old, t[j].path) /\ Len(old) < Len(t[j].path)
          BY <3>2, BelowAhead DEF Sound, old, below
        <5> QED BY <1>2, <3>1, <5>1, AheadUnder DEF RowT
      <4>2. v[j] = Repathed(t[j], Rebased(t[j].path, old, new))
        BY <1>3, <1>10, <3>1, <4>1 DEF Updated
      <4>3. t[j].path \in PathT
        BY <3>1 DEF RowT
      <4>4. Rebased(t[j].path, old, new) \in PathT
        BY <1>2, <4>3, RebasedType
      <4>5. Repathed(t[j], Rebased(t[j].path, old, new)).path = Rebased(t[j].path, old, new)
        BY <3>1, <4>4, RepathedIs
      <4> QED BY <3>2, <4>2, <4>5
    <3>3. CASE j \notin below
      <4>1. ~Under(t[j].path, old)
        <5>1. t[i].folder /\ t[i].path # new
          BY <1>10 DEF old, Deep
        <5>2. \A k \in Rows(t) \ (Below(t, i) \cup {i}) : ~Under(t[k].path, t[i].path)
          BY <5>1 DEF Strays
        <5> QED BY <2>1, <3>3, <5>2 DEF old, below
      <4> QED BY <1>3, <1>10, <3>1, <3>3, <4>1 DEF Updated
    <3> QED BY <3>2, <3>3
  <2>2. v[i].path = new
    <3>1. ~Under(new, old)
      <4>1. t[i].folder /\ t[i].path # new
        BY <1>10 DEF old, Deep
      <4> QED BY <4>1 DEF Strays, old
    <3> QED BY <1>1, <1>3, <1>5, <1>10, <3>1 DEF Updated
  <2>3. PathRight(v, i)
    <3>1. PathOf(v, row.parent) = PathOf(t, row.parent)
      <4>1. CASE row.parent = Root
        BY <4>1 DEF PathOf
      <4>2. CASE row.parent # Root
        BY <2>1, <4>2 DEF PathOf, Elsewhere, below
      <4> QED BY <4>1, <4>2
    <3> QED BY <1>4, <2>2, <3>1 DEF PathRight
  <2>4. ASSUME NEW j \in Rows(t), j # i PROVE PathRight(v, j)
    <3> DEFINE k == t[j].parent
    <3>1. j \in DOMAIN t /\ t[j] \in RowT /\ v[j].parent = k /\ v[j].name = t[j].name
      BY <1>4, <2>4, ShapeRow DEF Rows
    <3>2. t[j].path = Append(PathOf(t, k), t[j].name)
      BY DEF Sound, Placing, PathRight
    <3>3. k = Root \/ (k \in Rows(t) /\ k # Root)
      BY DEF Sound, Hanging
    <3>4. CASE k = Root
      <4>1. j \notin below
        <5> SUFFICES ASSUME j \in below PROVE FALSE
          OBVIOUS
        <5>1. k = i \/ k \in below
          BY <1>1, BelowHangs DEF below
        <5>2. below \subseteq Rows(t)
          BY <1>1, BelowClosed DEF below
        <5>3. Root \notin Rows(t)
          BY ShapeRow DEF Rows
        <5> QED BY <1>1, <3>4, <5>1, <5>2, <5>3
      <4>2. PathOf(v, k) = PathOf(t, k)
        BY <3>4 DEF PathOf
      <4> QED BY <2>1, <2>4, <3>1, <3>2, <4>1, <4>2 DEF PathRight
    <3>5. CASE k = i
      <4>1. j \in below
        BY <1>1, <3>5, BelowClosed DEF below
      <4>2. t[j].path = Append(old, t[j].name)
        BY <1>1, <3>2, <3>5 DEF PathOf, old
      <4>3. Ahead(old, old) /\ Len(old) \in Nat
        BY <1>2 DEF Ahead, PathT
      <4>4. Rebased(Append(old, t[j].name), old, new) = Append(new, t[j].name)
        <5>1. t[j].name \in NameT
          BY <3>1 DEF RowT
        <5>2. Rebased(Append(old, t[j].name), old, new) = Append(Rebased(old, old, new), t[j].name)
          BY <1>2, <4>3, <5>1, RebasedAppend
        <5> QED BY <1>2, <5>2, RebasedSelf
      <4>5. PathOf(v, k) = new
        BY <1>1, <2>2, <3>5 DEF PathOf
      <4> QED BY <2>1, <2>4, <3>1, <4>1, <4>2, <4>4, <4>5 DEF PathRight
    <3>6. CASE k \in Rows(t) /\ k # Root /\ k # i /\ k \in below
      <4>1. j \in below
        BY <1>1, <3>6, BelowClosed DEF below
      <4>2. t[j].path = Append(t[k].path, t[j].name) /\ t[k].path \in PathT
        BY <3>2, <3>6, ShapeRow DEF PathOf, Rows, RowT
      <4>3. Ahead(old, t[k].path)
        BY <3>6, BelowAhead DEF Sound, below, old
      <4>4. Rebased(Append(t[k].path, t[j].name), old, new) = Append(Rebased(t[k].path, old, new), t[j].name)
        BY <1>2, <3>1, <4>2, <4>3, RebasedAppend DEF RowT
      <4>5. PathOf(v, k) = Rebased(t[k].path, old, new)
        BY <2>1, <3>6 DEF PathOf
      <4> QED BY <2>1, <2>4, <3>1, <4>1, <4>2, <4>4, <4>5 DEF PathRight
    <3>7. CASE k \in Rows(t) /\ k # Root /\ k # i /\ k \notin below
      <4>1. j \notin below
        BY <1>1, <3>7, BelowHangs DEF below
      <4>2. PathOf(v, k) = PathOf(t, k)
        BY <2>1, <3>7 DEF PathOf
      <4> QED BY <2>1, <2>4, <3>1, <3>2, <4>1, <4>2 DEF PathRight
    <3> QED BY <3>3, <3>4, <3>5, <3>6, <3>7
  <2>5. Placing(v)
    BY <1>6, <2>3, <2>4 DEF Placing
  <2> QED BY <1>7, <1>8, <1>9, <2>5 DEF Sound, v
\* Its own path alone has changed, if any: nothing hangs in a file.
<1>11. CASE ~Deep(t, i, row, new)
  <2>1. v[i].path = new /\ \A j \in Rows(t) : j # i => v[j].path = t[j].path
    BY <1>1, <1>3, <1>5, <1>11 DEF Rows
  <2>2. \A j \in Rows(t) : t[j].parent = i => new = old
    BY <1>1, <1>11 DEF Sound, Hanging, Deep, old
  <2>3. ASSUME NEW j \in Rows(t) PROVE PathRight(v, j)
    <3>1. CASE j = i
      <4>1. PathOf(v, row.parent) = PathOf(t, row.parent)
        BY <2>1 DEF PathOf, Elsewhere
      <4> QED BY <1>4, <2>1, <3>1, <4>1 DEF PathRight
    <3>2. CASE j # i
      <4>1. v[j].parent = t[j].parent /\ v[j].name = t[j].name
        BY <1>4, <3>2 DEF Rows
      <4>2. t[j].parent = Root \/ t[j].parent \in Rows(t)
        BY DEF Sound, Hanging
      <4>3. PathOf(v, t[j].parent) = PathOf(t, t[j].parent)
        BY <2>1, <2>2, <4>2 DEF PathOf, old
      <4> QED BY <2>1, <3>2, <4>1, <4>3 DEF Sound, Placing, PathRight
    <3> QED BY <3>1, <3>2
  <2>4. Placing(v)
    BY <1>6, <2>3 DEF Placing
  <2> QED BY <1>7, <1>8, <1>9, <2>4 DEF Sound, v
<1> QED BY <1>10, <1>11

-----------------------------------------------------------------------------
(* The operations *)

\* What an operation may make of the rows: they stay in order if it makes no slip.
Good(t, u, slip) == TreeShape(u) /\ Keeps(t, u) /\ (Sound(t) /\ slip = {} => Sound(u))
Right(t, r) == Good(t, r.tree, r.slip) /\ (r.ok => r.id \in Rows(r.tree))

LEMMA GoodItself ==
    ASSUME NEW t, TreeShape(t), NEW slip
    PROVE  Good(t, t, slip)
BY DEF Good, Keeps, TreeShape

LEMMA GoodThen ==
    ASSUME NEW t, TreeShape(t), NEW u, NEW v, NEW a, NEW b, Good(t, u, a), Good(u, v, b)
    PROVE  Good(t, v, a \cup b)
<1>1. /\ Len(t) \in Nat /\ Len(u) \in Nat /\ Len(v) \in Nat
      /\ DOMAIN t = 1..Len(t) /\ DOMAIN u = 1..Len(u)
  BY DEF Good, TreeShape
<1>2. Keeps(t, v)
  BY <1>1 DEF Good, Keeps
<1> QED BY <1>2 DEF Good

LEMMA WalkedGood ==
    ASSUME NEW t, TreeShape(t), NEW p, NEW w, Walked(t, p, w)
    PROVE  Good(t, w.tree, {})
BY DEF Walked, Good, Grown, Keeps

LEMMA SameRight ==
    ASSUME NEW t, NEW u, Good(t, u, {})
    PROVE  Right(t, Same(u))
BY DEF Right, Same

LEMMA DoneRight ==
    ASSUME NEW t, NEW u, NEW slip, Good(t, u, slip), NEW i \in Rows(u)
    PROVE  Right(t, Done(i, u, slip))
BY DEF Right, Done

LEMMA CreateRight ==
    ASSUME NEW t, TreeShape(t), NEW parent \in PathT, NEW n \in NameT
    PROVE  Right(t, CreateFolderIn(t, parent, n))
<1> DEFINE f == EnsureFolder(t, parent)
           u == f.tree
           p == PathOf(u, f.id)
           r == Row(f.id, n, Append(p, n), TRUE)
           v == Append(u, r)
<1>1. Walked(t, parent, f)
  BY EnsureFolderIs
<1>2. CreateFolderIn(t, parent, n) = IF ~f.ok \/ InFolder(u, f.id, n) # {} THEN Same(u)
                                     ELSE Done(Len(u) + 1, v, {})
  BY DEF CreateFolderIn
<1> HIDE DEF f
<1>3. Good(t, u, {}) /\ TreeShape(u)
  BY <1>1, WalkedGood DEF Walked
<1>4. CASE ~f.ok \/ InFolder(u, f.id, n) # {}
  <2>1. CreateFolderIn(t, parent, n) = Same(u)
    BY <1>2, <1>4
  <2> HIDE DEF u
  <2> QED BY <1>3, <2>1, SameRight
<1>5. CASE f.ok /\ InFolder(u, f.id, n) = {}
  <2>1. Place(u, f.id, parent) /\ p = parent /\ f.id \in 0..Len(u)
    BY <1>1, <1>3, <1>5, PlacePath DEF Walked
  <2>2. f.id \in Nat /\ Append(p, n) \in PathT
    BY <1>1, <2>1, PathAppend DEF Walked, Walk
  <2> HIDE DEF u
  <2>3. Sound(u) => Sound(v)
    BY <1>3, <1>5, <2>1, AddSound
  <2>4. r \in RowT /\ r.on /\ ~r.trashed /\ r.parent = f.id
    <3> HIDE DEF p
    <3> DEFINE q == Append(p, n)
    <3> HIDE DEF q
    <3> QED BY <2>2 DEF Row, RowT, q
  <2> HIDE DEF r
  <2>5. TreeShape(v) /\ Grown(u, v) /\ Len(v) = Len(u) + 1 /\ Rows(v) = Rows(u) \cup {Len(v)}
    BY <1>3, <2>1, <2>4, RowMore
  <2> HIDE DEF v
  <2>6. Good(u, v, {})
    BY <2>3, <2>5 DEF Good, Grown, Keeps
  <2>7. Good(t, v, {})
    <3>1. Good(t, v, {} \cup {})
      BY <1>3, <2>6, GoodThen
    <3> QED BY <3>1
  <2>8. CreateFolderIn(t, parent, n) = Done(Len(u) + 1, v, {})
    BY <1>2, <1>5
  <2> QED BY <2>5, <2>7, <2>8, DoneRight
<1> QED BY <1>4, <1>5

LEMMA UpperType ==
    ASSUME NEW p \in PathT
    PROVE  Upper(p) \in PathT
<1>1. Len(p) \in Nat /\ \A k \in 1..Len(p) - 1 : p[k] \in NameT
  BY DEF PathT
<1> QED BY <1>1, SubSeqProperties DEF Upper, PathT

\* A row with a new name and place.
Reseated(r, f, n) == [r EXCEPT !.parent = f, !.name = n]

LEMMA ReseatedIs ==
    ASSUME NEW r \in RowT, NEW f \in Nat, NEW n \in NameT
    PROVE  /\ Reseated(r, f, n) \in RowT /\ Reseated(r, f, n).parent = f /\ Reseated(r, f, n).name = n
           /\ Reseated(r, f, n).on = r.on /\ Reseated(r, f, n).folder = r.folder
           /\ Reseated(r, f, n).trashed = r.trashed /\ Reseated(r, f, n).path = r.path
BY DEF Reseated, RowT

\* repath() to another place or name.
LEMMA RepathGood ==
    ASSUME NEW t, TreeShape(t), NEW i \in Rows(t), NEW f \in 0..Len(t), NEW n \in NameT, NEW new \in PathT,
           NEW v, v = Repath(t, i, Reseated(t[i], f, n), new),
           Sound(t) => /\ new = Append(PathOf(t, f), n) /\ Elsewhere(t, i, f)
                       /\ i \in LiveRows(t) => f \in {Root} \cup LiveRows(t) /\ InFolder(t, f, n) \ {i} = {}
    PROVE  Good(t, v, Slip(t, i, new)) /\ i \in Rows(v)
<1> DEFINE row == Reseated(t[i], f, n)
<1>1. i \in DOMAIN t /\ t[i].on /\ t[i] \in RowT /\ f \in Nat /\ f <= Len(t)
  BY ShapeRow DEF Rows
<1>2. /\ row \in RowT /\ row.parent = f /\ row.name = n /\ row.on = t[i].on /\ row.folder = t[i].folder
      /\ row.trashed = t[i].trashed
  <2> DEFINE r == t[i]
  <2>1. r \in RowT /\ f \in Nat /\ n \in NameT
    BY <1>1
  <2> HIDE DEF r
  <2>2. /\ Reseated(r, f, n) \in RowT /\ Reseated(r, f, n).parent = f /\ Reseated(r, f, n).name = n
        /\ Reseated(r, f, n).on = r.on /\ Reseated(r, f, n).folder = r.folder
        /\ Reseated(r, f, n).trashed = r.trashed
    BY ONLY <2>1, ReseatedIs
  <2> QED BY ONLY <2>2 DEF r, row
<1> HIDE DEF row
<1>3. v = Repath(t, i, row, new)
  BY DEF row
<1>4. /\ TreeShape(v) /\ Len(v) = Len(t) /\ DOMAIN v = DOMAIN t
      /\ SameButPath(row, v[i]) /\ \A j \in DOMAIN t : j # i => SameButPath(t[j], v[j])
  BY <1>1, <1>2, <1>3, RepathRows
<1>5. i \in Rows(v)
  BY <1>1, <1>2, <1>4 DEF Rows, SameButPath
<1>6. Keeps(t, v)
  <2>1. \A j \in DOMAIN t : v[j].folder = t[j].folder
    BY <1>2, <1>4 DEF SameButPath
  <2>2. Len(t) <= Len(v)
    BY <1>4 DEF TreeShape
  <2> QED BY <2>1, <2>2 DEF Keeps
<1>7. ASSUME Sound(t), Slip(t, i, new) = {} PROVE Sound(v)
  <2>1. ~Strays(t, i, new)
    BY <1>7 DEF Slip
  <2>2. row.on
    BY <1>1, <1>2
  <2>3. ~row.trashed => i \in LiveRows(t)
    BY <1>2 DEF LiveRows
  <2>4. ~row.trashed => row.parent \in {Root} \cup LiveRows(t) /\ InFolder(t, row.parent, row.name) \ {i} = {}
    BY <1>2, <1>7, <2>3
  <2>5. Elsewhere(t, i, row.parent) /\ new = Append(PathOf(t, row.parent), row.name) /\ row.parent <= Len(t)
    BY <1>1, <1>2, <1>7
  <2>6. Sound(Repath(t, i, row, new))
    BY ONLY TreeShape(t), <1>7, i \in Rows(t), <1>2, <2>1, <2>2, <2>4, <2>5, RepathSound
  <2> QED BY <1>3, <2>6
<1> QED BY <1>4, <1>5, <1>6, <1>7 DEF Good

\* A row does not hang in itself, nor in what is below it.
LEMMA ParentElsewhere ==
    ASSUME NEW t, TreeShape(t), Sound(t), NEW i \in Rows(t)
    PROVE  Elsewhere(t, i, t[i].parent)
<1> DEFINE k == t[i].parent
<1>1. k = Root \/ (k \in Rows(t) /\ t[k].folder /\ k # Root)
  BY DEF Sound, Hanging
<1>2. CASE k \in Rows(t) /\ t[k].folder /\ k # Root
  <2>1. t[i].path = Append(t[k].path, t[i].name)
    BY <1>2 DEF Sound, Placing, PathRight, PathOf
  <2>2. t[k].path \in PathT /\ t[i].path \in PathT /\ t[i].name \in NameT
    BY <1>2, ShapeRow DEF Rows, RowT
  <2>3. Len(t[i].path) = Len(t[k].path) + 1 /\ Len(t[k].path) \in Nat
    BY <2>1, <2>2, PathAppend
  <2>4. k # i
    BY <2>3
  <2>5. k \notin Below(t, i)
    BY <2>3, BelowAhead DEF Sound
  <2> QED BY <1>2, <2>4, <2>5 DEF Elsewhere
<1> QED BY <1>1, <1>2 DEF Elsewhere

LEMMA RenameRight ==
    ASSUME NEW t, TreeShape(t), NEW i \in Rows(t), NEW n \in NameT
    PROVE  Right(t, RenameEntry(t, i, n))
<1> DEFINE f == t[i].parent
           new == Append(Upper(t[i].path), n)
           v == Repath(t, i, Reseated(t[i], f, n), new)
<1>1. i \in DOMAIN t /\ t[i] \in RowT /\ f \in 0..Len(t) /\ t[i].path \in PathT
  BY ShapeRow DEF Rows, RowT
<1>2. [t[i] EXCEPT !.name = n] = Reseated(t[i], f, n)
  BY <1>1 DEF Reseated, RowT
<1>3. RenameEntry(t, i, n) = IF t[i].name = n THEN Done(i, t, {})
                             ELSE IF InFolder(t, f, n) \ {i} # {} THEN Same(t)
                             ELSE Done(i, v, Slip(t, i, new))
  BY <1>2 DEF RenameEntry
<1>4. CASE t[i].name = n
  BY <1>3, <1>4, GoodItself, DoneRight
<1>5. CASE t[i].name # n /\ InFolder(t, f, n) \ {i} # {}
  BY <1>3, <1>5, GoodItself, SameRight
<1>6. CASE t[i].name # n /\ InFolder(t, f, n) \ {i} = {}
  <2>1. new \in PathT
    BY <1>1, UpperType, PathAppend
  <2>2. ASSUME Sound(t)
        PROVE  /\ new = Append(PathOf(t, f), n) /\ Elsewhere(t, i, f)
               /\ i \in LiveRows(t) => f \in {Root} \cup LiveRows(t) /\ InFolder(t, f, n) \ {i} = {}
    <3>1. t[i].path = Append(PathOf(t, f), t[i].name)
      BY <2>2 DEF Sound, Placing, PathRight
    <3>2. Upper(t[i].path) = PathOf(t, f)
      BY <1>1, <3>1, PathOfType, PathAppend DEF RowT
    <3>3. Elsewhere(t, i, f)
      BY <2>2, ParentElsewhere
    <3>4. i \in LiveRows(t) => f \in {Root} \cup LiveRows(t)
      BY <2>2 DEF Sound, LiveIn
    <3> QED BY <1>6, <3>2, <3>3, <3>4
  <2> HIDE DEF new, f
  <2>3. Good(t, v, Slip(t, i, new)) /\ i \in Rows(v)
    BY <1>1, <2>1, <2>2, RepathGood
  <2> HIDE DEF v
  <2> QED BY <1>3, <1>6, <2>3, DoneRight
<1> QED BY <1>4, <1>5, <1>6

LEMMA AheadBegins ==
    ASSUME NEW a \in PathT, NEW p \in PathT, Ahead(a, p)
    PROVE  Len(p) >= Len(a) /\ SubSeq(p, 1, Len(a)) = a
<1>1. Len(a) \in Nat /\ Len(p) \in Nat /\ p \in Seq(NameT) /\ a \in Seq(NameT) /\ Len(a) <= Len(p)
  BY DEF PathT, Ahead
<1>2. /\ SubSeq(p, 1, Len(a)) \in Seq(NameT) /\ Len(SubSeq(p, 1, Len(a))) = Len(a)
      /\ \A k \in 1..Len(a) : SubSeq(p, 1, Len(a))[k] = p[k]
  BY <1>1, PrefixIs
<1>3. \A k \in 1..Len(a) : SubSeq(p, 1, Len(a))[k] = a[k]
  BY <1>2 DEF Ahead
<1>4. SubSeq(p, 1, Len(a)) = a
  BY <1>1, <1>2, <1>3, SeqEqual
<1> QED BY <1>1, <1>4

\* A place whose path does not begin with that of a row is not below the row.
LEMMA OutsideElsewhere ==
    ASSUME NEW t, TreeShape(t), Sound(t), NEW i \in Rows(t), NEW f, NEW p, Place(t, f, p), ~InsideItself(t, i, p)
    PROVE  Elsewhere(t, i, f)
<1>1. CASE f = Root
  BY <1>1 DEF Elsewhere
<1>2. CASE f # Root
  <2>1. f \in Rows(t) /\ t[f].folder /\ t[f].path = p
    BY <1>2 DEF Place, LiveRows
  <2>2. t[i].path \in PathT /\ p \in PathT /\ Len(t[i].path) \in Nat
    BY <2>1, ShapeRow DEF Rows, RowT, PathT
  <2>3. CASE t[i].folder
    <3>1. ~Ahead(t[i].path, p)
      BY <2>2, <2>3, AheadBegins DEF InsideItself
    <3>2. f # i
      BY <2>1, <2>2, <3>1 DEF Ahead
    <3>3. f \notin Below(t, i)
      BY <2>1, <3>1, BelowAhead DEF Sound
    <3> QED BY <2>1, <3>2, <3>3 DEF Elsewhere
  <2>4. CASE ~t[i].folder
    <3>1. Below(t, i) = {}
      BY <2>4, NothingBelowFile DEF Sound
    <3> QED BY <2>1, <2>4, <3>1 DEF Elsewhere
  <2> QED BY <2>3, <2>4
<1> QED BY <1>1, <1>2

LEMMA MoveRight ==
    ASSUME NEW t, TreeShape(t), NEW i \in Rows(t), NEW target \in PathT
    PROVE  Right(t, MoveEntry(t, i, target))
<1> DEFINE f == EnsureFolder(t, target)
           u == f.tree
           n == UniqueNameIn(u, f.id, t[i].name)
           p == PathOf(u, f.id)
           new == Append(p, n)
           v == Repath(u, i, Reseated(t[i], f.id, n), new)
<1>1. Walked(t, target, f)
  BY EnsureFolderIs
<1>2. MoveEntry(t, i, target) = IF ~f.ok \/ (f.id # t[i].parent /\ InsideItself(t, i, p)) THEN Same(u)
                                ELSE IF f.id = t[i].parent THEN Done(i, u, {})
                                ELSE Done(i, v, Slip(u, i, new))
  BY DEF MoveEntry, Reseated
<1> HIDE DEF f
<1>3. Good(t, u, {}) /\ TreeShape(u) /\ Grown(t, u)
  BY <1>1, WalkedGood DEF Walked
<1>4. i \in DOMAIN t /\ t[i].on /\ t[i] \in RowT
  BY ShapeRow DEF Rows
<1>5. u[i] = t[i] /\ i \in Rows(u)
  <2>1. u[i] = t[i] /\ Len(t) <= Len(u) /\ Len(t) \in Nat /\ Len(u) \in Nat /\ DOMAIN t = 1..Len(t) /\ DOMAIN u = 1..Len(u)
    BY <1>3, <1>4 DEF Grown, TreeShape
  <2> QED BY <1>4, <2>1 DEF Rows
<1>6. CASE ~f.ok \/ (f.id # t[i].parent /\ InsideItself(t, i, p))
  <2>1. MoveEntry(t, i, target) = Same(u)
    BY <1>2, <1>6
  <2> HIDE DEF u
  <2> QED BY <1>3, <2>1, SameRight
<1>7. CASE f.ok /\ ~(f.id # t[i].parent /\ InsideItself(t, i, p)) /\ f.id = t[i].parent
  <2>1. MoveEntry(t, i, target) = Done(i, u, {})
    BY <1>2, <1>7
  <2> HIDE DEF u
  <2> QED BY <1>3, <1>5, <2>1, DoneRight
<1>8. CASE f.ok /\ ~InsideItself(t, i, p) /\ f.id # t[i].parent
  <2>1. Place(u, f.id, target) /\ p = target /\ f.id \in 0..Len(u)
    BY <1>1, <1>3, <1>8, PlacePath DEF Walked
  <2>2. n \in NameT /\ InFolder(u, f.id, n) = {}
    <3>1. t[i].name \in NameT
      BY <1>4 DEF RowT
    <3> HIDE DEF u
    <3> QED BY <1>3, <3>1, FreeName
  <2> HIDE DEF u, n
  <2>3. new \in PathT
    BY <2>1, <2>2, PathAppend
  <2>4. ASSUME Sound(u)
        PROVE  /\ new = Append(PathOf(u, f.id), n) /\ Elsewhere(u, i, f.id)
               /\ i \in LiveRows(u) => f.id \in {Root} \cup LiveRows(u) /\ InFolder(u, f.id, n) \ {i} = {}
    <3>1. ~InsideItself(u, i, target)
      BY <1>5, <1>8, <2>1 DEF InsideItself
    <3>2. Elsewhere(u, i, f.id)
      BY <1>3, <1>5, <2>1, <2>4, <3>1, OutsideElsewhere
    <3> QED BY <2>1, <2>2, <3>2 DEF Place
  <2>5. v = Repath(u, i, Reseated(u[i], f.id, n), new)
    BY <1>5
  <2> HIDE DEF new, v
  <2>6. Good(u, v, Slip(u, i, new)) /\ i \in Rows(v)
    BY <1>3, <1>5, <2>1, <2>2, <2>3, <2>4, <2>5, RepathGood
  <2>7. Good(t, v, Slip(u, i, new))
    <3>1. Good(t, v, {} \cup Slip(u, i, new))
      BY <1>3, <2>6, GoodThen
    <3> QED BY <3>1
  <2>8. MoveEntry(t, i, target) = Done(i, v, Slip(u, i, new))
    BY <1>2, <1>8
  <2> QED BY <2>6, <2>7, <2>8, DoneRight
<1> QED BY <1>6, <1>7, <1>8

Flagged(r, b) == [r EXCEPT !.trashed = b]
Gone(r)       == [r EXCEPT !.on = FALSE]
ToRoot(r, n)  == [r EXCEPT !.parent = Root, !.name = n, !.path = <<n>>]

SameSeat(r, s) == s.name = r.name /\ s.parent = r.parent /\ s.path = r.path /\ s.folder = r.folder

LEMMA FlaggedIs ==
    ASSUME NEW r \in RowT, NEW b \in BOOLEAN
    PROVE  Flagged(r, b) \in RowT /\ SameSeat(r, Flagged(r, b)) /\ Flagged(r, b).on = r.on
<1>1. Flagged(r, b) \in RowT
  BY DEF Flagged, RowT
<1>2. SameSeat(r, Flagged(r, b))
  BY DEF Flagged, RowT, SameSeat
<1>3. Flagged(r, b).on = r.on
  BY DEF Flagged, RowT
<1> QED BY <1>1, <1>2, <1>3

LEMMA FlagSet ==
    ASSUME NEW r \in RowT
    PROVE  Flagged(r, TRUE).trashed /\ ~Flagged(r, FALSE).trashed
BY DEF Flagged, RowT

LEMMA GoneIs ==
    ASSUME NEW r \in RowT
    PROVE  Gone(r) \in RowT /\ SameSeat(r, Gone(r)) /\ ~Gone(r).on
BY DEF Gone, RowT, SameSeat

LEMMA ToRootIs ==
    ASSUME NEW r \in RowT, NEW n \in NameT
    PROVE  /\ ToRoot(r, n) \in RowT /\ ToRoot(r, n).parent = Root /\ ToRoot(r, n).name = n
           /\ ToRoot(r, n).path = <<n>> /\ ToRoot(r, n).on = r.on /\ ToRoot(r, n).folder = r.folder
<1>1. <<n>> \in PathT
  BY DEF PathT
<1> QED BY <1>1 DEF ToRoot, RowT, Root

\* Rows that stay in their places are in order as long as their folders are there.
LEMMA SeatsKept ==
    ASSUME NEW t, TreeShape(t), Sound(t), NEW v, DOMAIN v = DOMAIN t, \A j \in DOMAIN t : SameSeat(t[j], v[j]),
           Rows(v) \subseteq Rows(t), \A j \in Rows(v) : t[j].parent \in {Root} \cup Rows(v)
    PROVE  Hanging(v) /\ Placing(v)
<1>1. \A j \in Rows(t) : j \in DOMAIN t
  BY DEF Rows
<1>2. \A k : k = Root \/ k \in Rows(v) => PathOf(v, k) = PathOf(t, k)
  BY <1>1 DEF PathOf, SameSeat
<1>3. Hanging(v)
  BY <1>1 DEF Sound, Hanging, SameSeat
<1>4. Placing(v)
  BY <1>1, <1>2 DEF Sound, Placing, PathRight, SameSeat
<1> QED BY <1>3, <1>4

LEMMA TrashRight ==
    ASSUME NEW t, TreeShape(t), NEW i \in Rows(t)
    PROVE  Right(t, TrashEntry(t, i))
<1> DEFINE n == Len(t)
           B == {j \in DOMAIN t : j = i \/ (t[i].folder /\ j \in Below(t, i))}
           v == [j \in DOMAIN t |-> IF j \in B THEN Flagged(t[j], TRUE) ELSE t[j]]
<1>1. n \in Nat /\ DOMAIN t = 1..n /\ t \in Seq(RowT) /\ \A j \in 1..n : t[j] \in RowT /\ t[j].parent <= n
  BY DEF TreeShape
<1>2. TrashEntry(t, i) = IF t[i].trashed THEN Done(i, t, {}) ELSE Done(i, v, {})
  BY DEF TrashEntry, Flagged
<1>3. CASE t[i].trashed
  BY <1>2, <1>3, GoodItself, DoneRight
<1>4. CASE ~t[i].trashed
  <2>1. v = [j \in 1..n |-> v[j]] /\ DOMAIN v = 1..n
    BY <1>1
  <2>2. \A j \in 1..n : v[j] = IF j \in B THEN Flagged(t[j], TRUE) ELSE t[j]
    BY <1>1
  <2>3. i \in B /\ i \in DOMAIN t
    BY DEF Rows
  <2>4. Sound(t) => B = Below(t, i) \cup {i}
    <3>1. Below(t, i) \subseteq DOMAIN t
      BY <1>1, BelowClosed DEF Rows
    <3>2. Sound(t) /\ ~t[i].folder => Below(t, i) = {}
      BY NothingBelowFile DEF Sound
    <3> QED BY <2>3, <3>1, <3>2
  <2> HIDE DEF v, B, n
  <2>5. ASSUME NEW j \in 1..n PROVE v[j] \in RowT /\ SameSeat(t[j], v[j]) /\ v[j].on = t[j].on
    <3>1. t[j] \in RowT
      BY <1>1
    <3>2. Flagged(t[j], TRUE) \in RowT /\ SameSeat(t[j], Flagged(t[j], TRUE)) /\ Flagged(t[j], TRUE).on = t[j].on
      BY <3>1, FlaggedIs
    <3>3. SameSeat(t[j], t[j])
      BY DEF SameSeat
    <3> QED BY <2>2, <3>1, <3>2, <3>3
  <2>6. TreeShape(v) /\ Len(v) = n
    <3>1. \A j \in 1..n : v[j].parent <= n
      BY <1>1, <2>5 DEF SameSeat
    <3> QED BY <1>1, <2>1, <2>5, <3>1, ShapeBuilt
  <2>7. Rows(v) = Rows(t)
    BY <1>1, <2>1, <2>5 DEF Rows
  <2>8. LiveRows(v) = LiveRows(t) \ B
    <3>1. \A j \in 1..n : j \in B => v[j].trashed
      BY <1>1, <2>2, FlagSet
    <3>2. \A j \in 1..n : j \notin B => v[j] = t[j]
      BY <2>2
    <3> QED BY <1>1, <2>7, <3>1, <3>2 DEF LiveRows, Rows
  <2>9. ASSUME Sound(t) PROVE Sound(v)
    <3>1. B = Below(t, i) \cup {i}
      BY <2>4, <2>9
    <3>2. Hanging(v) /\ Placing(v)
      <4>1. \A j \in Rows(v) : t[j].parent \in {Root} \cup Rows(v)
        BY <2>7, <2>9 DEF Sound, Hanging
      <4>2. \A j \in DOMAIN t : SameSeat(t[j], v[j])
        BY <1>1, <2>5
      <4> QED BY <1>1, <2>1, <2>7, <2>9, <4>1, <4>2, SeatsKept
    <3>3. \A j \in LiveRows(v) : j \in LiveRows(t) /\ j \in Rows(t) /\ SameSeat(t[j], v[j])
      BY <1>1, <2>5, <2>8 DEF LiveRows, Rows
    <3>4. LiveIn(v)
      <4> SUFFICES ASSUME NEW j \in LiveRows(v) PROVE v[j].parent \in {Root} \cup LiveRows(v)
        BY DEF LiveIn
      <4>1. v[j].parent = t[j].parent /\ t[j].parent \in {Root} \cup LiveRows(t)
        BY <2>9, <3>3 DEF Sound, LiveIn, SameSeat
      <4>2. t[j].parent \notin B
        BY <1>1, <2>8, <3>1, <3>3, BelowClosed
      <4> QED BY <2>8, <4>1, <4>2
    <3>5. OwnNames(v)
      BY <2>9, <3>3 DEF Sound, OwnNames, SameSeat
    <3> QED BY <3>2, <3>4, <3>5 DEF Sound
  <2>10. Good(t, v, {})
    BY <1>1, <2>5, <2>6, <2>9 DEF Good, Keeps, SameSeat, n
  <2>11. TrashEntry(t, i) = Done(i, v, {})
    BY <1>2, <1>4
  <2> QED BY <2>7, <2>10, <2>11, DoneRight
<1> QED BY <1>3, <1>4

LEMMA PurgeGood ==
    ASSUME NEW t, TreeShape(t), NEW S \in SUBSET Rows(t)
    PROVE  Good(t, PurgeEntries(t, S).tree, PurgeEntries(t, S).slip)
<1> DEFINE n == Len(t)
           dead == S \cup UNION {Below(t, i) : i \in {j \in S : t[j].folder}}
           v == [j \in DOMAIN t |-> IF j \in dead THEN Gone(t[j]) ELSE t[j]]
<1>1. n \in Nat /\ DOMAIN t = 1..n /\ t \in Seq(RowT) /\ \A j \in 1..n : t[j] \in RowT /\ t[j].parent <= n
  BY DEF TreeShape
<1>2. PurgeEntries(t, S).tree = v /\ PurgeEntries(t, S).slip = {}
  BY DEF PurgeEntries, Done, Gone
<1>3. v = [j \in 1..n |-> v[j]] /\ DOMAIN v = 1..n /\ \A j \in 1..n : v[j] = IF j \in dead THEN Gone(t[j]) ELSE t[j]
  BY <1>1
<1>4. Sound(t) => \A j \in Rows(t) : t[j].parent \in dead => j \in dead
  <2> SUFFICES ASSUME Sound(t), NEW j \in Rows(t), t[j].parent \in dead PROVE j \in dead
    OBVIOUS
  <2>1. Root \notin Rows(t)
    BY ShapeRow DEF Rows
  <2>2. \A i : Below(t, i) \subseteq Rows(t)
    BY <1>1, BelowClosed
  <2>3. t[j].parent # Root
    BY <2>1, <2>2
  <2>4. t[t[j].parent].folder
    BY <2>3 DEF Sound, Hanging
  <2>5. \A i : t[j].parent = i \/ t[j].parent \in Below(t, i) => j \in Below(t, i)
    BY <1>1, BelowClosed
  <2> QED BY <2>4, <2>5
<1> HIDE DEF v, dead, n
<1>5. ASSUME NEW j \in 1..n PROVE v[j] \in RowT /\ SameSeat(t[j], v[j])
  <2>1. t[j] \in RowT /\ SameSeat(t[j], t[j])
    BY <1>1 DEF SameSeat
  <2>2. Gone(t[j]) \in RowT /\ SameSeat(t[j], Gone(t[j]))
    BY <2>1, GoneIs
  <2> QED BY <1>3, <2>1, <2>2
<1>6. TreeShape(v) /\ Len(v) = n
  <2>1. \A j \in 1..n : v[j].parent <= n
    BY <1>1, <1>5 DEF SameSeat
  <2> QED BY <1>1, <1>3, <1>5, <2>1, ShapeBuilt
<1>7. Rows(v) = Rows(t) \ dead /\ LiveRows(v) = LiveRows(t) \ dead
  <2>1. \A j \in 1..n : j \in dead => ~v[j].on
    BY <1>1, <1>3, GoneIs
  <2>2. \A j \in 1..n : j \notin dead => v[j] = t[j]
    BY <1>3
  <2>3. Rows(v) = Rows(t) \ dead
    BY <1>1, <1>3, <2>1, <2>2 DEF Rows
  <2> QED BY <1>1, <2>2, <2>3 DEF LiveRows, Rows
<1>8. ASSUME Sound(t) PROVE Sound(v)
  <2>1. \A j \in Rows(v) : t[j].parent \in {Root} \cup Rows(v)
    BY <1>4, <1>7, <1>8 DEF Sound, Hanging
  <2>2. Hanging(v) /\ Placing(v)
    BY <1>1, <1>3, <1>5, <1>7, <1>8, <2>1, SeatsKept
  <2>3. \A j \in LiveRows(v) : j \in LiveRows(t) /\ j \in Rows(t) /\ j \notin dead /\ SameSeat(t[j], v[j])
    BY <1>1, <1>5, <1>7 DEF LiveRows, Rows
  <2>4. LiveIn(v)
    BY <1>4, <1>7, <1>8, <2>3 DEF Sound, LiveIn, SameSeat
  <2>5. OwnNames(v)
    BY <1>8, <2>3 DEF Sound, OwnNames, SameSeat
  <2> QED BY <2>2, <2>4, <2>5 DEF Sound
<1> QED BY <1>1, <1>2, <1>5, <1>6, <1>8 DEF Good, Keeps, SameSeat, n

LEMMA RestoreRight ==
    ASSUME NEW t, TreeShape(t), NEW i \in Rows(t)
    PROVE  Right(t, RestoreEntry(t, i))
<1> DEFINE N     == Len(t)
           p     == t[i].parent
           away  == p # Root /\ (p \notin Rows(t) \/ t[p].trashed)
           n     == UniqueNameIn(t, Root, t[i].name)
           below == IF t[i].folder THEN Below(t, i) ELSE {}
           row   == IF away THEN ToRoot(t[i], n) ELSE t[i]
           clash == \/ ~away /\ InFolder(t, p, t[i].name) # {}
                    \/ \E j, k \in below : j # k /\ t[j].parent = t[k].parent /\ t[j].name = t[k].name
           slip  == (IF away /\ below # {} THEN {"paths below"} ELSE {})
                    \cup (IF clash THEN {"name taken"} ELSE {})
           v     == [j \in DOMAIN t |-> IF j = i THEN Flagged(row, FALSE)
                                        ELSE IF j \in below THEN Flagged(t[j], FALSE) ELSE t[j]]
<1>1. N \in Nat /\ DOMAIN t = 1..N /\ t \in Seq(RowT) /\ \A j \in 1..N : t[j] \in RowT /\ t[j].parent <= N
  BY DEF TreeShape
<1>2. RestoreEntry(t, i) = IF ~t[i].trashed THEN Done(i, t, {}) ELSE Done(i, v, slip)
  BY DEF RestoreEntry, Flagged, ToRoot
<1>3. CASE ~t[i].trashed
  BY <1>2, <1>3, GoodItself, DoneRight
<1>4. CASE t[i].trashed
  <2>1. v = [j \in 1..N |-> v[j]] /\ DOMAIN v = 1..N
    BY <1>1
  <2>2. \A j \in 1..N : v[j] = IF j = i THEN Flagged(row, FALSE)
                               ELSE IF j \in below THEN Flagged(t[j], FALSE) ELSE t[j]
    BY <1>1
  <2>3. i \in 1..N /\ t[i].on /\ t[i] \in RowT /\ i \notin LiveRows(t)
    BY <1>1, <1>4 DEF Rows, LiveRows
  <2>4. n \in NameT /\ InFolder(t, Root, n) = {}
    <3>1. t[i].name \in NameT
      BY <2>3 DEF RowT
    <3> QED BY <3>1, FreeName
  <2>5. below \subseteq Rows(t) /\ (Sound(t) => below = Below(t, i))
    BY <1>1, BelowClosed, NothingBelowFile DEF Sound
  <2>6. Sound(t) => i \notin below
    BY <2>5, BelowAhead DEF Sound
  <2> HIDE DEF n
  <2>7. /\ ToRoot(t[i], n) \in RowT /\ ToRoot(t[i], n).parent = Root /\ ToRoot(t[i], n).name = n
        /\ ToRoot(t[i], n).path = <<n>> /\ ToRoot(t[i], n).on = t[i].on /\ ToRoot(t[i], n).folder = t[i].folder
    BY <2>3, <2>4, ToRootIs
  <2>8. row \in RowT /\ row.on = t[i].on /\ row.folder = t[i].folder /\ row.parent <= N
    <3>1. CASE away
      <4>1. row = ToRoot(t[i], n)
        BY <3>1
      <4> HIDE DEF row, away
      <4> QED BY <1>1, <2>7, <4>1 DEF Root
    <3>2. CASE ~away
      <4>1. row = t[i]
        BY <3>2
      <4> HIDE DEF row, away
      <4> QED BY <1>1, <2>3, <4>1
    <3> QED BY <3>1, <3>2
  <2>9. (slip = {}) <=> ~clash /\ (away => below = {})
    <3> HIDE DEF clash, away, below
    <3> QED OBVIOUS
  <2>10. ~clash <=> /\ away \/ InFolder(t, p, t[i].name) = {}
                    /\ ~\E j, k \in below : j # k /\ t[j].parent = t[k].parent /\ t[j].name = t[k].name
    OBVIOUS
  <2> DEFINE r == Flagged(row, FALSE)
  <2>11. r \in RowT /\ SameSeat(row, r) /\ r.on = t[i].on /\ ~r.trashed
    <3> HIDE DEF row
    <3>1. r \in RowT /\ SameSeat(row, r) /\ r.on = row.on
      BY <2>8, FlaggedIs
    <3>2. ~r.trashed
      BY <2>8, FlagSet
    <3> QED BY <2>8, <3>1, <3>2
  <2>12. \A j \in 1..N : v[j] = IF j = i THEN r ELSE IF j \in below THEN Flagged(t[j], FALSE) ELSE t[j]
    BY <2>2
  <2> HIDE DEF v, below, r, N
  <2>13. ASSUME NEW j \in 1..N, j # i
        PROVE  v[j] \in RowT /\ SameSeat(t[j], v[j]) /\ v[j].on = t[j].on
    <3>1. t[j] \in RowT /\ SameSeat(t[j], t[j])
      BY <1>1 DEF SameSeat
    <3>2. Flagged(t[j], FALSE) \in RowT /\ SameSeat(t[j], Flagged(t[j], FALSE)) /\ Flagged(t[j], FALSE).on = t[j].on
      BY <3>1, FlaggedIs
    <3> QED BY <2>12, <2>13, <3>1, <3>2
  <2>14. v[i] = r
    BY <2>3, <2>12
  <2>15. TreeShape(v) /\ Len(v) = N
    <3>1. \A j \in 1..N : v[j] \in RowT /\ v[j].parent <= N
      <4>1. r.parent <= N
        BY <2>8, <2>11 DEF SameSeat
      <4> QED BY <1>1, <2>11, <2>13, <2>14, <4>1 DEF SameSeat
    <3> QED BY <1>1, <2>1, <3>1, ShapeBuilt
  <2>16. Rows(v) = Rows(t) /\ i \in Rows(v)
    BY <1>1, <2>1, <2>3, <2>11, <2>13, <2>14 DEF Rows
  <2>17. LiveRows(v) = LiveRows(t) \cup below \cup {i}
    <3>1. \A j \in 1..N : j \in below => ~v[j].trashed
      BY <1>1, <2>11, <2>12, FlagSet
    <3>2. \A j \in 1..N : j # i /\ j \notin below => v[j] = t[j]
      BY <2>12
    <3> QED BY <1>1, <2>3, <2>5, <2>11, <2>14, <2>16, <3>1, <3>2 DEF LiveRows, Rows
  <2>18. Keeps(t, v)
    <3>1. r.folder = t[i].folder
      BY <2>8, <2>11 DEF SameSeat
    <3>2. \A j \in DOMAIN t : v[j].folder = t[j].folder
      BY <1>1, <2>13, <2>14, <3>1 DEF SameSeat
    <3> QED BY <1>1, <2>15, <3>2 DEF Keeps, N
  <2>19. ASSUME Sound(t), slip = {}, away PROVE Sound(v)
    <3>1. below = {} /\ \A j \in Rows(t) : t[j].parent # i
      BY <1>1, <2>5, <2>9, <2>19, BelowClosed
    <3>2. r.parent = Root /\ r.name = n /\ r.path = <<n>>
      BY <2>7, <2>11, <2>19 DEF SameSeat
    <3>3. \A j \in Rows(t) : j # i => SameSeat(t[j], v[j])
      BY <1>1, <2>13 DEF Rows
    <3>4. \A j \in Rows(t) : t[j].parent = Root \/ (t[j].parent \in Rows(t) /\ t[j].parent # i)
      BY <2>19, <3>1 DEF Sound, Hanging
    <3>5. Hanging(v)
      BY <2>14, <2>16, <2>19, <3>2, <3>3, <3>4 DEF Sound, Hanging, SameSeat
    <3>6. Placing(v)
      <4>1. PathRight(v, i)
        BY <2>14, <3>2 DEF PathRight, PathOf
      <4>2. ASSUME NEW j \in Rows(t), j # i PROVE PathRight(v, j)
        <5>1. PathOf(v, t[j].parent) = PathOf(t, t[j].parent)
          BY <3>3, <3>4 DEF PathOf, SameSeat
        <5>2. t[j].path = Append(PathOf(t, t[j].parent), t[j].name)
          BY <2>19 DEF Sound, Placing, PathRight
        <5>3. v[j].path = t[j].path /\ v[j].parent = t[j].parent /\ v[j].name = t[j].name
          BY <3>3, <4>2 DEF SameSeat
        <5> QED BY <5>1, <5>2, <5>3 DEF PathRight
      <4> QED BY <2>16, <4>1, <4>2 DEF Placing
    <3>7. \A j \in LiveRows(v) : j = i \/ (j \in LiveRows(t) /\ j # i /\ SameSeat(t[j], v[j]))
      BY <2>3, <2>17, <3>1, <3>3 DEF LiveRows
    <3>8. LiveIn(v)
      BY <2>14, <2>17, <2>19, <3>2, <3>7 DEF Sound, LiveIn, SameSeat
    <3>9. OwnNames(v)
      <4>1. \A j \in LiveRows(t) : ~(t[j].parent = Root /\ t[j].name = n)
        BY <2>4 DEF InFolder
      <4> SUFFICES ASSUME NEW a \in LiveRows(v), NEW b \in LiveRows(v), a # b,
                          v[a].parent = v[b].parent, v[a].name = v[b].name
                   PROVE  FALSE
        BY DEF OwnNames
      <4>2. v[i].parent = Root /\ v[i].name = n
        BY <2>14, <3>2
      <4>3. \A j \in LiveRows(v) : j # i => j \in LiveRows(t) /\ v[j].parent = t[j].parent /\ v[j].name = t[j].name
        BY <3>7 DEF SameSeat
      <4>4. a # i /\ b # i
        BY <4>1, <4>2, <4>3
      <4> QED BY <2>19, <4>3, <4>4 DEF Sound, OwnNames
    <3> QED BY <3>5, <3>6, <3>8, <3>9 DEF Sound
  <2>20. ASSUME Sound(t), slip = {}, ~away PROVE Sound(v)
    <3>1. p \in {Root} \cup LiveRows(t)
      BY <2>20 DEF LiveRows
    <3>2. below = Below(t, i) /\ i \notin below
      BY <2>5, <2>6, <2>20
    <3>3. \A j \in DOMAIN t : SameSeat(t[j], v[j])
      <4>1. SameSeat(t[i], r)
        BY <2>11, <2>20
      <4> QED BY <1>1, <2>13, <2>14, <4>1
    <3>4. Hanging(v) /\ Placing(v)
      <4>1. \A j \in Rows(v) : t[j].parent \in {Root} \cup Rows(v)
        BY <2>16, <2>20 DEF Sound, Hanging
      <4> QED BY <1>1, <2>1, <2>16, <2>20, <3>3, <4>1, SeatsKept
    <3>5. \A j \in LiveRows(v) : j \in Rows(t) /\ v[j].parent = t[j].parent /\ v[j].name = t[j].name
      BY <2>5, <2>16, <2>17, <3>3 DEF LiveRows, Rows, SameSeat
    <3>6. \A j \in below : t[j].parent = i \/ t[j].parent \in below
      BY <1>1, <3>2, BelowHangs
    <3>7. LiveIn(v)
      BY <2>17, <2>20, <3>1, <3>5, <3>6 DEF Sound, LiveIn
    <3>8. OwnNames(v)
      <4> SUFFICES ASSUME NEW a \in LiveRows(v), NEW b \in LiveRows(v), a # b,
                          t[a].parent = t[b].parent, t[a].name = t[b].name
                   PROVE  FALSE
        BY <3>5 DEF OwnNames
      <4>1. InFolder(t, p, t[i].name) = {}
        BY <2>9, <2>10, <2>20
      <4>2. p \notin below /\ p # i
        <5>1. Root \notin Rows(t) /\ i # Root
          BY ShapeRow DEF Rows
        <5>2. Elsewhere(t, i, p)
          BY <2>20, ParentElsewhere
        <5> QED BY <2>5, <3>2, <5>1, <5>2 DEF Elsewhere
      <4>3. ~(a = i /\ b \in LiveRows(t)) /\ ~(b = i /\ a \in LiveRows(t))
        BY <4>1 DEF InFolder
      <4>4. ~(a = i /\ b \in below) /\ ~(b = i /\ a \in below)
        BY <3>6, <4>2
      <4>5. ~(a \in below /\ b \in below)
        BY <2>9, <2>10, <2>20
      <4>6. ~(a \in LiveRows(t) /\ b \in LiveRows(t))
        BY <2>20 DEF Sound, OwnNames
      <4>7. \A j \in Rows(t) : t[j].parent = i \/ t[j].parent \in below => j \in below
        BY <1>1, <3>2, BelowClosed
      <4>8. a \in below /\ b \in LiveRows(t) => b \in below
        BY <3>5, <3>6, <4>7
      <4>9. b \in below /\ a \in LiveRows(t) => a \in below
        BY <3>5, <3>6, <4>7
      <4> QED BY <2>17, <4>3, <4>4, <4>5, <4>6, <4>8, <4>9
    <3> QED BY <3>4, <3>7, <3>8 DEF Sound
  <2>21. Good(t, v, slip)
    BY <2>15, <2>18, <2>19, <2>20 DEF Good
  <2>22. RestoreEntry(t, i) = Done(i, v, slip)
    BY <1>2, <1>4
  <2> HIDE DEF slip
  <2> QED BY <2>16, <2>21, <2>22, DoneRight
<1> QED BY <1>3, <1>4

-----------------------------------------------------------------------------
(* Copies *)

\* Sorted by weight, then by number.
Precedes(w, x, y) == w[x] < w[y] \/ (w[x] = w[y] /\ x < y)
Sorted(s, n, w)  == \A j, k \in 1..n : j < k => Precedes(w, s[j], s[k])

LEMMA FirstOf ==
    ASSUME NEW T \in SUBSET Nat, T # {}, NEW w, \A x \in T : w[x] \in Nat
    PROVE  \E m \in T : \A x \in T : x # m => Precedes(w, m, x)
<1> DEFINE W == {w[x] : x \in T}
<1>1. PICK l \in W : \A m \in W : l <= m
  <2>1. W \in SUBSET Nat /\ W # {}
    OBVIOUS
  <2> HIDE DEF W
  <2> QED BY <2>1, LeastNat
<1> DEFINE L == {x \in T : w[x] = l}
<1>2. PICK m \in L : \A x \in L : m <= x
  <2>1. L \in SUBSET Nat /\ L # {}
    BY <1>1
  <2> HIDE DEF L, W
  <2> QED BY <2>1, LeastNat
<1>3. m \in T /\ w[m] = l
  BY <1>2
<1>4. ASSUME NEW x \in T, x # m PROVE Precedes(w, m, x)
  <2>1. l <= w[x] /\ l \in Nat /\ w[x] \in Nat /\ x \in Nat /\ m \in Nat
    BY <1>1, <1>3
  <2>2. w[x] = l => m <= x
    BY <1>2
  <2> QED BY <1>3, <1>4, <2>1, <2>2 DEF Precedes
<1> QED BY <1>3, <1>4

LEMMA SortedExists ==
    ASSUME NEW S \in SUBSET Nat, IsFiniteSet(S), NEW w, \A x \in S : w[x] \in Nat
    PROVE  \E s \in [1..Cardinality(S) -> S] : Sorted(s, Cardinality(S), w)
<1> DEFINE N == Cardinality(S)
           Can(T, n) == \E s \in [1..n -> T] : Sorted(s, n, w)
           G == {n \in 0..N : \A T \in SUBSET S : Cardinality(T) = n => Can(T, n)}
<1>1. N \in Nat
  BY FS_CardinalityType
<1>2. \A T \in SUBSET S : IsFiniteSet(T) /\ Cardinality(T) \in Nat
  BY FS_Subset, FS_CardinalityType
<1> HIDE DEF N
<1>3. 0 \in G
  <2>1. ASSUME NEW T \in SUBSET S PROVE Can(T, 0)
    <3>1. [k \in 1..0 |-> 0] \in [1..0 -> T]
      OBVIOUS
    <3>2. Sorted([k \in 1..0 |-> 0], 0, w)
      BY DEF Sorted
    <3> QED BY <3>1, <3>2
  <2> HIDE DEF Can
  <2> QED BY <1>1, <2>1
<1>4. ASSUME NEW n \in 0..N - 1, n \in G PROVE n + 1 \in G
  <2>1. n \in Nat /\ n + 1 \in 0..N
    BY <1>1
  <2>2. ASSUME NEW T \in SUBSET S, Cardinality(T) = n + 1 PROVE Can(T, n + 1)
    <3>1. T # {}
      BY <2>1, <2>2, FS_EmptySet
    <3>2. PICK m \in T : \A x \in T : x # m => Precedes(w, m, x)
      BY <3>1, FirstOf
    <3> DEFINE R == T \ {m}
    <3>3. R \in SUBSET S /\ Cardinality(R) = n
      BY <1>2, <2>1, <2>2, FS_RemoveElement
    <3>4. Can(R, n)
      <4> HIDE DEF R, Can
      <4> QED BY <1>4, <3>3
    <3>5. PICK s \in [1..n -> R] : Sorted(s, n, w)
      BY <3>4
    <3> DEFINE q == [k \in 1..n + 1 |-> IF k = 1 THEN m ELSE s[k - 1]]
    <3>6. \A k \in 1..n + 1 : k # 1 => k - 1 \in 1..n
      BY <2>1
    <3>7. q \in [1..n + 1 -> T]
      BY <3>6
    <3>8. q[1] = m /\ \A k \in 1..n + 1 : k # 1 => q[k] = s[k - 1]
      BY <2>1
    <3> HIDE DEF q
    <3>9. Sorted(q, n + 1, w)
      <4> SUFFICES ASSUME NEW j \in 1..n + 1, NEW k \in 1..n + 1, j < k PROVE Precedes(w, q[j], q[k])
        BY DEF Sorted
      <4>1. k # 1 /\ k - 1 \in 1..n /\ q[k] = s[k - 1]
        BY <2>1, <3>6, <3>8
      <4>2. CASE j = 1
        <5>1. s[k - 1] \in T /\ s[k - 1] # m
          BY <3>5, <4>1
        <5> QED BY <3>2, <3>8, <4>1, <4>2, <5>1
      <4>3. CASE j # 1
        <5>1. j - 1 \in 1..n /\ q[j] = s[j - 1] /\ j - 1 < k - 1
          BY <2>1, <3>6, <3>8, <4>3
        <5> QED BY <3>5, <4>1, <5>1 DEF Sorted
      <4> QED BY <4>2, <4>3
    <3> QED BY <3>7, <3>9
  <2> HIDE DEF Can
  <2> QED BY <2>1, <2>2
<1>5. N \in G
  <2> HIDE DEF G
  <2>1. N \in 0..N
    BY <1>1
  <2> QED BY <1>1, <1>3, <1>4, <2>1, UpTo
<1>6. Can(S, N)
  <2> HIDE DEF Can
  <2> QED BY <1>5 DEF N
<1> QED BY <1>6 DEF N

LEMMA SortedDistinct ==
    ASSUME NEW n \in Nat, NEW s, NEW w, Sorted(s, n, w), \A k \in 1..n : s[k] \in Nat /\ w[s[k]] \in Nat
    PROVE  \A j, k \in 1..n : s[j] = s[k] => j = k
<1> SUFFICES ASSUME NEW j \in 1..n, NEW k \in 1..n, s[j] = s[k], j # k PROVE FALSE
  OBVIOUS
<1>1. j < k \/ k < j
  OBVIOUS
<1>2. Precedes(w, s[j], s[k]) \/ Precedes(w, s[k], s[j])
  BY <1>1 DEF Sorted
<1>3. s[j] \in Nat /\ w[s[j]] \in Nat
  OBVIOUS
<1> QED BY <1>2, <1>3 DEF Precedes

\* The rows below one as copy() takes them: all of them, none twice.
CopyOrder(u, below) ==
    CHOOSE s \in [1..Cardinality(below) -> below] :
        \A j, k \in DOMAIN s : j < k =>
            \/ Len(u[s[j]].path) < Len(u[s[k]].path)
            \/ Len(u[s[j]].path) = Len(u[s[k]].path) /\ s[j] < s[k]

LEMMA CopyOrderIs ==
    ASSUME NEW u, TreeShape(u), NEW below \in SUBSET DOMAIN u, NEW s, s = CopyOrder(u, below)
    PROVE  /\ s \in Seq(below) /\ Len(s) \in Nat /\ \A k \in 1..Len(s) : s[k] \in below
           /\ \A j, k \in 1..Len(s) : s[j] = s[k] => j = k
<1> DEFINE N == Cardinality(below)
           w == [x \in below |-> Len(u[x].path)]
           Is(q) == \A j, k \in DOMAIN q : j < k =>
                        \/ Len(u[q[j]].path) < Len(u[q[k]].path)
                        \/ Len(u[q[j]].path) = Len(u[q[k]].path) /\ q[j] < q[k]
<1>1. DOMAIN u = 1..Len(u) /\ Len(u) \in Nat
  BY DEF TreeShape
<1>2. below \in SUBSET Nat /\ IsFiniteSet(below)
  <2>1. IsFiniteSet(1..Len(u))
    BY <1>1, FS_Interval
  <2> QED BY <1>1, <2>1, FS_Subset
<1>3. N \in Nat
  BY <1>2, FS_CardinalityType
<1>4. \A x \in below : w[x] = Len(u[x].path) /\ w[x] \in Nat
  <2>1. \A x \in below : u[x].path \in PathT
    BY ShapeRow DEF RowT
  <2> QED BY <2>1 DEF PathT
<1> HIDE DEF w
<1>5. PICK q \in [1..N -> below] : Sorted(q, N, w)
  BY <1>2, <1>4, SortedExists
<1> HIDE DEF N
<1>6. Is(q)
  <2> SUFFICES ASSUME NEW j \in 1..N, NEW k \in 1..N, j < k
               PROVE  \/ Len(u[q[j]].path) < Len(u[q[k]].path)
                      \/ Len(u[q[j]].path) = Len(u[q[k]].path) /\ q[j] < q[k]
    BY <1>5
  <2>1. Precedes(w, q[j], q[k]) /\ q[j] \in below /\ q[k] \in below
    BY <1>5 DEF Sorted
  <2> QED BY <1>4, <2>1 DEF Precedes
<1>7. s = CHOOSE x \in [1..N -> below] : Is(x)
  BY DEF CopyOrder, N
<1> HIDE DEF Is
<1>8. s \in [1..N -> below] /\ Is(s)
  BY <1>5, <1>6, <1>7
<1>9. s \in Seq(below) /\ Len(s) = N
  <2>1. s \in Seq(below)
    BY <1>3, <1>8, SeqDef
  <2> QED BY <1>3, <1>8, <2>1, LenProperties
<1>10. Sorted(s, N, w)
  <2> SUFFICES ASSUME NEW j \in 1..N, NEW k \in 1..N, j < k PROVE Precedes(w, s[j], s[k])
    BY DEF Sorted
  <2>1. s[j] \in below /\ s[k] \in below /\ j \in DOMAIN s /\ k \in DOMAIN s
    BY <1>8
  <2>2. \/ Len(u[s[j]].path) < Len(u[s[k]].path)
        \/ Len(u[s[j]].path) = Len(u[s[k]].path) /\ s[j] < s[k]
    BY <1>8, <2>1 DEF Is
  <2> QED BY <1>4, <2>1, <2>2 DEF Precedes
<1>11. \A j, k \in 1..N : s[j] = s[k] => j = k
  BY <1>2, <1>3, <1>4, <1>8, <1>10, SortedDistinct
<1> QED BY <1>3, <1>8, <1>9, <1>11

CopyOf(c, p, path) == [c EXCEPT !.parent = p, !.path = path]
OfMore(of, j, k) == [x \in DOMAIN of \cup {j} |-> IF x = j THEN k ELSE of[x]]
Copied(s, u, j) ==
    IF u[j].parent \notin DOMAIN s.of THEN s
    ELSE [tree |-> Append(s.tree, CopyOf(u[j], s.of[u[j].parent],
                                         Append(s.tree[s.of[u[j].parent]].path, u[j].name))),
          of   |-> OfMore(s.of, j, Len(s.tree) + 1)]

CopyStates(u) ==
    {s \in [tree : Seq(RowT), of : UNION {[D -> Nat] : D \in SUBSET Nat}] :
        TreeShape(s.tree) /\ Grown(u, s.tree) /\ \A x \in DOMAIN s.of : s.of[x] \in DOMAIN s.tree}

LEMMA CopyOfIs ==
    ASSUME NEW c \in RowT, NEW p \in Nat, NEW path \in PathT
    PROVE  /\ CopyOf(c, p, path) \in RowT /\ CopyOf(c, p, path).parent = p /\ CopyOf(c, p, path).path = path
           /\ CopyOf(c, p, path).on = c.on /\ CopyOf(c, p, path).name = c.name
           /\ CopyOf(c, p, path).folder = c.folder /\ CopyOf(c, p, path).trashed = c.trashed
BY DEF CopyOf, RowT

LEMMA OfMoreIs ==
    ASSUME NEW of \in UNION {[D -> Nat] : D \in SUBSET Nat}, NEW j \in Nat, NEW k \in Nat
    PROVE  /\ OfMore(of, j, k) \in UNION {[D -> Nat] : D \in SUBSET Nat}
           /\ DOMAIN OfMore(of, j, k) = DOMAIN of \cup {j} /\ OfMore(of, j, k)[j] = k
           /\ \A x \in DOMAIN of : x # j => OfMore(of, j, k)[x] = of[x]
<1>1. PICK D \in SUBSET Nat : of \in [D -> Nat]
  OBVIOUS
<1>2. OfMore(of, j, k) \in [D \cup {j} -> Nat] /\ D \cup {j} \in SUBSET Nat
  BY <1>1 DEF OfMore
<1> QED BY <1>1, <1>2 DEF OfMore

\* What one more row makes of the copies.
OneMore(u, s, j, v) ==
    LET r == v.tree[Len(v.tree)]
        p == s.of[u[j].parent]
    IN  /\ v \in CopyStates(u) /\ Len(v.tree) = Len(s.tree) + 1 /\ v.tree = Append(s.tree, r)
        /\ r \in RowT /\ r.parent = p /\ r.path = Append(s.tree[p].path, u[j].name)
        /\ r.on /\ r.name = u[j].name /\ r.folder = u[j].folder /\ r.trashed = u[j].trashed
        /\ DOMAIN v.of = DOMAIN s.of \cup {j} /\ v.of[j] = Len(v.tree)
        /\ \A x \in DOMAIN s.of : x # j => v.of[x] = s.of[x]
        /\ \A k \in DOMAIN s.tree : v.tree[k] = s.tree[k]

LEMMA CopiedIs ==
    ASSUME NEW u, TreeShape(u), NEW s \in CopyStates(u), NEW j \in DOMAIN u, u[j].on, u[j].parent \in DOMAIN s.of,
           NEW v, v = Copied(s, u, j)
    PROVE  OneMore(u, s, j, v)
<1> DEFINE p == s.of[u[j].parent]
           path == Append(s.tree[p].path, u[j].name)
           r == CopyOf(u[j], p, path)
           Of == UNION {[D -> Nat] : D \in SUBSET Nat}
<1>1. /\ s.tree \in Seq(RowT) /\ s.of \in Of /\ TreeShape(s.tree) /\ Grown(u, s.tree)
      /\ \A x \in DOMAIN s.of : s.of[x] \in DOMAIN s.tree
  BY DEF CopyStates
<1>2. u[j] \in RowT /\ j \in Nat /\ p \in DOMAIN s.tree
  BY <1>1, ShapeRow
<1>3. p \in 1..Len(s.tree) /\ s.tree[p] \in RowT /\ Len(s.tree) \in Nat
  BY <1>1, <1>2, ShapeRow
<1>4. path \in PathT
  <2>1. s.tree[p].path \in PathT /\ u[j].name \in NameT
    BY <1>2, <1>3 DEF RowT
  <2> QED BY <2>1, PathAppend
<1>5. v = [tree |-> Append(s.tree, r), of |-> OfMore(s.of, j, Len(s.tree) + 1)]
  BY DEF Copied
<1> HIDE DEF p, path
<1>6. /\ r \in RowT /\ r.parent = p /\ r.path = path /\ r.on = u[j].on /\ r.name = u[j].name
      /\ r.folder = u[j].folder /\ r.trashed = u[j].trashed
  <2>1. p \in Nat
    BY <1>3
  <2> DEFINE c == u[j]
  <2>2. c \in RowT /\ path \in PathT
    BY <1>2, <1>4
  <2> HIDE DEF c
  <2>3. /\ CopyOf(c, p, path) \in RowT /\ CopyOf(c, p, path).parent = p /\ CopyOf(c, p, path).path = path
        /\ CopyOf(c, p, path).on = c.on /\ CopyOf(c, p, path).name = c.name
        /\ CopyOf(c, p, path).folder = c.folder /\ CopyOf(c, p, path).trashed = c.trashed
    BY ONLY <2>1, <2>2, CopyOfIs
  <2> QED BY <2>3 DEF c
<1> HIDE DEF r
<1>7. /\ TreeShape(v.tree) /\ Grown(s.tree, v.tree) /\ Len(v.tree) = Len(s.tree) + 1 /\ v.tree[Len(v.tree)] = r
      /\ v.tree = Append(s.tree, r) /\ DOMAIN s.tree = 1..Len(s.tree) /\ DOMAIN v.tree = 1..Len(s.tree) + 1
  <2>1. r.parent \in 0..Len(s.tree) /\ r.on
    BY <1>3, <1>6
  <2>2. v.tree = Append(s.tree, r)
    BY <1>5
  <2> QED BY <1>1, <1>6, <2>1, <2>2, RowMore
<1> DEFINE n == Len(s.tree) + 1
<1>8. n \in Nat /\ v.of = OfMore(s.of, j, n)
  BY <1>3, <1>5
<1> HIDE DEF n, Of
<1>9. v.of \in Of /\ DOMAIN v.of = DOMAIN s.of \cup {j} /\ v.of[j] = n /\ \A x \in DOMAIN s.of : x # j => v.of[x] = s.of[x]
  <2>1. s.of \in UNION {[D -> Nat] : D \in SUBSET Nat} /\ j \in Nat
    BY <1>1, <1>2 DEF Of
  <2> DEFINE of == s.of
  <2> HIDE DEF of
  <2>2. /\ OfMore(of, j, n) \in UNION {[D -> Nat] : D \in SUBSET Nat}
        /\ DOMAIN OfMore(of, j, n) = DOMAIN of \cup {j} /\ OfMore(of, j, n)[j] = n
        /\ \A x \in DOMAIN of : x # j => OfMore(of, j, n)[x] = of[x]
    BY ONLY <1>8, <2>1, OfMoreIs DEF of
  <2> DEFINE w == OfMore(of, j, n)
  <2> HIDE DEF w
  <2> QED BY <1>8, <2>2 DEF Of, of, w
<1>10. v \in [tree : Seq(RowT), of : Of]
  BY <1>5, <1>7, <1>8, <1>9 DEF TreeShape
<1>11. Grown(u, v.tree)
  BY <1>1, <1>7, GrownFurther
<1>12. \A x \in DOMAIN v.of : v.of[x] \in DOMAIN v.tree
  BY <1>1, <1>3, <1>7, <1>9 DEF n
<1>13. v \in CopyStates(u)
  BY <1>7, <1>10, <1>11, <1>12 DEF CopyStates, Of
<1> QED BY <1>6, <1>7, <1>9, <1>13 DEF p, path, n, Grown, OneMore

LEMMA CopiedType ==
    ASSUME NEW u, TreeShape(u), NEW s \in CopyStates(u), NEW j \in Rows(u)
    PROVE  Copied(s, u, j) \in CopyStates(u)
<1>1. j \in DOMAIN u /\ u[j].on
  BY DEF Rows
<1>2. CASE u[j].parent \in DOMAIN s.of
  BY <1>1, <1>2, CopiedIs DEF OneMore
<1>3. CASE u[j].parent \notin DOMAIN s.of
  BY <1>3 DEF Copied
<1> QED BY <1>2, <1>3

CopyFirst(u, i) == [tree |-> u, of |-> [x \in {i} |-> Len(u)]]
CopySteps(u, i, order, g) ==
    /\ g \in [0..Len(order) -> CopyStates(u)] /\ g[0] = CopyFirst(u, i)
    /\ \A n \in 1..Len(order) : g[n] = Copied(g[n - 1], u, order[n])

LEMMA CopyFirstType ==
    ASSUME NEW u, TreeShape(u), Len(u) # 0, NEW i \in DOMAIN u
    PROVE  CopyFirst(u, i) \in CopyStates(u)
<1> DEFINE of == [x \in {i} |-> Len(u)]
<1>1. DOMAIN u = 1..Len(u) /\ Len(u) \in Nat /\ Len(u) \in DOMAIN u /\ u \in Seq(RowT)
  BY DEF TreeShape
<1>2. {i} \in SUBSET Nat
  BY <1>1
<1>3. of \in [{i} -> Nat]
  BY <1>1
<1>4. of \in UNION {[D -> Nat] : D \in SUBSET Nat}
  <2> HIDE DEF of
  <2> QED BY <1>2, <1>3
<1>5. Grown(u, u)
  BY <1>1 DEF Grown
<1> QED BY <1>1, <1>4, <1>5 DEF CopyStates, CopyFirst

LEMMA CopyStepsExist ==
    ASSUME NEW u, TreeShape(u), Len(u) # 0, NEW i \in DOMAIN u, NEW order \in Seq(Rows(u))
    PROVE  \E g : CopySteps(u, i, order, g)
<1> DEFINE N == Len(order)
           V == CopyStates(u)
           first == CopyFirst(u, i)
           step == [p \in V \X (1..N) |-> Copied(p[1], u, order[p[2]])]
<1>1. N \in Nat /\ \A n \in 1..N : order[n] \in Rows(u)
  OBVIOUS
<1>2. first \in V
  BY CopyFirstType
<1> HIDE DEF N, first
<1>3. \A s \in V, n \in 1..N : Copied(s, u, order[n]) \in V
  BY <1>1, CopiedType
<1> HIDE DEF V
<1>4. step \in [V \X (1..N) -> V]
  BY <1>3
<1>5. \A s \in V, n \in 1..N : step[<<s, n>>] = Copied(s, u, order[n])
  OBVIOUS
<1> HIDE DEF step
<1>6. PICK g : Follows(g, N, V, first, step)
  BY <1>1, <1>2, <1>4, Recursion, Zenon
<1>7. ASSUME NEW n \in 1..N PROVE g[n] = Copied(g[n - 1], u, order[n])
  <2>1. n - 1 \in 0..N
    BY <1>1
  <2> QED BY <1>5, <1>6, <2>1 DEF Follows
<1> QED BY <1>6, <1>7 DEF CopySteps, Follows, N, V, first

\* The copies copy() makes are those.
Copies(u, i, order) ==
    LET step[k \in 0..Len(order)] == IF k = 0 THEN CopyFirst(u, i) ELSE Copied(step[k - 1], u, order[k])
    IN step[Len(order)]

LEMMA CopiesAre ==
    ASSUME NEW u, NEW i, NEW order \in Seq(Nat), NEW g, CopySteps(u, i, order, g)
    PROVE  Copies(u, i, order) = g[Len(order)]
<1> DEFINE N == Len(order)
           first == CopyFirst(u, i)
           Next1(s, n) == Copied(s, u, order[n])
           Is(h) == h = [n \in 0..N |-> IF n = 0 THEN first ELSE Next1(h[n - 1], n)]
           h == CHOOSE x : Is(x)
<1>1. N \in Nat
  OBVIOUS
<1>2. Copies(u, i, order) = h[N]
  BY DEF Copies
<1>4. g \in [0..N -> CopyStates(u)] /\ g[0] = first /\ \A n \in 1..N : g[n] = Next1(g[n - 1], n)
  BY DEF CopySteps
<1> HIDE DEF N, first, Next1
<1>5. Is(g)
  <2>1. \A n \in 0..N : n # 0 => n \in 1..N
    BY <1>1
  <2>2. \A n \in 0..N : g[n] = IF n = 0 THEN first ELSE Next1(g[n - 1], n)
    BY <1>4, <2>1
  <2> QED BY <1>4, <2>2
<1>6. Is(h)
  <2> HIDE DEF Is
  <2> QED BY <1>5
<1> HIDE DEF h
<1>7. \A n \in 0..N : h[n] = IF n = 0 THEN first ELSE Next1(h[n - 1], n)
  BY <1>6
<1> HIDE DEF Is
<1> DEFINE G == {n \in 0..N : h[n] = g[n]}
<1>8. 0 \in G
  <2>1. 0 \in 0..N
    BY <1>1
  <2>2. h[0] = first
    BY ONLY <2>1, <1>7
  <2> QED BY <1>4, <2>1, <2>2
<1>9. ASSUME NEW n \in 0..N - 1, n \in G PROVE n + 1 \in G
  <2>1. n + 1 \in 0..N /\ n + 1 \in 1..N /\ n + 1 # 0 /\ (n + 1) - 1 = n
    BY <1>1
  <2>2. h[n + 1] = Next1(h[n], n + 1) /\ g[n + 1] = Next1(g[n], n + 1)
    BY <1>4, <1>7, <2>1
  <2>3. h[n] = g[n]
    BY <1>9
  <2>4. h[n + 1] = g[n + 1]
    BY <2>2, <2>3
  <2> QED BY <2>1, <2>4
<1>10. N \in G
  <2> HIDE DEF G
  <2>1. N \in 0..N
    BY <1>1
  <2> QED BY <1>1, <1>8, <1>9, <2>1, UpTo
<1> QED BY <1>2, <1>10 DEF N

CopyTop(t, i, f, n) == Append(f.tree, Row(f.id, n, Append(PathOf(f.tree, f.id), n), t[i].folder))
CopyAnswer(t, i, f, u) ==
    IF ~f.ok \/ InsideItself(t, i, PathOf(f.tree, f.id)) THEN Same(f.tree)
    ELSE Done(Len(u), Copies(u, i, CopyOrder(u, Below(u, i))).tree, {})

LEMMA CopyEntryIs ==
    ASSUME NEW t, NEW i, NEW target, NEW f, f = EnsureFolder(t, target),
           NEW n, n = UniqueNameIn(f.tree, f.id, t[i].name), NEW u, u = CopyTop(t, i, f, n)
    PROVE  CopyEntry(t, i, target) = CopyAnswer(t, i, f, u)
<1> DEFINE ff == EnsureFolder(t, target)
           nn == UniqueNameIn(ff.tree, ff.id, t[i].name)
           uu == CopyTop(t, i, ff, nn)
<1>1. CopyEntry(t, i, target) = CopyAnswer(t, i, ff, uu)
  BY ONLY TRUE DEF CopyEntry, Copies, CopyOrder, Copied, CopyOf, OfMore, CopyFirst, CopyTop, CopyAnswer
<1>2. f = ff /\ n = nn /\ u = uu
  OBVIOUS
<1> HIDE DEF ff, nn, uu
<1> QED BY ONLY <1>1, <1>2

\* What holds while what is below i in u is copied, the rows in done being over.
SameKind(r, c) == c.folder = r.folder /\ c.trashed = r.trashed
CopyRow(u, s, x) ==
    /\ x \in Rows(u) /\ u[x].parent \in DOMAIN s.of /\ s.of[x] > Len(u)
    /\ s.tree[s.of[x]].on /\ s.tree[s.of[x]].parent = s.of[u[x].parent] /\ s.tree[s.of[x]].name = u[x].name
    /\ SameKind(u[x], s.tree[s.of[x]])

CopyInv(u, i, done, s) ==
    /\ s \in CopyStates(u) /\ Sound(s.tree) /\ DOMAIN s.of \subseteq {i} \cup done
    /\ i \in DOMAIN s.of /\ s.of[i] = Len(u)
    /\ \A x \in DOMAIN s.of : x # i => CopyRow(u, s, x)
    /\ \A x, y \in DOMAIN s.of : s.of[x] = s.of[y] => x = y
    /\ \A k \in DOMAIN s.tree : k > Len(u) => \E x \in DOMAIN s.of : x # i /\ s.of[x] = k

LEMMA CopyInvFirst ==
    ASSUME NEW u, TreeShape(u), Sound(u), Len(u) # 0, NEW i \in Rows(u)
    PROVE  CopyInv(u, i, {}, CopyFirst(u, i))
<1> DEFINE s == CopyFirst(u, i)
<1>1. i \in DOMAIN u /\ DOMAIN u = 1..Len(u) /\ Len(u) \in Nat
  BY DEF Rows, TreeShape
<1>2. s \in CopyStates(u)
  BY <1>1, CopyFirstType
<1>3. s.tree = u /\ DOMAIN s.of = {i} /\ s.of[i] = Len(u)
  BY DEF CopyFirst
<1> HIDE DEF s
<1>4. \A k \in DOMAIN s.tree : ~(k > Len(u))
  BY <1>1, <1>3
<1> QED BY <1>2, <1>3, <1>4 DEF CopyInv, s

LEMMA CopyInvSkip ==
    ASSUME NEW u, NEW i, NEW done, NEW s, CopyInv(u, i, done, s), NEW j, u[j].parent \notin DOMAIN s.of
    PROVE  CopyInv(u, i, done \cup {j}, Copied(s, u, j))
<1>1. Copied(s, u, j) = s
  BY DEF Copied
<1> QED BY <1>1 DEF CopyInv

\* One row more: in the copy of the folder it is in, where no copy has its name as no
\* row there but itself has.
LEMMA CopyInvNext ==
    ASSUME NEW u, TreeShape(u), Sound(u), NEW i \in Rows(u), u[i].folder, Len(u) \in LiveRows(u), u[Len(u)].folder,
           \A k \in Rows(u) : u[k].parent # Len(u),
           NEW done, NEW s, CopyInv(u, i, done, s), NEW j \in Rows(u), j # i, j \notin done,
           u[j].parent \in DOMAIN s.of
    PROVE  CopyInv(u, i, done \cup {j}, Copied(s, u, j))
<1>0. PICK v : v = Copied(s, u, j)
  OBVIOUS
<1> DEFINE q == u[j].parent
           p == s.of[q]
           r == v.tree[Len(v.tree)]
<1>1. /\ s \in CopyStates(u) /\ Sound(s.tree) /\ DOMAIN s.of \subseteq {i} \cup done
      /\ i \in DOMAIN s.of /\ s.of[i] = Len(u) /\ j \notin DOMAIN s.of
      /\ \A x \in DOMAIN s.of : x # i => CopyRow(u, s, x)
      /\ \A x, y \in DOMAIN s.of : s.of[x] = s.of[y] => x = y
      /\ \A k \in DOMAIN s.tree : k > Len(u) => \E x \in DOMAIN s.of : x # i /\ s.of[x] = k
  BY DEF CopyInv
<1>2. /\ s.tree \in Seq(RowT) /\ TreeShape(s.tree) /\ Grown(u, s.tree)
      /\ \A x \in DOMAIN s.of : s.of[x] \in DOMAIN s.tree
  BY <1>1 DEF CopyStates
<1>3. j \in DOMAIN u /\ u[j].on /\ i \in DOMAIN u /\ DOMAIN u = 1..Len(u) /\ Len(u) \in Nat /\ Len(u) \in DOMAIN u
  BY DEF Rows, LiveRows, TreeShape
<1>4. /\ v \in CopyStates(u) /\ Len(v.tree) = Len(s.tree) + 1 /\ v.tree = Append(s.tree, r)
      /\ r \in RowT /\ r.parent = p /\ r.path = Append(s.tree[p].path, u[j].name)
      /\ r.on /\ r.name = u[j].name /\ r.folder = u[j].folder /\ r.trashed = u[j].trashed
      /\ DOMAIN v.of = DOMAIN s.of \cup {j} /\ v.of[j] = Len(v.tree)
      /\ \A x \in DOMAIN s.of : x # j => v.of[x] = s.of[x]
      /\ \A k \in DOMAIN s.tree : v.tree[k] = s.tree[k]
  <2>1. OneMore(u, s, j, v)
    BY <1>0, <1>1, <1>3, CopiedIs
  <2> QED BY ONLY <2>1 DEF OneMore
<1>5. DOMAIN s.tree = 1..Len(s.tree) /\ Len(s.tree) \in Nat /\ Len(u) <= Len(s.tree) /\ DOMAIN v.tree = 1..Len(s.tree) + 1
  <2>1. TreeShape(v.tree)
    BY <1>4 DEF CopyStates
  <2>2. Len(v.tree) = Len(s.tree) + 1 /\ v.tree \in Seq(RowT)
    BY <1>4, <2>1 DEF TreeShape
  <2>3. Len(u) <= Len(s.tree)
    BY <1>2 DEF Grown
  <2> QED BY ONLY <1>2, <2>2, <2>3
<1>6. \A k \in DOMAIN u : s.tree[k] = u[k]
  BY <1>2 DEF Grown
<1>7. p \in DOMAIN s.tree /\ p >= Len(u) /\ p # Root
  <2>1. q = i \/ s.of[q] > Len(u)
    BY <1>1 DEF CopyRow
  <2> QED BY <1>1, <1>2, <1>3, <1>5, <2>1 DEF Root
<1> HIDE DEF r, p, q
<1>8. q \in Rows(u) /\ u[q].folder
  <2>1. q = i \/ q \in Rows(u)
    BY <1>1 DEF CopyRow, q
  <2>2. q \in {Root} \cup {k \in Rows(u) : u[k].folder}
    BY DEF Sound, Hanging, q
  <2>3. Root \notin Rows(u)
    BY <1>3 DEF Root, Rows
  <2> QED BY <2>1, <2>2, <2>3
<1>9. q \in DOMAIN s.of
  BY DEF q
<1>10. p \in Rows(s.tree) /\ s.tree[p].folder /\ (q \in LiveRows(u) => p \in LiveRows(s.tree))
  <2>1. CASE q = i
    <3>1. p = Len(u)
      BY <1>1, <2>1 DEF p
    <3>2. s.tree[p] = u[Len(u)] /\ u[Len(u)].on /\ ~u[Len(u)].trashed
      BY <1>3, <1>6, <3>1 DEF LiveRows, Rows
    <3> QED BY <1>7, <3>2 DEF LiveRows, Rows
  <2>2. CASE q # i
    <3>1. CopyRow(u, s, q)
      BY <1>1, <1>9, <2>2
    <3>2. s.tree[p].on /\ SameKind(u[q], s.tree[p])
      BY <3>1 DEF CopyRow, p
    <3> QED BY <1>7, <1>8, <3>2 DEF LiveRows, Rows, SameKind
  <2> QED BY <2>1, <2>2
<1>11. ~r.trashed => j \in LiveRows(u) /\ q \in LiveRows(u)
  <2>1. ~r.trashed => j \in LiveRows(u)
    BY <1>4 DEF LiveRows
  <2>2. Root \notin Rows(u)
    BY <1>3 DEF Root, Rows
  <2> QED BY <1>8, <2>1, <2>2 DEF Sound, LiveIn, q
<1>12. ~r.trashed => InFolder(s.tree, p, r.name) = {}
  <2> SUFFICES ASSUME ~r.trashed, NEW k \in InFolder(s.tree, p, r.name) PROVE FALSE
    OBVIOUS
  <2>1. k \in LiveRows(s.tree) /\ k \in DOMAIN s.tree /\ s.tree[k].on /\ s.tree[k].parent = p /\ s.tree[k].name = u[j].name
    BY <1>4 DEF InFolder, LiveRows, Rows
  <2>2. CASE k \in DOMAIN u
    <3>1. u[k].parent = p /\ k \in Rows(u)
      BY <1>6, <2>1, <2>2 DEF Rows
    <3>2. p \in Nat /\ u[k].parent <= Len(u)
      BY <1>5, <1>7, <2>2 DEF TreeShape
    <3> QED BY <1>3, <1>7, <3>1, <3>2
  <2>3. CASE k \notin DOMAIN u
    <3>1. k > Len(u)
      BY <1>3, <1>5, <2>1, <2>3
    <3>2. PICK x \in DOMAIN s.of : x # i /\ s.of[x] = k
      BY <1>1, <2>1, <3>1
    <3>3. CopyRow(u, s, x)
      BY <1>1, <3>2
    <3>4. /\ x \in Rows(u) /\ u[x].parent \in DOMAIN s.of /\ s.tree[k].parent = s.of[u[x].parent] /\ s.tree[k].name = u[x].name
          /\ SameKind(u[x], s.tree[k])
      BY <3>2, <3>3 DEF CopyRow
    <3>5. u[x].parent = q
      <4>1. s.of[u[x].parent] = s.of[q]
        BY <2>1, <3>4 DEF p
      <4> QED BY ONLY <1>1, <1>9, <3>4, <4>1
    <3>6. x \in LiveRows(u)
      BY <2>1, <3>4 DEF LiveRows, SameKind
    <3>7. x = j
      <4>1. j \in LiveRows(u)
        BY <1>11
      <4> QED BY <2>1, <3>4, <3>5, <3>6, <4>1 DEF Sound, OwnNames, q
    <3> QED BY <1>1, <3>2, <3>7
  <2> QED BY <2>2, <2>3
<1>13. Sound(v.tree)
  <2>1. r.path = Append(PathOf(s.tree, r.parent), r.name)
    BY <1>4, <1>7 DEF PathOf
  <2>2. r.parent \in {Root} \cup {k \in Rows(s.tree) : s.tree[k].folder}
    BY <1>4, <1>10
  <2>3. ~r.trashed => r.parent \in {Root} \cup LiveRows(s.tree) /\ InFolder(s.tree, r.parent, r.name) = {}
    BY <1>4, <1>10, <1>11, <1>12
  <2>4. Sound(Append(s.tree, r))
    BY <1>1, <1>2, <1>4, <2>1, <2>2, <2>3, AddRowSound
  <2> QED BY <1>4, <2>4
<1>14. v.of[j] > Len(u) /\ v.of[j] \notin DOMAIN s.tree /\ v.of[j] = Len(s.tree) + 1
  BY <1>3, <1>4, <1>5
<1>15. \A x \in DOMAIN s.of : v.of[x] = s.of[x] /\ v.of[x] \in DOMAIN s.tree
  BY <1>1, <1>2, <1>4
<1>16. ASSUME NEW x \in DOMAIN v.of, x # i PROVE CopyRow(u, v, x)
  <2>1. CASE x = j
    <3>1. v.of[j] = Len(v.tree) /\ v.of[u[j].parent] = p /\ u[j].parent \in DOMAIN v.of
      BY <1>4, <1>9, <1>15 DEF p, q
    <3>2. SameKind(u[j], r)
      BY <1>4 DEF SameKind
    <3>3. v.tree[v.of[j]] = r
      BY <3>1 DEF r
    <3> QED BY <1>4, <1>14, <2>1, <3>1, <3>2, <3>3 DEF CopyRow
  <2>2. CASE x # j
    <3>1. x \in DOMAIN s.of
      BY <1>4, <1>16, <2>2
    <3>2. CopyRow(u, s, x)
      BY <1>1, <1>16, <3>1
    <3>3. v.of[x] = s.of[x] /\ v.tree[v.of[x]] = s.tree[s.of[x]]
      BY <1>4, <1>15, <3>1
    <3>4. u[x].parent \in DOMAIN s.of /\ v.of[u[x].parent] = s.of[u[x].parent] /\ u[x].parent \in DOMAIN v.of
      BY <1>4, <1>15, <3>2 DEF CopyRow
    <3> QED BY <3>2, <3>3, <3>4 DEF CopyRow
  <2> QED BY <2>1, <2>2
<1>17. \A x, y \in DOMAIN v.of : v.of[x] = v.of[y] => x = y
  BY <1>1, <1>4, <1>14, <1>15
<1>18. ASSUME NEW k \in DOMAIN v.tree, k > Len(u) PROVE \E x \in DOMAIN v.of : x # i /\ v.of[x] = k
  <2>1. CASE k \in DOMAIN s.tree
    <3>1. PICK x \in DOMAIN s.of : x # i /\ s.of[x] = k
      BY <1>1, <1>18, <2>1
    <3> QED BY <1>4, <1>15, <3>1
  <2>2. CASE k \notin DOMAIN s.tree
    <3>1. k = v.of[j]
      BY <1>5, <1>14, <2>2
    <3> QED BY <1>4, <3>1
  <2> QED BY <2>1, <2>2
<1>19. DOMAIN v.of \subseteq {i} \cup (done \cup {j}) /\ i \in DOMAIN v.of /\ v.of[i] = Len(u)
  BY <1>1, <1>4, <1>15
<1> QED BY <1>4, <1>13, <1>16, <1>17, <1>18, <1>19, <1>0 DEF CopyInv

LEMMA CopiesGood ==
    ASSUME NEW u, TreeShape(u), NEW i \in Rows(u), Len(u) \in LiveRows(u), u[i].folder => u[Len(u)].folder,
           \A k \in Rows(u) : u[k].parent # Len(u), NEW v, v = Copies(u, i, CopyOrder(u, Below(u, i))).tree
    PROVE  TreeShape(v) /\ Grown(u, v) /\ (Sound(u) => Sound(v))
<1> DEFINE below == Below(u, i)
           order == CopyOrder(u, below)
           N == Len(order)
<1>1. below \subseteq Rows(u) /\ below \in SUBSET DOMAIN u /\ i \in DOMAIN u /\ Rows(u) \subseteq Nat
  <2>1. u \in Seq(RowT)
    BY DEF TreeShape
  <2>2. below \subseteq Rows(u)
    BY <2>1, BelowClosed
  <2>3. Rows(u) \subseteq DOMAIN u /\ DOMAIN u \subseteq Nat
    BY <2>1 DEF Rows
  <2> QED BY <2>2, <2>3
<1>2. Len(u) # 0
  BY DEF LiveRows, Rows, TreeShape
<1> HIDE DEF below, order
<1>3. /\ order \in Seq(below) /\ N \in Nat /\ \A k \in 1..N : order[k] \in below
      /\ \A j, k \in 1..N : order[j] = order[k] => j = k
  BY <1>1, CopyOrderIs DEF order
<1>4. order \in Seq(Rows(u)) /\ order \in Seq(Nat)
  BY <1>1, <1>3
<1>5. PICK g : CopySteps(u, i, order, g)
  BY <1>1, <1>2, <1>4, CopyStepsExist
<1>6. /\ g \in [0..N -> CopyStates(u)] /\ g[0] = CopyFirst(u, i)
      /\ \A n \in 1..N : g[n] = Copied(g[n - 1], u, order[n])
  BY <1>5 DEF CopySteps
<1>7. v = g[N].tree
  <2>1. Copies(u, i, order) = g[N]
    BY <1>4, <1>5, CopiesAre
  <2> QED BY <2>1 DEF order, below
<1> HIDE DEF N
<1>8. g[N] \in CopyStates(u)
  BY <1>3, <1>6
<1>9. TreeShape(v) /\ Grown(u, v)
  BY <1>7, <1>8 DEF CopyStates
<1>10. ASSUME Sound(u) PROVE Sound(v)
  <2>1. CASE ~u[i].folder
    <3>1. below = {}
      BY <1>10, <2>1, NothingBelowFile DEF Sound, below
    <3>2. N = 0
      <4>1. \A k \in 1..N : FALSE
        BY <1>3, <3>1
      <4> QED BY <1>3, <4>1
    <3>3. v = u
      BY <1>6, <1>7, <3>2 DEF CopyFirst
    <3> QED BY <1>10, <3>3
  <2>2. CASE u[i].folder
    <3> DEFINE done(n) == {order[k] : k \in 1..n}
               G == {n \in 0..N : CopyInv(u, i, done(n), g[n])}
    <3>1. 0 \in G
      <4>1. done(0) = {}
        OBVIOUS
      <4> HIDE DEF done
      <4>2. CopyInv(u, i, done(0), g[0])
        BY <1>2, <1>6, <1>10, <4>1, CopyInvFirst
      <4> QED BY <1>3, <4>2
    <3>2. ASSUME NEW n \in 0..N - 1, n \in G PROVE n + 1 \in G
      <4>1. n + 1 \in 0..N /\ n + 1 \in 1..N /\ (n + 1) - 1 = n
        BY <1>3
      <4> DEFINE j == order[n + 1]
      <4>2. j \in below /\ j \in Rows(u) /\ j # i
        BY <1>1, <1>3, <1>10, <4>1, BelowAhead DEF Sound, below
      <4>3. done(n + 1) = done(n) \cup {j} /\ j \notin done(n)
        <5>1. \A k \in 1..n + 1 : k = n + 1 \/ k \in 1..n
          BY <1>3
        <5>2. 1..n \subseteq 1..N /\ 1..n \subseteq 1..n + 1 /\ n + 1 \notin 1..n /\ n + 1 \in 1..n + 1
          BY <1>3
        <5> QED BY <1>3, <4>1, <5>1, <5>2
      <4>4. g[n + 1] = Copied(g[n], u, j)
        BY <1>6, <4>1
      <4>5. CopyInv(u, i, done(n), g[n])
        BY <3>2
      <4> HIDE DEF done, j
      <4> DEFINE s == g[n]
      <4> HIDE DEF s
      <4>6. CopyInv(u, i, done(n) \cup {j}, Copied(s, u, j))
        <5>1. CASE u[j].parent \in DOMAIN s.of
          BY <1>10, <2>2, <4>2, <4>3, <4>5, <5>1, CopyInvNext DEF s
        <5>2. CASE u[j].parent \notin DOMAIN s.of
          BY <4>5, <5>2, CopyInvSkip DEF s
        <5> QED BY <5>1, <5>2
      <4> QED BY <4>1, <4>3, <4>4, <4>6 DEF s
    <3>3. N \in G
      <4> HIDE DEF G
      <4>1. N \in 0..N
        BY <1>3
      <4> QED BY <1>3, <3>1, <3>2, <4>1, UpTo
    <3> QED BY <1>7, <3>3 DEF CopyInv
  <2> QED BY <2>1, <2>2
<1> QED BY <1>9, <1>10

LEMMA CopyRight ==
    ASSUME NEW t, TreeShape(t), NEW i \in Rows(t), NEW target \in PathT
    PROVE  Right(t, CopyEntry(t, i, target))
<1>1. PICK f : f = EnsureFolder(t, target)
  OBVIOUS
<1> DEFINE w == f.tree
<1>2. PICK n : n = UniqueNameIn(w, f.id, t[i].name)
  OBVIOUS
<1> DEFINE p == PathOf(w, f.id)
           r == Row(f.id, n, Append(p, n), t[i].folder)
<1>3. PICK u : u = CopyTop(t, i, f, n) /\ u = Append(w, r)
  BY DEF CopyTop
<1> DEFINE v == Copies(u, i, CopyOrder(u, Below(u, i))).tree
<1>4. CopyEntry(t, i, target) = IF ~f.ok \/ InsideItself(t, i, p) THEN Same(w) ELSE Done(Len(u), v, {})
  <2>1. CopyEntry(t, i, target) = CopyAnswer(t, i, f, u)
    <3>1. u = CopyTop(t, i, f, n)
      BY <1>3
    <3> QED BY ONLY <1>1, <1>2, <3>1, CopyEntryIs
  <2> QED BY ONLY <2>1 DEF CopyAnswer
<1>5. Walked(t, target, f)
  BY <1>1, EnsureFolderIs
<1>6. Good(t, w, {}) /\ TreeShape(w) /\ Grown(t, w) /\ f.id \in 0..Len(w) /\ (f.ok => Place(w, f.id, target))
  <2>1. Good(t, w, {}) /\ TreeShape(w) /\ Grown(t, w) /\ f.id <= Len(w) /\ f.id \in Nat /\ (f.ok => Place(w, f.id, target))
    BY <1>5, WalkedGood DEF Walked, Walk
  <2> QED BY <2>1 DEF TreeShape
<1> HIDE DEF w
<1>7. i \in DOMAIN t /\ t[i].on /\ t[i] \in RowT /\ DOMAIN t = 1..Len(t) /\ Len(t) \in Nat
  BY ShapeRow DEF Rows
<1>8. t[i].name \in NameT /\ t[i].folder \in BOOLEAN
  BY <1>7 DEF RowT
<1>9. n \in NameT /\ InFolder(w, f.id, n) = {} /\ p \in PathT
  BY <1>2, <1>6, <1>8, FreeName, PathOfType
<1> DEFINE q == Append(p, n)
<1>10. q \in PathT
  BY <1>9, PathAppend
<1>11. f.id \in Nat /\ Len(w) \in Nat /\ DOMAIN w = 1..Len(w)
  BY <1>6 DEF TreeShape
<1> HIDE DEF p, q
<1>12. r \in RowT /\ r.on /\ r.parent = f.id /\ ~r.trashed /\ r.name = n /\ r.folder = t[i].folder
  <2>1. r = Row(f.id, n, q, t[i].folder)
    BY DEF q
  <2> DEFINE b == t[i].folder
  <2> HIDE DEF b
  <2>2. /\ Row(f.id, n, q, b) \in RowT /\ Row(f.id, n, q, b).on /\ Row(f.id, n, q, b).parent = f.id /\ ~Row(f.id, n, q, b).trashed
        /\ Row(f.id, n, q, b).name = n /\ Row(f.id, n, q, b).path = q /\ Row(f.id, n, q, b).folder = b
    <3>1. b \in BOOLEAN
      BY <1>8 DEF b
    <3> QED BY ONLY <1>9, <1>10, <1>11, <3>1, RowIn
  <2> QED BY <2>1, <2>2 DEF b
<1> HIDE DEF r
<1>13. /\ TreeShape(u) /\ Grown(w, u) /\ Len(u) = Len(w) + 1 /\ u[Len(u)] = r
       /\ DOMAIN u = 1..Len(w) + 1
       /\ Rows(u) = Rows(w) \cup {Len(u)} /\ Len(u) \in LiveRows(u)
  <2>1. r.parent \in 0..Len(w)
    BY <1>6, <1>12
  <2>2. LET x == Append(w, r)
        IN  /\ TreeShape(x) /\ Grown(w, x) /\ Len(x) = Len(w) + 1 /\ x[Len(x)] = r /\ Len(w) \in Nat
            /\ DOMAIN w = 1..Len(w) /\ DOMAIN x = 1..Len(w) + 1
            /\ Rows(x) = Rows(w) \cup {Len(x)}
            /\ LiveRows(x) = LiveRows(w) \cup (IF r.trashed THEN {} ELSE {Len(x)})
    BY <1>6, <1>12, <2>1, RowMore
  <2> QED BY <1>3, <1>12, <2>2
<1>14. CASE ~f.ok \/ InsideItself(t, i, p)
  <2>1. CopyEntry(t, i, target) = Same(w)
    BY <1>4, <1>14
  <2> QED BY <1>6, <2>1, SameRight
<1>15. CASE f.ok /\ ~InsideItself(t, i, p)
  <2>1. Place(w, f.id, target) /\ p = target
    BY <1>6, <1>15, PlacePath DEF p
  <2>2. i \in Rows(u) /\ u[i] = t[i]
    <3>1. w[i] = t[i] /\ i \in DOMAIN w
      BY <1>6, <1>7, <1>11 DEF Grown
    <3>2. u[i] = w[i]
      BY <1>13, <3>1 DEF Grown
    <3> QED BY <1>7, <1>13, <3>1, <3>2 DEF Rows
  <2>3. ASSUME NEW k \in Rows(u) PROVE u[k].parent # Len(u)
    <3>1. CASE k = Len(u)
      BY <1>6, <1>11, <1>12, <1>13, <3>1
    <3>2. CASE k # Len(u)
      <4>1. k \in DOMAIN w /\ u[k] = w[k]
        BY <1>13, <3>2 DEF Rows, Grown
      <4>2. w[k].parent \in 0..Len(w)
        BY <1>6, <4>1, ShapeRow
      <4> QED BY <1>11, <1>13, <4>1, <4>2
    <3> QED BY <3>1, <3>2
  <2>4. u[i].folder => u[Len(u)].folder
    BY <1>12, <1>13, <2>2
  <2>5. PICK x : x = v
    OBVIOUS
  <2>6. TreeShape(x) /\ Grown(u, x) /\ (Sound(u) => Sound(x))
    BY <1>13, <2>2, <2>3, <2>4, <2>5, CopiesGood
  <2>7. Sound(t) => Sound(u)
    <3>1. Sound(t) => Sound(w)
      BY <1>5 DEF Walked, w
    <3>2. Sound(w) => Sound(Append(w, Row(f.id, n, Append(target, n), t[i].folder)))
      BY <1>6, <1>8, <1>9, <2>1, AddSound
    <3> QED BY <1>3, <2>1, <3>1, <3>2 DEF r
  <2>8. Grown(t, x)
    BY <1>6, <1>13, <2>6, GrownFurther
  <2>9. Good(t, x, {})
    <3>1. Keeps(t, x)
      BY <2>8 DEF Keeps, Grown
    <3> QED BY <2>6, <2>7, <3>1 DEF Good
  <2>10. Len(u) \in Rows(x)
    <3>1. Len(u) \in DOMAIN u /\ u[Len(u)].on
      BY <1>13 DEF Rows, LiveRows
    <3>2. x[Len(u)] = u[Len(u)] /\ Len(u) \in DOMAIN x
      BY <1>13, <2>6, <3>1 DEF Grown, TreeShape
    <3> QED BY <3>1, <3>2 DEF Rows
  <2>11. CopyEntry(t, i, target) = Done(Len(u), x, {})
    BY <1>4, <1>15, <2>5
  <2> QED BY <2>9, <2>10, <2>11, DoneRight
<1> QED BY <1>14, <1>15

-----------------------------------------------------------------------------
(* MOVE and COPY of WebDAV *)

LEMMA GoodMore ==
    ASSUME NEW t, NEW u, NEW a, NEW b, Good(t, u, a), a \subseteq b
    PROVE  Good(t, u, b)
BY DEF Good

LEMMA ClearWayGood ==
    ASSUME NEW t, TreeShape(t), NEW i \in Rows(t), NEW d, NEW c, c = ClearWay(t, i, d)
    PROVE  Good(t, c.tree, c.slip) /\ i \in Rows(c.tree)
<1> DEFINE way == AtPath(t, d)
           j == Least(way)
           e == TrashEntry(t, j)
<1>1. c.tree = IF way = {} \/ j = i THEN t ELSE e.tree
  BY DEF ClearWay
<1>2. CASE way = {} \/ j = i
  <2>1. c.tree = t
    BY <1>1, <1>2
  <2> QED BY <2>1, GoodItself
<1>3. CASE way # {} /\ j # i
  <2>1. j \in Rows(t)
    <3>1. j \in LiveRows(t)
      BY <1>3, AtPathIs DEF TreeShape
    <3> QED BY <3>1 DEF LiveRows
  <2>2. c.tree = e.tree
    BY <1>1, <1>3
  <2> HIDE DEF j, way
  <2>3. Right(t, e)
    BY <2>1, TrashRight
  <2>4. e.slip = {}
    BY DEF TrashEntry, Done
  <2>5. Good(t, e.tree, {})
    BY <2>3, <2>4 DEF Right
  <2>6. i \in Rows(e.tree)
    <3>1. i \in DOMAIN t /\ t[i].on /\ t[i] \in RowT
      BY ShapeRow DEF Rows
    <3> DEFINE v == [k \in DOMAIN t |-> IF k = j \/ (t[j].folder /\ k \in Below(t, j)) THEN Flagged(t[k], TRUE) ELSE t[k]]
    <3>2. e.tree = t \/ e.tree = v
      BY DEF TrashEntry, Done, Flagged
    <3>3. i \in DOMAIN v /\ (v[i] = t[i] \/ v[i] = Flagged(t[i], TRUE))
      BY <3>1
    <3> HIDE DEF v
    <3>4. i \in Rows(v)
      BY <3>1, <3>3, FlaggedIs DEF Rows
    <3> QED BY <3>2, <3>4
  <2> QED BY <2>2, <2>5, <2>6, GoodMore
<1> QED BY <1>2, <1>3

Answer(r) == r = [ok |-> r.ok, id |-> r.id, tree |-> r.tree, slip |-> r.slip]

LEMMA AnswersAre ==
    /\ \A t : Answer(Same(t))
    /\ \A i, t, slip : Answer(Done(i, t, slip))
BY DEF Answer, Same, Done

LEMMA RenameAnswer ==
    ASSUME NEW t, NEW i, NEW n
    PROVE  Answer(RenameEntry(t, i, n))
<1>1. \/ RenameEntry(t, i, n) = Same(t)
      \/ \E u, s : RenameEntry(t, i, n) = Done(i, u, s)
  BY DEF RenameEntry
<1> QED BY <1>1, AnswersAre

LEMMA MoveAnswer ==
    ASSUME NEW t, NEW i, NEW target
    PROVE  Answer(MoveEntry(t, i, target))
<1>1. \/ \E u : MoveEntry(t, i, target) = Same(u)
      \/ \E u, s : MoveEntry(t, i, target) = Done(i, u, s)
  BY DEF MoveEntry
<1> QED BY <1>1, AnswersAre

LEMMA CopyAnswerIs ==
    ASSUME NEW t, NEW i, NEW target
    PROVE  Answer(CopyEntry(t, i, target))
<1>1. PICK f : f = EnsureFolder(t, target)
  OBVIOUS
<1>2. PICK n : n = UniqueNameIn(f.tree, f.id, t[i].name)
  OBVIOUS
<1>3. PICK u : u = CopyTop(t, i, f, n)
  OBVIOUS
<1>4. CopyEntry(t, i, target) = CopyAnswer(t, i, f, u)
  BY ONLY <1>1, <1>2, <1>3, CopyEntryIs
<1>5. \/ CopyEntry(t, i, target) = Same(f.tree)
      \/ \E v : CopyEntry(t, i, target) = Done(Len(u), v, {})
  BY <1>4 DEF CopyAnswer
<1> QED BY <1>5, AnswersAre

\* The name is given, if need be, to what a move or a copy has put where the way is
\* clear.
LEMMA GiveNameGood ==
    ASSUME NEW t, TreeShape(t), NEW u, NEW slip, Good(t, u, slip), NEW r, Right(u, r), Answer(r), NEW name \in NameT,
           NEW g, g = GiveName(r, name, slip)
    PROVE  Good(t, g.tree, g.slip)
<1> DEFINE e == RenameEntry(r.tree, r.id, name)
           q == IF r.ok /\ r.tree[r.id].name # name THEN e ELSE r
<1>1. Answer(e)
  BY RenameAnswer
<1> HIDE DEF e
<1>2. Answer(q)
  BY <1>1
<1>3. g = [q EXCEPT !.slip = @ \cup r.slip \cup slip]
  BY DEF GiveName, e
<1>4. (r.ok /\ r.tree[r.id].name # name => q = e) /\ (~(r.ok /\ r.tree[r.id].name # name) => q = r)
  OBVIOUS
<1> HIDE DEF q
<1>5. g.tree = q.tree /\ g.slip = q.slip \cup r.slip \cup slip
  BY <1>2, <1>3 DEF Answer
<1>6. Good(u, r.tree, r.slip) /\ (r.ok => r.id \in Rows(r.tree))
  BY DEF Right
<1>7. Good(t, r.tree, slip \cup r.slip)
  BY <1>6, GoodThen
<1>8. CASE r.ok /\ r.tree[r.id].name # name
  <2>1. TreeShape(r.tree) /\ r.id \in Rows(r.tree)
    BY <1>6, <1>8 DEF Good
  <2>2. Right(r.tree, e)
    BY <2>1, RenameRight DEF e
  <2>3. Good(r.tree, q.tree, q.slip)
    BY <1>4, <1>8, <2>2 DEF Right
  <2>4. Good(t, q.tree, (slip \cup r.slip) \cup q.slip)
    BY <1>7, <2>3, GoodThen
  <2> QED BY <1>5, <2>4, GoodMore
<1>9. CASE ~(r.ok /\ r.tree[r.id].name # name)
  <2>1. q = r
    BY <1>4, <1>9
  <2> QED BY <1>5, <1>7, <2>1, GoodMore
<1> QED BY <1>8, <1>9

LEMMA DavMoveGood ==
    ASSUME NEW t, TreeShape(t), NEW i \in Rows(t), NEW d \in PathT, NEW name \in NameT,
           NEW c, c = ClearWay(t, i, d), NEW g, g = GiveName(MoveEntry(c.tree, i, Upper(d)), name, c.slip)
    PROVE  Good(t, g.tree, g.slip)
<1>1. Good(t, c.tree, c.slip) /\ i \in Rows(c.tree)
  BY ClearWayGood
<1> DEFINE r == MoveEntry(c.tree, i, Upper(d))
<1>2. Right(c.tree, r) /\ Answer(r)
  BY <1>1, UpperType, MoveRight, MoveAnswer DEF Good
<1> HIDE DEF r
<1> QED BY <1>1, <1>2, GiveNameGood DEF r

LEMMA DavCopyGood ==
    ASSUME NEW t, TreeShape(t), NEW i \in Rows(t), NEW d \in PathT, NEW name \in NameT,
           NEW c, c = ClearWay(t, i, d), NEW g, g = GiveName(CopyEntry(c.tree, i, Upper(d)), name, c.slip)
    PROVE  Good(t, g.tree, g.slip)
<1>1. Good(t, c.tree, c.slip) /\ i \in Rows(c.tree)
  BY ClearWayGood
<1> DEFINE r == CopyEntry(c.tree, i, Upper(d))
<1>2. Right(c.tree, r) /\ Answer(r)
  BY <1>1, UpperType, CopyRight, CopyAnswerIs DEF Good
<1> HIDE DEF r
<1> QED BY <1>1, <1>2, GiveNameGood DEF r

-----------------------------------------------------------------------------
(* Uploads *)

\* An upload that has begun remembers a folder, and its path, or the root, and the
\* file it is to replace.
UploadT == [on : BOOLEAN, parent : Nat, path : PathT, name : NameT, replaces : Nat]
Remembers(t, x) ==
    /\ x \in UploadT /\ x.parent <= Len(t) /\ x.replaces <= Len(t)
    /\ (x.parent = Root => x.path = <<>>) /\ (x.parent # Root => t[x.parent].folder)
    /\ (x.replaces # Root => ~t[x.replaces].folder)

LEMMA NoUploadRemembers ==
    ASSUME NEW t, TreeShape(t)
    PROVE  Remembers(t, NoUpload)
<1>1. <<>> \in PathT /\ <<>> \in NameT /\ Len(t) \in Nat
  BY DEF PathT, NameT, TreeShape
<1> QED BY <1>1 DEF Remembers, NoUpload, UploadT, Root

LEMMA StillRemembers ==
    ASSUME NEW t, TreeShape(t), NEW u, TreeShape(u), Keeps(t, u), NEW x, Remembers(t, x)
    PROVE  Remembers(u, x)
<1>1. Len(t) \in Nat /\ Len(u) \in Nat /\ DOMAIN t = 1..Len(t) /\ Len(t) <= Len(u)
  BY DEF TreeShape, Keeps
<1>2. x.parent \in Nat /\ x.replaces \in Nat /\ x.parent <= Len(t) /\ x.replaces <= Len(t)
  BY DEF Remembers, UploadT
<1>3. x.parent # Root => u[x.parent].folder = t[x.parent].folder
  BY <1>1, <1>2 DEF Keeps, Root
<1>4. x.replaces # Root => u[x.replaces].folder = t[x.replaces].folder
  BY <1>1, <1>2 DEF Keeps, Root
<1> QED BY <1>1, <1>2, <1>3, <1>4 DEF Remembers

Session(f, path, name, i) == [on |-> TRUE, parent |-> f.id, path |-> path, name |-> name, replaces |-> i]

\* What begin() remembers is so.
LEMMA SessionRemembers ==
    ASSUME NEW t, NEW path \in PathT, NEW f, Walked(t, path, f), f.ok, NEW name \in NameT, NEW i \in 0..Len(f.tree),
           i # Root => ~f.tree[i].folder
    PROVE  Remembers(f.tree, Session(f, path, name, i))
<1> DEFINE u == f.tree
           x == Session(f, path, name, i)
<1>1. Place(u, f.id, path) /\ TreeShape(u) /\ f.id \in Nat /\ f.id <= Len(u) /\ Len(u) \in Nat
  BY DEF Walked, Walk, TreeShape
<1>2. /\ x \in UploadT /\ x.parent = f.id /\ x.path = path /\ x.replaces = i
  BY <1>1 DEF Session, UploadT
<1> HIDE DEF x
<1>3. Root \notin LiveRows(u)
  BY <1>1 DEF LiveRows, Rows, Root, TreeShape
<1> QED BY <1>1, <1>2, <1>3 DEF Remembers, Place, x

LEMMA AddFileGood ==
    ASSUME NEW t, NEW path \in PathT, NEW f, Walked(t, path, f), f.ok, NEW n \in NameT, NEW u, u = AddFileIn(f, n)
    PROVE  Good(f.tree, u, {})
<1> DEFINE w == f.tree
           name == UniqueNameIn(w, f.id, n)
           r == Row(f.id, name, Append(path, name), FALSE)
<1>1. Place(w, f.id, path) /\ TreeShape(w) /\ f.id \in Nat
  BY DEF Walked, Walk
<1>2. PathOf(w, f.id) = path /\ f.id \in 0..Len(w)
  BY <1>1, PlacePath
<1>3. u = Append(w, r)
  BY <1>2 DEF AddFileIn
<1> HIDE DEF w
<1>4. name \in NameT /\ InFolder(w, f.id, name) = {}
  BY <1>1, FreeName
<1> HIDE DEF name
<1>5. Append(path, name) \in PathT
  BY <1>4, PathAppend
<1>6. r \in RowT /\ r.on /\ r.parent = f.id
  BY <1>1, <1>4, <1>5 DEF Row, RowT
<1>7. Sound(w) => Sound(Append(w, r))
  <2>1. FALSE \in BOOLEAN
    OBVIOUS
  <2> QED BY <1>1, <1>4, <2>1, AddSound
<1> HIDE DEF r
<1>8. TreeShape(u) /\ Grown(w, u)
  BY <1>1, <1>2, <1>3, <1>6, RowMore
<1> QED BY <1>3, <1>7, <1>8 DEF Good, Keeps, Grown, w

BeginRight(t, b) == Good(t, b.tree, {}) /\ Remembers(b.tree, b.upload)

LEMMA BegunRight ==
    ASSUME NEW t, TreeShape(t), NEW path \in PathT, NEW f, Walked(t, path, f), f.ok, NEW n \in NameT,
           NEW alike, alike \subseteq {j \in LiveRows(t) : ~t[j].folder},
           NEW b \in Begun(f, path, n, alike)
    PROVE  BeginRight(t, b)
<1> DEFINE u == f.tree
           hit == InFolder(u, f.id, n)
           same == {i \in {Least(hit) : h \in hit} : ~u[i].folder}
           Has(name, i) == b = [tree |-> u, upload |-> Session(f, path, name, i)]
<1>1. TreeShape(u) /\ Grown(t, u) /\ Good(t, u, {}) /\ Len(u) \in Nat /\ DOMAIN u = 1..Len(u)
  <2>1. TreeShape(u) /\ Grown(t, u)
    BY DEF Walked
  <2>2. Good(t, u, {})
    BY WalkedGood
  <2> QED BY <2>1, <2>2 DEF TreeShape
<1>2. \/ Has(n, Root)
      \/ Has(UniqueNameIn(u, f.id, n), Root)
      \/ b = [tree |-> AddFileIn(f, n), upload |-> NoUpload]
      \/ \E i \in same \cup alike : Has(n, i)
  BY DEF Begun, Session
<1>3. UniqueNameIn(u, f.id, n) \in NameT
  BY <1>1, FreeName
<1>4. ASSUME NEW i \in same PROVE i \in DOMAIN u /\ ~u[i].folder
  <2>1. hit # {} /\ i = Least(hit) /\ ~u[i].folder
    OBVIOUS
  <2>2. hit \in SUBSET Nat /\ hit \subseteq DOMAIN u
    BY <1>1 DEF InFolder, LiveRows, Rows
  <2> HIDE DEF hit
  <2> QED BY <2>1, <2>2, LeastIs
<1>5. ASSUME NEW i \in alike PROVE i \in DOMAIN u /\ ~u[i].folder
  <2>1. i \in LiveRows(t) /\ i \in DOMAIN t /\ ~t[i].folder
    BY DEF LiveRows, Rows
  <2>2. u[i] = t[i] /\ i \in DOMAIN u
    BY <1>1, <2>1 DEF Grown, TreeShape
  <2> QED BY <2>1, <2>2
<1>6. ASSUME NEW name \in NameT, NEW i \in 0..Len(u), i # Root => ~u[i].folder, Has(name, i) PROVE BeginRight(t, b)
  <2>1. Remembers(u, Session(f, path, name, i))
    BY <1>6, SessionRemembers
  <2>2. b.tree = u /\ b.upload = Session(f, path, name, i)
    BY <1>6
  <2> QED BY <1>1, <2>1, <2>2 DEF BeginRight
<1>7. CASE b = [tree |-> AddFileIn(f, n), upload |-> NoUpload]
  <2>1. PICK v : v = AddFileIn(f, n)
    OBVIOUS
  <2>2. b.tree = v /\ b.upload = NoUpload
    BY <1>7, <2>1
  <2>3. Good(u, v, {})
    BY <2>1, AddFileGood
  <2>4. Good(t, v, {} \cup {})
    BY <1>1, <2>3, GoodThen
  <2>5. Good(t, v, {}) /\ TreeShape(v)
    BY <2>4 DEF Good
  <2> QED BY <2>2, <2>5, NoUploadRemembers DEF BeginRight
<1> HIDE DEF u, hit, same, Has
<1>8. Root \in 0..Len(u) /\ \A i \in DOMAIN u : i \in 0..Len(u)
  BY <1>1 DEF Root
<1> QED BY <1>2, <1>3, <1>4, <1>5, <1>6, <1>7, <1>8

\* The file an upload ends with in place of an old one, in a place where nothing else
\* has its name.
NewFile(f, p, n) == Row(f, n, Append(p, n), FALSE)

LEMMA ReplaceSound ==
    ASSUME NEW t, TreeShape(t), Sound(t), NEW f, NEW p, Place(t, f, p), NEW n \in NameT,
           NEW i \in Rows(t), ~t[i].folder, InFolder(t, f, n) \ {i} = {},
           NEW u, DOMAIN u = DOMAIN t, u[i] = NewFile(f, p, n), \A j \in DOMAIN t : j # i => u[j] = t[j]
    PROVE  Sound(u)
<1> DEFINE r == NewFile(f, p, n)
<1>1. PathOf(t, f) = p /\ f \in 0..Len(t)
  BY PlacePath
<1>2. r.on /\ r.parent = f /\ ~r.trashed /\ r.name = n /\ r.path = Append(p, n) /\ ~r.folder /\ u[i] = r
  BY DEF Row, NewFile
<1> HIDE DEF r
<1>3. f \in {Root} \cup LiveRows(t) /\ f \in {Root} \cup {j \in Rows(t) : t[j].folder} /\ f # i
  <2>1. i # Root
    BY DEF Rows, TreeShape, Root
  <2> QED BY <2>1 DEF Place, LiveRows
<1>4. Rows(u) = Rows(t)
  BY <1>2 DEF Rows
<1>5. LiveRows(u) = LiveRows(t) \cup {i}
  BY <1>2, <1>4 DEF LiveRows, Rows
<1>6. \A j \in Rows(t) : t[j].parent # i
  <2>1. i # Root
    BY DEF Rows, TreeShape, Root
  <2> QED BY <2>1 DEF Sound, Hanging
<1>7. /\ \A k : k # i /\ (k = Root \/ k \in Rows(t)) => PathOf(u, k) = PathOf(t, k)
      /\ Rows(t) \subseteq DOMAIN t /\ LiveRows(t) \subseteq Rows(t)
  BY DEF PathOf, Rows, LiveRows
<1>8. Hanging(u)
  <2> SUFFICES ASSUME NEW j \in Rows(u) PROVE u[j].parent \in {Root} \cup {k \in Rows(u) : u[k].folder}
    BY DEF Hanging
  <2>1. CASE j = i
    BY <1>2, <1>3, <1>4, <1>7, <2>1
  <2>2. CASE j # i
    <3>1. u[j] = t[j] /\ t[j].parent \in {Root} \cup {k \in Rows(t) : t[k].folder} /\ t[j].parent # i
      BY <1>4, <1>6, <1>7, <2>2 DEF Sound, Hanging
    <3> QED BY <1>4, <1>7, <3>1
  <2> QED BY <2>1, <2>2
<1>9. Placing(u)
  <2> SUFFICES ASSUME NEW j \in Rows(u) PROVE PathRight(u, j)
    BY DEF Placing
  <2>1. CASE j = i
    <3>1. PathOf(u, f) = p
      BY <1>1, <1>3, <1>7
    <3> QED BY <1>2, <2>1, <3>1 DEF PathRight
  <2>2. CASE j # i
    <3>1. u[j] = t[j] /\ PathOf(u, t[j].parent) = PathOf(t, t[j].parent)
      BY <1>4, <1>6, <1>7, <2>2 DEF Sound, Hanging
    <3> QED BY <1>4, <3>1 DEF Sound, Placing, PathRight
  <2> QED BY <2>1, <2>2
<1>10. LiveIn(u)
  BY <1>2, <1>3, <1>5, <1>7 DEF Sound, LiveIn
<1>11. OwnNames(u)
  <2>1. \A j \in LiveRows(t) : j # i => ~(t[j].parent = f /\ t[j].name = n)
    BY DEF InFolder
  <2> QED BY <1>2, <1>5, <1>7, <2>1 DEF Sound, OwnNames
<1> QED BY <1>8, <1>9, <1>10, <1>11 DEF Sound

-----------------------------------------------------------------------------
(* The tree through the requests *)

\* The tree is sound as a whole, trashed rows too, while no request has slipped, and
\* the upload that has begun remembers a folder and a file.
TreeInv ==
    /\ TreeShape(tree) /\ Len(tree) <= MaxEntries /\ requests \in 0..MaxRequests
    /\ Remembers(tree, upload) /\ (slips = {} => Sound(tree))

LEMMA TreeInvInit == TreeInit => TreeInv
<1> SUFFICES ASSUME TreeInit PROVE TreeInv
  OBVIOUS
<1>1. tree = <<>> /\ upload = NoUpload /\ requests = 0
  BY DEF TreeInit
<1>2. TreeShape(<<>>) /\ Len(<<>>) = 0 /\ DOMAIN <<>> = {}
  BY DEF TreeShape
<1>3. Sound(<<>>)
  BY <1>2 DEF Sound, Hanging, Placing, LiveIn, OwnNames, LiveRows, Rows
<1>4. Len(tree) <= MaxEntries /\ requests \in 0..MaxRequests
  BY <1>1, <1>2, TreeAssumption
<1> QED BY <1>1, <1>2, <1>3, <1>4, NoUploadRemembers DEF TreeInv

LEMMA GoodStep ==
    ASSUME TreeInv, NEW u, NEW slip, Good(tree, u, slip), NEW x, Remembers(u, x), Len(u) <= MaxEntries,
           tree' = u, slips' = slips \cup slip, upload' = x, requests' \in 0..MaxRequests
    PROVE  TreeInv'
<1>1. TreeShape(u) /\ (slips' = {} => Sound(u))
  BY DEF TreeInv, Good
<1>2. TreeShape(tree') /\ Len(tree') <= MaxEntries /\ requests' \in 0..MaxRequests /\ Remembers(tree', upload')
  BY <1>1
<1>3. slips' = {} => Sound(tree')
  BY <1>1
<1> QED BY <1>2, <1>3 DEF TreeInv

LEMMA ServeInv ==
    ASSUME TreeInv, NEW results, \A r \in results : Good(tree, r.tree, r.slip), Serve(results)
    PROVE  TreeInv'
<1>1. PICK r \in results : Len(r.tree) <= MaxEntries /\ tree' = r.tree /\ slips' = slips \cup r.slip
  BY DEF Serve
<1>2. requests' \in 0..MaxRequests /\ upload' = upload
  BY TreeAssumption DEF TreeInv, Serve
<1> DEFINE u == r.tree
           slip == r.slip
<1>3. Good(tree, u, slip) /\ Len(u) <= MaxEntries /\ tree' = u /\ slips' = slips \cup slip
  BY <1>1
<1> HIDE DEF u, slip
<1>4. Remembers(u, upload)
  <2>1. TreeShape(tree) /\ Remembers(tree, upload) /\ TreeShape(u) /\ Keeps(tree, u)
    BY <1>3 DEF TreeInv, Good
  <2> QED BY <2>1, StillRemembers
<1> QED BY <1>2, <1>3, <1>4, GoodStep

One(n) == <<n>>

\* What a client names has the form of a path.
LEMMA PathsNamed ==
    ASSUME TreeInv
    PROVE  /\ KnownPaths \subseteq PathT /\ NewPaths \subseteq PathT
           /\ \A n \in Names : One(n) \in NameT
           /\ \A d \in NewPaths \ {<<>>} : d[Len(d)] \in NameT
           /\ LiveRows(tree) \subseteq Rows(tree)
<1>1. \A n \in Names : One(n) \in NameT
  BY DEF NameT, One
<1>2. TreeShape(tree) /\ <<>> \in PathT
  BY DEF TreeInv, PathT
<1>3. \A i \in LiveRows(tree) : tree[i].path \in PathT
  <2>1. \A i \in DOMAIN tree : tree[i] \in RowT
    BY <1>2, ShapeRow
  <2> QED BY <2>1 DEF LiveRows, Rows, RowT
<1>4. KnownPaths \subseteq PathT
  BY <1>2, <1>3 DEF KnownPaths
<1>5. NewPaths \subseteq PathT
  <2> DEFINE more == {Append(p, One(n)) : p \in KnownPaths, n \in Names}
  <2>2. ASSUME NEW x \in more PROVE x \in PathT
    <3>1. PICK p \in KnownPaths, n \in Names : x = Append(p, One(n))
      OBVIOUS
    <3>2. p \in PathT /\ One(n) \in NameT
      BY <1>1, <1>4
    <3> QED BY <3>1, <3>2, PathAppend
  <2> HIDE DEF more
  <2>3. NewPaths = KnownPaths \cup more
    BY DEF NewPaths, more, One
  <2> QED BY ONLY <1>4, <2>2, <2>3
<1>6. \A d \in PathT : d # <<>> => d[Len(d)] \in NameT
  BY DEF PathT
<1> QED BY <1>1, <1>4, <1>5, <1>6 DEF LiveRows

LEMMA RightGood ==
    ASSUME NEW t, NEW r, Right(t, r)
    PROVE  Good(t, r.tree, r.slip)
BY DEF Right

LEMMA BeginInv ==
    ASSUME TreeInv, BeginUpload
    PROVE  TreeInv'
<1>1. PICK p \in KnownPaths, n \in Names,
           alike \in {{}} \cup {{i} : i \in {j \in LiveRows(tree) : ~tree[j].folder}} :
           \E f \in {EnsureFolder(tree, p)} :
              /\ f.ok
              /\ \E u \in Begun(f, p, <<n>>, alike) :
                    Len(u.tree) <= MaxEntries /\ tree' = u.tree /\ upload' = u.upload
  BY DEF BeginUpload
<1>2. PICK f : f = EnsureFolder(tree, p) /\ f.ok /\ \E u \in Begun(f, p, <<n>>, alike) :
                    Len(u.tree) <= MaxEntries /\ tree' = u.tree /\ upload' = u.upload
  BY <1>1
<1>3. PICK b \in Begun(f, p, <<n>>, alike) : Len(b.tree) <= MaxEntries /\ tree' = b.tree /\ upload' = b.upload
  BY <1>2
<1>4. p \in PathT /\ <<n>> \in NameT /\ TreeShape(tree)
  BY PathsNamed DEF TreeInv, One
<1>5. Walked(tree, p, f)
  BY <1>2, <1>4, EnsureFolderIs
<1>6. alike \subseteq {j \in LiveRows(tree) : ~tree[j].folder}
  OBVIOUS
<1>7. BeginRight(tree, b)
  <2> DEFINE name == <<n>>
  <2>1. name \in NameT /\ b \in Begun(f, p, name, alike) /\ f.ok
    BY <1>2, <1>3, <1>4
  <2> HIDE DEF name
  <2> QED BY <1>4, <1>5, <1>6, <2>1, BegunRight
<1>8. slips' = slips \cup {} /\ requests' \in 0..MaxRequests
  BY TreeAssumption DEF BeginUpload, TreeInv
<1> DEFINE u == b.tree
           x == b.upload
<1>9. Good(tree, u, {}) /\ Remembers(u, x) /\ Len(u) <= MaxEntries /\ tree' = u /\ upload' = x
  BY <1>3, <1>7 DEF BeginRight
<1> HIDE DEF u, x
<1> QED BY <1>8, <1>9, GoodStep

LEMMA FinishInv ==
    ASSUME TreeInv, FinishUpload
    PROVE  TreeInv'
<1> DEFINE f == upload.parent
           p == upload.path
           n == upload.name
           i == upload.replaces
           row == Row(f, n, Append(p, n), FALSE)
           old == Rows(tree) \cap {i}
           away == f # Root /\ (f \notin LiveRows(tree) \/ tree[f].path # p)
           slip == (IF away THEN {"folder gone"} ELSE {})
                   \cup (IF InFolder(tree, f, n) \ old # {} THEN {"name taken"} ELSE {})
<1>1. /\ old # {} => tree' = [j \in DOMAIN tree |-> IF j \in old THEN row ELSE tree[j]]
      /\ old = {} => Len(tree) < MaxEntries /\ tree' = Append(tree, row)
      /\ slips' = slips \cup slip /\ upload' = NoUpload /\ requests' = requests
  BY DEF FinishUpload
<1>2. /\ TreeShape(tree) /\ Len(tree) <= MaxEntries /\ requests \in 0..MaxRequests /\ (slips = {} => Sound(tree))
      /\ Len(tree) \in Nat /\ DOMAIN tree = 1..Len(tree)
  BY DEF TreeInv, TreeShape
<1>3. /\ f \in Nat /\ f <= Len(tree) /\ p \in PathT /\ n \in NameT
      /\ (f = Root => p = <<>>) /\ (f # Root => tree[f].folder) /\ (i # Root => ~tree[i].folder)
  BY DEF TreeInv, Remembers, UploadT
<1>4. slip = {} => Place(tree, f, p) /\ InFolder(tree, f, n) \ old = {}
  BY <1>3 DEF Place
<1> HIDE DEF f, p, n, i, slip
<1>5. Append(p, n) \in PathT
  BY <1>3, PathAppend
<1>6. row \in RowT /\ row.on /\ row.parent = f /\ ~row.folder
  BY <1>3, <1>5 DEF Row, RowT
<1>7. PICK r : r = row
  OBVIOUS
<1> HIDE DEF row
<1>8. CASE old = {}
  <2>1. tree' = Append(tree, r) /\ Len(tree) < MaxEntries
    BY <1>1, <1>7, <1>8
  <2>2. PICK u : u = Append(tree, r)
    OBVIOUS
  <2>3. TreeShape(u) /\ Grown(tree, u) /\ Len(u) = Len(tree) + 1
    BY <1>2, <1>3, <1>6, <1>7, <2>2, RowMore
  <2>4. Sound(tree) /\ slip = {} => Sound(u)
    <3> SUFFICES ASSUME Sound(tree), slip = {} PROVE Sound(u)
      OBVIOUS
    <3>1. InFolder(tree, f, n) = {} /\ FALSE \in BOOLEAN /\ Place(tree, f, p)
      BY <1>4, <1>8
    <3>2. Sound(Append(tree, Row(f, n, Append(p, n), FALSE)))
      BY <1>2, <1>3, <3>1, AddSound
    <3> QED BY <1>7, <2>2, <3>2 DEF row
  <2>5. Good(tree, u, slip) /\ Len(u) <= MaxEntries
    BY <1>2, <2>1, <2>3, <2>4, TreeAssumption DEF Good, Keeps, Grown
  <2>6. Remembers(u, NoUpload)
    BY <2>3, NoUploadRemembers
  <2> QED BY <1>1, <1>2, <2>1, <2>2, <2>5, <2>6, GoodStep
<1>9. CASE old # {}
  <2>1. i \in Rows(tree) /\ old = {i}
    BY <1>9
  <2>2. i \in DOMAIN tree /\ i # Root
    BY <1>2, <2>1 DEF Rows, Root
  <2>3. PICK u : u = [j \in DOMAIN tree |-> IF j \in old THEN r ELSE tree[j]]
    OBVIOUS
  <2>4. tree' = u
    BY <1>1, <1>7, <1>9, <2>3
  <2>5. DOMAIN u = DOMAIN tree /\ u[i] = r /\ \A j \in DOMAIN tree : j # i => u[j] = tree[j]
    BY <2>1, <2>2, <2>3
  <2>6. TreeShape(u) /\ Len(u) = Len(tree)
    <3>1. u = [j \in 1..Len(tree) |-> u[j]]
      BY <1>2, <2>3
    <3>2. \A j \in 1..Len(tree) : u[j] \in RowT /\ u[j].parent <= Len(tree)
      <4>1. \A j \in DOMAIN tree : tree[j] \in RowT /\ tree[j].parent <= Len(tree)
        BY <1>2 DEF TreeShape
      <4> QED BY <1>2, <1>3, <1>6, <1>7, <2>5, <4>1
    <3> QED BY <1>2, <2>5, <3>1, <3>2, ShapeBuilt
  <2>7. Sound(tree) /\ slip = {} => Sound(u)
    <3> SUFFICES ASSUME Sound(tree), slip = {} PROVE Sound(u)
      OBVIOUS
    <3>1. InFolder(tree, f, n) \ {i} = {} /\ Place(tree, f, p) /\ ~tree[i].folder
      BY <1>3, <1>4, <2>1, <2>2
    <3>2. u[i] = NewFile(f, p, n)
      BY <1>7, <2>5 DEF row, NewFile
    <3>3. TreeShape(tree) /\ n \in NameT /\ i \in Rows(tree)
      BY <1>2, <1>3, <2>1
    <3>4. \A j \in DOMAIN tree : j # i => u[j] = tree[j]
      BY <2>5
    <3>5. DOMAIN u = DOMAIN tree
      BY <2>5
    <3> QED BY ONLY Sound(tree), <3>1, <3>2, <3>3, <3>4, <3>5, ReplaceSound
  <2>8. Keeps(tree, u)
    <3>1. ~u[i].folder /\ ~tree[i].folder /\ r \in RowT /\ tree[i] \in RowT
      BY <1>2, <1>3, <1>6, <1>7, <2>2, <2>5, ShapeRow
    <3>2. u[i].folder = tree[i].folder
      BY <2>5, <3>1 DEF RowT
    <3> QED BY <1>2, <2>5, <2>6, <3>2 DEF Keeps
  <2>9. Good(tree, u, slip) /\ Len(u) <= MaxEntries
    BY <1>2, <2>6, <2>7, <2>8 DEF Good
  <2>10. Remembers(u, NoUpload)
    BY <2>6, NoUploadRemembers
  <2> QED BY <1>1, <1>2, <2>4, <2>9, <2>10, GoodStep
<1> QED BY <1>8, <1>9

LEMMA TreeInvStep ==
    ASSUME TreeInv, [TreeNext]_treeVars
    PROVE  TreeInv'
<1>1. TreeShape(tree) /\ LiveRows(tree) \subseteq Rows(tree)
  BY PathsNamed DEF TreeInv
<1>2. /\ KnownPaths \subseteq PathT /\ NewPaths \subseteq PathT
      /\ \A n \in Names : One(n) \in NameT
      /\ \A d \in NewPaths \ {<<>>} : d[Len(d)] \in NameT
  BY PathsNamed
<1>3. DavRows \subseteq Rows(tree)
  BY <1>1 DEF DavRows
<1>4. CASE CreateFolder
  <2> DEFINE R == {CreateFolderIn(tree, p, One(n)) : p \in NewPaths, n \in Names}
  <2>1. \A r \in R : Good(tree, r.tree, r.slip)
    BY <1>1, <1>2, CreateRight, RightGood
  <2>2. Serve(R)
    BY <1>4 DEF CreateFolder, One
  <2> HIDE DEF R
  <2> QED BY <2>1, <2>2, ServeInv
<1>5. CASE BeginUpload
  BY <1>5, BeginInv
<1>6. CASE FinishUpload
  BY <1>6, FinishInv
<1>7. CASE CancelUpload
  <2>1. /\ tree' = tree /\ slips' = slips \cup {} /\ upload' = NoUpload /\ requests' \in 0..MaxRequests
        /\ Len(tree) <= MaxEntries
    BY <1>7 DEF CancelUpload, TreeInv
  <2>2. Good(tree, tree, {}) /\ Remembers(tree, NoUpload)
    BY <1>1, GoodItself, NoUploadRemembers
  <2> QED BY <2>1, <2>2, GoodStep
<1>8. CASE Rename
  <2> DEFINE R == {RenameEntry(tree, i, One(n)) : i \in Rows(tree), n \in Names}
  <2>1. \A r \in R : Good(tree, r.tree, r.slip)
    BY <1>1, <1>2, RenameRight, RightGood
  <2>2. Serve(R)
    BY <1>8 DEF Rename, One
  <2> HIDE DEF R
  <2> QED BY <2>1, <2>2, ServeInv
<1>9. CASE Move
  <2> DEFINE R == {MoveEntry(tree, i, p) : i \in Rows(tree), p \in KnownPaths}
  <2>1. \A r \in R : Good(tree, r.tree, r.slip)
    BY <1>1, <1>2, MoveRight, RightGood
  <2>2. Serve(R)
    BY <1>9 DEF Move
  <2> HIDE DEF R
  <2> QED BY <2>1, <2>2, ServeInv
<1>10. CASE Copy
  <2> DEFINE R == {CopyEntry(tree, i, p) : i \in Rows(tree), p \in KnownPaths}
  <2>1. \A r \in R : Good(tree, r.tree, r.slip)
    BY <1>1, <1>2, CopyRight, RightGood
  <2>2. Serve(R)
    BY <1>10 DEF Copy
  <2> HIDE DEF R
  <2> QED BY <2>1, <2>2, ServeInv
<1>11. CASE Trash
  <2> DEFINE R == {TrashEntry(tree, i) : i \in Rows(tree)}
  <2>1. \A r \in R : Good(tree, r.tree, r.slip)
    BY <1>1, TrashRight, RightGood
  <2>2. Serve(R)
    BY <1>11 DEF Trash
  <2> HIDE DEF R
  <2> QED BY <2>1, <2>2, ServeInv
<1>12. CASE Restore
  <2> DEFINE R == {RestoreEntry(tree, i) : i \in Rows(tree)}
  <2>1. \A r \in R : Good(tree, r.tree, r.slip)
    BY <1>1, RestoreRight, RightGood
  <2>2. Serve(R)
    BY <1>12 DEF Restore
  <2> HIDE DEF R
  <2> QED BY <2>1, <2>2, ServeInv
<1>13. CASE Purge
  <2> DEFINE R == {PurgeEntries(tree, {i}) : i \in Rows(tree)}
  <2>1. \A i \in Rows(tree) : {i} \in SUBSET Rows(tree)
    OBVIOUS
  <2>2. \A r \in R : Good(tree, r.tree, r.slip)
    BY <1>1, <2>1, PurgeGood
  <2>3. Serve(R)
    BY <1>13 DEF Purge
  <2> HIDE DEF R
  <2> QED BY <2>2, <2>3, ServeInv
<1>14. CASE EmptyTrash
  <2> DEFINE R == {PurgeEntries(tree, S) : S \in SUBSET TrashRoots(tree) \ {{}}}
  <2>1. \A S \in SUBSET TrashRoots(tree) \ {{}} : S \in SUBSET Rows(tree)
    BY DEF TrashRoots
  <2>2. \A r \in R : Good(tree, r.tree, r.slip)
    BY <1>1, <2>1, PurgeGood
  <2>3. Serve(R)
    BY <1>14 DEF EmptyTrash
  <2> HIDE DEF R
  <2> QED BY <2>2, <2>3, ServeInv
<1>15. CASE Mkcol
  <2> DEFINE P == {x \in NewPaths \ {<<>>} : AtPath(tree, x) = {}}
             R == {CreateFolderIn(tree, Upper(p), p[Len(p)]) : p \in P}
  <2>1. \A p \in P : Upper(p) \in PathT /\ p[Len(p)] \in NameT
    BY <1>2, UpperType
  <2>2. Serve(R)
    BY <1>15 DEF Mkcol
  <2> HIDE DEF P
  <2>3. \A r \in R : Good(tree, r.tree, r.slip)
    BY <1>1, <2>1, CreateRight, RightGood
  <2> HIDE DEF R
  <2> QED BY <2>2, <2>3, ServeInv
<1>16. CASE DavDelete
  <2> DEFINE R == {TrashEntry(tree, i) : i \in DavRows}
  <2>1. \A r \in R : Good(tree, r.tree, r.slip)
    BY <1>1, <1>3, TrashRight, RightGood
  <2>2. Serve(R)
    BY <1>16 DEF DavDelete
  <2> HIDE DEF R
  <2> QED BY <2>1, <2>2, ServeInv
<1>17. CASE DavMove
  <2>1. PICK i \in DavRows, d \in NewPaths \ {<<>>} :
            \E u \in {ClearWay(tree, i, d)} : \E r \in {MoveEntry(u.tree, i, Upper(d))} :
                Serve({GiveName(r, d[Len(d)], u.slip)})
    BY <1>17 DEF DavMove
  <2>2. PICK c : c = ClearWay(tree, i, d) /\ \E r \in {MoveEntry(c.tree, i, Upper(d))} : Serve({GiveName(r, d[Len(d)], c.slip)})
    BY <2>1
  <2> DEFINE name == d[Len(d)]
  <2>3. PICK g : g = GiveName(MoveEntry(c.tree, i, Upper(d)), name, c.slip) /\ Serve({g})
    BY <2>2
  <2>4. d \in PathT /\ name \in NameT /\ i \in Rows(tree)
    BY <1>2, <1>3
  <2> HIDE DEF name
  <2>5. Good(tree, g.tree, g.slip)
    BY <1>1, <2>2, <2>3, <2>4, DavMoveGood
  <2> QED BY <2>3, <2>5, ServeInv
<1>18. CASE DavCopy
  <2>1. PICK i \in DavRows, d \in NewPaths \ {<<>>} :
            \E u \in {ClearWay(tree, i, d)} : \E r \in {CopyEntry(u.tree, i, Upper(d))} :
                Serve({GiveName(r, d[Len(d)], u.slip)})
    BY <1>18 DEF DavCopy
  <2>2. PICK c : c = ClearWay(tree, i, d) /\ \E r \in {CopyEntry(c.tree, i, Upper(d))} : Serve({GiveName(r, d[Len(d)], c.slip)})
    BY <2>1
  <2> DEFINE name == d[Len(d)]
  <2>3. PICK g : g = GiveName(CopyEntry(c.tree, i, Upper(d)), name, c.slip) /\ Serve({g})
    BY <2>2
  <2>4. d \in PathT /\ name \in NameT /\ i \in Rows(tree)
    BY <1>2, <1>3
  <2> HIDE DEF name
  <2>5. Good(tree, g.tree, g.slip)
    BY <1>1, <2>2, <2>3, <2>4, DavCopyGood
  <2> QED BY <2>3, <2>5, ServeInv
<1>19. CASE UNCHANGED treeVars
  BY <1>19 DEF treeVars, TreeInv
<1> QED BY <1>4, <1>5, <1>6, <1>7, <1>8, <1>9, <1>10, <1>11, <1>12, <1>13, <1>14, <1>15, <1>16, <1>17, <1>18, <1>19 DEF TreeNext

LEMMA TreeInvSpec == TreeSpec => []TreeInv
<1>1. TreeInit => TreeInv
  BY TreeInvInit
<1>2. TreeInv /\ [TreeNext]_treeVars => TreeInv'
  BY TreeInvStep
<1> QED BY <1>1, <1>2, PTL DEF TreeSpec

\* The rows of the tree stay well formed whatever is asked: parents are rows that there
\* have been, names and paths are built of names and numbers.
THEOREM TreeTyped == TreeSpec => []TreeTypeOK
<1>1. TreeInv => TreeTypeOK
  <2> SUFFICES ASSUME TreeInv PROVE TreeTypeOK
    OBVIOUS
  <2>1. Len(tree) <= MaxEntries /\ requests \in 0..MaxRequests /\ TreeShape(tree)
    BY DEF TreeInv
  <2>2. ASSUME NEW i \in Rows(tree)
        PROVE  /\ tree[i].parent \in 0..Len(tree) /\ tree[i].name \in Seq(Names \cup Nat)
               /\ tree[i].path \in Seq(Seq(Names \cup Nat))
    <3>1. tree[i] \in RowT /\ tree[i].parent \in 0..Len(tree)
      BY <2>1, ShapeRow DEF Rows
    <3> QED BY <3>1 DEF RowT, NameT, PathT
  <2> QED BY <2>1, <2>2 DEF TreeTypeOK
<1> QED BY <1>1, TreeInvSpec, PTL

\* Whatever requests come, in whatever order, of the web page or of WebDAV, an upload
\* begun before them and ended after them: as long as none of those known to do it has
\* come, every live entry is where its path says, and has its name for itself.
THEOREM TreeStaysSound == TreeSpec => []TreeSound
<1>1. TreeInv => TreeSound
  <2> SUFFICES ASSUME TreeInv, slips = {} PROVE
          /\ \A i \in LiveRows(tree) :
                /\ tree[i].parent \in {Root} \cup {j \in LiveRows(tree) : tree[j].folder}
                /\ tree[i].path = Append(PathOf(tree, tree[i].parent), tree[i].name)
          /\ \A i, j \in LiveRows(tree) :
                tree[i].parent = tree[j].parent /\ tree[i].name = tree[j].name => i = j
    BY DEF TreeSound
  <2>1. Hanging(tree) /\ Placing(tree) /\ LiveIn(tree) /\ OwnNames(tree)
    BY DEF TreeInv, Sound
  <2>2. ASSUME NEW i \in LiveRows(tree)
        PROVE  /\ tree[i].parent \in {Root} \cup {j \in LiveRows(tree) : tree[j].folder}
               /\ tree[i].path = Append(PathOf(tree, tree[i].parent), tree[i].name)
    <3>1. i \in Rows(tree)
      BY DEF LiveRows
    <3> QED BY <2>1, <3>1 DEF Hanging, Placing, PathRight, LiveIn
  <2> QED BY <2>1, <2>2 DEF OwnNames
<1> QED BY <1>1, TreeInvSpec, PTL

\* move() puts no folder inside itself, and no other request does, as long as paths
\* are right: its check compares paths, and what is below a folder has a longer one.
\* (With wrong paths it fails, see NoFolderInsideItself.)
THEOREM FoldersStayOutOfThemselves == TreeSpec => [](slips = {} => NoFolderInsideItself)
<1>1. TreeInv => (slips = {} => NoFolderInsideItself)
  <2> SUFFICES ASSUME TreeInv, slips = {}, NEW i \in Rows(tree), i \in Below(tree, i) PROVE FALSE
    BY DEF NoFolderInsideItself
  <2>1. TreeShape(tree) /\ Hanging(tree) /\ Placing(tree)
    BY DEF TreeInv, Sound
  <2> QED BY <2>1, BelowAhead
<1> QED BY <1>1, TreeInvSpec, PTL
=============================================================================
