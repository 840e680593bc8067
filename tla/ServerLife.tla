----------------------------- MODULE ServerLife -----------------------------
(***************************************************************************)
(* App::start() and stop() with the threads in between: the acceptor and   *)
(* the workers of HttpServer, the background thread and the thread that    *)
(* connects the accounts, over the components they use.                    *)
(*                                                                         *)
(* Handlers are only known by what they use, and requests on a connection  *)
(* by how many a client still makes (HttpConnection has what is in them).  *)
(***************************************************************************)
EXTENDS Integers, Sequences, FiniteSets

CONSTANTS
    Workers,      \* worker threads
    Clients,      \* connections
    QueueLimit,   \* pending_ is not let grow once it is longer than this (4096)
    Asks,         \* BOUND: requests a client makes before it falls silent
    Rounds        \* BOUND: tasks of the background thread

ASSUME ServerAssumption == QueueLimit \in Nat /\ Asks \in Nat /\ Rounds \in Nat

VARIABLES
    main,       \* where start() or stop() is
    running,    \* App::running_
    listening,  \* the listener is open
    serverOn,   \* HttpServer::running_
    alive,      \* components that exist; an open database
    queue,      \* pending_
    worker,     \* worker threads: [pc, on]
    acceptor,
    client,     \* connections: "far", "backlog", "queued", "held" or "closed"
    asks,       \* requests each client may still make
    background, \* the background thread
    rounds,
    connecting  \* the detached thread

serverVars == <<main, running, listening, serverOn, alive, queue, worker, acceptor, client, asks,
                background, rounds, connecting>>

-----------------------------------------------------------------------------
Components == {"db", "users", "backend", "engine", "uploads", "vfs"}

\* What the threads use while they are at work, and stop() in some of its steps: the
\* sessions still there are cancelled, which deletes what they have sent, and the pool
\* saves its keys when it disconnects and again when it goes.
HandlerUses == Components
TaskUses    == [reap |-> {"uploads", "engine", "backend", "db"}, sessions |-> {"users", "db"},
                trash |-> {"vfs", "engine", "backend", "db"}, persist |-> {"backend", "db"}]
StopUses    == [disconnectAll |-> {"backend", "db"}, uploads |-> {"engine", "backend", "db"},
                backend |-> {"db"}]

\* start(): what each step makes, and stop(): the steps in their order.
Makes  == [initDatabase |-> {"db"}, initUsers |-> {"users"}, initBackend |-> {"backend", "engine", "uploads", "vfs"}]
Starts == <<"initDatabase", "initUsers", "initBackend", "initServer", "background", "connectAll", "up">>
StopsBackendEarly == <<"joinBackground", "closeListener", "notify", "joinAcceptor", "joinWorkers", "clear",
            "disconnectAll", "backend", "uploads", "engine", "vfs", "users", "db", "stopped">>
Stops  == <<"joinBackground", "closeListener", "notify", "joinAcceptor", "joinWorkers", "clear",
            "disconnectAll", "uploads", "engine", "vfs", "users", "backend", "db", "stopped">>
After(s, x) == s[(CHOOSE k \in DOMAIN s : s[k] = x) + 1]
Within(s)   == {s[k] : k \in DOMAIN s}

ServerTypeOK ==
    /\ main \in Within(Starts) \cup Within(Stops) \cup {"failed"}
    /\ alive \subseteq Components /\ Len(queue) <= QueueLimit + 1
    /\ \A w \in Workers : worker[w].pc \in {"none", "loop", "check", "asleep", "between", "handling", "exited"}
    /\ acceptor \in {"none", "loop", "accept", "push", "exited"}
    /\ background \in {"none", "sleep", "exited"} \cup DOMAIN TaskUses
    /\ connecting \in {"none", "connect", "done"}

ServerInit ==
    /\ main = "initDatabase" /\ running = FALSE /\ listening = FALSE /\ serverOn = FALSE
    /\ alive = {} /\ queue = <<>>
    /\ worker = [w \in Workers |-> [pc |-> "none", on |-> {}]] /\ acceptor = "none"
    /\ client = [c \in Clients |-> "far"] /\ asks = [c \in Clients |-> Asks]
    /\ background = "none" /\ rounds = 0 /\ connecting = "none"

-----------------------------------------------------------------------------
(* App::start() *)

Make ==
    /\ main \in DOMAIN Makes
    /\ \/ alive' = alive \cup Makes[main] /\ main' = After(Starts, main)
       \/ main' = "failed" /\ UNCHANGED alive
    /\ UNCHANGED <<running, listening, serverOn, queue, worker, acceptor, client, asks, background,
                   rounds, connecting>>

\* HttpServer::start(): the threads run before start() is over.
StartServer ==
    /\ main = "initServer"
    /\ \/ /\ main' = "background" /\ listening' = TRUE /\ serverOn' = TRUE
          /\ worker' = [w \in Workers |-> [pc |-> "loop", on |-> {}]] /\ acceptor' = "loop"
       \/ main' = "failed" /\ UNCHANGED <<listening, serverOn, worker, acceptor>>
    /\ UNCHANGED <<running, alive, queue, client, asks, background, rounds, connecting>>

StartThreads ==
    /\ \/ main = "background" /\ running' = TRUE /\ background' = "sleep" /\ UNCHANGED connecting
       \/ main = "connectAll" /\ connecting' \in {"none", "connect"} /\ UNCHANGED <<running, background>>
    /\ main' = After(Starts, main)
    /\ UNCHANGED <<listening, serverOn, alive, queue, worker, acceptor, client, asks, rounds>>

-----------------------------------------------------------------------------
(* App::stop() *)

\* A signal, or --print-config.
Stop ==
    /\ main = "up" /\ running' = FALSE /\ main' = Stops[1]
    /\ UNCHANGED <<listening, serverOn, alive, queue, worker, acceptor, client, asks, background,
                   rounds, connecting>>

JoinBackground ==
    /\ main = "joinBackground" /\ background = "exited"
    /\ main' = After(Stops, main) /\ serverOn' = FALSE
    /\ UNCHANGED <<running, listening, alive, queue, worker, acceptor, client, asks, background,
                   rounds, connecting>>

CloseListener ==
    /\ main = "closeListener" /\ listening' = FALSE /\ main' = After(Stops, main)
    /\ client' = [c \in Clients |-> IF client[c] = "backlog" THEN "closed" ELSE client[c]]
    /\ UNCHANGED <<running, serverOn, alive, queue, worker, acceptor, asks, background, rounds, connecting>>

Woken(w) == IF worker[w].pc = "asleep" THEN [worker[w] EXCEPT !.pc = "check"] ELSE worker[w]

NotifyAll ==
    /\ main = "notify" /\ main' = After(Stops, main)
    /\ worker' = [w \in Workers |-> Woken(w)]
    /\ UNCHANGED <<running, listening, serverOn, alive, queue, acceptor, client, asks, background,
                   rounds, connecting>>

JoinServer ==
    /\ \/ main = "joinAcceptor" /\ acceptor = "exited"
       \/ main = "joinWorkers" /\ \A w \in Workers : worker[w].pc = "exited"
    /\ main' = After(Stops, main)
    /\ UNCHANGED <<running, listening, serverOn, alive, queue, worker, acceptor, client, asks,
                   background, rounds, connecting>>

ClearQueue ==
    /\ main = "clear" /\ main' = After(Stops, main) /\ queue' = <<>>
    /\ client' = [c \in Clients |-> IF client[c] = "queued" THEN "closed" ELSE client[c]]
    /\ UNCHANGED <<running, listening, serverOn, alive, worker, acceptor, asks, background, rounds, connecting>>

\* disconnectAll() leaves the pool; then the components go, one after the other.
Unmake ==
    /\ main \in Components \cup {"disconnectAll"}
    /\ alive' = alive \ {main} /\ main' = After(Stops, main)
    /\ UNCHANGED <<running, listening, serverOn, queue, worker, acceptor, client, asks, background,
                   rounds, connecting>>

-----------------------------------------------------------------------------
(* The acceptor *)

Connect(c) ==
    /\ client[c] = "far" /\ listening /\ client' = [client EXCEPT ![c] = "backlog"]
    /\ UNCHANGED <<main, running, listening, serverOn, alive, queue, worker, acceptor, asks,
                   background, rounds, connecting>>

\* accept() waits half a second for a connection.
AcceptLoop ==
    /\ \/ acceptor = "loop" /\ acceptor' = IF serverOn THEN "accept" ELSE "exited"
       \/ acceptor = "accept" /\ (~listening \/ \A c \in Clients : client[c] # "backlog") /\ acceptor' = "loop"
    /\ UNCHANGED <<main, running, listening, serverOn, alive, queue, worker, client, asks,
                   background, rounds, connecting>>

\* A connection is queued, or dropped when the queue is full; then one worker is woken.
Accept(c) ==
    /\ acceptor = "accept" /\ client[c] = "backlog" /\ listening
    /\ IF Len(queue) > QueueLimit
       THEN client' = [client EXCEPT ![c] = "closed"] /\ acceptor' = "loop" /\ UNCHANGED queue
       ELSE client' = [client EXCEPT ![c] = "queued"] /\ acceptor' = "push" /\ queue' = Append(queue, c)
    /\ UNCHANGED <<main, running, listening, serverOn, alive, worker, asks, background, rounds, connecting>>

NotifyOne ==
    /\ acceptor = "push" /\ acceptor' = "loop"
    /\ IF \A w \in Workers : worker[w].pc # "asleep" THEN UNCHANGED worker
       ELSE \E w \in Workers : worker[w].pc = "asleep" /\ worker' = [worker EXCEPT ![w] = Woken(w)]
    /\ UNCHANGED <<main, running, listening, serverOn, alive, queue, client, asks, background, rounds, connecting>>

-----------------------------------------------------------------------------
(* A worker *)

WorkerLoop(w) ==
    /\ worker[w].pc = "loop"
    /\ worker' = [worker EXCEPT ![w].pc = IF serverOn THEN "check" ELSE "exited"]
    /\ UNCHANGED <<main, running, listening, serverOn, alive, queue, acceptor, client, asks,
                   background, rounds, connecting>>

\* wait_for(): the predicate is tested under the lock; asleep until notified, or until
\* half a second is over, when it is tested once more.
Take(w) ==
    /\ worker[w].pc = "check" /\ queue # <<>>
    /\ queue' = Tail(queue) /\ client' = [client EXCEPT ![Head(queue)] = "held"]
    /\ worker' = [worker EXCEPT ![w] = [pc |-> "between", on |-> {Head(queue)}]]
    /\ UNCHANGED <<main, running, listening, serverOn, alive, acceptor, asks, background, rounds, connecting>>
Wait(w) ==
    /\ worker[w].pc = "check" /\ queue = <<>>
    /\ worker' = [worker EXCEPT ![w].pc = IF serverOn THEN "asleep" ELSE "loop"]
    /\ UNCHANGED <<main, running, listening, serverOn, alive, queue, acceptor, client, asks,
                   background, rounds, connecting>>
WaitEnds(w) ==
    /\ worker[w].pc = "asleep"
    /\ worker' = [worker EXCEPT ![w].pc = IF queue = <<>> THEN "loop" ELSE "check"]
    /\ UNCHANGED <<main, running, listening, serverOn, alive, queue, acceptor, client, asks,
                   background, rounds, connecting>>

\* handleConnection(): requests while the client makes them and the server runs.
Request(w) ==
    /\ worker[w].pc = "between" /\ serverOn
    /\ \E c \in worker[w].on : asks[c] > 0 /\ asks' = [asks EXCEPT ![c] = @ - 1]
    /\ worker' = [worker EXCEPT ![w].pc = "handling"]
    /\ UNCHANGED <<main, running, listening, serverOn, alive, queue, acceptor, client, background,
                   rounds, connecting>>
Respond1(w) ==
    /\ worker[w].pc = "handling" /\ worker' = [worker EXCEPT ![w].pc = "between"]
    /\ UNCHANGED <<main, running, listening, serverOn, alive, queue, acceptor, client, asks,
                   background, rounds, connecting>>
\* The server stops, the client closes, or it has been silent for too long.
HangUp(w) ==
    /\ worker[w].pc = "between" /\ worker' = [worker EXCEPT ![w] = [pc |-> "loop", on |-> {}]]
    /\ client' = [c \in Clients |-> IF c \in worker[w].on THEN "closed" ELSE client[c]]
    /\ UNCHANGED <<main, running, listening, serverOn, alive, queue, acceptor, asks, background,
                   rounds, connecting>>

-----------------------------------------------------------------------------
(* The background thread and the one that connects *)

BackgroundLoop ==
    /\ \/ /\ background = "sleep" /\ ~running /\ background' = "exited" /\ UNCHANGED rounds
       \/ /\ background = "sleep" /\ running /\ rounds < Rounds
          /\ rounds' = rounds + 1 /\ background' \in DOMAIN TaskUses
       \/ background \in DOMAIN TaskUses /\ background' = "sleep" /\ UNCHANGED rounds
    /\ UNCHANGED <<main, running, listening, serverOn, alive, queue, worker, acceptor, client, asks, connecting>>

ConnectAccounts ==
    /\ connecting = "connect" /\ connecting' = "done"
    /\ UNCHANGED <<main, running, listening, serverOn, alive, queue, worker, acceptor, client, asks,
                   background, rounds>>

-----------------------------------------------------------------------------
StartOrStop == Make \/ StartServer \/ StartThreads \/ JoinBackground \/ CloseListener \/ NotifyAll
               \/ JoinServer \/ ClearQueue \/ Unmake
WorkerStep(w) == WorkerLoop(w) \/ Take(w) \/ Wait(w) \/ WaitEnds(w) \/ Request(w) \/ Respond1(w) \/ HangUp(w)
AcceptorStep  == AcceptLoop \/ NotifyOne \/ \E c \in Clients : Accept(c)

ServerNext ==
    \/ StartOrStop \/ Stop \/ AcceptorStep \/ BackgroundLoop \/ ConnectAccounts
    \/ \E c \in Clients : Connect(c)
    \/ \E w \in Workers : WorkerStep(w)

\* Threads that can go on do; handlers return, silent connections time out, and so does
\* every wait.  Nobody has to stop the program, to connect, or to make a request.
ServerFairness ==
    /\ WF_serverVars(StartOrStop) /\ WF_serverVars(AcceptorStep) /\ WF_serverVars(BackgroundLoop)
    /\ \A w \in Workers : WF_serverVars(WorkerStep(w))

ServerSpec == ServerInit /\ [][ServerNext]_serverVars /\ ServerFairness

-----------------------------------------------------------------------------
(* Properties *)

\* No handler and no task of the background thread runs without a component it may
\* use, and no step of stop() without those it still needs: start() makes them before
\* the threads that use them, and stop() waits for those threads and unmakes what uses
\* before what is used.  The detached thread is the exception: nothing
\* waits for it.
UsesAlive ==
    /\ \A w \in Workers : worker[w].pc = "handling" => HandlerUses \subseteq alive
    /\ background \in DOMAIN TaskUses => TaskUses[background] \subseteq alive
    /\ main \in DOMAIN StopUses => StopUses[main] \subseteq alive

\* stop() comes to its end, and a connection in the queue is taken up by a worker or
\* closed by stop(): no notification is lost for good, no thread is waited for that
\* waits itself.
StopEnds    == main = "joinBackground" ~> main = "stopped"
QueueServed == \A c \in Clients : client[c] = "queued" ~> client[c] # "queued"
=============================================================================
