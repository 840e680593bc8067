------------------------- MODULE UploadRegistryProofs -------------------------
(***************************************************************************)
(* Proofs about UploadRegistry, for any number of clients, sessions,       *)
(* blocks, faults and crashes.  Parts 1 to 3 say what each action does to  *)
(* sessions and clients; most leave files, documents and the registry as   *)
(* they are (Tame).  Parts 4 to 6 prove the invariants of                  *)
(* UploadRegistryInv from that: Shape, then HoldInv, then BytesInv.        *)
(* t is another session, b another actor, x and y a state before and after *)
(* a step.                                                                 *)
(***************************************************************************)
EXTENDS UploadRegistryInv, SequenceTheorems, TLAPS

-----------------------------------------------------------------------------
(* Part 1: the shape of a step *)

\* The sweeper is no client, and None is no session.
LEMMA Kinds == /\ Web \subseteq Clients /\ Sweeper \notin Clients /\ None \notin Sessions
               /\ Clients \subseteq Actors /\ Sweeper \in Actors
               /\ \A a \in Actors : a \in Clients \/ a = Sweeper
BY RegistryAssumption DEF Sweeper, Actors

\* Actor a has moved, and nobody else.
Moved(a) ==
    /\ client' = [b \in Actors |-> client'[b]]
    /\ \A b \in Actors \ {a} : client'[b] = client[b]

\* Session s has become x, and no other.
Turned(s, x) ==
    /\ sess' = [t \in Sessions |-> sess'[t]]
    /\ sess'[s] = x /\ \A t \in Sessions \ {s} : sess'[t] = sess[t]

LEMMA Steps ==
    ASSUME Shape, NEW a \in Actors, NEW y, Step(a, y)
    PROVE  Moved(a) /\ client'[a] = y
<1>1. client = [b \in Actors |-> client[b]]
  BY DEF Shape
<1>. QED
  BY <1>1 DEF Step, Moved

LEMMA Changes ==
    ASSUME Shape, NEW a, NEW x, Change(a, x), client[a].s \in Sessions
    PROVE  Turned(client[a].s, x)
<1>1. sess = [s \in Sessions |-> sess[s]]
  BY DEF Shape
<1>. QED
  BY <1>1 DEF Change, Turned

\* Without a session nothing changes.
LEMMA ChangesNothing ==
    ASSUME Shape, NEW a, NEW x, Change(a, x), client[a].s \notin Sessions
    PROVE  sess' = sess
<1>1. sess = [s \in Sessions |-> sess[s]]
  BY DEF Shape
<1>. QED
  BY <1>1 DEF Change

\* Where an actor stands, and what a session is.
LEMMA HasFields ==
    ASSUME Shape
    PROVE  /\ \A a \in Actors : ClientFields(a, client[a])
           /\ \A s \in Sessions : SessionFields(sess[s])
           /\ sessions \subseteq Sessions /\ stale \subseteq Sessions
BY DEF Shape

LEMMA DataLength ==
    ASSUME NEW x, SessionFields(x)
    PROVE  Len(x.data) \in Nat /\ x.kept \in Nat /\ x.kept <= Len(x.data)
BY DEF SessionFields

\* The types of the clients after a move that keeps them.
ClientShape == client = [a \in Actors |-> client[a]] /\ \A a \in Actors : ClientFields(a, client[a])
SessShape   == sess = [s \in Sessions |-> sess[s]] /\ \A s \in Sessions : SessionFields(sess[s])

LEMMA MovedShape ==
    ASSUME Shape, NEW a \in Actors, Moved(a), ClientFields(a, client'[a]), cast' = cast
    PROVE  ClientShape'
<1>1. ASSUME NEW b \in Actors
      PROVE  ClientFields(b, client[b])'
  <2>1. ClientFields(b, client'[b])
    BY DEF Shape, Moved
  <2>. QED
    BY <2>1 DEF ClientFields
<1>. QED
  BY <1>1 DEF Moved, ClientShape

LEMMA TurnedShape ==
    ASSUME Shape, NEW s \in Sessions, NEW x, Turned(s, x), SessionFields(x)
    PROVE  SessShape'
BY DEF Shape, Turned, SessShape, SessionFields

LEMMA SameShape ==
    ASSUME Shape, sess' = sess
    PROVE  SessShape'
BY DEF Shape, SessShape, SessionFields

USE DEF EndPcs, CancelPcs, BothPcs, WebPcs, PutPcs, Before, Feeding

\* A client that has no session.
LEMMA FreshFields ==
    ASSUME NEW a \in Actors
    PROVE  ClientFields(a, FreshClient) /\ FreshClient.pc \in EndPcs /\ FreshClient.s = None
<1>. DEFINE w == CHOOSE u \in Versions : TRUE
<1>1. FreshClient = [pc |-> "off", s |-> None, v |-> w, pos |-> 0, left |-> 0, want |-> <<>>,
                     tries |-> 0]
  BY DEF FreshClient
<1>. HIDE DEF w
<1>. QED
  BY <1>1 DEF ClientRec, ClientFields, PcsOf

LEMMA OverFields ==
    ASSUME NEW a \in Actors, NEW n, NEW y, y = [FreshClient EXCEPT !.pc = "over", !.tries = n]
    PROVE  ClientFields(a, y) /\ y.pc = "over" /\ y.s = None
<1>. DEFINE w == CHOOSE u \in Versions : TRUE
<1>1. FreshClient = [pc |-> "off", s |-> None, v |-> w, pos |-> 0, left |-> 0, want |-> <<>>,
                     tries |-> 0]
  BY DEF FreshClient
<1>. HIDE DEF w
<1>. DEFINE z == [pc |-> "over", s |-> None, v |-> w, pos |-> 0, left |-> 0, want |-> <<>>, tries |-> n]
<1>2. y = z
  BY <1>1
<1>3. ClientFields(a, z) /\ z.pc = "over" /\ z.s = None
  BY DEF ClientRec, ClientFields, PcsOf
<1>. QED
  BY <1>2, <1>3, Zenon

\* What a session may not lose, and may not become, by a step of actor a that leaves
\* files, documents and the registry as they are.
TameFor(a, s, x) ==
    /\ x.owns = sess[s].owns
    /\ sess[s].cancelled => x.cancelled
    /\ x.cancelled => sess[s].cancelled \/ (client'[a].pc = "clean" /\ client'[a].s = s)
    /\ \/ /\ x.state = "none" <=> sess[s].state = "none"
          /\ x.cancelled \/ (x.state = "Completed" <=> sess[s].state = "Completed")
       \/ /\ client[a].s = s /\ client[a].pc \in {"recv", "complete", "finish"}
          /\ x.state \in {"Receiving", "Failed", "Flushing"}

TameSess(a) == SessShape' /\ \A s \in Sessions : TameFor(a, s, sess'[s])

Tame(a) ==
    /\ Moved(a) /\ ClientFields(a, client'[a]) /\ client[a].pc \notin {"clean", "erase"}
    /\ TameSess(a)
    /\ UNCHANGED <<sessions, storeVars, cast>> /\ stale' \subseteq stale
    /\ client'[a].s \in {None, client[a].s} \cup sessions \cup stale

LEMMA TameShape ==
    ASSUME Shape, NEW a \in Actors, Tame(a)
    PROVE  Shape'
<1>1. ClientShape'
  BY MovedShape DEF Tame
<1>. QED
  BY <1>1 DEF Tame, TameSess, Shape, ClientShape, SessShape, storeVars, EntryRec

\* The sessions are as they were.
LEMMA TameSame ==
    ASSUME Shape, NEW a \in Actors, sess' = sess
    PROVE  TameSess(a)
BY SameShape DEF TameFor, TameSess

\* One session has changed.
LEMMA TameTurned ==
    ASSUME Shape, NEW a \in Actors, NEW s \in Sessions, NEW x, Turned(s, x), SessionFields(x),
           TameFor(a, s, x)
    PROVE  TameSess(a)
<1>1. SessShape'
  BY TurnedShape
<1>2. \A t \in Sessions : TameFor(a, t, sess'[t])
  BY DEF Turned, TameFor
<1>. QED
  BY <1>1, <1>2 DEF TameSess

\* An actor goes on to another place with the session it has.
LEMMA GotoFields ==
    ASSUME Shape, NEW a \in Actors, NEW pc, Goto(a, pc), client[a].pc \notin EndPcs,
           pc \in PcsOf(a) \ Before, pc \in {"send", "ask", "cancel", "complete"} \/ client[a].s \in Sessions
    PROVE  /\ Moved(a) /\ ClientFields(a, client'[a])
           /\ client'[a].pc = pc /\ client'[a].s = client[a].s /\ client'[a].v = client[a].v
           /\ client'[a].pos = client[a].pos /\ client'[a].left = client[a].left
           /\ client'[a].want = client[a].want
<1>. DEFINE x == client[a]
            y == client'[a]
<1>1. /\ ClientFields(a, x) /\ x.pc \notin EndPcs /\ y = [x EXCEPT !.pc = pc] /\ Moved(a)
      /\ pc \in {"send", "ask", "cancel", "complete"} \/ x.s \in Sessions
  BY HasFields, Steps DEF Goto
<1>. HIDE DEF x, y
<1>2. /\ ClientRec(y) /\ y.pc = pc /\ y.s = x.s /\ y.v = x.v /\ y.pos = x.pos /\ y.left = x.left
      /\ y.want = x.want
  BY <1>1 DEF ClientFields, ClientRec
<1>3. ClientFields(a, y)
  BY <1>1, <1>2 DEF ClientFields
<1>. QED
  BY <1>1, <1>2, <1>3 DEF x, y

\* An actor is done.
LEMMA OverStep ==
    ASSUME Shape, NEW a \in Actors, Over(a)
    PROVE  Moved(a) /\ ClientFields(a, client'[a]) /\ client'[a].pc = "over" /\ client'[a].s = None
<1>. DEFINE y == client'[a]
<1>1. y = [FreshClient EXCEPT !.pc = "over", !.tries = client[a].tries] /\ Moved(a)
  BY Steps DEF Over
<1>. HIDE DEF y
<1>2. ClientFields(a, y) /\ y.pc = "over" /\ y.s = None
  BY <1>1, OverFields
<1>. QED
  BY <1>1, <1>2 DEF y
-----------------------------------------------------------------------------
(* Part 2: the steps that leave files, documents and the registry as they are *)

\* The bytes of the sessions, and who has claimed them.
DataSame == \A s \in Sessions : sess'[s].data = sess[s].data
BusySame == \A s \in Sessions : sess'[s].busy = sess[s].busy

\* The step of an actor that changes nothing but where it stands.
LEMMA PureMove ==
    ASSUME Shape, NEW a \in Actors, Moved(a), ClientFields(a, client'[a]),
           client[a].pc \notin {"clean", "erase"},
           UNCHANGED <<sess, sessions, storeVars, cast>>, stale' \subseteq stale,
           client'[a].s \in {None, client[a].s} \cup sessions \cup stale
    PROVE  Tame(a) /\ DataSame /\ BusySame
BY TameSame DEF Tame, DataSame, BusySame

\* A request that ends before a session was made, and a tab that is closed.
LEMMA EndingTame ==
    ASSUME Shape, NEW a \in Clients, OverQuota(a) \/ BeginSkips(a) \/ CloseTab(a)
    PROVE  Tame(a) /\ DataSame /\ BusySame /\ client'[a].pc = "over" /\ client'[a].s = None
<1>1. /\ Over(a) /\ UNCHANGED <<sess, sessions, storeVars, cast>> /\ stale' \subseteq stale
      /\ client[a].pc \in {"init", "send", "ask"}
  BY DEF OverQuota, BeginSkips, CloseTab, At, worldVars
<1>. QED
  BY <1>1, OverStep, PureMove, Kinds

LEMMA BeginResumesTame ==
    ASSUME Shape, NEW a \in Clients, BeginResumes(a)
    PROVE  /\ Tame(a) /\ DataSame /\ BusySame /\ client[a].pc \in {"init", "begin"}
           /\ client'[a].pc = IF a \in Web THEN "settle" ELSE "reopen"
           /\ client'[a].s \in Sessions /\ Resumable(client'[a].s)
           /\ client'[a].v = client[a].v
<1>. DEFINE pc == IF a \in Web THEN "settle" ELSE "reopen"
            x == client[a]
            y == client'[a]
<1>1. PICK s \in Sessions : Resumable(s) /\ Step(a, [client[a] EXCEPT !.s = s, !.pc = pc])
  BY DEF BeginResumes
<1>2. Moved(a) /\ y = [x EXCEPT !.s = s, !.pc = pc]
  BY <1>1, Steps, Kinds
<1>3. ClientFields(a, x) /\ x.pc \in {"init", "begin"}
  BY HasFields, Kinds DEF BeginResumes, MayBegin, At
<1>p. pc = "settle" \/ (pc = "reopen" /\ a \notin Web)
  OBVIOUS
<1>. HIDE DEF x, y, pc
<1>r. ClientRec(y) /\ y.pc = pc /\ y.s = s /\ y.v = x.v /\ y.pos = x.pos /\ y.left = x.left
  BY <1>2, <1>3 DEF ClientFields, ClientRec
<1>4. ClientFields(a, y)
  BY <1>3, <1>p, <1>r DEF ClientFields, PcsOf
<1>5. UNCHANGED <<sess, sessions, storeVars, cast>> /\ stale' = stale /\ s \in sessions
  BY <1>1 DEF BeginResumes, worldVars, Resumable
<1>. QED
  BY <1>1, <1>2, <1>3, <1>4, <1>5, <1>r, PureMove, Kinds DEF x, y, pc

\* A session other than in the fields named.
LEMMA BusyFields ==
    ASSUME NEW x, SessionFields(x), NEW b \in BOOLEAN, NEW y, y = [x EXCEPT !.busy = b]
    PROVE  /\ SessionFields(y) /\ y.busy = b /\ y.data = x.data /\ y.kept = x.kept
           /\ y.owns = x.owns /\ y.cancelled = x.cancelled /\ y.state = x.state
<1>1. /\ SessRec(y) /\ y.busy = b /\ y.data = x.data /\ y.kept = x.kept /\ y.idle = x.idle
      /\ y.owns = x.owns /\ y.cancelled = x.cancelled /\ y.state = x.state /\ y.lock = x.lock
  BY DEF SessRec, SessionFields
<1>. QED
  BY <1>1 DEF SessionFields

\* A session claimed or given back.
LEMMA BusyTame ==
    ASSUME Shape, NEW a \in Actors, NEW s \in Sessions, NEW b \in BOOLEAN,
           Turned(s, [sess[s] EXCEPT !.busy = b])
    PROVE  /\ TameSess(a) /\ DataSame /\ sess'[s].busy = b
           /\ \A t \in Sessions \ {s} : sess'[t] = sess[t]
           /\ sess'[s].cancelled = sess[s].cancelled
<1>. DEFINE x == sess[s]
            y == [sess[s] EXCEPT !.busy = b]
<1>1. SessionFields(x) /\ y = [x EXCEPT !.busy = b] /\ Turned(s, y)
  BY HasFields
<1>. HIDE DEF x, y
<1>2. /\ SessionFields(y) /\ y.busy = b /\ y.data = x.data /\ y.kept = x.kept
      /\ y.owns = x.owns /\ y.cancelled = x.cancelled /\ y.state = x.state
  BY <1>1, BusyFields
<1>3. TameFor(a, s, y)
  BY <1>2 DEF TameFor, x
<1>4. TameSess(a)
  BY <1>1, <1>2, <1>3, TameTurned
<1>. QED
  BY <1>1, <1>2, <1>4 DEF Turned, DataSame, x

LEMMA ClaimTame ==
    ASSUME Shape, NEW a \in Clients, ClaimResumable(a)
    PROVE  /\ Tame(a) /\ DataSame /\ client[a].pc = "claim" /\ client'[a].v = client[a].v
           /\ \A t \in Sessions : sess'[t].cancelled = sess[t].cancelled
           /\ \/ /\ client'[a].pc = "settle" /\ client'[a].s \in Sessions /\ Resumable(client'[a].s)
                 /\ \A t \in Sessions \ {client'[a].s} : sess'[t] = sess[t]
              \/ /\ client'[a].pc = "begin" /\ client'[a].s = None /\ UNCHANGED sess
                 /\ \A t \in Sessions : ~CanClaim(t)
<1>. DEFINE x == client[a]
            y == client'[a]
<1>0. ClientFields(a, x) /\ x.pc = "claim" /\ a \notin Web /\ x.s = None
  BY HasFields, Kinds DEF ClaimResumable, At, ClientFields, PcsOf
<1>u. UNCHANGED <<sessions, storeVars, cast>> /\ stale' = stale
  BY DEF ClaimResumable, worldVars
<1>1. ASSUME NEW s \in Sessions, CanClaim(s), sess' = [sess EXCEPT ![s].busy = TRUE],
             Step(a, [client[a] EXCEPT !.pc = "settle", !.s = s])
      PROVE  /\ Tame(a) /\ DataSame /\ y.v = x.v /\ y.pc = "settle" /\ y.s = s
             /\ \A t \in Sessions : sess'[t].cancelled = sess[t].cancelled
             /\ Resumable(s) /\ s \in sessions /\ \A t \in Sessions \ {s} : sess'[t] = sess[t]
  <2>1. Moved(a) /\ y = [x EXCEPT !.pc = "settle", !.s = s]
    BY <1>1, Steps, Kinds
  <2>2. Turned(s, [sess[s] EXCEPT !.busy = TRUE])
    BY <1>1 DEF Turned, Shape
  <2>. HIDE DEF x, y
  <2>r. ClientRec(y) /\ y.pc = "settle" /\ y.s = s /\ y.v = x.v /\ y.pos = x.pos /\ y.left = x.left
    BY <1>0, <2>1 DEF ClientFields, ClientRec
  <2>3. ClientFields(a, y)
    BY <1>0, <2>r DEF ClientFields, PcsOf
  <2>4. /\ TameSess(a) /\ DataSame /\ \A t \in Sessions \ {s} : sess'[t] = sess[t]
        /\ sess'[s].cancelled = sess[s].cancelled
    BY <2>2, BusyTame, Kinds
  <2>. QED
    BY <1>0, <1>1, <1>u, <2>1, <2>r, <2>3, <2>4 DEF Tame, CanClaim, Resumable, x, y
<1>2. CASE (\A s \in Sessions : ~CanClaim(s)) /\ Goto(a, "begin") /\ UNCHANGED sess
  <2>1. Moved(a) /\ y = [x EXCEPT !.pc = "begin"]
    BY <1>2, Steps, Kinds DEF Goto
  <2>. HIDE DEF x, y
  <2>2. ClientRec(y) /\ y.pc = "begin" /\ y.s = None /\ y.v = x.v /\ y.pos = x.pos /\ y.left = x.left
    BY <1>0, <2>1 DEF ClientFields, ClientRec
  <2>3. ClientFields(a, y)
    BY <1>0, <2>2 DEF ClientFields, PcsOf
  <2>4. Tame(a) /\ DataSame
    BY <1>0, <1>2, <1>u, <2>1, <2>2, <2>3, PureMove, Kinds DEF x, y
  <2>. QED
    BY <1>0, <1>2, <2>2, <2>4 DEF x, y
<1>. HIDE DEF y
<1>. QED
  BY <1>0, <1>1, <1>2 DEF ClaimResumable, x, y
\* An actor gives its session back and is done.
LEMMA LeaveStep ==
    ASSUME Shape, NEW a \in Actors, Leave(a)
    PROVE  /\ Moved(a) /\ ClientFields(a, client'[a]) /\ client'[a].pc = "over" /\ client'[a].s = None
           /\ TameSess(a) /\ DataSame
           /\ \A t \in Sessions : /\ sess'[t].cancelled = sess[t].cancelled /\ sess'[t].state = sess[t].state
                                  /\ sess'[t].busy => sess[t].busy /\ (a \in Web \/ t # client[a].s)
<1>1. Moved(a) /\ ClientFields(a, client'[a]) /\ client'[a].pc = "over" /\ client'[a].s = None
  BY OverStep DEF Leave
<1>2. ASSUME NEW t \in Sessions
      PROVE  /\ SessionFields(sess'[t]) /\ sess'[t].data = sess[t].data /\ TameFor(a, t, sess'[t])
             /\ sess'[t].cancelled = sess[t].cancelled /\ sess'[t].kept = sess[t].kept
             /\ sess'[t].state = sess[t].state
             /\ sess'[t].busy => sess[t].busy /\ (a \in Web \/ t # client[a].s)
  <2>1. SessionFields(sess[t])
    BY HasFields
  <2>2. CASE t = client[a].s /\ a \notin Web
    <3>. DEFINE x == sess[t]
                y == sess'[t]
    <3>1. y = [x EXCEPT !.busy = FALSE] /\ SessionFields(x)
      BY <2>1, <2>2 DEF Leave
    <3>. HIDE DEF x, y
    <3>2. /\ SessionFields(y) /\ y.busy = FALSE /\ y.data = x.data /\ y.kept = x.kept
          /\ y.owns = x.owns /\ y.cancelled = x.cancelled /\ y.state = x.state
      BY <3>1, BusyFields
    <3>. QED
      BY <3>2 DEF TameFor, x, y
  <2>3. CASE ~(t = client[a].s /\ a \notin Web)
    <3>1. sess'[t] = sess[t]
      BY <2>3 DEF Leave
    <3>. QED
      BY <2>1, <2>3, <3>1 DEF TameFor
  <2>. QED
    BY <2>2, <2>3
<1>3. sess' = [t \in Sessions |-> sess'[t]]
  BY DEF Leave
<1>4. SessShape'
  BY <1>2, <1>3 DEF SessShape, SessionFields
<1>. QED
  BY <1>1, <1>2, <1>4 DEF TameSess, DataSame

\* Data has lost bytes at its end, if any.
Shorter(x, y) == Len(y.data) <= Len(x.data) /\ \A i \in 1..Len(y.data) : y.data[i] = x.data[i]

LEMMA StepsBack ==
    ASSUME NEW x, SessionFields(x), NEW y \in StepBack(x)
    PROVE  /\ SessionFields(y) /\ Shorter(x, y)
           /\ y.owns = x.owns /\ y.cancelled = x.cancelled /\ y.state = x.state /\ y.busy = x.busy
<1>1. PICK k \in x.kept..Len(x.data) : y = [x EXCEPT !.data = Prefix(x.data, k), !.kept = k]
  BY DEF StepBack
<1>. DEFINE d == Prefix(x.data, k)
<1>0. x.data \in Seq(Versions \X Nat) /\ k \in Nat /\ k <= Len(x.data) /\ k >= x.kept /\ Len(x.data) \in Nat
  BY <1>1, DataLength DEF SessionFields
<1>2. d \in Seq(Versions \X Nat) /\ Len(d) = k /\ \A i \in 1..k : d[i] = x.data[i]
  BY <1>0, SubSeqProperties DEF Prefix
<1>3. y = [x EXCEPT !.data = d, !.kept = k]
  BY <1>1
<1>. HIDE DEF d
<1>4. /\ SessRec(y) /\ y.data = d /\ y.kept = k /\ y.busy = x.busy /\ y.idle = x.idle
      /\ y.owns = x.owns /\ y.cancelled = x.cancelled /\ y.state = x.state /\ y.lock = x.lock
  BY <1>3 DEF SessRec, SessionFields
<1>5. k \in 0..Len(d)
  BY <1>0, <1>2
<1>. QED
  BY <1>0, <1>2, <1>4, <1>5 DEF SessionFields, Shorter

LEMMA SettleTame ==
    ASSUME Shape, NEW a \in Clients, Settle(a)
    PROVE  /\ Tame(a) /\ BusySame /\ client[a].pc \in {"settle", "reopen", "mismatch"}
           /\ client[a].s \in Sessions /\ client'[a].s = client[a].s /\ client'[a].v = client[a].v
           /\ client'[a].pos = client[a].pos
           /\ client'[a].pc = CASE At(a, "settle") -> "mark" [] At(a, "reopen") -> "open"
                                [] At(a, "mismatch") -> "again"
           /\ \A t \in Sessions \ {client[a].s} : sess'[t] = sess[t]
           /\ sess'[client[a].s].cancelled = sess[client[a].s].cancelled
           /\ Shorter(sess[client[a].s], sess'[client[a].s])
<1>. DEFINE pc == CASE At(a, "settle") -> "mark" [] At(a, "reopen") -> "open"
                    [] At(a, "mismatch") -> "again"
            s == client[a].s
<1>1. client[a].pc \in {"settle", "reopen", "mismatch"} /\ s \in Sessions
      /\ pc \in PcsOf(a) \ Before
  BY HasFields, Kinds DEF Settle, ClientFields, PcsOf, At
<1>2. /\ Moved(a) /\ ClientFields(a, client'[a])
      /\ client'[a].pc = pc /\ client'[a].s = client[a].s /\ client'[a].v = client[a].v
      /\ client'[a].pos = client[a].pos
  <2>1. Goto(a, pc)
    BY DEF Settle
  <2>. HIDE DEF pc
  <2>. QED
    BY <1>1, <2>1, GotoFields, Kinds
<1>3. /\ TameSess(a) /\ BusySame
      /\ \A t \in Sessions \ {s} : sess'[t] = sess[t]
      /\ sess'[s].cancelled = sess[s].cancelled /\ Shorter(sess[s], sess'[s])
  <2>1. CASE UNCHANGED sess
    <3>1. Len(sess[s].data) \in Nat
      BY <1>1, HasFields, DataLength
    <3>. QED
      BY <2>1, <3>1, TameSame, Kinds DEF BusySame, Shorter
  <2>2. ASSUME NEW r \in StepBack(Of(a)), Change(a, r)
        PROVE  <1>3!:
    <3>1. /\ SessionFields(r) /\ Shorter(sess[s], r)
          /\ r.owns = sess[s].owns /\ r.cancelled = sess[s].cancelled /\ r.state = sess[s].state
          /\ r.busy = sess[s].busy
      BY <1>1, HasFields, StepsBack DEF Of
    <3>2. Turned(s, r)
      BY <1>1, <2>2, Changes
    <3>3. TameFor(a, s, r)
      BY <3>1 DEF TameFor
    <3>. HIDE DEF s
    <3>4. TameSess(a)
      BY <1>1, <3>1, <3>2, <3>3, TameTurned, Kinds
    <3>. QED
      BY <3>1, <3>2, <3>4 DEF Turned, BusySame
  <2>. QED
    BY <2>1, <2>2 DEF Settle
<1>4. UNCHANGED <<sessions, storeVars, cast>> /\ stale' = stale
  BY DEF Settle
<1>. QED
  BY <1>1, <1>2, <1>3, <1>4 DEF Tame
\* Reading where a session stands, and comparing.
LEMMA ReadMarkTame ==
    ASSUME Shape, NEW a \in Clients, ReadMark(a)
    PROVE  /\ Tame(a) /\ UNCHANGED <<sess, sessions>> /\ At(a, "mark") /\ client[a].s \in Sessions
           /\ client'[a].pc = IF a \in Web THEN "send" ELSE "digest"
           /\ client'[a].s = client[a].s /\ client'[a].v = client[a].v
           /\ client'[a].pos = Len(Of(a).data)
<1>. DEFINE pc == IF a \in Web THEN "send" ELSE "digest"
            x == client[a]
            y == client'[a]
            n == Len(Of(a).data)
<1>1. ClientFields(a, x) /\ x.pc = "mark" /\ x.s \in Sessions
  BY HasFields, Kinds DEF ReadMark, At, ClientFields
<1>2. Moved(a) /\ y = [x EXCEPT !.pos = n, !.pc = pc]
  BY Steps, Kinds DEF ReadMark
<1>3. n \in Nat
  BY <1>1, HasFields, DataLength DEF Of
<1>4. (pc = "send" /\ a \in Web) \/ (pc = "digest" /\ a \notin Web)
  OBVIOUS
<1>. HIDE DEF x, y, n, pc
<1>5. ClientRec(y) /\ y.pc = pc /\ y.s = x.s /\ y.v = x.v /\ y.pos = n /\ y.left = x.left
  BY <1>1, <1>2 DEF ClientFields, ClientRec
<1>6. ClientFields(a, y)
  BY <1>1, <1>3, <1>4, <1>5 DEF ClientFields, PcsOf
<1>7. UNCHANGED <<sess, sessions, storeVars, cast>> /\ stale' = stale
  BY DEF ReadMark, worldVars
<1>. QED
  BY <1>1, <1>2, <1>5, <1>6, <1>7, PureMove, Kinds DEF x, y, n, pc, At

LEMMA ReadDigestTame ==
    ASSUME Shape, NEW a \in Clients, ReadDigest(a)
    PROVE  /\ Tame(a) /\ UNCHANGED <<sess, sessions>> /\ At(a, "digest") /\ client[a].s \in Sessions
           /\ client'[a].pc = "verify" /\ client'[a].want = Of(a).data
           /\ client'[a].s = client[a].s /\ client'[a].v = client[a].v
           /\ client'[a].pos = client[a].pos
<1>. DEFINE x == client[a]
            y == client'[a]
            d == Of(a).data
<1>1. ClientFields(a, x) /\ x.pc = "digest" /\ x.s \in Sessions /\ a \notin Web
  BY HasFields, Kinds DEF ReadDigest, At, ClientFields, PcsOf
<1>2. Moved(a) /\ y = [x EXCEPT !.want = d, !.pc = "verify"]
  BY Steps, Kinds DEF ReadDigest
<1>. HIDE DEF x, y, d
<1>3. /\ ClientRec(y) /\ y.pc = "verify" /\ y.s = x.s /\ y.v = x.v /\ y.pos = x.pos /\ y.left = x.left
      /\ y.want = d
  BY <1>1, <1>2 DEF ClientFields, ClientRec
<1>4. ClientFields(a, y)
  BY <1>1, <1>3 DEF ClientFields, PcsOf
<1>5. UNCHANGED <<sess, sessions, storeVars, cast>> /\ stale' = stale
  BY DEF ReadDigest, worldVars
<1>. QED
  BY <1>1, <1>2, <1>3, <1>4, <1>5, PureMove, Kinds DEF x, y, d, At

LEMMA VerifyPrefixTame ==
    ASSUME Shape, NEW a \in Clients, VerifyPrefix(a)
    PROVE  /\ Tame(a) /\ UNCHANGED <<sess, sessions>> /\ At(a, "verify") /\ client[a].s \in Sessions
           /\ client'[a].pc = IF ~PrefixMatches(a) THEN "cancel"
                              ELSE IF client[a].pos = Blocks THEN "check" ELSE "recv"
           /\ client'[a].s = client[a].s /\ client'[a].v = client[a].v
           /\ client'[a].pos = client[a].pos /\ a \notin Web
<1>. DEFINE pc == IF ~PrefixMatches(a) THEN "cancel"
                  ELSE IF client[a].pos = Blocks THEN "check" ELSE "recv"
<1>1. /\ client[a].pc = "verify" /\ client[a].s \in Sessions /\ a \notin Web
  BY HasFields, Kinds DEF VerifyPrefix, At, ClientFields, PcsOf
<1>2. pc \in PcsOf(a) \ Before
  BY <1>1 DEF PcsOf
<1>3. Goto(a, pc)
  BY DEF VerifyPrefix
<1>. HIDE DEF pc
<1>4. /\ Moved(a) /\ ClientFields(a, client'[a])
      /\ client'[a].pc = pc /\ client'[a].s = client[a].s /\ client'[a].v = client[a].v
      /\ client'[a].pos = client[a].pos
  BY <1>1, <1>2, <1>3, GotoFields, Kinds
<1>5. UNCHANGED <<sess, sessions, storeVars, cast>> /\ stale' = stale
  BY DEF VerifyPrefix, worldVars
<1>. QED
  BY <1>1, <1>4, <1>5, PureMove, Kinds DEF pc, At

LEMMA OpenTame ==
    ASSUME Shape, NEW a \in Clients, Open(a)
    PROVE  /\ Tame(a) /\ DataSame /\ At(a, "open") /\ a \notin Web /\ client[a].s \in Sessions
           /\ \A t \in Sessions : sess'[t].cancelled = sess[t].cancelled
           /\ \/ /\ client'[a].pc = "recv" /\ client'[a].pos = 0 /\ client[a].s \in sessions
                 /\ client'[a].s = client[a].s /\ client'[a].v = client[a].v
                 /\ \A t \in Sessions \ {client[a].s} : sess'[t] = sess[t]
              \/ /\ client'[a].pc = "over" /\ client'[a].s = None /\ client[a].s \notin sessions
                 /\ UNCHANGED sess
<1>. DEFINE x == client[a]
            y == client'[a]
<1>1. ClientFields(a, x) /\ x.pc = "open" /\ x.s \in Sessions /\ a \notin Web
  BY HasFields, Kinds DEF Open, At, ClientFields, PcsOf
<1>u. UNCHANGED <<sessions, storeVars, cast>> /\ stale' = stale
  BY DEF Open, worldVars
<1>2. CASE /\ client[a].s \in sessions
           /\ Change(a, [Of(a) EXCEPT !.busy = TRUE])
           /\ Step(a, [client[a] EXCEPT !.pc = "recv", !.pos = 0])
  <2>1. Moved(a) /\ y = [x EXCEPT !.pc = "recv", !.pos = 0]
    BY <1>2, Steps, Kinds
  <2>2. Turned(x.s, [sess[x.s] EXCEPT !.busy = TRUE])
    BY <1>1, <1>2, Changes DEF Of
  <2>. HIDE DEF x, y
  <2>3. ClientRec(y) /\ y.pc = "recv" /\ y.s = x.s /\ y.v = x.v /\ y.pos = 0 /\ y.left = x.left
    BY <1>1, <2>1 DEF ClientFields, ClientRec
  <2>4. ClientFields(a, y)
    BY <1>1, <2>3 DEF ClientFields, PcsOf
  <2>5. /\ TameSess(a) /\ DataSame /\ \A t \in Sessions \ {x.s} : sess'[t] = sess[t]
        /\ sess'[x.s].cancelled = sess[x.s].cancelled
    BY <1>1, <2>2, BusyTame, Kinds
  <2>. QED
    BY <1>1, <1>2, <1>u, <2>1, <2>3, <2>4, <2>5 DEF Tame, x, y, At
<1>3. CASE client[a].s \notin sessions /\ Over(a) /\ UNCHANGED sess
  <2>1. Moved(a) /\ ClientFields(a, y) /\ y.pc = "over" /\ y.s = None
    BY <1>3, OverStep, Kinds
  <2>. QED
    BY <1>1, <1>3, <1>u, <2>1, PureMove, Kinds DEF At
<1>. QED
  BY <1>2, <1>3 DEF Open

\* The tab's loop: its next PUT, the second look, and asking for the position.
LEMMA OfferFields ==
    ASSUME Shape, NEW a \in Clients, client[a].pc \in {"send", "again"}, client[a].s \in Sessions,
           Step(a, [client[a] EXCEPT !.pc = "recv", !.left = Offered(a)])
    PROVE  /\ Moved(a) /\ ClientFields(a, client'[a]) /\ client'[a].pc = "recv"
           /\ client'[a].s = client[a].s /\ client'[a].v = client[a].v
           /\ client'[a].pos = client[a].pos /\ client'[a].left = Offered(a)
<1>. DEFINE x == client[a]
            y == client'[a]
            n == Offered(a)
<1>1. ClientFields(a, x) /\ x.pc \notin EndPcs /\ x.s \in Sessions
  BY HasFields, Kinds
<1>2. Moved(a) /\ y = [x EXCEPT !.pc = "recv", !.left = n]
  BY Steps, Kinds
<1>3. n \in Int
  BY <1>1, RegistryAssumption DEF ClientFields, Offered, Least
<1>. HIDE DEF x, y, n
<1>4. ClientRec(y) /\ y.pc = "recv" /\ y.s = x.s /\ y.v = x.v /\ y.pos = x.pos /\ y.left = n
  BY <1>1, <1>2 DEF ClientFields, ClientRec
<1>5. ClientFields(a, y)
  BY <1>1, <1>3, <1>4 DEF ClientFields, PcsOf
<1>. QED
  BY <1>2, <1>4, <1>5 DEF x, y, n

LEMMA PutRouteTame ==
    ASSUME Shape, NEW a \in Clients, PutRoute(a)
    PROVE  /\ Tame(a) /\ UNCHANGED <<sess, sessions>> /\ At(a, "send") /\ a \in Web
           /\ client[a].pos < Blocks
           /\ client'[a].s = client[a].s /\ client'[a].v = client[a].v
           /\ client'[a].pos = client[a].pos
           /\ \/ client'[a].pc = "cancel"
              \/ client'[a].pc = "mismatch" /\ client[a].s \in Sessions
              \/ /\ client'[a].pc = "recv" /\ client[a].s \in Sessions
                 /\ client[a].pos = Len(Of(a).data) /\ client'[a].left = Offered(a)
<1>1. client[a].pc = "send" /\ a \in Web /\ client[a].pos < Blocks
  BY HasFields, Kinds DEF PutRoute, At, ClientFields, PcsOf
<1>2. UNCHANGED <<sess, sessions, storeVars, cast>> /\ stale' = stale
  BY DEF PutRoute, worldVars
<1>3. sessions \subseteq Sessions
  BY HasFields
<1>4. CASE Goto(a, "cancel")
  <2>1. "cancel" \in PcsOf(a) \ Before
    BY DEF PcsOf
  <2>. QED
    BY <1>1, <1>2, <1>4, <2>1, GotoFields, PureMove, Kinds DEF At
<1>5. CASE client[a].s \in sessions /\ client[a].pos = Len(Of(a).data)
           /\ Step(a, [client[a] EXCEPT !.pc = "recv", !.left = Offered(a)])
  BY <1>1, <1>2, <1>3, <1>5, OfferFields, PureMove, Kinds DEF At
<1>6. CASE client[a].s \in sessions /\ Goto(a, "mismatch")
  <2>1. "mismatch" \in PcsOf(a) \ Before
    BY <1>1 DEF PcsOf
  <2>. QED
    BY <1>1, <1>2, <1>3, <1>6, <2>1, GotoFields, PureMove, Kinds DEF At
<1>. QED
  BY <1>4, <1>5, <1>6 DEF PutRoute

LEMMA PutRouteAgainTame ==
    ASSUME Shape, NEW a \in Clients, PutRouteAgain(a)
    PROVE  /\ Tame(a) /\ UNCHANGED <<sess, sessions>> /\ At(a, "again") /\ a \in Web
           /\ client[a].s \in Sessions
           /\ client'[a].s = client[a].s /\ client'[a].v = client[a].v
           /\ client'[a].pos = client[a].pos
           /\ \/ client'[a].pc = "ask"
              \/ /\ client'[a].pc = "recv"
                 /\ client[a].pos = Len(Of(a).data) /\ client'[a].left = Offered(a)
<1>1. client[a].pc = "again" /\ a \in Web /\ client[a].s \in Sessions
  BY HasFields, Kinds DEF PutRouteAgain, At, ClientFields, PcsOf
<1>2. UNCHANGED <<sess, sessions, storeVars, cast>> /\ stale' = stale
  BY DEF PutRouteAgain, worldVars
<1>3. CASE client[a].pos = Len(Of(a).data)
           /\ Step(a, [client[a] EXCEPT !.pc = "recv", !.left = Offered(a)])
  BY <1>1, <1>2, <1>3, OfferFields, PureMove, Kinds DEF At
<1>4. CASE Goto(a, "ask")
  <2>1. "ask" \in PcsOf(a) \ Before
    BY <1>1 DEF PcsOf
  <2>. QED
    BY <1>1, <1>2, <1>4, <2>1, GotoFields, PureMove, Kinds DEF At
<1>. QED
  BY <1>3, <1>4 DEF PutRouteAgain

LEMMA AskPositionTame ==
    ASSUME Shape, NEW a \in Clients, AskPosition(a)
    PROVE  /\ Tame(a) /\ UNCHANGED <<sess, sessions>> /\ At(a, "ask") /\ a \in Web
           /\ client'[a].s = client[a].s /\ client'[a].v = client[a].v
           /\ \/ client'[a].pc = "send" /\ client[a].s \in Sessions
                 /\ client'[a].pos = Len(Of(a).data)
              \/ client'[a].pc \in {"send", "cancel"} /\ client'[a].pos = client[a].pos
<1>. DEFINE x == client[a]
            y == client'[a]
            n == Len(Of(a).data)
<1>1. ClientFields(a, x) /\ x.pc = "ask" /\ a \in Web
  BY HasFields, Kinds DEF AskPosition, At, ClientFields, PcsOf
<1>2. UNCHANGED <<sess, sessions, storeVars, cast>> /\ stale' = stale
  BY DEF AskPosition, worldVars
<1>3. CASE client[a].s \in sessions /\ Step(a, [client[a] EXCEPT !.pc = "send", !.pos = n])
  <2>1. Moved(a) /\ y = [x EXCEPT !.pc = "send", !.pos = n] /\ x.s \in Sessions
    BY <1>3, Steps, HasFields, Kinds
  <2>2. n \in Nat
    BY <2>1, HasFields, DataLength DEF Of
  <2>. HIDE DEF x, y, n
  <2>3. ClientRec(y) /\ y.pc = "send" /\ y.s = x.s /\ y.v = x.v /\ y.pos = n /\ y.left = x.left
    BY <1>1, <2>1 DEF ClientFields, ClientRec
  <2>4. ClientFields(a, y)
    BY <1>1, <2>2, <2>3 DEF ClientFields, PcsOf
  <2>. QED
    BY <1>1, <1>2, <2>1, <2>3, <2>4, PureMove, Kinds DEF x, y, n, At
<1>4. ASSUME NEW pc \in {"send", "cancel"}, Goto(a, pc)
      PROVE  /\ Tame(a) /\ y.s = x.s /\ y.v = x.v /\ y.pc = pc /\ y.pos = x.pos
  <2>1. pc \in PcsOf(a) \ Before
    BY <1>1 DEF PcsOf
  <2>. QED
    BY <1>1, <1>2, <1>4, <2>1, GotoFields, PureMove, Kinds
<1>. QED
  BY <1>1, <1>2, <1>3, <1>4 DEF AskPosition, At

\* The sweeper takes the next session of its list.
LEMMA ReapNextTame ==
    ASSUME Shape, ReapNext
    PROVE  /\ Tame(Sweeper) /\ UNCHANGED <<sess, sessions>> /\ client'[Sweeper].pc = "cancel"
           /\ client'[Sweeper].s \in stale
<1>. DEFINE x == client[Sweeper]
            y == client'[Sweeper]
<1>1. PICK s \in stale : Step(Sweeper, [client[Sweeper] EXCEPT !.pc = "cancel", !.s = s])
                         /\ stale' = stale \ {s}
  BY DEF ReapNext
<1>2. Moved(Sweeper) /\ y = [x EXCEPT !.pc = "cancel", !.s = s] /\ s \in Sessions
      /\ ClientFields(Sweeper, x) /\ x.pc \in EndPcs
  BY <1>1, Steps, Kinds, HasFields DEF ReapNext
<1>. HIDE DEF x, y
<1>3. ClientRec(y) /\ y.pc = "cancel" /\ y.s = s /\ y.v = x.v /\ y.pos = x.pos /\ y.left = x.left
  BY <1>2 DEF ClientFields, ClientRec
<1>4. ClientFields(Sweeper, y)
  BY <1>2, <1>3, Kinds DEF ClientFields, PcsOf
<1>5. UNCHANGED <<sess, sessions, storeVars, cast>>
  BY DEF ReapNext
<1>. QED
  BY <1>1, <1>2, <1>3, <1>4, <1>5, PureMove, Kinds DEF x, y
\* How a request that was refused or cut off goes on: a tab asks, the other is over
\* and gives the session back.
Withdraws(a) ==
    /\ DataSame /\ \A t \in Sessions : sess'[t].cancelled = sess[t].cancelled
    /\ \/ /\ a \in Web /\ client'[a].pc = "ask" /\ UNCHANGED sess
          /\ client'[a].s = client[a].s /\ client'[a].v = client[a].v
          /\ client'[a].pos = client[a].pos
       \/ /\ a \notin Web /\ client'[a].pc = "over" /\ client'[a].s = None
          /\ \A t \in Sessions : sess'[t].busy => sess[t].busy /\ t # client[a].s

LEMMA WithdrawsTame ==
    ASSUME Shape, NEW a \in Clients, AnswerError(a), client[a].pc = "recv",
           UNCHANGED <<sessions, storeVars, cast>>, stale' = stale
    PROVE  Tame(a) /\ Withdraws(a)
<1>1. CASE a \in Web
  <2>1. Goto(a, "ask") /\ UNCHANGED sess
    BY <1>1 DEF AnswerError
  <2>2. "ask" \in PcsOf(a) \ Before
    BY <1>1 DEF PcsOf
  <2>3. /\ Moved(a) /\ ClientFields(a, client'[a])
        /\ client'[a].pc = "ask" /\ client'[a].s = client[a].s /\ client'[a].v = client[a].v
        /\ client'[a].pos = client[a].pos
    BY <2>1, <2>2, GotoFields, Kinds
  <2>. QED
    BY <1>1, <2>1, <2>3, PureMove, Kinds DEF Withdraws
<1>2. CASE a \notin Web
  <2>1. Leave(a)
    BY <1>2 DEF AnswerError
  <2>2. /\ Moved(a) /\ ClientFields(a, client'[a]) /\ client'[a].pc = "over" /\ client'[a].s = None
        /\ TameSess(a) /\ DataSame
        /\ \A t \in Sessions : /\ sess'[t].cancelled = sess[t].cancelled
                               /\ sess'[t].busy => sess[t].busy /\ (a \in Web \/ t # client[a].s)
    BY <2>1, LeaveStep, Kinds
  <2>. QED
    BY <1>2, <2>2 DEF Tame, Withdraws
<1>. QED
  BY <1>1, <1>2

LEMMA RefusedTame ==
    ASSUME Shape, NEW a \in Clients, ReceiveRefused(a) \/ Cut(a)
    PROVE  /\ Tame(a) /\ Withdraws(a) /\ At(a, "recv") /\ client[a].s \in Sessions
           /\ UNCHANGED sessions
<1>1. /\ AnswerError(a) /\ client[a].pc = "recv" /\ UNCHANGED <<sessions, storeVars, cast>>
      /\ stale' = stale
  BY DEF ReceiveRefused, Cut, At, worldVars
<1>2. client[a].s \in Sessions
  BY <1>1, HasFields, Kinds DEF ClientFields
<1>. QED
  BY <1>1, <1>2, WithdrawsTame DEF At

\* A session after a failure: its state, and for a request its claim, have changed too.
FailedAs(y, x, state, b) ==
    \/ y = [x EXCEPT !.state = state, !.idle = FALSE, !.busy = b]
    \/ y = [x EXCEPT !.state = state, !.lock = None, !.busy = b]

LEMMA FailedFields ==
    ASSUME NEW x, SessionFields(x), NEW state \in {"Receiving", "Failed"}, NEW b \in BOOLEAN,
           NEW y, FailedAs(y, x, state, b)
    PROVE  /\ SessionFields(y) /\ y.state = state /\ y.busy = b /\ y.data = x.data
           /\ y.kept = x.kept /\ y.owns = x.owns /\ y.cancelled = x.cancelled
<1>1. CASE y = [x EXCEPT !.state = state, !.idle = FALSE, !.busy = b]
  <2>1. /\ SessRec(y) /\ y.state = state /\ y.busy = b /\ y.data = x.data /\ y.idle = FALSE
        /\ y.kept = x.kept /\ y.owns = x.owns /\ y.cancelled = x.cancelled /\ y.lock = x.lock
    BY <1>1 DEF SessRec, SessionFields
  <2>. QED
    BY <2>1 DEF SessionFields, States
<1>2. CASE y = [x EXCEPT !.state = state, !.lock = None, !.busy = b]
  <2>1. /\ SessRec(y) /\ y.state = state /\ y.busy = b /\ y.data = x.data /\ y.idle = x.idle
        /\ y.kept = x.kept /\ y.owns = x.owns /\ y.cancelled = x.cancelled /\ y.lock = None
    BY <1>2 DEF SessRec, SessionFields
  <2>. QED
    BY <2>1 DEF SessionFields, States
<1>. QED
  BY <1>1, <1>2 DEF FailedAs

\* The session of a after a failure of receive() or complete().
FailedSession(a) ==
    LET s == client[a].s IN
    /\ \A t \in Sessions \ {s} : sess'[t] = sess[t]
    /\ sess'[s].cancelled = sess[s].cancelled /\ Shorter(sess[s], sess'[s])
    /\ sess'[s].busy = (IF a \in Web THEN sess[s].busy ELSE FALSE)

LEMMA FailureTame ==
    ASSUME Shape, NEW a \in Clients, client[a].s \in Sessions, client[a].pc \in {"recv", "finish"},
           NEW r \in StepBack(Of(a)), NEW state \in {"Receiving", "Failed"}, NEW y,
           Change(a, y),
           \/ y = [r EXCEPT !.state = state, !.idle = FALSE, !.busy = IF a \in Web THEN @ ELSE FALSE]
           \/ y = [r EXCEPT !.state = state, !.lock = None, !.busy = IF a \in Web THEN @ ELSE FALSE]
    PROVE  TameSess(a) /\ FailedSession(a)
<1>. DEFINE s == client[a].s
            x == sess[s]
            b == IF a \in Web THEN r.busy ELSE FALSE
<1>1. /\ SessionFields(r) /\ Shorter(x, r)
      /\ r.owns = x.owns /\ r.cancelled = x.cancelled /\ r.state = x.state
      /\ r.busy = x.busy /\ b \in BOOLEAN
  <2>1. /\ SessionFields(r) /\ Shorter(x, r)
        /\ r.owns = x.owns /\ r.cancelled = x.cancelled /\ r.state = x.state
        /\ r.busy = x.busy
    BY HasFields, StepsBack DEF Of
  <2>. QED
    BY <2>1 DEF SessionFields
<1>2. FailedAs(y, r, state, b)
  BY DEF FailedAs
<1>3. Turned(s, y)
  BY Changes
<1>4. /\ SessionFields(y) /\ y.state = state /\ y.busy = b /\ y.data = r.data
      /\ y.kept = r.kept /\ y.owns = r.owns /\ y.cancelled = r.cancelled
  <2>. HIDE DEF b, s, x
  <2>. QED
    BY <1>1, <1>2, FailedFields
<1>5. TameFor(a, s, y)
  BY <1>1, <1>4 DEF TameFor
<1>. HIDE DEF s, b
<1>6. TameSess(a)
  BY <1>3, <1>4, <1>5, TameTurned, Kinds DEF s
<1>. QED
  BY <1>1, <1>3, <1>4, <1>6 DEF FailedSession, Turned, Shorter, s, b

LEMMA ReceiveFailsTame ==
    ASSUME Shape, NEW a \in Clients, ReceiveFails(a)
    PROVE  /\ Tame(a) /\ FailedSession(a) /\ At(a, "recv") /\ client[a].s \in Sessions
           /\ Accepts(Of(a)) /\ UNCHANGED sessions
           /\ \/ /\ a \in Web /\ client'[a].pc = "ask"
                 /\ client'[a].s = client[a].s /\ client'[a].v = client[a].v
                 /\ client'[a].pos = client[a].pos
              \/ a \notin Web /\ client'[a].pc = "over" /\ client'[a].s = None
<1>1. client[a].pc = "recv" /\ client[a].s \in Sessions /\ Accepts(Of(a))
  BY HasFields, Kinds DEF ReceiveFails, At, ClientFields
<1>2. PICK r \in StepBack(Of(a)), state \in {"Receiving", "Failed"} :
        Change(a, [r EXCEPT !.state = state, !.idle = FALSE, !.busy = IF a \in Web THEN @ ELSE FALSE])
  BY DEF ReceiveFails
<1>3. TameSess(a) /\ FailedSession(a)
  BY <1>1, <1>2, FailureTame
<1>4. /\ Moved(a) /\ ClientFields(a, client'[a])
      /\ \/ /\ a \in Web /\ client'[a].pc = "ask"
            /\ client'[a].s = client[a].s /\ client'[a].v = client[a].v
            /\ client'[a].pos = client[a].pos
         \/ a \notin Web /\ client'[a].pc = "over" /\ client'[a].s = None
  <2>1. CASE a \in Web
    <3>1. "ask" \in PcsOf(a) \ Before /\ Goto(a, "ask")
      BY <2>1 DEF PcsOf, ReceiveFails
    <3>. QED
      BY <1>1, <2>1, <3>1, GotoFields, Kinds
  <2>2. CASE a \notin Web
    BY <2>2, OverStep, Kinds DEF ReceiveFails
  <2>. QED
    BY <2>1, <2>2
<1>5. UNCHANGED <<sessions, storeVars, cast>> /\ stale' = stale
  BY DEF ReceiveFails
<1>. QED
  BY <1>1, <1>3, <1>4, <1>5 DEF Tame, At

LEMMA LastCheckTame ==
    ASSUME Shape, NEW a \in Clients, LastCheck(a)
    PROVE  /\ Tame(a) /\ UNCHANGED sessions
           /\ (At(a, "check") /\ a \notin Web) \/ (At(a, "send") /\ client[a].pos >= Blocks)
           /\ \/ /\ client'[a].pc = "complete" /\ UNCHANGED sess
                 /\ client'[a].s = client[a].s /\ client'[a].v = client[a].v
                 /\ client'[a].pos = client[a].pos
                 /\ a \in Web \/ Len(Of(a).data) = Blocks
              \/ /\ client'[a].pc = "over" /\ client'[a].s = None /\ DataSame
                 /\ \A t \in Sessions : sess'[t].cancelled = sess[t].cancelled
                 /\ \A t \in Sessions : sess'[t].busy => sess[t].busy /\ t # client[a].s
<1>1. /\ client[a].pc \in {"check", "send"}
      /\ client[a].pc = "check" => a \notin Web
      /\ (At(a, "check") /\ a \notin Web) \/ (At(a, "send") /\ client[a].pos >= Blocks)
  BY HasFields, Kinds DEF LastCheck, At, ClientFields, PcsOf
<1>2. UNCHANGED <<sessions, storeVars, cast>> /\ stale' = stale
  BY DEF LastCheck, worldVars
<1>3. CASE SentAll(a) /\ Goto(a, "complete") /\ UNCHANGED sess
  <2>1. "complete" \in PcsOf(a) \ Before
    BY DEF PcsOf
  <2>2. /\ Moved(a) /\ ClientFields(a, client'[a])
        /\ client'[a].pc = "complete" /\ client'[a].s = client[a].s /\ client'[a].v = client[a].v
        /\ client'[a].pos = client[a].pos
    BY <1>1, <1>3, <2>1, GotoFields, Kinds
  <2>3. Tame(a)
    BY <1>1, <1>2, <1>3, <2>2, PureMove, Kinds
  <2>. QED
    BY <1>1, <1>2, <1>3, <2>2, <2>3 DEF SentAll
<1>4. CASE ~SentAll(a) /\ Leave(a)
  <2>1. /\ Moved(a) /\ ClientFields(a, client'[a]) /\ client'[a].pc = "over" /\ client'[a].s = None
        /\ TameSess(a) /\ DataSame
        /\ \A t \in Sessions : /\ sess'[t].cancelled = sess[t].cancelled
                               /\ sess'[t].busy => sess[t].busy /\ (a \in Web \/ t # client[a].s)
    BY <1>4, LeaveStep, Kinds
  <2>. QED
    BY <1>1, <1>2, <1>4, <2>1 DEF Tame, SentAll
<1>. QED
  BY <1>3, <1>4 DEF LastCheck
\* After an error of complete() a tab cancels, and a WebDAV request is over.
LEMMA CompleteErrorStep ==
    ASSUME Shape, NEW a \in Clients, CompleteError(a), client[a].pc \in {"complete", "finish"}
    PROVE  /\ Moved(a) /\ ClientFields(a, client'[a])
           /\ \/ /\ a \in Web /\ client'[a].pc = "cancel" /\ client'[a].s = client[a].s
                 /\ client'[a].v = client[a].v
              \/ a \notin Web /\ client'[a].pc = "over" /\ client'[a].s = None
<1>1. CASE a \in Web
  <2>1. "cancel" \in PcsOf(a) \ Before /\ Goto(a, "cancel")
    BY <1>1 DEF PcsOf, CompleteError
  <2>. QED
    BY <1>1, <2>1, GotoFields, Kinds
<1>2. CASE a \notin Web
  BY <1>2, OverStep, Kinds DEF CompleteError
<1>. QED
  BY <1>1, <1>2

EnteredBy(a, x, y) == y = [x EXCEPT !.state = "Flushing", !.lock = a]

LEMMA EnterFields ==
    ASSUME NEW x, SessionFields(x), NEW a \in Actors, NEW y, EnteredBy(a, x, y)
    PROVE  /\ SessionFields(y) /\ y.state = "Flushing" /\ y.busy = x.busy /\ y.data = x.data
           /\ y.kept = x.kept /\ y.owns = x.owns /\ y.cancelled = x.cancelled
<1>1. /\ SessRec(y) /\ y.state = "Flushing" /\ y.busy = x.busy /\ y.data = x.data /\ y.idle = x.idle
      /\ y.kept = x.kept /\ y.owns = x.owns /\ y.cancelled = x.cancelled /\ y.lock = a
  BY DEF EnteredBy, SessRec, SessionFields
<1>. QED
  BY <1>1 DEF SessionFields, States

LEMMA CompleteEnterTame ==
    ASSUME Shape, NEW a \in Clients, CompleteEnter(a)
    PROVE  /\ Tame(a) /\ DataSame /\ At(a, "complete") /\ UNCHANGED sessions
           /\ \A t \in Sessions : sess'[t].cancelled = sess[t].cancelled
           /\ \/ /\ client'[a].pc = "finish" /\ client[a].s \in sessions /\ ~Of(a).cancelled
                 /\ client'[a].s = client[a].s /\ client'[a].v = client[a].v /\ BusySame
              \/ /\ \/ /\ a \in Web /\ client'[a].pc = "cancel" /\ client'[a].s = client[a].s
                       /\ client'[a].v = client[a].v
                    \/ a \notin Web /\ client'[a].pc = "over" /\ client'[a].s = None
                 /\ \A t \in Sessions : sess'[t].busy => sess[t].busy /\ (a \in Web \/ t # client[a].s)
<1>. DEFINE s == client[a].s
            x == sess[s]
<1>1. client[a].pc = "complete"
  BY DEF CompleteEnter, At
<1>2. UNCHANGED <<sessions, storeVars, cast>> /\ stale' = stale
  BY DEF CompleteEnter, worldVars
<1>3. CASE /\ client[a].s \in sessions /\ Free(a) /\ MayComplete(Of(a))
           /\ Change(a, [Of(a) EXCEPT !.state = "Flushing", !.lock = a])
           /\ Goto(a, "finish")
  <2>. DEFINE y == [x EXCEPT !.state = "Flushing", !.lock = a]
  <2>1. s \in Sessions /\ Turned(s, y) /\ SessionFields(x) /\ ~x.cancelled
    BY <1>3, HasFields, Changes DEF Of, MayComplete
  <2>2. "finish" \in PcsOf(a) \ Before
    BY DEF PcsOf
  <2>3. /\ Moved(a) /\ ClientFields(a, client'[a])
        /\ client'[a].pc = "finish" /\ client'[a].s = client[a].s /\ client'[a].v = client[a].v
    BY <1>1, <1>3, <2>1, <2>2, GotoFields, Kinds
  <2>e. EnteredBy(a, x, y) /\ a \in Actors
    BY Kinds DEF EnteredBy
  <2>. HIDE DEF x, y, s
  <2>4. /\ SessionFields(y) /\ y.state = "Flushing" /\ y.busy = x.busy /\ y.data = x.data
        /\ y.kept = x.kept /\ y.owns = x.owns /\ y.cancelled = x.cancelled
    <3>1. SessionFields(x)
      BY <2>1
    <3>. QED
      BY <3>1, <2>e, EnterFields
  <2>5. TameFor(a, s, y)
    BY <1>1, <2>1, <2>4 DEF TameFor, x, s
  <2>6. TameSess(a)
    BY <2>1, <2>4, <2>5, TameTurned, Kinds
  <2>7. DataSame /\ BusySame /\ \A t \in Sessions : sess'[t].cancelled = sess[t].cancelled
    BY <2>1, <2>4 DEF Turned, DataSame, BusySame, x
  <2>. QED
    BY <1>1, <1>2, <1>3, <2>1, <2>3, <2>6, <2>7 DEF Tame, At, s, x, Of
<1>4. CASE /\ Change(a, [Of(a) EXCEPT !.busy = IF a \in Web THEN @ ELSE FALSE])
           /\ CompleteError(a)
  <2>1. /\ Moved(a) /\ ClientFields(a, client'[a])
        /\ \/ /\ a \in Web /\ client'[a].pc = "cancel" /\ client'[a].s = client[a].s
              /\ client'[a].v = client[a].v
           \/ a \notin Web /\ client'[a].pc = "over" /\ client'[a].s = None
    BY <1>1, <1>4, CompleteErrorStep
  <2>2. /\ TameSess(a) /\ DataSame
        /\ \A t \in Sessions : /\ sess'[t].cancelled = sess[t].cancelled
                               /\ sess'[t].busy => sess[t].busy /\ (a \in Web \/ t # client[a].s)
    <3>1. CASE s \notin Sessions
      <4>1. sess' = sess
        BY <1>4, <3>1, ChangesNothing
      <4>. QED
        BY <3>1, <4>1, TameSame, Kinds DEF DataSame
    <3>2. CASE s \in Sessions
      <4>. DEFINE b == IF a \in Web THEN x.busy ELSE FALSE
      <4>1. Turned(s, [x EXCEPT !.busy = b]) /\ b \in BOOLEAN
        BY <1>4, <3>2, Changes, HasFields DEF Of, SessionFields
      <4>2. b => x.busy /\ a \in Web
        OBVIOUS
      <4>. HIDE DEF b, s
      <4>3. /\ TameSess(a) /\ DataSame /\ sess'[s].busy = b
            /\ \A t \in Sessions \ {s} : sess'[t] = sess[t]
            /\ sess'[s].cancelled = sess[s].cancelled
        BY <3>2, <4>1, BusyTame, Kinds
      <4>. QED
        BY <4>2, <4>3 DEF s
    <3>. QED
      BY <3>1, <3>2
  <2>. QED
    BY <1>1, <1>2, <2>1, <2>2 DEF Tame, At
<1>. QED
  BY <1>3, <1>4 DEF CompleteEnter

LEMMA CompleteFailsTame ==
    ASSUME Shape, NEW a \in Clients, CompleteFails(a)
    PROVE  /\ Tame(a) /\ FailedSession(a) /\ At(a, "finish") /\ client[a].s \in Sessions
           /\ UNCHANGED sessions
           /\ \/ /\ a \in Web /\ client'[a].pc = "cancel"
                 /\ client'[a].s = client[a].s /\ client'[a].v = client[a].v
              \/ a \notin Web /\ client'[a].pc = "over" /\ client'[a].s = None
<1>1. client[a].pc = "finish" /\ client[a].s \in Sessions
  BY HasFields, Kinds DEF CompleteFails, At, ClientFields
<1>2. PICK r \in StepBack(Of(a)), state \in {"Receiving", "Failed"} :
        Change(a, [r EXCEPT !.state = state, !.lock = None, !.busy = IF a \in Web THEN @ ELSE FALSE])
  BY DEF CompleteFails
<1>3. TameSess(a) /\ FailedSession(a)
  BY <1>1, <1>2, FailureTame
<1>4. /\ Moved(a) /\ ClientFields(a, client'[a])
      /\ \/ /\ a \in Web /\ client'[a].pc = "cancel" /\ client'[a].s = client[a].s
            /\ client'[a].v = client[a].v
         \/ a \notin Web /\ client'[a].pc = "over" /\ client'[a].s = None
  BY <1>1, CompleteErrorStep DEF CompleteFails
<1>5. UNCHANGED <<sessions, storeVars, cast>> /\ stale' = stale
  BY DEF CompleteFails, AfterFailure
<1>. QED
  BY <1>1, <1>3, <1>4, <1>5 DEF Tame, At

LEMMA CancelledFields ==
    ASSUME NEW x, SessionFields(x), NEW y, y = [x EXCEPT !.cancelled = TRUE]
    PROVE  /\ SessionFields(y) /\ y.state = x.state /\ y.busy = x.busy /\ y.data = x.data
           /\ y.kept = x.kept /\ y.owns = x.owns /\ y.cancelled = TRUE
<1>1. /\ SessRec(y) /\ y.state = x.state /\ y.busy = x.busy /\ y.data = x.data /\ y.idle = x.idle
      /\ y.kept = x.kept /\ y.owns = x.owns /\ y.cancelled = TRUE /\ y.lock = x.lock
  BY DEF SessRec, SessionFields
<1>. QED
  BY <1>1 DEF SessionFields, States

LEMMA CancelTame ==
    ASSUME Shape, NEW a \in Actors, Cancel(a)
    PROVE  /\ Tame(a) /\ DataSame /\ At(a, "cancel") /\ UNCHANGED sessions
           /\ \A t \in Sessions : sess'[t].state = sess[t].state /\ (sess'[t].busy => sess[t].busy)
           /\ \/ /\ client'[a].pc \in {"clean", "erase"} /\ client'[a].s = client[a].s
                 /\ client'[a].v = client[a].v
                 /\ client[a].s \in Sessions /\ sess'[client[a].s].cancelled
              \/ /\ client'[a].pc = "over" /\ client'[a].s = None
                 /\ \A t \in Sessions : sess'[t].busy => a \in Web \/ t # client[a].s
<1>. DEFINE s == client[a].s
            x == sess[s]
<1>1. client[a].pc = "cancel" /\ sessions \subseteq Sessions
  BY HasFields DEF Cancel, At
<1>2. UNCHANGED <<sessions, storeVars, cast>> /\ stale' = stale
  BY DEF Cancel, worldVars
<1>3. CASE s \in sessions /\ Change(a, [x EXCEPT !.cancelled = TRUE]) /\ Goto(a, "clean")
  <2>. DEFINE y == [x EXCEPT !.cancelled = TRUE]
  <2>1. s \in Sessions /\ Turned(s, y) /\ SessionFields(x)
    BY <1>1, <1>3, HasFields, Changes
  <2>2. "clean" \in PcsOf(a) \ Before
    BY DEF PcsOf
  <2>3. /\ Moved(a) /\ ClientFields(a, client'[a])
        /\ client'[a].pc = "clean" /\ client'[a].s = client[a].s /\ client'[a].v = client[a].v
    BY <1>1, <1>3, <2>1, <2>2, GotoFields
  <2>e. y = [x EXCEPT !.cancelled = TRUE]
    OBVIOUS
  <2>. HIDE DEF x, y, s
  <2>4. /\ SessionFields(y) /\ y.state = x.state /\ y.busy = x.busy /\ y.data = x.data
        /\ y.kept = x.kept /\ y.owns = x.owns /\ y.cancelled = TRUE
    BY <2>1, <2>e, CancelledFields
  <2>5. TameFor(a, s, y)
    BY <2>1, <2>3, <2>4 DEF TameFor, x, s
  <2>6. TameSess(a)
    BY <2>1, <2>4, <2>5, TameTurned
  <2>7. /\ DataSame
        /\ \A t \in Sessions : sess'[t].state = sess[t].state /\ (sess'[t].busy => sess[t].busy)
        /\ sess'[s].cancelled
    BY <2>1, <2>4 DEF Turned, DataSame, x
  <2>. QED
    BY <1>1, <1>2, <2>1, <2>3, <2>6, <2>7 DEF Tame, At, s
<1>4. CASE s \in sessions /\ x.cancelled /\ Goto(a, "erase") /\ UNCHANGED sess
  <2>1. "erase" \in PcsOf(a) \ Before
    BY DEF PcsOf
  <2>2. /\ Moved(a) /\ ClientFields(a, client'[a])
        /\ client'[a].pc = "erase" /\ client'[a].s = client[a].s /\ client'[a].v = client[a].v
    BY <1>1, <1>4, <2>1, GotoFields
  <2>3. Tame(a) /\ DataSame
    BY <1>1, <1>2, <1>4, <2>2, PureMove
  <2>. QED
    BY <1>1, <1>2, <1>4, <2>2, <2>3 DEF At
<1>5. CASE Leave(a)
  <2>1. /\ Moved(a) /\ ClientFields(a, client'[a]) /\ client'[a].pc = "over" /\ client'[a].s = None
        /\ TameSess(a) /\ DataSame
        /\ \A t \in Sessions : /\ sess'[t].cancelled = sess[t].cancelled /\ sess'[t].state = sess[t].state
                               /\ sess'[t].busy => sess[t].busy /\ (a \in Web \/ t # client[a].s)
    BY <1>5, LeaveStep
  <2>. QED
    BY <1>1, <1>2, <2>1 DEF Tame, At
<1>. QED
  BY <1>3, <1>4, <1>5 DEF Cancel, Of
-----------------------------------------------------------------------------
(* Part 3: the other steps *)

\* Types hold again when they do for sessions and clients.
LEMMA ShapeAgain ==
    ASSUME Shape, ClientShape', SessShape', sessions' \subseteq Sessions, stale' \subseteq Sessions,
           blobs' \subseteq Sessions, orphans' \subseteq Sessions, cast' = cast,
           \A e \in entries' : EntryRec(e)
    PROVE  Shape'
BY DEF Shape, ClientShape, SessShape, EntryRec

LEMMA SameEntries ==
    ASSUME Shape, entries' = entries
    PROVE  \A e \in entries' : EntryRec(e)
BY DEF Shape

LEMMA StartStep ==
    ASSUME Shape, NEW a \in Clients, Start(a)
    PROVE  /\ Shape' /\ Moved(a) /\ UNCHANGED <<sess, sessions, storeVars, stale, cast>> /\ Quiet
           /\ client'[a].pc = (IF a \in Web THEN "init" ELSE "claim") /\ client'[a].s = None
           /\ a \in cast.clients /\ client[a].pc \in EndPcs
<1>. DEFINE pc == IF a \in Web THEN "init" ELSE "claim"
            y == client'[a]
            n == client[a].tries + 1
            w == CHOOSE u \in Versions : TRUE
<1>1. PICK v \in cast.versions : Step(a, [FreshClient EXCEPT !.pc = pc, !.v = v, !.tries = n])
  BY DEF Start
<1>2. Moved(a) /\ y = [FreshClient EXCEPT !.pc = pc, !.v = v, !.tries = n]
  BY <1>1, Steps, Kinds
<1>3. (pc = "init" /\ a \in Web) \/ (pc = "claim" /\ a \notin Web)
  OBVIOUS
<1>4. FreshClient = [pc |-> "off", s |-> None, v |-> w, pos |-> 0, left |-> 0, want |-> <<>>,
                     tries |-> 0]
  BY DEF FreshClient
<1>. HIDE DEF w, n, pc, y
<1>. DEFINE z == [pc |-> pc, s |-> None, v |-> v, pos |-> 0, left |-> 0, want |-> <<>>, tries |-> n]
<1>5. y = z
  BY <1>2, <1>4
<1>6. ClientFields(a, z) /\ z.pc = pc /\ z.s = None
  BY <1>3 DEF ClientRec, ClientFields, PcsOf
<1>7. ClientFields(a, y) /\ y.pc = pc /\ y.s = None
  BY <1>5, <1>6, Zenon
<1>8. UNCHANGED <<sess, sessions, storeVars, stale, cast>> /\ a \in cast.clients
      /\ client[a].pc \in EndPcs /\ Quiet
  BY DEF Start, worldVars
<1>9. ClientShape'
  BY <1>2, <1>7, <1>8, MovedShape, Kinds DEF y
<1>10. Shape'
  BY <1>8, <1>9, SameShape, SameEntries, ShapeAgain DEF storeVars, Shape
<1>. QED
  BY <1>2, <1>7, <1>8, <1>10 DEF y, pc

\* A session is made and registered.
LEMMA BeginNewStep ==
    ASSUME Shape, NEW a \in Clients, BeginNew(a)
    PROVE  /\ Shape' /\ Moved(a) /\ UNCHANGED <<storeVars, stale, cast>>
           /\ client[a].pc \in {"init", "begin"}
           /\ \E s \in Sessions :
                /\ sess[s].state = "none" /\ ~sess[s].cancelled
                /\ client'[a].s = s /\ client'[a].v = client[a].v /\ client'[a].pos = 0
                /\ client'[a].pc = (IF a \in Web THEN "send" ELSE "open")
                /\ sessions' = sessions \cup {s}
                /\ \A t \in Sessions \ {s} : sess'[t] = sess[t]
                /\ sess'[s].state = "Preparing" /\ ~sess'[s].cancelled /\ ~sess'[s].busy
                /\ ~sess'[s].owns /\ sess'[s].data = <<>>
<1>. DEFINE pc == IF a \in Web THEN "send" ELSE "open"
            x == client[a]
            y == client'[a]
<1>1. PICK name, replace : NewSession(a, name, replace)
  BY DEF BeginNew
<1>. DEFINE unused == {s \in Sessions : sess[s] = FreshSession}
            s == CHOOSE u \in unused : TRUE
            z == [FreshSession EXCEPT !.state = "Preparing", !.name = name, !.replace = replace]
<1>2. s \in Sessions /\ sess[s] = FreshSession
  BY <1>1 DEF NewSession
<1>3. /\ sess' = [sess EXCEPT ![s] = z] /\ sessions' = sessions \cup {s}
      /\ Step(a, [client[a] EXCEPT !.s = s, !.pos = 0, !.pc = pc])
      /\ UNCHANGED <<storeVars, worldVars>>
  BY <1>1 DEF NewSession
<1>z. z = [FreshSession EXCEPT !.state = "Preparing", !.name = name, !.replace = replace]
  OBVIOUS
<1>. HIDE DEF s, z
<1>4. Turned(s, z)
  BY <1>2, <1>3 DEF Turned, Shape
<1>5. Moved(a) /\ y = [x EXCEPT !.s = s, !.pos = 0, !.pc = pc]
  BY <1>3, Steps, Kinds
<1>6. ClientFields(a, x) /\ x.pc \in {"init", "begin"}
  BY HasFields, Kinds DEF BeginNew, MayBegin, At
<1>7. (pc = "send" /\ a \in Web) \/ (pc = "open" /\ a \notin Web)
  OBVIOUS
<1>8. /\ SessRec(z) /\ z.state = "Preparing" /\ z.cancelled = FALSE /\ z.busy = FALSE /\ z.idle = FALSE
      /\ z.owns = FALSE /\ z.data = <<>> /\ z.kept = 0 /\ z.lock = None
  BY <1>z DEF SessRec, FreshSession
<1>9. <<>> \in Seq(Versions \X Nat) /\ Len(<<>>) = 0
  OBVIOUS
<1>k. z.kept \in 0..Len(z.data)
  <2>1. Len(z.data) = 0
    BY <1>8
  <2>. QED
    BY <1>8, <2>1
<1>10. SessionFields(z)
  <2>1. z.data \in Seq(Versions \X Nat) /\ z.state \in States
    BY <1>8, <1>9 DEF States
  <2>. QED
    BY <1>8, <1>k, <2>1 DEF SessionFields
<1>11. sess[s].state = "none" /\ sess[s].cancelled = FALSE
  BY <1>2 DEF FreshSession
<1>. HIDE DEF x, y, pc
<1>12. ClientRec(y) /\ y.pc = pc /\ y.s = s /\ y.v = x.v /\ y.pos = 0 /\ y.left = x.left
  BY <1>5, <1>6 DEF ClientFields, ClientRec
<1>13. ClientFields(a, y)
  BY <1>2, <1>6, <1>7, <1>12 DEF ClientFields, PcsOf
<1>14. UNCHANGED <<storeVars, stale, cast>>
  BY <1>3 DEF worldVars
<1>15. ClientShape' /\ SessShape'
  BY <1>2, <1>4, <1>5, <1>10, <1>13, <1>14, MovedShape, TurnedShape, Kinds DEF y
<1>16. Shape'
  BY <1>2, <1>3, <1>14, <1>15, SameEntries, ShapeAgain DEF storeVars, Shape
<1>. QED
  BY <1>2, <1>3, <1>4, <1>5, <1>6, <1>8, <1>11, <1>12, <1>14, <1>16
  DEF Turned, x, y, pc

\* A file is linked: its rows once more under another name.
LEMMA BeginLinksStep ==
    ASSUME Shape, NEW a \in Clients, BeginLinks(a)
    PROVE  /\ Shape' /\ Moved(a) /\ UNCHANGED <<sess, sessions, blobs, orphans, stale, cast>>
           /\ client[a].pc = "init" /\ client'[a].pc = "over" /\ client'[a].s = None
           /\ \E e \in entries : \E f : f.data = e.data /\ f.blob = e.blob /\ entries' = entries \cup {f}
<1>1. PICK e \in Duplicates(a) :
        entries' = entries \cup {[e EXCEPT !.id = Cardinality(entries) + 1, !.name = FreeName]}
  BY DEF BeginLinks
<1>. DEFINE n == Cardinality(entries) + 1
            m == FreeName
            f == [e EXCEPT !.id = n, !.name = m]
<1>2. e \in entries /\ EntryRec(e)
  BY DEF Duplicates, Named, Shape
<1>f. f = [e EXCEPT !.id = n, !.name = m]
  OBVIOUS
<1>. HIDE DEF n, m, f
<1>3. EntryRec(f) /\ f.data = e.data /\ f.blob = e.blob
  BY <1>2, <1>f DEF EntryRec
<1>4. Over(a) /\ client[a].pc = "init" /\ UNCHANGED <<sess, sessions, blobs, orphans, stale, cast>>
  BY DEF BeginLinks, At, worldVars
<1>5. Moved(a) /\ ClientFields(a, client'[a]) /\ client'[a].pc = "over" /\ client'[a].s = None
  BY <1>4, OverStep, Kinds
<1>6. entries' = entries \cup {f}
  BY <1>1 DEF f, n, m
<1>7. ClientShape' /\ SessShape'
  BY <1>4, <1>5, MovedShape, SameShape, Kinds
<1>8. \A g \in entries' : EntryRec(g)
  BY <1>3, <1>6 DEF Shape
<1>9. Shape'
  BY <1>4, <1>7, <1>8, ShapeAgain DEF Shape
<1>. QED
  BY <1>2, <1>3, <1>4, <1>5, <1>6, <1>9

\* A session turned, a client moved: the types hold again.
LEMMA TurnedAndMoved ==
    ASSUME Shape, NEW a \in Actors, Moved(a), ClientFields(a, client'[a]),
           NEW s \in Sessions, NEW x, Turned(s, x), SessionFields(x),
           sessions' = sessions, blobs' \subseteq Sessions, UNCHANGED <<orphans, stale, cast>>,
           \A e \in entries' : EntryRec(e)
    PROVE  Shape'
<1>1. ClientShape' /\ SessShape'
  BY MovedShape, TurnedShape
<1>. QED
  BY <1>1, ShapeAgain DEF Shape

\* Session x with a block more, k of them kept.
ReceivedAs(y, x, b, k) ==
    /\ k \in {x.kept, Len(Append(x.data, b))}
    /\ y = [x EXCEPT !.data = Append(x.data, b), !.kept = k, !.state = "Receiving",
                     !.idle = FALSE, !.owns = x.owns \/ k > x.kept]

LEMMA ReceivedFields ==
    ASSUME NEW x, SessionFields(x), NEW b \in Versions \X Nat, NEW k, NEW y, ReceivedAs(y, x, b, k)
    PROVE  /\ SessionFields(y) /\ y.data = Append(x.data, b)
           /\ y.state = "Receiving" /\ y.busy = x.busy /\ y.cancelled = x.cancelled
           /\ y.owns = (x.owns \/ k > x.kept)
<1>. DEFINE d == Append(x.data, b)
            o == x.owns \/ k > x.kept
<1>1. d \in Seq(Versions \X Nat) /\ Len(d) = Len(x.data) + 1
  BY DEF SessionFields
<1>2. x.kept \in Nat /\ x.kept <= Len(x.data) /\ Len(x.data) \in Nat /\ k \in {x.kept, Len(d)}
  BY DataLength DEF ReceivedAs
<1>3. o \in BOOLEAN
  OBVIOUS
<1>4. y = [x EXCEPT !.data = d, !.kept = k, !.state = "Receiving", !.idle = FALSE, !.owns = o]
  BY DEF ReceivedAs
<1>. HIDE DEF d, o
<1>5. /\ SessRec(y) /\ y.state = "Receiving" /\ y.busy = x.busy /\ y.data = d /\ y.idle = FALSE
      /\ y.kept = k /\ y.owns = o /\ y.cancelled = x.cancelled /\ y.lock = x.lock
  BY <1>4 DEF SessRec, SessionFields
<1>6. k \in 0..Len(d)
  BY <1>1, <1>2
<1>7. SessionFields(y)
  <2>1. y.kept \in 0..Len(y.data)
    BY <1>5, <1>6, Zenon
  <2>. QED
    BY <1>1, <1>3, <1>5, <2>1 DEF SessionFields, States
<1>. QED
  BY <1>5, <1>6, <1>7 DEF d, o

\* One block received: s has it, and its first chunk makes it the owner of documents.
LEMMA ReceiveStep ==
    ASSUME Shape, NEW a \in Clients, Receive(a)
    PROVE  LET s == client[a].s
               x == client[a]
               last == IF a \in Web THEN x.left = 1 ELSE x.pos + 1 = Blocks
           IN  /\ Shape' /\ Moved(a) /\ At(a, "recv") /\ s \in Sessions
               /\ ~sess[s].cancelled /\ ~sess'[s].cancelled /\ sess'[s].state = "Receiving"
               /\ sess'[s].busy = sess[s].busy
               /\ sess'[s].data = Append(sess[s].data, <<x.v, x.pos + 1>>)
               /\ \A t \in Sessions \ {s} : sess'[t] = sess[t]
               /\ \/ blobs' = blobs /\ sess'[s].owns = sess[s].owns
                  \/ blobs' = blobs \cup {s} /\ sess'[s].owns = TRUE
               /\ client'[a].s = s /\ client'[a].v = x.v /\ client'[a].pos = x.pos + 1
               /\ a \in Web => client'[a].left = x.left - 1
               /\ client'[a].pc = IF ~last THEN "recv" ELSE IF a \in Web THEN "send" ELSE "check"
               /\ UNCHANGED <<sessions, entries, orphans, stale, cast>>
<1>. DEFINE s == client[a].s
            x == client[a]
            y == client'[a]
            me == sess[s]
            b == <<x.v, x.pos + 1>>
            last == IF a \in Web THEN x.left = 1 ELSE x.pos + 1 = Blocks
            pc == IF ~last THEN "recv" ELSE IF a \in Web THEN "send" ELSE "check"
            left == IF a \in Web THEN x.left - 1 ELSE 0
<1>1. /\ ClientFields(a, x) /\ x.pc = "recv" /\ s \in Sessions /\ ~me.cancelled /\ SessionFields(me)
  BY HasFields, Kinds DEF Receive, At, Accepts, Of, ClientFields
<1>2. PICK k \in {me.kept, Len(Append(me.data, b))} :
        /\ Change(a, [me EXCEPT !.data = Append(me.data, b), !.kept = k, !.state = "Receiving",
                                !.idle = FALSE, !.owns = me.owns \/ k > me.kept])
        /\ blobs' = IF k > me.kept THEN blobs \cup {s} ELSE blobs
  BY DEF Receive, Of
<1>3. Moved(a) /\ y = [x EXCEPT !.pos = x.pos + 1, !.left = left, !.pc = pc]
  BY Steps, Kinds DEF Receive
<1>4. UNCHANGED <<sessions, entries, orphans, stale, cast>>
  BY DEF Receive, worldVars
<1>5. b \in Versions \X Nat
  <2>1. x.v \in Versions /\ x.pos \in Nat
    BY <1>1, RegistryAssumption DEF ClientFields, Shape
  <2>. QED
    BY <2>1
<1>6. left \in Int /\ pc \in PcsOf(a) \ Before
  BY <1>1 DEF ClientFields, PcsOf
<1>. DEFINE z == [me EXCEPT !.data = Append(me.data, b), !.kept = k, !.state = "Receiving",
                                !.idle = FALSE, !.owns = me.owns \/ k > me.kept]
<1>7. Turned(s, z)
  BY <1>1, <1>2, Changes
<1>z. ReceivedAs(z, me, b, k)
  BY <1>2 DEF ReceivedAs
<1>. HIDE DEF z, b, me
<1>8. /\ SessionFields(z) /\ z.data = Append(me.data, b)
      /\ z.state = "Receiving" /\ z.busy = me.busy /\ z.cancelled = me.cancelled
      /\ z.owns = (me.owns \/ k > me.kept)
  BY <1>1, <1>5, <1>z, ReceivedFields
<1>9. \/ blobs' = blobs /\ z.owns = me.owns
      \/ blobs' = blobs \cup {s} /\ z.owns = TRUE
  <2>1. me.owns \in BOOLEAN
    BY <1>1 DEF SessionFields
  <2>2. CASE k > me.kept
    BY <1>2, <1>8, <2>2
  <2>3. CASE ~(k > me.kept)
    BY <1>2, <1>8, <2>1, <2>3, Zenon
  <2>. QED
    BY <2>2, <2>3
<1>. HIDE DEF s, x, y, left, pc
<1>10. ClientRec(y) /\ y.pc = pc /\ y.s = x.s /\ y.v = x.v /\ y.pos = x.pos + 1 /\ y.left = left
  BY <1>1, <1>3 DEF ClientFields, ClientRec
<1>11. ClientFields(a, y)
  <2>1. y.pos \in Nat
    BY <1>1, <1>10 DEF ClientFields
  <2>2. x.s \in Sessions
    BY <1>1 DEF s, x
  <2>. QED
    BY <1>1, <1>6, <1>10, <2>1, <2>2 DEF ClientFields
<1>12. blobs' \subseteq Sessions
  BY <1>1, <1>9 DEF Shape
<1>13. \A e \in entries' : EntryRec(e)
  BY <1>4, SameEntries
<1>14. Shape'
  BY <1>1, <1>3, <1>4, <1>7, <1>8, <1>11, <1>12, <1>13, TurnedAndMoved, Kinds DEF y, me
<1>. QED
  BY <1>1, <1>3, <1>4, <1>7, <1>8, <1>9, <1>10, <1>14
  DEF Turned, At, s, x, y, me, b, left, pc, last

LEMMA SavedFields ==
    ASSUME NEW x, SessionFields(x), NEW y,
           y = [x EXCEPT !.state = "Completed", !.kept = Len(x.data), !.owns = FALSE, !.lock = None]
    PROVE  /\ SessionFields(y) /\ y.data = x.data /\ y.state = "Completed"
           /\ y.busy = x.busy /\ y.cancelled = x.cancelled /\ y.owns = FALSE
<1>1. x.kept \in Nat /\ x.kept <= Len(x.data) /\ Len(x.data) \in Nat
  BY DataLength
<1>2. /\ SessRec(y) /\ y.state = "Completed" /\ y.busy = x.busy /\ y.data = x.data /\ y.idle = x.idle
      /\ y.kept = Len(x.data) /\ y.owns = FALSE /\ y.cancelled = x.cancelled /\ y.lock = None
  BY DEF SessRec, SessionFields
<1>3. y.kept \in 0..Len(y.data)
  BY <1>1, <1>2
<1>. QED
  BY <1>2, <1>3 DEF SessionFields, States

\* Files whose documents an upload can take over, and the file it replaces.
TwinsOf(me) == {e \in entries : e.data = me.data /\ e.id # me.replace}
OldOf(me)   == {e \in entries : e.id = me.replace}

\* The file is saved.
LEMMA SavesStep ==
    ASSUME Shape, NEW a \in Clients, CompleteSaves(a)
    PROVE  LET s  == client[a].s
               me == sess[s]
           IN  /\ Shape' /\ Moved(a) /\ At(a, "finish") /\ s \in Sessions
               /\ sess'[s].cancelled = me.cancelled /\ sess'[s].state = "Completed"
               /\ sess'[s].busy = me.busy /\ sess'[s].data = me.data /\ sess'[s].owns = FALSE
               /\ \A t \in Sessions \ {s} : sess'[t] = sess[t]
               /\ \E new : /\ entries' = (entries \ OldOf(me)) \cup {new} /\ new.data = me.data
                           /\ \/ TwinsOf(me) = {} /\ new.blob = s
                              \/ \E e \in TwinsOf(me) : new.blob = e.blob
               /\ blobs' = ((IF TwinsOf(me) = {} THEN blobs \cup {s}
                             ELSE IF me.owns THEN blobs \ {s} ELSE blobs)
                            \ UNION {Purged(e) : e \in OldOf(me)})
               /\ client'[a].s = s /\ client'[a].v = client[a].v /\ client'[a].pc = "erase"
               /\ UNCHANGED <<sessions, orphans, stale, cast>>
<1>. DEFINE s == client[a].s
            me == sess[s]
            old == OldOf(me)
            twins == TwinsOf(me)
            z == [me EXCEPT !.state = "Completed", !.kept = Len(me.data), !.owns = FALSE, !.lock = None]
            blob == IF twins = {} THEN s ELSE (CHOOSE e \in twins : TRUE).blob
            id == IF old = {} THEN Cardinality(entries) + 1 ELSE me.replace
            new == [id |-> id, name |-> me.name, data |-> me.data, blob |-> blob]
<1>1. client[a].pc = "finish" /\ s \in Sessions /\ SessionFields(me)
  BY HasFields, Kinds DEF CompleteSaves, At, ClientFields
<1>2. /\ Change(a, z) /\ Goto(a, "erase") /\ UNCHANGED <<sessions, orphans, stale, cast>>
      /\ entries' = (entries \ old) \cup {new}
      /\ blobs' = ((IF twins = {} THEN blobs \cup {s} ELSE IF me.owns THEN blobs \ {s} ELSE blobs)
                   \ UNION {Purged(e) : e \in old})
  BY DEF CompleteSaves, Of, OldOf, TwinsOf, worldVars
<1>3. Turned(s, z)
  BY <1>1, <1>2, Changes
<1>4. "erase" \in PcsOf(a) \ Before
  BY DEF PcsOf
<1>5. /\ Moved(a) /\ ClientFields(a, client'[a])
      /\ client'[a].pc = "erase" /\ client'[a].s = client[a].s /\ client'[a].v = client[a].v
  BY <1>1, <1>2, <1>4, GotoFields, Kinds
<1>6. new.data = me.data /\ new.blob = blob /\ EntryRec(new)
  BY DEF EntryRec
<1>7. (twins = {} /\ blob = s) \/ (\E e \in twins : blob = e.blob)
  OBVIOUS
<1>8. blobs' \subseteq Sessions
  BY <1>1, <1>2 DEF Shape
<1>9. \A e \in entries' : EntryRec(e)
  <2>. HIDE DEF new
  <2>. QED
    BY <1>2, <1>6 DEF Shape
<1>z. z = [me EXCEPT !.state = "Completed", !.kept = Len(me.data), !.owns = FALSE, !.lock = None]
  OBVIOUS
<1>. HIDE DEF z, me, new, blob, id, old, twins
<1>10. /\ SessionFields(z) /\ z.data = me.data /\ z.state = "Completed"
       /\ z.busy = me.busy /\ z.cancelled = me.cancelled /\ z.owns = FALSE
  BY <1>1, <1>z, SavedFields
<1>11. Shape'
  BY <1>1, <1>2, <1>3, <1>5, <1>8, <1>9, <1>10, TurnedAndMoved, Kinds DEF me
<1>12. \E n : /\ entries' = (entries \ old) \cup {n} /\ n.data = me.data
              /\ \/ twins = {} /\ n.blob = s
                 \/ \E e \in twins : n.blob = e.blob
  BY <1>2, <1>6, <1>7
<1>13. /\ sess'[s].cancelled = me.cancelled /\ sess'[s].state = "Completed"
       /\ sess'[s].busy = me.busy /\ sess'[s].data = me.data /\ sess'[s].owns = FALSE
       /\ \A t \in Sessions \ {s} : sess'[t] = sess[t]
  BY <1>3, <1>10 DEF Turned
<1>. QED
  BY <1>1, <1>2, <1>5, <1>11, <1>12, <1>13 DEF At, old, twins, me

LEMMA CleanedFields ==
    ASSUME NEW x, SessionFields(x), NEW y, y = [x EXCEPT !.state = "Cancelled", !.owns = FALSE]
    PROVE  /\ SessionFields(y) /\ y.data = x.data /\ y.kept = x.kept /\ y.state = "Cancelled"
           /\ y.busy = x.busy /\ y.cancelled = x.cancelled /\ y.owns = FALSE
<1>1. /\ SessRec(y) /\ y.state = "Cancelled" /\ y.busy = x.busy /\ y.data = x.data /\ y.idle = x.idle
      /\ y.kept = x.kept /\ y.owns = FALSE /\ y.cancelled = x.cancelled /\ y.lock = x.lock
  BY DEF SessRec, SessionFields
<1>. QED
  BY <1>1 DEF SessionFields, States

\* The documents of a cancelled session go.
LEMMA CleansStep ==
    ASSUME Shape, NEW a \in Actors, CancelCleans(a)
    PROVE  LET s  == client[a].s
               me == sess[s]
           IN  /\ Shape' /\ Moved(a) /\ At(a, "clean") /\ s \in Sessions
               /\ sess'[s].cancelled = me.cancelled /\ sess'[s].state = "Cancelled"
               /\ sess'[s].busy = me.busy /\ sess'[s].data = me.data /\ sess'[s].owns = FALSE
               /\ \A t \in Sessions \ {s} : sess'[t] = sess[t]
               /\ blobs' = (IF me.owns THEN blobs \ {s} ELSE blobs)
               /\ client'[a].s = s /\ client'[a].v = client[a].v /\ client'[a].pc = "erase"
               /\ UNCHANGED <<sessions, entries, orphans, stale, cast>>
<1>. DEFINE s == client[a].s
            me == sess[s]
            z == [me EXCEPT !.state = "Cancelled", !.owns = FALSE]
<1>1. client[a].pc = "clean" /\ s \in Sessions /\ SessionFields(me)
  BY HasFields DEF CancelCleans, At, ClientFields
<1>2. /\ Change(a, z) /\ Goto(a, "erase") /\ UNCHANGED <<sessions, entries, orphans, stale, cast>>
      /\ blobs' = (IF me.owns THEN blobs \ {s} ELSE blobs)
  BY DEF CancelCleans, Of, Rollback, worldVars
<1>3. Turned(s, z)
  BY <1>1, <1>2, Changes
<1>4. "erase" \in PcsOf(a) \ Before
  BY DEF PcsOf
<1>5. /\ Moved(a) /\ ClientFields(a, client'[a])
      /\ client'[a].pc = "erase" /\ client'[a].s = client[a].s /\ client'[a].v = client[a].v
  BY <1>1, <1>2, <1>4, GotoFields
<1>8. blobs' \subseteq Sessions
  BY <1>1, <1>2 DEF Shape
<1>9. \A e \in entries' : EntryRec(e)
  BY <1>2, SameEntries
<1>z. z = [me EXCEPT !.state = "Cancelled", !.owns = FALSE]
  OBVIOUS
<1>. HIDE DEF z, me
<1>10. /\ SessionFields(z) /\ z.data = me.data /\ z.kept = me.kept /\ z.state = "Cancelled"
       /\ z.busy = me.busy /\ z.cancelled = me.cancelled /\ z.owns = FALSE
  BY <1>1, <1>z, CleanedFields
<1>11. Shape'
  BY <1>1, <1>2, <1>3, <1>5, <1>8, <1>9, <1>10, TurnedAndMoved
<1>13. /\ sess'[s].cancelled = me.cancelled /\ sess'[s].state = "Cancelled"
       /\ sess'[s].busy = me.busy /\ sess'[s].data = me.data /\ sess'[s].owns = FALSE
       /\ \A t \in Sessions \ {s} : sess'[t] = sess[t]
  BY <1>3, <1>10 DEF Turned
<1>. QED
  BY <1>1, <1>2, <1>5, <1>11, <1>13 DEF At, me

LEMMA DeadFields ==
    /\ SessionFields(Dead) /\ Dead.state = "Cancelled" /\ Dead.cancelled = TRUE /\ Dead.owns = FALSE
    /\ Dead.busy = FALSE /\ Dead.data = <<>>
<1>. DEFINE x == FreshSession
            z == Dead
<1>1. /\ SessRec(x) /\ x.state = "none" /\ x.cancelled = FALSE /\ x.busy = FALSE /\ x.idle = FALSE
      /\ x.owns = FALSE /\ x.data = <<>> /\ x.kept = 0 /\ x.lock = None
  BY DEF SessRec, FreshSession
<1>z. z = [x EXCEPT !.state = "Cancelled", !.cancelled = TRUE]
  BY DEF Dead
<1>. HIDE DEF x, z
<1>2. /\ SessRec(z) /\ z.state = "Cancelled" /\ z.cancelled = TRUE /\ z.busy = FALSE /\ z.idle = FALSE
      /\ z.owns = FALSE /\ z.data = <<>> /\ z.kept = 0 /\ z.lock = None
  BY <1>1, <1>z DEF SessRec
<1>3. z.kept \in 0..Len(z.data)
  <2>1. Len(z.data) = 0
    BY <1>2
  <2>. QED
    BY <1>2, <2>1
<1>4. z.data \in Seq(Versions \X Nat) /\ z.state \in States
  BY <1>2 DEF States
<1>5. SessionFields(z)
  BY <1>2, <1>3, <1>4 DEF SessionFields
<1>. QED
  BY <1>2, <1>5 DEF z

\* A session that has not been dealt out, as at the beginning.
LEMMA FreshSessionFields ==
    /\ SessionFields(FreshSession) /\ FreshSession.state = "none" /\ FreshSession.cancelled = FALSE
    /\ FreshSession.owns = FALSE /\ FreshSession.busy = FALSE /\ FreshSession.data = <<>>
<1>. DEFINE z == FreshSession
<1>2. /\ SessRec(z) /\ z.state = "none" /\ z.cancelled = FALSE /\ z.busy = FALSE /\ z.idle = FALSE
      /\ z.owns = FALSE /\ z.data = <<>> /\ z.kept = 0 /\ z.lock = None
  BY DEF SessRec, FreshSession
<1>. HIDE DEF z
<1>3. z.kept \in 0..Len(z.data)
  <2>1. Len(z.data) = 0
    BY <1>2
  <2>. QED
    BY <1>2, <2>1
<1>4. z.data \in Seq(Versions \X Nat) /\ z.state \in States
  BY <1>2 DEF States
<1>5. SessionFields(z)
  BY <1>2, <1>3, <1>4 DEF SessionFields
<1>. QED
  BY <1>2, <1>5 DEF z

\* Somebody else refers to the session too.
Referred(a) == \E b \in Actors \ {a} : client[b].s = client[a].s

\* A session leaves the registry, and the object dies if nobody else refers to it.
LEMMA EraseStep ==
    ASSUME Shape, NEW a \in Actors, Erase(a)
    PROVE  LET s == client[a].s
           IN  /\ Shape' /\ Moved(a) /\ At(a, "erase") /\ s \in Sessions
               /\ client'[a].pc = "over" /\ client'[a].s = None
               /\ sessions' = sessions \ {s}
               /\ \A t \in Sessions \ {s} : sess'[t] = sess[t]
               /\ sess'[s].busy => sess[s].busy /\ a \in Web
               /\ \/ /\ Referred(a) /\ sess'[s].cancelled = sess[s].cancelled
                     /\ sess'[s].state = sess[s].state /\ sess'[s].owns = sess[s].owns
                     /\ sess'[s].data = sess[s].data
                  \/ ~Referred(a) /\ sess'[s] = Dead
               /\ UNCHANGED <<entries, blobs, orphans, stale, cast>>
<1>. DEFINE s == client[a].s
            me == sess[s]
<1>1. client[a].pc = "erase" /\ s \in Sessions /\ SessionFields(me)
  BY HasFields DEF Erase, At, ClientFields
<1>2. sessions' = sessions \ {s} /\ UNCHANGED <<entries, blobs, orphans, stale, cast>>
  BY DEF Erase, storeVars, worldVars
<1>3. PICK z : /\ Turned(s, z) /\ SessionFields(z) /\ Over(a)
               /\ z.busy => me.busy /\ a \in Web
               /\ \/ /\ Referred(a) /\ z.cancelled = me.cancelled
                     /\ z.state = me.state /\ z.owns = me.owns /\ z.data = me.data
                  \/ ~Referred(a) /\ z = Dead
  <2>1. CASE Referred(a) /\ Leave(a)
    <3>. DEFINE b == IF a \notin Web THEN FALSE ELSE me.busy
                z == [me EXCEPT !.busy = b]
    <3>1. z.busy = b /\ b \in BOOLEAN /\ (b => me.busy /\ a \in Web)
      BY <1>1 DEF SessionFields, SessRec
    <3>2. sess'[s] = IF a \notin Web THEN [me EXCEPT !.busy = FALSE] ELSE me
      BY <1>1, <2>1 DEF Leave
    <3>3. sess'[s] = z
      <4>1. CASE a \notin Web
        BY <3>2, <4>1
      <4>2. CASE a \in Web
        BY <1>1, <3>2, <4>2 DEF SessionFields, SessRec
      <4>. QED
        BY <4>1, <4>2
    <3>4. Turned(s, z)
      <4>. HIDE DEF z
      <4>1. /\ sess' = [t \in Sessions |-> sess'[t]] /\ \A t \in Sessions \ {s} : sess'[t] = sess[t]
        BY <2>1 DEF Leave
      <4>. QED
        BY <3>3, <4>1 DEF Turned
    <3>z. z = [me EXCEPT !.busy = b]
      OBVIOUS
    <3>. HIDE DEF z, b, me
    <3>5. /\ SessionFields(z) /\ z.busy = b /\ z.data = me.data /\ z.kept = me.kept
          /\ z.owns = me.owns /\ z.cancelled = me.cancelled /\ z.state = me.state
      BY <1>1, <3>1, <3>z, BusyFields
    <3>. QED
      BY <2>1, <3>1, <3>4, <3>5 DEF Leave
  <2>2. CASE ~Referred(a) /\ Over(a) /\ Change(a, Dead)
    <3>1. Turned(s, Dead)
      BY <1>1, <2>2, Changes
    <3>. QED
      BY <2>2, <3>1, DeadFields
  <2>. QED
    BY <2>1, <2>2 DEF Erase, Referred
<1>4. Moved(a) /\ ClientFields(a, client'[a]) /\ client'[a].pc = "over" /\ client'[a].s = None
  BY <1>3, OverStep
<1>5. ClientShape' /\ SessShape'
  BY <1>1, <1>2, <1>3, <1>4, MovedShape, TurnedShape
<1>6. Shape'
  BY <1>2, <1>5, SameEntries, ShapeAgain DEF Shape
<1>. QED
  BY <1>1, <1>2, <1>3, <1>4, <1>6 DEF Turned, At

LEMMA ReapStaleStep ==
    ASSUME Shape, ReapStale
    PROVE  /\ Shape' /\ UNCHANGED <<sess, client, sessions, storeVars, cast>>
           /\ stale' \subseteq sessions
<1>1. UNCHANGED <<sess, client, sessions, storeVars, cast>> /\ stale' \subseteq sessions
  BY DEF ReapStale, Idle
<1>2. Shape'
  BY <1>1 DEF Shape, storeVars, SessionFields, ClientFields
<1>. QED
  BY <1>1, <1>2

\* Nothing but the idle mark changes.
LEMMA TimeStep ==
    ASSUME Shape, NEW s \in Sessions, TimePasses(s)
    PROVE  /\ Shape' /\ UNCHANGED <<client, sessions, storeVars, stale, cast>>
           /\ \A t \in Sessions :
                 /\ sess'[t].state = sess[t].state /\ sess'[t].cancelled = sess[t].cancelled
                 /\ sess'[t].owns = sess[t].owns /\ sess'[t].busy = sess[t].busy
                 /\ sess'[t].data = sess[t].data
<1>. DEFINE x == sess[s]
            z == [x EXCEPT !.idle = TRUE]
<1>1. UNCHANGED <<client, sessions, storeVars, stale, cast>>
  BY DEF TimePasses, worldVars
<1>2. Turned(s, z)
  BY DEF TimePasses, Turned, Shape
<1>3. SessionFields(x)
  BY HasFields
<1>z. z = [x EXCEPT !.idle = TRUE]
  OBVIOUS
<1>. HIDE DEF x, z
<1>4. /\ SessRec(z) /\ z.state = x.state /\ z.busy = x.busy /\ z.data = x.data /\ z.idle = TRUE
      /\ z.kept = x.kept /\ z.owns = x.owns /\ z.cancelled = x.cancelled /\ z.lock = x.lock
  BY <1>3, <1>z DEF SessRec, SessionFields
<1>5. SessionFields(z)
  BY <1>3, <1>4 DEF SessionFields
<1>6. SessShape'
  BY <1>2, <1>5, TurnedShape
<1>7. Shape'
  BY <1>1, <1>6, SameEntries DEF Shape, SessShape, storeVars, ClientFields
<1>. QED
  BY <1>1, <1>2, <1>4, <1>7 DEF Turned, x

\* The process crashes: sessions are dead, tabs will ask, all else is over.
LEMMA CrashStep ==
    ASSUME Shape, Crash
    PROVE  /\ Shape' /\ sessions' = {} /\ stale' = {}
           /\ orphans' = orphans \cup {s \in Sessions : sess[s].owns}
           /\ \A s \in Sessions : sess'[s] = IF sess[s].state = "none" THEN sess[s] ELSE Dead
           /\ \A a \in Actors :
                 /\ client'[a].s \in {None, client[a].s}
                 /\ \/ client'[a] = client[a] /\ client[a].pc \in EndPcs
                    \/ a \in Clients /\ client'[a].pc = "ask" /\ client[a].pc \notin EndPcs
                    \/ client'[a].pc = "over" /\ client'[a].s = None
           /\ UNCHANGED <<entries, blobs, cast>>
<1>1. /\ sessions' = {} /\ stale' = {} /\ UNCHANGED <<entries, blobs, cast>>
      /\ orphans' = orphans \cup {s \in Sessions : sess[s].owns}
      /\ \A s \in Sessions : sess'[s] = IF sess[s].state = "none" THEN sess[s] ELSE Dead
      /\ sess' = [s \in Sessions |-> sess'[s]] /\ client' = [a \in Actors |-> client'[a]]
  BY DEF Crash
<1>2. SessShape'
  <2>1. \A s \in Sessions : SessionFields(sess'[s])
    BY <1>1, HasFields, DeadFields
  <2>. QED
    BY <1>1, <2>1 DEF SessShape, SessionFields
<1>3. ASSUME NEW a \in Actors
      PROVE  /\ ClientFields(a, client'[a]) /\ client'[a].s \in {None, client[a].s}
             /\ \/ client'[a] = client[a] /\ client[a].pc \in EndPcs
                \/ a \in Clients /\ client'[a].pc = "ask" /\ client[a].pc \notin EndPcs
                \/ client'[a].pc = "over" /\ client'[a].s = None
  <2>. DEFINE x == client[a]
              y == client'[a]
  <2>1. ClientFields(a, x)
    BY HasFields
  <2>2. CASE x.pc \in EndPcs
    <3>1. y = x
      BY <2>2 DEF Crash
    <3>. QED
      BY <2>1, <2>2, <3>1
  <2>3. CASE x.pc \notin EndPcs /\ a \in Web
    <3>1. y = [x EXCEPT !.pc = "ask"] /\ a \in Clients
      BY <2>3, Kinds DEF Crash
    <3>. HIDE DEF x, y
    <3>2. /\ ClientRec(y) /\ y.pc = "ask" /\ y.s = x.s /\ y.v = x.v /\ y.pos = x.pos
          /\ y.left = x.left
      BY <2>1, <3>1 DEF ClientFields, ClientRec
    <3>3. ClientFields(a, y)
      BY <2>1, <2>3, <3>1, <3>2 DEF ClientFields, PcsOf
    <3>. QED
      BY <2>3, <3>1, <3>2, <3>3 DEF x, y
  <2>4. CASE x.pc \notin EndPcs /\ a \notin Web
    <3>1. y = [FreshClient EXCEPT !.pc = "over", !.tries = x.tries]
      BY <2>4 DEF Crash
    <3>. HIDE DEF x, y
    <3>2. ClientFields(a, y) /\ y.pc = "over" /\ y.s = None
      BY <3>1, OverFields
    <3>. QED
      BY <3>2 DEF y
  <2>. QED
    BY <2>2, <2>3, <2>4
<1>4. ClientShape'
  <2>1. ASSUME NEW a \in Actors
        PROVE  ClientFields(a, client[a])'
    <3>1. ClientFields(a, client'[a])
      BY <1>3
    <3>. QED
      BY <1>1, <3>1 DEF ClientFields
  <2>. QED
    BY <1>1, <2>1 DEF ClientShape
<1>5. Shape'
  BY <1>1, <1>2, <1>4, SameEntries, ShapeAgain DEF Shape
<1>. QED
  BY <1>1, <1>3, <1>5

\* An orderly end: registered sessions are rolled back.
LEMMA ShutdownStep ==
    ASSUME Shape, Shutdown
    PROVE  /\ Shape' /\ sessions' = {} /\ stale' = {}
           /\ \A a \in Actors : client[a].pc \in EndPcs \cup {"send", "ask"}
           /\ \A t : t \in blobs' <=> t \in blobs /\ ~(t \in sessions /\ sess[t].owns)
           /\ \A s \in Sessions : sess'[s] = IF s \notin sessions THEN sess[s] ELSE Dead
           /\ UNCHANGED <<entries, orphans, client, cast>>
<1>1. /\ sessions' = {} /\ stale' = {} /\ UNCHANGED <<entries, orphans, client, cast>>
      /\ \A s \in Sessions : sess'[s] = IF s \notin sessions THEN sess[s] ELSE Dead
      /\ sess' = [s \in Sessions |-> sess'[s]]
      /\ \A a \in Actors : client[a].pc \in EndPcs \cup {"send", "ask"}
      /\ blobs' = blobs \ UNION {Rollback(s) : s \in sessions}
  BY DEF Shutdown
<1>2. \A t : t \in blobs' <=> t \in blobs /\ ~(t \in sessions /\ sess[t].owns)
  BY <1>1 DEF Rollback
<1>3. SessShape'
  <2>1. \A s \in Sessions : SessionFields(sess'[s])
    BY <1>1, HasFields, DeadFields
  <2>. QED
    BY <1>1, <2>1 DEF SessShape, SessionFields
<1>4. ClientShape'
  BY <1>1 DEF Shape, ClientShape, ClientFields
<1>5. Shape'
  BY <1>1, <1>2, <1>3, <1>4, SameEntries, ShapeAgain DEF Shape
<1>. QED
  BY <1>1, <1>2, <1>5

\* Nothing happens.
LEMMA RestStep ==
    ASSUME Shape, UNCHANGED vars
    PROVE  /\ Shape'
           /\ UNCHANGED <<sess, client, sessions, entries, blobs, orphans, stale, cast>>
<1>1. UNCHANGED <<sess, client, sessions, entries, blobs, orphans, stale, cast>>
  BY DEF vars
<1>2. Shape'
  BY <1>1 DEF Shape, SessionFields, ClientFields
<1>. QED
  BY <1>1, <1>2

LEMMA ShapeInit ==
    ASSUME RegInit
    PROVE  /\ Shape /\ \A a \in Actors : client[a].pc \in EndPcs /\ client[a].s = None
           /\ \A s \in Sessions : sess[s] = FreshSession
<1>1. \A s \in Sessions : SessionFields(sess[s]) /\ sess[s] = FreshSession
  BY FreshSessionFields DEF RegInit
<1>2. \A a \in Actors : ClientFields(a, client[a]) /\ client[a].pc \in EndPcs /\ client[a].s = None
  BY FreshFields DEF RegInit
<1>. QED
  BY <1>1, <1>2 DEF RegInit, Shape

-----------------------------------------------------------------------------
(* Part 4: types, and what is kept *)

\* The steps of a client that leave files, documents and the registry as they are.
TameStep(a) ==
    \/ OverQuota(a) \/ BeginSkips(a) \/ CloseTab(a) \/ BeginResumes(a) \/ ClaimResumable(a)
    \/ Settle(a) \/ ReadMark(a) \/ ReadDigest(a) \/ VerifyPrefix(a) \/ Open(a)
    \/ PutRoute(a) \/ PutRouteAgain(a) \/ AskPosition(a) \/ ReceiveRefused(a) \/ Cut(a)
    \/ ReceiveFails(a) \/ LastCheck(a) \/ CompleteEnter(a) \/ CompleteFails(a)

LEMMA TameSteps ==
    ASSUME Shape, NEW a \in Clients, TameStep(a)
    PROVE  Tame(a) /\ client[a].pc \notin EndPcs
<1>1. CASE OverQuota(a) \/ BeginSkips(a) \/ CloseTab(a)
  BY <1>1, EndingTame DEF OverQuota, BeginSkips, CloseTab, At
<1>2. CASE BeginResumes(a)
  BY <1>2, BeginResumesTame
<1>3. CASE ClaimResumable(a)
  BY <1>3, ClaimTame
<1>4. CASE Settle(a)
  BY <1>4, SettleTame
<1>5. CASE ReadMark(a) \/ ReadDigest(a) \/ VerifyPrefix(a)
  BY <1>5, ReadMarkTame, ReadDigestTame, VerifyPrefixTame DEF At
<1>6. CASE Open(a)
  BY <1>6, OpenTame DEF At
<1>7. CASE PutRoute(a) \/ PutRouteAgain(a) \/ AskPosition(a)
  BY <1>7, PutRouteTame, PutRouteAgainTame, AskPositionTame DEF At
<1>8. CASE ReceiveRefused(a) \/ Cut(a) \/ ReceiveFails(a)
  BY <1>8, RefusedTame, ReceiveFailsTame DEF At
<1>9. CASE LastCheck(a)
  BY <1>9, LastCheckTame DEF At
<1>10. CASE CompleteEnter(a) \/ CompleteFails(a)
  BY <1>10, CompleteEnterTame, CompleteFailsTame DEF At
<1>. QED
  BY <1>1, <1>2, <1>3, <1>4, <1>5, <1>6, <1>7, <1>8, <1>9, <1>10 DEF TameStep

\* A step of the registry is one of these.
LEMMA AnyStep ==
    ASSUME [RegNext]_vars
    PROVE  \/ \E a \in Clients : \/ TameStep(a) \/ Start(a) \/ BeginNew(a) \/ BeginLinks(a)
                                 \/ Receive(a) \/ CompleteSaves(a)
           \/ \E a \in Actors : Cancel(a) \/ CancelCleans(a) \/ Erase(a)
           \/ \E s \in Sessions : TimePasses(s)
           \/ ReapStale \/ ReapNext \/ Crash \/ Shutdown
           \/ UNCHANGED vars
<1>1. ASSUME NEW a \in Clients, Serve(a) \/ ClientStep(a) \/ Break(a)
      PROVE  \/ TameStep(a) \/ Start(a) \/ BeginNew(a) \/ BeginLinks(a)
             \/ Receive(a) \/ CompleteSaves(a)
  BY <1>1 DEF Serve, ClientStep, Break, TameStep
<1>. QED
  BY <1>1 DEF RegNext, CancelStep, Rest

LEMMA ShapeStep == Shape /\ [RegNext]_vars => Shape'
<1>. SUFFICES ASSUME Shape, [RegNext]_vars PROVE Shape'
  OBVIOUS
<1>1. ASSUME NEW a \in Clients, TameStep(a) \/ Start(a) \/ BeginNew(a) \/ BeginLinks(a)
      PROVE  Shape'
  <2>1. CASE TameStep(a)
    BY <2>1, TameSteps, TameShape, Kinds
  <2>2. CASE BeginNew(a)
    BY <2>2, BeginNewStep
  <2>3. CASE Start(a)
    BY <2>3, StartStep
  <2>4. CASE BeginLinks(a)
    BY <2>4, BeginLinksStep
  <2>. QED
    BY <1>1, <2>1, <2>2, <2>3, <2>4
<1>2. ASSUME NEW a \in Clients, Receive(a) \/ CompleteSaves(a)
      PROVE  Shape'
  BY <1>2, ReceiveStep, SavesStep
<1>3. ASSUME NEW a \in Actors, Cancel(a) \/ CancelCleans(a) \/ Erase(a)
      PROVE  Shape'
  BY <1>3, CancelTame, TameShape, CleansStep, EraseStep
<1>4. ASSUME NEW s \in Sessions, TimePasses(s)
      PROVE  Shape'
  BY <1>4, TimeStep
<1>5. CASE ReapStale \/ ReapNext \/ Crash \/ Shutdown \/ UNCHANGED vars
  BY <1>5, ReapStaleStep, ReapNextTame, TameShape, CrashStep, ShutdownStep, RestStep, Kinds
<1>. QED
  BY <1>1, <1>2, <1>3, <1>4, <1>5, AnyStep

LEMMA ShapeKept == RegSpec => []Shape
<1>1. RegInit => Shape
  BY ShapeInit
<1>. QED
  BY <1>1, ShapeStep, PTL DEF RegSpec

-----------------------------------------------------------------------------
(* Part 5: whom documents belong to, while clients come one at a time *)

USE DEF Working

\* Where another client is at work, this one is not.
LEMMA OthersAway ==
    ASSUME Shape, Alone, NEW a \in Clients, client[a].pc \notin EndPcs, NEW b \in Actors, b # a
    PROVE  /\ client[b].pc \in EndPcs \cup CancelPcs
           /\ b \in Clients => client[b].pc \in EndPcs /\ client[b].s = None
           /\ client[b].pc \in CancelPcs => b \notin Clients
<1>1. ClientFields(b, client[b])
  BY HasFields
<1>. QED
  BY <1>1 DEF Alone, ClientFields, PcsOf

LEMMA AloneStays ==
    ASSUME Shape, Alone, NEW a \in Actors, Moved(a), a \in Clients => client[a].pc \notin EndPcs
    PROVE  Alone'
BY Kinds DEF Alone, Moved

\* The sweeper does not work on sessions, it cancels them.
LEMMA WorkersAreClients ==
    ASSUME Shape, NEW a \in Actors, client[a].pc \in Working
    PROVE  a \in Clients
<1>1. ClientFields(a, client[a])
  BY HasFields
<1>. QED
  BY <1>1 DEF ClientFields, PcsOf

\* A tame step leaves a session unsaved.
LEMMA UnsavedStays ==
    ASSUME Shape, NEW a \in Actors, Tame(a), NEW s \in Sessions, Unsaved(s)
    PROVE  Unsaved(s)'
BY DEF Tame, TameSess, TameFor, Unsaved

\* So the steps of Part 2 keep HoldInv when they do so for the actor itself.
LEMMA TameHolds ==
    ASSUME Shape, HoldInv, NEW a \in Actors, Tame(a), Alone', WorkAt(a)'
    PROVE  HoldInv'
<1>0. /\ Alone /\ Unused /\ WorkInv /\ OwnersInv /\ FilesInv
      /\ \A s \in Sessions : TameFor(a, s, sess'[s])
      /\ Moved(a) /\ client[a].pc \notin {"clean", "erase"}
      /\ UNCHANGED <<sessions, entries, blobs, orphans, cast>> /\ stale' \subseteq stale
      /\ client'[a].s \in {None, client[a].s} \cup sessions \cup stale
  BY DEF HoldInv, Tame, TameSess, storeVars
\* A session the actor feeds is not saved.
<1>w. ASSUME NEW s \in Sessions, client[a].s = s, client[a].pc \in {"recv", "complete", "finish"}
      PROVE  Unsaved(s)
  BY <1>0, <1>w DEF WorkInv, WorkAt
<1>1. Unused'
  BY <1>0, Kinds DEF Unused, TameFor, Moved
<1>2. WorkInv'
  <2>1. ASSUME NEW b \in Actors, b # a
        PROVE  WorkAt(b)'
    <3>1. client'[b] = client[b] /\ WorkAt(b) /\ ClientFields(b, client[b])
      BY <1>0, <2>1, HasFields DEF Moved, WorkInv
    <3>2. CASE client[b].pc \in Working
      BY <1>0, <3>1, <3>2, UnsavedStays DEF WorkAt
    <3>3. CASE client[b].pc \in {"clean", "erase"}
      <4>. DEFINE s == client[b].s
      <4>1. s \in Sessions
        BY <3>1, <3>3 DEF ClientFields
      <4>2. CASE sess[s].cancelled
        BY <1>0, <3>1, <3>3, <4>1, <4>2 DEF WorkAt, TameFor
      <4>3. CASE client[b].pc = "erase" /\ b \in Clients /\ sess[s].state = "Completed" /\ ~sess[s].owns
        <5>1. a \in Clients => client[a].pc \in EndPcs
          BY <1>0, <2>1, <4>3 DEF Alone
        <5>2. client[a].pc \notin {"recv", "complete", "finish"}
          BY <5>1, WorkersAreClients
        <5>. QED
          BY <1>0, <3>1, <3>3, <4>1, <4>3, <5>2 DEF WorkAt, TameFor
      <4>. QED
        BY <3>1, <3>3, <4>2, <4>3 DEF WorkAt
    <3>4. CASE client[b].pc \notin Working \cup {"clean", "erase"}
      BY <3>1, <3>4 DEF WorkAt
    <3>. QED
      BY <3>2, <3>3, <3>4
  <2>. QED
    BY <2>1 DEF WorkInv
<1>3. OwnersInv'
  <2>1. ASSUME NEW s \in Sessions, Cleaner(s)
        PROVE  Cleaner(s)'
    BY <1>0, <2>1 DEF Cleaner, At, Moved
  <2>. QED
    BY <1>0, <2>1 DEF OwnersInv, TameFor, Cleaner, At
<1>4. FilesInv'
  <2>1. \A s \in orphans : s \in Sessions
    BY DEF Shape
  <2>2. \A e \in entries : e.blob \in Sessions
    BY <1>0 DEF Shape, FilesInv
  <2>3. \A s \in Sessions : sess'[s].owns = sess[s].owns /\ (sess[s].cancelled => sess'[s].cancelled)
    BY <1>0 DEF TameFor
  <2>4. ASSUME NEW e \in entries
        PROVE  sess'[e.blob].cancelled \/ sess'[e.blob].state = "Completed"
    <3>. DEFINE s == e.blob
    <3>1. s \in Sessions /\ TameFor(a, s, sess'[s]) /\ (sess[s].cancelled \/ sess[s].state = "Completed")
      BY <1>0, <2>2 DEF FilesInv
    <3>2. CASE client[a].s = s /\ client[a].pc \in {"recv", "complete", "finish"}
      BY <1>w, <2>3, <3>1, <3>2 DEF Unsaved
    <3>3. CASE ~(client[a].s = s /\ client[a].pc \in {"recv", "complete", "finish"})
      BY <2>3, <3>1, <3>3 DEF TameFor
    <3>. QED
      BY <3>2, <3>3
  <2>5. \A s \in blobs : s \in Sessions
    BY DEF Shape
  <2>. QED
    BY <1>0, <2>1, <2>2, <2>3, <2>4, <2>5 DEF FilesInv
<1>. QED
  BY <1>1, <1>2, <1>3, <1>4 DEF HoldInv

\* An actor that is done, or about to cancel, needs nothing of a session.
LEMMA DoneWork ==
    ASSUME NEW a, client'[a].pc \in EndPcs \cup {"init", "claim", "begin", "cancel"}
    PROVE  WorkAt(a)'
BY DEF WorkAt

\* An actor that works on with the session it had.
LEMMA GoesOnWork ==
    ASSUME Shape, WorkInv, NEW a \in Actors, Tame(a), client[a].pc \in Working,
           client'[a].s = client[a].s, client'[a].pc \notin {"clean", "erase", "finish"}
    PROVE  WorkAt(a)'
BY UnsavedStays DEF WorkInv, WorkAt

LEMMA TameStepWork ==
    ASSUME Shape, HoldInv, NEW a \in Clients, TameStep(a)
    PROVE  WorkAt(a)'
<1>0. /\ Alone /\ WorkInv /\ FilesInv /\ Tame(a) /\ a \in Actors
      /\ UNCHANGED <<sessions, entries, blobs, orphans, cast>>
  BY TameSteps, Kinds DEF HoldInv, Tame, storeVars
<1>1. CASE OverQuota(a) \/ BeginSkips(a) \/ CloseTab(a)
  BY <1>1, EndingTame, DoneWork
<1>2. ASSUME NEW s \in Sessions, Resumable(s), client'[a].s = s, client'[a].pc \in {"settle", "reopen"}
      PROVE  WorkAt(a)'
  <2>1. Unsaved(s)
    BY <1>2 DEF Resumable, Unsaved
  <2>2. Unsaved(s)'
    BY <1>0, <2>1, UnsavedStays
  <2>. QED
    BY <1>2, <2>2 DEF WorkAt
<1>3. CASE BeginResumes(a)
  BY <1>2, <1>3, BeginResumesTame
<1>4. CASE ClaimResumable(a)
  BY <1>2, <1>4, ClaimTame, DoneWork
<1>5. CASE Settle(a)
  <2>1. /\ client[a].pc \in {"settle", "reopen", "mismatch"} /\ client'[a].s = client[a].s
        /\ client'[a].pc \in {"mark", "open", "again"}
    BY <1>5, SettleTame DEF At
  <2>. QED
    BY <1>0, <2>1, GoesOnWork
<1>6. CASE ReadMark(a) \/ ReadDigest(a)
  <2>1. /\ client[a].pc \in {"mark", "digest"} /\ client'[a].s = client[a].s
        /\ client'[a].pc \in {"send", "digest", "verify"}
    BY <1>6, ReadMarkTame, ReadDigestTame DEF At
  <2>. QED
    BY <1>0, <2>1, GoesOnWork
<1>7. CASE VerifyPrefix(a)
  <2>1. /\ client[a].pc = "verify" /\ client'[a].s = client[a].s
        /\ client'[a].pc \in {"cancel", "check", "recv"}
    BY <1>7, VerifyPrefixTame DEF At
  <2>. QED
    BY <1>0, <2>1, GoesOnWork
<1>8. CASE Open(a)
  <2>1. \/ client[a].pc = "open" /\ client'[a].s = client[a].s /\ client'[a].pc = "recv"
        \/ client'[a].pc = "over"
    BY <1>8, OpenTame DEF At
  <2>. QED
    BY <1>0, <2>1, GoesOnWork, DoneWork
<1>9. CASE PutRoute(a) \/ PutRouteAgain(a) \/ AskPosition(a)
  <2>1. /\ client[a].pc \in {"send", "again", "ask"} /\ client'[a].s = client[a].s
        /\ client'[a].pc \in {"cancel", "mismatch", "recv", "ask", "send"}
    BY <1>9, PutRouteTame, PutRouteAgainTame, AskPositionTame DEF At
  <2>. QED
    BY <1>0, <2>1, GoesOnWork
<1>10. CASE ReceiveRefused(a) \/ Cut(a) \/ ReceiveFails(a)
  <2>1. \/ client[a].pc = "recv" /\ client'[a].s = client[a].s /\ client'[a].pc = "ask"
        \/ client'[a].pc = "over"
    BY <1>10, RefusedTame, ReceiveFailsTame DEF At, Withdraws
  <2>. QED
    BY <1>0, <2>1, GoesOnWork, DoneWork
<1>11. CASE LastCheck(a)
  <2>1. \/ client[a].pc \in {"check", "send"} /\ client'[a].s = client[a].s /\ client'[a].pc = "complete"
        \/ client'[a].pc = "over"
    BY <1>11, LastCheckTame DEF At
  <2>. QED
    BY <1>0, <2>1, GoesOnWork, DoneWork
<1>12. CASE CompleteEnter(a)
  <2>1. ASSUME NEW s \in sessions, s = client[a].s, ~sess[s].cancelled,
               client'[a].pc = "finish", client'[a].s = s
        PROVE  WorkAt(a)'
    <3>1. s \in Sessions /\ client[a].pc = "complete" /\ Unsaved(s)
      BY <1>0, <1>12, <2>1, HasFields, CompleteEnterTame DEF At, WorkInv, WorkAt
    <3>2. Unsaved(s)'
      BY <1>0, <3>1, UnsavedStays
    <3>3. s \notin orphans /\ \A e \in entries : e.blob # s
      BY <1>0, <2>1, <3>1 DEF FilesInv, Unsaved
    <3>. QED
      BY <1>0, <2>1, <3>2, <3>3 DEF WorkAt
  <2>2. CASE client'[a].pc \in {"cancel", "over"}
    BY <2>2, DoneWork
  <2>. QED
    BY <1>12, <2>1, <2>2, CompleteEnterTame DEF Of
<1>13. CASE CompleteFails(a)
  BY <1>13, CompleteFailsTame, DoneWork
<1>. QED
  BY <1>1, <1>3, <1>4, <1>5, <1>6, <1>7, <1>8, <1>9, <1>10, <1>11, <1>12, <1>13 DEF TameStep

LEMMA TameStepHolds ==
    ASSUME Shape, HoldInv, NEW a \in Clients, TameStep(a)
    PROVE  HoldInv'
<1>1. Tame(a) /\ client[a].pc \notin EndPcs /\ a \in Actors
  BY TameSteps, Kinds
<1>2. Alone'
  BY <1>1, AloneStays DEF HoldInv, Tame
<1>. QED
  BY <1>1, <1>2, TameStepWork, TameHolds

LEMMA CancelHolds ==
    ASSUME Shape, HoldInv, NEW a \in Actors, Cancel(a)
    PROVE  HoldInv'
<1>1. /\ Tame(a) /\ At(a, "cancel")
      /\ \/ /\ client'[a].pc \in {"clean", "erase"} /\ client'[a].s = client[a].s
            /\ client[a].s \in Sessions /\ sess'[client[a].s].cancelled
         \/ client'[a].pc = "over"
  BY CancelTame
<1>2. Alone'
  BY <1>1, AloneStays DEF HoldInv, Tame, At
<1>3. WorkAt(a)'
  BY <1>1 DEF WorkAt
<1>. QED
  BY <1>1, <1>2, <1>3, TameHolds

LEMMA ReapNextHolds ==
    ASSUME Shape, HoldInv, ReapNext
    PROVE  HoldInv'
<1>1. Tame(Sweeper) /\ client'[Sweeper].pc = "cancel" /\ Sweeper \in Actors
  BY ReapNextTame, Kinds
<1>2. Alone'
  BY <1>1, AloneStays, Kinds DEF HoldInv, Tame
<1>3. WorkAt(Sweeper)'
  BY <1>1, DoneWork
<1>. QED
  BY <1>1, <1>2, <1>3, TameHolds

\* A client begins when the others are done.
LEMMA StartHolds ==
    ASSUME Apart, Shape, HoldInv, NEW a \in Clients, Start(a)
    PROVE  HoldInv'
<1>1. /\ Moved(a) /\ UNCHANGED <<sess, sessions, storeVars, stale, cast>> /\ Quiet
      /\ client'[a].pc = (IF a \in Web THEN "init" ELSE "claim") /\ client'[a].s = None
      /\ client[a].pc \in EndPcs /\ a \in Actors /\ Shape'
  BY StartStep, Kinds
<1>2. \A b \in Clients : client[b].pc \in EndPcs
  BY <1>1 DEF Quiet, Apart, Shape
<1>3. Alone'
  BY <1>1, <1>2, Kinds DEF Alone, Moved
<1>4. ClientFields(a, client'[a])
  BY <1>1, HasFields DEF Shape, ClientFields
<1>5. Tame(a)
  BY <1>1, <1>4, TameSame DEF Tame, storeVars
<1>6. WorkAt(a)'
  BY <1>1, DoneWork
<1>. QED
  BY <1>1, <1>3, <1>5, <1>6, TameHolds

\* While a client is at work the others, and the sweeper, only cancel.
LEMMA AwayWork ==
    ASSUME Shape, Alone, WorkInv, NEW a \in Clients, client[a].pc \notin EndPcs, Moved(a),
           \A s \in Sessions : sess[s].cancelled => sess'[s].cancelled,
           NEW b \in Actors, b # a
    PROVE  WorkAt(b)'
<1>1. client'[b] = client[b] /\ WorkAt(b) /\ ClientFields(b, client[b])
  BY HasFields DEF Moved, WorkInv
<1>2. /\ client[b].pc \in EndPcs \cup CancelPcs
      /\ client[b].pc \in CancelPcs => b \notin Clients
  BY OthersAway
<1>3. client[b].pc \in {"clean", "erase"} => client[b].s \in Sessions /\ sess[client[b].s].cancelled
  BY <1>1, <1>2 DEF WorkAt, ClientFields
<1>. QED
  BY <1>1, <1>2, <1>3 DEF WorkAt

LEMMA BeginNewHolds ==
    ASSUME Shape, HoldInv, NEW a \in Clients, BeginNew(a)
    PROVE  HoldInv'
<1>1. PICK s \in Sessions :
        /\ sess[s].state = "none" /\ ~sess[s].cancelled
        /\ client'[a].s = s /\ client'[a].v = client[a].v /\ client'[a].pos = 0
        /\ client'[a].pc = (IF a \in Web THEN "send" ELSE "open")
        /\ sessions' = sessions \cup {s}
        /\ \A t \in Sessions \ {s} : sess'[t] = sess[t]
        /\ sess'[s].state = "Preparing" /\ ~sess'[s].cancelled /\ ~sess'[s].busy
        /\ ~sess'[s].owns /\ sess'[s].data = <<>>
  BY BeginNewStep
<1>2. /\ Moved(a) /\ UNCHANGED <<entries, blobs, orphans, stale, cast>> /\ a \in Actors
      /\ client[a].pc \in {"init", "begin"}
  BY BeginNewStep, Kinds DEF storeVars
<1>3. Alone /\ Unused /\ WorkInv /\ OwnersInv /\ FilesInv
  BY DEF HoldInv
<1>4. s \notin sessions \cup blobs \cup stale /\ \A b \in Actors : client[b].s # s
  BY <1>1, <1>3 DEF Unused
<1>5. Alone'
  BY <1>2, <1>3, AloneStays
<1>6. Unused'
  BY <1>1, <1>2, <1>3 DEF Unused, Moved
<1>7. WorkInv'
  <2>1. ASSUME NEW b \in Actors, b # a
        PROVE  WorkAt(b)'
    BY <1>1, <1>2, <1>3, <2>1, AwayWork
  <2>2. WorkAt(a)'
    BY <1>1 DEF WorkAt, Unsaved
  <2>. QED
    BY <2>1, <2>2 DEF WorkInv
<1>8. OwnersInv'
  BY <1>1, <1>2, <1>3 DEF OwnersInv, Cleaner, At, Moved
<1>9. FilesInv'
  <2>1. \A t \in blobs : t \in Sessions \ {s}
    BY <1>4 DEF Shape
  <2>2. \A t \in blobs : sess'[t] = sess[t]
    BY <1>1, <2>1
  <2>. QED
    BY <1>2, <1>3, <2>2 DEF FilesInv
<1>. QED
  BY <1>5, <1>6, <1>7, <1>8, <1>9 DEF HoldInv

LEMMA BeginLinksHolds ==
    ASSUME Shape, HoldInv, NEW a \in Clients, BeginLinks(a)
    PROVE  HoldInv'
<1>e. PICK e \in entries :
        \E f : f.data = e.data /\ f.blob = e.blob /\ entries' = entries \cup {f}
  BY BeginLinksStep
<1>1. PICK f : f.data = e.data /\ f.blob = e.blob /\ entries' = entries \cup {f}
  BY <1>e
<1>2. /\ Moved(a) /\ UNCHANGED <<sess, sessions, blobs, orphans, stale, cast>> /\ a \in Actors
      /\ client[a].pc = "init" /\ client'[a].pc = "over" /\ client'[a].s = None
  BY BeginLinksStep, Kinds
<1>3. Alone /\ Unused /\ WorkInv /\ OwnersInv /\ FilesInv
  BY DEF HoldInv
<1>5. Alone'
  BY <1>2, <1>3, AloneStays
<1>6. Unused'
  BY <1>2, <1>3, Kinds DEF Unused, Moved
<1>7. WorkInv'
  <2>1. ASSUME NEW b \in Actors, b # a
        PROVE  WorkAt(b)'
    BY <1>2, <1>3, <2>1, AwayWork
  <2>2. WorkAt(a)'
    BY <1>2, DoneWork
  <2>. QED
    BY <2>1, <2>2 DEF WorkInv
<1>8. OwnersInv'
  BY <1>2, <1>3 DEF OwnersInv, Cleaner, At, Moved
<1>9. FilesInv'
  BY <1>1, <1>2, <1>3 DEF FilesInv
<1>. QED
  BY <1>5, <1>6, <1>7, <1>8, <1>9 DEF HoldInv

LEMMA ReceiveHolds ==
    ASSUME Shape, HoldInv, NEW a \in Clients, Receive(a)
    PROVE  HoldInv'
<1>. DEFINE s == client[a].s
<1>1. /\ Moved(a) /\ client[a].pc = "recv" /\ s \in Sessions
      /\ ~sess[s].cancelled /\ ~sess'[s].cancelled /\ sess'[s].state = "Receiving"
      /\ \A t \in Sessions \ {s} : sess'[t] = sess[t]
      /\ \/ blobs' = blobs /\ sess'[s].owns = sess[s].owns
         \/ blobs' = blobs \cup {s} /\ sess'[s].owns = TRUE
      /\ client'[a].s = s /\ client'[a].pc \in {"recv", "send", "check"}
      /\ UNCHANGED <<sessions, entries, orphans, stale, cast>> /\ a \in Actors
  BY ReceiveStep, Kinds DEF At
<1>3. Alone /\ Unused /\ WorkInv /\ OwnersInv /\ FilesInv
  BY DEF HoldInv
<1>4. s \in sessions /\ sess[s].state # "Completed" /\ s \notin orphans
  BY <1>1, <1>3 DEF WorkInv, WorkAt, Unsaved, FilesInv
<1>h. \A e \in entries : e.blob # s
  BY <1>1, <1>3, <1>4 DEF FilesInv
<1>5. Alone'
  BY <1>1, <1>3, AloneStays
<1>. HIDE DEF s
<1>6. Unused'
  BY <1>1, <1>3 DEF Unused, Moved, s
<1>7. WorkInv'
  <2>1. ASSUME NEW b \in Actors, b # a
        PROVE  WorkAt(b)'
    BY <1>1, <1>3, <2>1, AwayWork
  <2>2. WorkAt(a)'
    BY <1>1, <1>4 DEF WorkAt, Unsaved
  <2>. QED
    BY <2>1, <2>2 DEF WorkInv
<1>8. OwnersInv'
  <2>1. ASSUME NEW t \in Sessions, Cleaner(t)
        PROVE  Cleaner(t)'
    BY <1>1, <2>1 DEF Cleaner, At, Moved
  <2>. QED
    BY <1>1, <1>3, <1>4, <2>1 DEF OwnersInv
<1>9. FilesInv'
  <2>1. blobs \subseteq Sessions /\ s \in Sessions
    BY <1>1 DEF Shape
  <2>2. /\ \A t \in orphans' : t \in blobs' /\ sess'[t].cancelled
        /\ \A e \in entries' : /\ e.blob \in blobs' /\ e.blob \notin orphans' /\ ~sess'[e.blob].owns
                               /\ sess'[e.blob].cancelled \/ sess'[e.blob].state = "Completed"
    BY <1>1, <1>3, <1>4, <1>h, <2>1 DEF FilesInv
  <2>3. \A t \in blobs' : t \in orphans' \/ sess'[t].owns \/ \E e \in entries' : e.blob = t
    BY <1>1, <1>3, <1>4, <1>h, <2>1 DEF FilesInv
  <2>. QED
    BY <1>1, <1>3, <2>2, <2>3 DEF FilesInv
<1>. QED
  BY <1>5, <1>6, <1>7, <1>8, <1>9 DEF HoldInv

\* The new file has its documents from a twin or from its session, a file it replaces
\* loses those that no other file of that content needs.
LEMMA SavesHolds ==
    ASSUME Shape, HoldInv, NEW a \in Clients, CompleteSaves(a)
    PROVE  HoldInv'
<1>. DEFINE s == client[a].s
            me == sess[s]
            old == OldOf(me)
            twins == TwinsOf(me)
<1>1. /\ Moved(a) /\ client[a].pc = "finish" /\ s \in Sessions
      /\ sess'[s].cancelled = me.cancelled /\ sess'[s].state = "Completed" /\ sess'[s].owns = FALSE
      /\ \A t \in Sessions \ {s} : sess'[t] = sess[t]
      /\ client'[a].s = s /\ client'[a].pc = "erase"
      /\ UNCHANGED <<sessions, orphans, stale, cast>> /\ a \in Actors
  BY SavesStep, Kinds DEF At
<1>2. PICK new : /\ entries' = (entries \ old) \cup {new} /\ new.data = me.data
                 /\ \/ twins = {} /\ new.blob = s
                    \/ \E e \in twins : new.blob = e.blob
  BY SavesStep
<1>b. blobs' = ((IF twins = {} THEN blobs \cup {s} ELSE IF me.owns THEN blobs \ {s} ELSE blobs)
                \ UNION {Purged(e) : e \in old})
  BY SavesStep
<1>3. Alone /\ Unused /\ WorkInv /\ OwnersInv /\ FilesInv
  BY DEF HoldInv
<1>4. s \notin orphans /\ \A e \in entries : e.blob # s
  BY <1>1, <1>3 DEF WorkInv, WorkAt
<1>o. \A e \in entries : /\ e \in old <=> e.id = me.replace
                         /\ e \in twins <=> e.data = me.data /\ e.id # me.replace
  BY DEF OldOf, TwinsOf
<1>i. old \subseteq entries /\ twins \subseteq entries /\ blobs \subseteq Sessions
  BY DEF OldOf, TwinsOf, Shape
<1>. HIDE DEF s, me, old, twins
\* What a purge takes, and what it leaves.
<1>p. \A t : t \in UNION {Purged(e) : e \in old}
             <=> \E e \in old : e.blob = t /\ \A f \in entries : f.data = e.data => f.id = e.id
  BY DEF Purged
<1>q. ASSUME NEW t \in blobs, t # s, t \in UNION {Purged(e) : e \in old}
      PROVE  /\ t \notin orphans /\ ~sess[t].owns
             /\ \A f \in entries : f.blob = t => f \in old
  <2>1. PICK e \in old : e.blob = t /\ \A f \in entries : f.data = e.data => f.id = e.id
    BY <1>p, <1>q
  <2>2. e \in entries /\ e.id = me.replace
    BY <1>i, <1>o
  <2>. QED
    BY <1>3, <1>o, <2>1, <2>2 DEF FilesInv
<1>5. ASSUME NEW t, t # s
      PROVE  t \in blobs' <=> t \in blobs /\ t \notin UNION {Purged(e) : e \in old}
  BY <1>b, <1>5
<1>6. s \in blobs' <=> twins = {}
  <2>1. s \notin UNION {Purged(e) : e \in old}
    BY <1>4, <1>i, <1>p
  <2>2. me.owns \/ s \notin blobs
    BY <1>3, <1>4 DEF FilesInv, me
  <2>. QED
    BY <1>b, <2>1, <2>2
<1>k. ASSUME NEW e \in entries, e \notin old
      PROVE  e.blob \in blobs'
  <2>. DEFINE t == e.blob
  <2>1. t \in blobs /\ t # s
    BY <1>3, <1>4 DEF FilesInv
  <2>2. t \notin UNION {Purged(f) : f \in old}
    BY <1>k, <1>q, <2>1
  <2>. HIDE DEF t
  <2>3. t \in blobs'
    BY <1>5, <2>1, <2>2
  <2>. QED
    BY <2>3 DEF t
<1>7. Alone'
  BY <1>1, <1>3, AloneStays
<1>8. Unused'
  BY <1>1, <1>3, <1>5 DEF Unused, Moved, s
<1>9. WorkInv'
  <2>1. \A t \in Sessions : sess[t].cancelled => sess'[t].cancelled
    BY <1>1 DEF me
  <2>2. ASSUME NEW b \in Actors, b # a
        PROVE  WorkAt(b)'
    BY <1>1, <1>3, <2>1, <2>2, AwayWork
  <2>3. WorkAt(a)'
    BY <1>1 DEF WorkAt
  <2>. QED
    BY <2>2, <2>3 DEF WorkInv
<1>10. OwnersInv'
  <2>1. ASSUME NEW t \in Sessions, Cleaner(t)
        PROVE  Cleaner(t)'
    BY <1>1, <2>1 DEF Cleaner, At, Moved
  <2>2. ASSUME NEW t \in Sessions, sess'[t].owns
        PROVE  t # s /\ sess[t].owns /\ sess'[t] = sess[t] /\ t \in blobs'
    <3>1. t # s /\ sess[t].owns /\ sess'[t] = sess[t]
      BY <1>1, <2>2
    <3>. QED
      BY <1>3, <1>5, <1>q, <3>1 DEF OwnersInv
  <2>. QED
    BY <1>1, <1>3, <2>1, <2>2 DEF OwnersInv
<1>11. FilesInv'
  <2>1. \A t \in orphans' : t \in blobs' /\ sess'[t].cancelled
    BY <1>1, <1>3, <1>4, <1>5, <1>i, <1>q DEF FilesInv
  <2>2. ASSUME NEW e \in entries, e \notin old
        PROVE  /\ e.blob \in blobs' /\ e.blob \notin orphans' /\ ~sess'[e.blob].owns
               /\ sess'[e.blob].cancelled \/ sess'[e.blob].state = "Completed"
    BY <1>1, <1>3, <1>4, <1>i, <1>k, <2>2 DEF FilesInv
  <2>3. \/ twins = {} /\ new.blob = s
        \/ \E e \in entries \ old : new.blob = e.blob /\ e.data = me.data
    BY <1>2, <1>i, <1>o
  <2>4. /\ new.blob \in blobs' /\ new.blob \notin orphans' /\ ~sess'[new.blob].owns
        /\ sess'[new.blob].cancelled \/ sess'[new.blob].state = "Completed"
    BY <1>1, <1>4, <1>6, <2>2, <2>3
  <2>5. ASSUME NEW e \in entries, e \notin old
        PROVE  e.data = new.data <=> e.blob = new.blob
    <3>1. CASE twins = {} /\ new.blob = s
      BY <1>2, <1>4, <1>o, <2>5, <3>1
    <3>2. CASE \E f \in entries \ old : new.blob = f.blob /\ f.data = me.data
      BY <1>2, <1>3, <2>5, <3>2 DEF FilesInv
    <3>. QED
      BY <2>3, <3>1, <3>2
  <2>6. \A e, f \in entries' : e.data = f.data <=> e.blob = f.blob
    BY <1>2, <1>3, <2>5 DEF FilesInv
  <2>7. ASSUME NEW t \in blobs'
        PROVE  t \in orphans' \/ sess'[t].owns \/ \E e \in entries' : e.blob = t
    <3>1. CASE t = s
      BY <1>2, <1>6, <3>1
    <3>2. CASE t # s
      <4>1. t \in blobs /\ t \notin UNION {Purged(e) : e \in old} /\ sess'[t] = sess[t]
        BY <1>1, <1>5, <1>i, <3>2
      <4>2. CASE \E e \in entries : e.blob = t
        <5>1. PICK e \in entries : e.blob = t
          BY <4>2
        <5>2. CASE e \in old
          <6>1. PICK f \in entries : f.data = e.data /\ f.id # e.id
            BY <1>p, <4>1, <5>1, <5>2
          <6>2. f \notin old /\ f.blob = t
            BY <1>3, <1>o, <5>1, <5>2, <6>1 DEF FilesInv
          <6>. QED
            BY <1>2, <6>2
        <5>. QED
          BY <1>2, <5>1, <5>2
      <4>. QED
        BY <1>1, <1>3, <4>1, <4>2 DEF FilesInv
    <3>. QED
      BY <3>1, <3>2
  <2>. QED
    BY <1>2, <2>1, <2>2, <2>4, <2>6, <2>7 DEF FilesInv
<1>. QED
  BY <1>7, <1>8, <1>9, <1>10, <1>11 DEF HoldInv

LEMMA CleansHolds ==
    ASSUME Shape, HoldInv, NEW a \in Actors, CancelCleans(a)
    PROVE  HoldInv'
<1>. DEFINE s == client[a].s
<1>1. /\ Moved(a) /\ client[a].pc = "clean" /\ s \in Sessions
      /\ sess'[s].cancelled = sess[s].cancelled /\ sess'[s].state = "Cancelled" /\ sess'[s].owns = FALSE
      /\ \A t \in Sessions \ {s} : sess'[t] = sess[t]
      /\ blobs' = (IF sess[s].owns THEN blobs \ {s} ELSE blobs)
      /\ client'[a].s = s /\ client'[a].pc = "erase"
      /\ UNCHANGED <<sessions, entries, orphans, stale, cast>>
  BY CleansStep DEF At
<1>3. Alone /\ Unused /\ WorkInv /\ OwnersInv /\ FilesInv
  BY DEF HoldInv
<1>4. sess[s].cancelled /\ sess'[s].cancelled
  BY <1>1, <1>3 DEF WorkInv, WorkAt
<1>i. blobs \subseteq Sessions
  BY DEF Shape
<1>. HIDE DEF s
<1>5. Alone'
  BY <1>1, <1>3, AloneStays
<1>6. Unused'
  BY <1>1, <1>3 DEF Unused, Moved, s
<1>7. WorkInv'
  <2>1. ASSUME NEW b \in Actors, b # a
        PROVE  WorkAt(b)'
    <3>1. client'[b] = client[b] /\ WorkAt(b) /\ ClientFields(b, client[b])
      BY <1>1, <1>3, <2>1, HasFields DEF Moved, WorkInv
    <3>2. CASE client[b].s \in Sessions
      BY <1>1, <1>4, <3>1, <3>2 DEF WorkAt, Unsaved
    <3>3. CASE client[b].s \notin Sessions
      BY <3>1, <3>3 DEF WorkAt, ClientFields
    <3>. QED
      BY <3>2, <3>3
  <2>2. WorkAt(a)'
    BY <1>1, <1>4 DEF WorkAt
  <2>. QED
    BY <2>1, <2>2 DEF WorkInv
<1>8. OwnersInv'
  <2>1. ASSUME NEW t \in Sessions \ {s}, Cleaner(t)
        PROVE  Cleaner(t)'
    BY <1>1, <2>1 DEF Cleaner, At, Moved, s
  <2>. QED
    BY <1>1, <1>3, <2>1 DEF OwnersInv
<1>9. FilesInv'
  <2>1. \A t \in blobs' : t \in blobs /\ t \in Sessions /\ ~(t = s /\ sess[s].owns)
    BY <1>1, <1>i
  <2>2. \A t \in blobs : ~(t = s /\ sess[s].owns) => t \in blobs'
    BY <1>1
  <2>3. s \notin orphans \/ ~sess[s].owns
    BY <1>1, <1>3 DEF OwnersInv
  <2>4. \A t \in orphans' : t \in blobs' /\ sess'[t].cancelled
    BY <1>1, <1>3, <1>4, <1>i, <2>2, <2>3 DEF FilesInv
  <2>5. \A e \in entries' : /\ e.blob \in blobs' /\ e.blob \notin orphans' /\ ~sess'[e.blob].owns
                            /\ sess'[e.blob].cancelled \/ sess'[e.blob].state = "Completed"
    BY <1>1, <1>3, <1>4, <1>i, <2>2 DEF FilesInv
  <2>6. \A t \in blobs' : t \in orphans' \/ sess'[t].owns \/ \E e \in entries' : e.blob = t
    BY <1>1, <1>3, <2>1 DEF FilesInv
  <2>. QED
    BY <1>1, <1>3, <2>4, <2>5, <2>6 DEF FilesInv
<1>. QED
  BY <1>5, <1>6, <1>7, <1>8, <1>9 DEF HoldInv

LEMMA EraseHolds ==
    ASSUME Shape, HoldInv, NEW a \in Actors, Erase(a)
    PROVE  HoldInv'
<1>. DEFINE s == client[a].s
<1>1. /\ Moved(a) /\ client[a].pc = "erase" /\ s \in Sessions
      /\ client'[a].pc = "over" /\ client'[a].s = None /\ sessions' = sessions \ {s}
      /\ \A t \in Sessions \ {s} : sess'[t] = sess[t]
      /\ \/ /\ Referred(a) /\ sess'[s].cancelled = sess[s].cancelled
            /\ sess'[s].state = sess[s].state /\ sess'[s].owns = sess[s].owns
         \/ ~Referred(a) /\ sess'[s] = Dead
      /\ UNCHANGED <<entries, blobs, orphans, stale, cast>>
  BY EraseStep DEF At
<1>2. \/ sess[s].cancelled
      \/ a \in Clients /\ sess[s].state = "Completed" /\ ~sess[s].owns
  BY <1>1 DEF HoldInv, WorkInv, WorkAt
<1>3. Alone /\ Unused /\ WorkInv /\ OwnersInv /\ FilesInv
  BY DEF HoldInv
\* Who cleans a session up refers to it, so it is not dead.
<1>4. sess[s].owns => sess[s].cancelled /\ Cleaner(s) /\ Referred(a)
  <2>1. Cleaner(s) => Referred(a)
    BY <1>1 DEF Cleaner, Referred, At
  <2>. QED
    BY <1>1, <1>2, <1>3, <2>1 DEF OwnersInv
<1>d. /\ sess[s].cancelled => sess'[s].cancelled
      /\ sess'[s].owns = sess[s].owns
      /\ sess'[s].state # "none" \/ sess[s].state = "none"
      /\ ~sess[s].cancelled => sess'[s].cancelled \/ sess'[s].state = sess[s].state
  <2>1. sess[s].owns \in BOOLEAN
    BY <1>1, HasFields DEF SessionFields
  <2>. QED
    BY <1>1, <1>4, <2>1, DeadFields
<1>i. blobs \subseteq Sessions
  BY DEF Shape
<1>. HIDE DEF s
<1>5. Alone'
  BY <1>1, <1>3, AloneStays
<1>6. Unused'
  BY <1>1, <1>3, <1>d, Kinds DEF Unused, Moved
<1>7. WorkInv'
  <2>1. ASSUME NEW b \in Actors, b # a
        PROVE  WorkAt(b)'
    <3>1. client'[b] = client[b] /\ WorkAt(b) /\ ClientFields(b, client[b])
      BY <1>1, <1>3, <2>1, HasFields DEF Moved, WorkInv
    <3>2. CASE client[b].s # s
      BY <1>1, <3>1, <3>2 DEF WorkAt, Unsaved, ClientFields
    <3>3. CASE client[b].s = s /\ sess[s].cancelled
      BY <1>1, <1>d, <3>1, <3>3 DEF WorkAt, Unsaved
    <3>4. CASE client[b].s = s /\ ~sess[s].cancelled
      <4>1. a \in Clients /\ client[a].pc \notin EndPcs
        BY <1>1, <1>2, <3>4
      <4>2. client[b].pc \in EndPcs \cup CancelPcs /\ (client[b].pc \in CancelPcs => b \notin Clients)
        BY <1>3, <2>1, <4>1, OthersAway
      <4>. QED
        BY <3>1, <3>4, <4>2 DEF WorkAt
    <3>. QED
      BY <3>2, <3>3, <3>4
  <2>2. WorkAt(a)'
    BY <1>1, DoneWork
  <2>. QED
    BY <2>1, <2>2 DEF WorkInv
<1>8. OwnersInv'
  <2>1. ASSUME NEW t \in Sessions, Cleaner(t)
        PROVE  Cleaner(t)'
    BY <1>1, <2>1 DEF Cleaner, At, Moved
  <2>2. ASSUME NEW t \in Sessions, sess'[t].owns
        PROVE  /\ t \in blobs' /\ t \notin orphans'
               /\ t \in sessions' \/ Cleaner(t)'
               /\ sess'[t].cancelled => Cleaner(t)'
    <3>1. CASE t = s
      BY <1>1, <1>3, <1>4, <1>d, <2>1, <2>2, <3>1 DEF OwnersInv
    <3>2. CASE t # s
      BY <1>1, <1>3, <2>1, <2>2, <3>2 DEF OwnersInv
    <3>. QED
      BY <3>1, <3>2
  <2>. QED
    BY <2>2 DEF OwnersInv
<1>9. FilesInv'
  <2>1. \A t \in Sessions : /\ sess[t].cancelled => sess'[t].cancelled
                            /\ sess'[t].owns = sess[t].owns
                            /\ ~sess[t].cancelled => sess'[t].cancelled \/ sess'[t].state = sess[t].state
    BY <1>1, <1>d
  <2>2. \A e \in entries : e.blob \in Sessions /\ ~sess'[e.blob].owns
                           /\ (sess'[e.blob].cancelled \/ sess'[e.blob].state = "Completed")
    BY <1>3, <1>i, <2>1 DEF FilesInv
  <2>. QED
    BY <1>1, <1>3, <1>i, <2>1, <2>2 DEF FilesInv
<1>. QED
  BY <1>5, <1>6, <1>7, <1>8, <1>9 DEF HoldInv

\* Nothing HoldInv speaks of changes.
LEMMA SameHolds ==
    ASSUME Shape, HoldInv, UNCHANGED <<client, sessions, entries, blobs, orphans, cast>>,
           stale' \subseteq stale \cup sessions,
           \A t \in Sessions : /\ sess'[t].state = sess[t].state /\ sess'[t].owns = sess[t].owns
                               /\ sess'[t].cancelled = sess[t].cancelled
    PROVE  HoldInv'
<1>1. Alone /\ Unused /\ WorkInv /\ OwnersInv /\ FilesInv
  BY DEF HoldInv
<1>2. Alone' /\ Unused'
  BY <1>1 DEF Alone, Unused
<1>3. WorkInv'
  <2>1. ASSUME NEW b \in Actors
        PROVE  WorkAt(b)'
    <3>1. client'[b] = client[b] /\ WorkAt(b) /\ ClientFields(b, client[b])
      BY <1>1, HasFields DEF WorkInv
    <3>2. CASE client[b].s \in Sessions
      BY <3>1, <3>2 DEF WorkAt, Unsaved
    <3>3. CASE client[b].s \notin Sessions
      BY <3>1, <3>3 DEF WorkAt, ClientFields
    <3>. QED
      BY <3>2, <3>3
  <2>. QED
    BY <2>1 DEF WorkInv
<1>4. OwnersInv'
  BY <1>1 DEF OwnersInv, Cleaner, At
<1>5. FilesInv'
  <2>1. \A t \in blobs : t \in Sessions
    BY DEF Shape
  <2>. QED
    BY <1>1, <2>1 DEF FilesInv
<1>. QED
  BY <1>1, <1>2, <1>3, <1>4, <1>5 DEF HoldInv

LEMMA CrashHolds ==
    ASSUME Shape, HoldInv, Crash
    PROVE  HoldInv'
<1>1. /\ sessions' = {} /\ stale' = {}
      /\ orphans' = orphans \cup {s \in Sessions : sess[s].owns}
      /\ \A s \in Sessions : sess'[s] = IF sess[s].state = "none" THEN sess[s] ELSE Dead
      /\ \A a \in Actors :
            /\ client'[a].s \in {None, client[a].s}
            /\ \/ client'[a] = client[a] /\ client[a].pc \in EndPcs
               \/ a \in Clients /\ client'[a].pc = "ask" /\ client[a].pc \notin EndPcs
               \/ client'[a].pc = "over" /\ client'[a].s = None
      /\ UNCHANGED <<entries, blobs, cast>>
  BY CrashStep
<1>3. Alone /\ Unused /\ WorkInv /\ OwnersInv /\ FilesInv
  BY DEF HoldInv
\* A session that has been dealt out is dead.
<1>4. ASSUME NEW s \in Sessions, sess[s].state # "none"
      PROVE  sess'[s].cancelled /\ sess'[s].state = "Cancelled" /\ ~sess'[s].owns
  BY <1>1, <1>4, DeadFields
<1>5. \A s \in Sessions : ~sess'[s].owns
  BY <1>1, <1>3, <1>4 DEF Unused, OwnersInv
<1>6. \A s \in blobs : s \in Sessions /\ sess'[s].cancelled
  BY <1>3, <1>4 DEF Unused, Shape
<1>7. Alone'
  <2>1. \A b \in Clients : client[b].pc \in EndPcs => client'[b].pc \in EndPcs
    BY <1>1, Kinds
  <2>. QED
    BY <1>3, <2>1 DEF Alone
<1>8. Unused'
  BY <1>1, <1>3, <1>4, Kinds DEF Unused
<1>9. WorkInv'
  <2>1. ASSUME NEW a \in Actors, client'[a].pc = "ask", client'[a].s \in Sessions
        PROVE  sess'[client'[a].s].cancelled
    <3>1. client'[a].s = client[a].s
      BY <1>1, <2>1, Kinds
    <3>2. sess[client[a].s].state # "none"
      BY <1>3, <2>1, <3>1 DEF Unused
    <3>. QED
      BY <1>4, <2>1, <3>1, <3>2
  <2>2. ASSUME NEW a \in Actors
        PROVE  WorkAt(a)'
    <3>1. client'[a].pc \in EndPcs \cup {"ask"}
      BY <1>1
    <3>. QED
      BY <2>1, <3>1 DEF WorkAt, Unsaved
  <2>. QED
    BY <2>2 DEF WorkInv
<1>10. OwnersInv'
  BY <1>5 DEF OwnersInv
<1>11. FilesInv'
  <2>1. \A s \in orphans' : s \in blobs
    BY <1>1, <1>3 DEF FilesInv, OwnersInv
  <2>2. \A e \in entries : e.blob \in blobs /\ e.blob \notin orphans'
    BY <1>1, <1>3 DEF FilesInv
  <2>3. \A s \in blobs : s \in orphans' \/ \E e \in entries : e.blob = s
    BY <1>1, <1>3, <1>6 DEF FilesInv
  <2>. QED
    BY <1>1, <1>3, <1>5, <1>6, <2>1, <2>2, <2>3 DEF FilesInv
<1>. QED
  BY <1>7, <1>8, <1>9, <1>10, <1>11 DEF HoldInv

LEMMA ShutdownHolds ==
    ASSUME Shape, HoldInv, Shutdown
    PROVE  HoldInv'
<1>1. /\ sessions' = {} /\ stale' = {}
      /\ \A a \in Actors : client[a].pc \in EndPcs \cup {"send", "ask"}
      /\ \A t : t \in blobs' <=> t \in blobs /\ ~(t \in sessions /\ sess[t].owns)
      /\ \A s \in Sessions : sess'[s] = IF s \notin sessions THEN sess[s] ELSE Dead
      /\ UNCHANGED <<entries, orphans, client, cast>>
  BY ShutdownStep
<1>3. Alone /\ Unused /\ WorkInv /\ OwnersInv /\ FilesInv
  BY DEF HoldInv
\* Nobody cleans up, so an owner is registered, and dead now.
<1>4. \A s \in Sessions : sess[s].owns => s \in sessions
  BY <1>1, <1>3 DEF OwnersInv, Cleaner, At
<1>5. \A s \in Sessions : ~sess'[s].owns
  BY <1>1, <1>4, DeadFields
<1>6. \A s \in Sessions : /\ sess[s].cancelled => sess'[s].cancelled
                          /\ s \in sessions => sess'[s].cancelled
                          /\ s \notin sessions => sess'[s] = sess[s]
  BY <1>1, DeadFields
<1>7. Alone' /\ Unused'
  BY <1>1, <1>3, DeadFields DEF Alone, Unused
<1>8. WorkInv'
  <2>1. ASSUME NEW a \in Actors
        PROVE  WorkAt(a)'
    <3>1. client'[a] = client[a] /\ client[a].pc \in EndPcs \cup {"send", "ask"} /\ WorkAt(a)
      BY <1>1, <1>3 DEF WorkInv
    <3>. QED
      BY <1>6, <3>1 DEF WorkAt, Unsaved
  <2>. QED
    BY <2>1 DEF WorkInv
<1>9. OwnersInv'
  BY <1>5 DEF OwnersInv
<1>10. FilesInv'
  <2>0. blobs \subseteq Sessions
    BY DEF Shape
  <2>1. \A s \in orphans : s \in blobs' /\ sess'[s].cancelled
    BY <1>1, <1>3, <1>6, <2>0 DEF FilesInv, OwnersInv
  <2>2. \A e \in entries : /\ e.blob \in blobs' /\ e.blob \notin orphans /\ ~sess'[e.blob].owns
                           /\ sess'[e.blob].cancelled \/ sess'[e.blob].state = "Completed"
    BY <1>1, <1>3, <1>5, <1>6, <2>0 DEF FilesInv
  <2>3. \A s \in blobs' : s \in orphans \/ \E e \in entries : e.blob = s
    BY <1>1, <1>3, <1>4, <2>0 DEF FilesInv
  <2>. QED
    BY <1>1, <1>3, <2>1, <2>2, <2>3 DEF FilesInv
<1>. QED
  BY <1>7, <1>8, <1>9, <1>10 DEF HoldInv

LEMMA HoldInit == RegInit => HoldInv
<1>. SUFFICES ASSUME RegInit PROVE HoldInv
  OBVIOUS
<1>1. /\ \A a \in Actors : client[a].pc \in EndPcs /\ client[a].s = None
      /\ \A s \in Sessions : sess[s] = FreshSession
      /\ sessions = {} /\ entries = {} /\ blobs = {} /\ orphans = {} /\ stale = {}
  BY ShapeInit DEF RegInit
<1>2. Alone /\ Unused
  BY <1>1, Kinds DEF Alone, Unused
<1>3. WorkInv
  BY <1>1 DEF WorkInv, WorkAt
<1>4. OwnersInv /\ FilesInv
  BY <1>1, FreshSessionFields DEF OwnersInv, FilesInv
<1>. QED
  BY <1>2, <1>3, <1>4 DEF HoldInv

LEMMA HoldStep ==
    ASSUME Apart, Shape, HoldInv, [RegNext]_vars
    PROVE  HoldInv'
<1>1. ASSUME NEW a \in Clients, TameStep(a) \/ Start(a) \/ BeginNew(a) \/ BeginLinks(a)
      PROVE  HoldInv'
  BY <1>1, TameStepHolds, StartHolds, BeginNewHolds, BeginLinksHolds
<1>2. ASSUME NEW a \in Clients, Receive(a) \/ CompleteSaves(a)
      PROVE  HoldInv'
  BY <1>2, ReceiveHolds, SavesHolds
<1>3. ASSUME NEW a \in Actors, Cancel(a) \/ CancelCleans(a) \/ Erase(a)
      PROVE  HoldInv'
  BY <1>3, CancelHolds, CleansHolds, EraseHolds
<1>4. ASSUME NEW s \in Sessions, TimePasses(s)
      PROVE  HoldInv'
  BY <1>4, TimeStep, SameHolds DEF storeVars
<1>5. CASE ReapStale
  BY <1>5, ReapStaleStep, SameHolds DEF storeVars
<1>6. CASE UNCHANGED vars
  BY <1>6, RestStep, SameHolds
<1>7. CASE ReapNext \/ Crash \/ Shutdown
  BY <1>7, ReapNextHolds, CrashHolds, ShutdownHolds
<1>. QED
  BY <1>1, <1>2, <1>3, <1>4, <1>5, <1>6, <1>7, AnyStep

LEMMA HoldKept == ASSUME Apart PROVE RegSpec => [](Shape /\ HoldInv)
<1>1. RegInit => Shape /\ HoldInv
  BY ShapeInit, HoldInit
<1>2. Shape /\ HoldInv /\ [RegNext]_vars => (Shape /\ HoldInv)'
  BY ShapeStep, HoldStep
<1>. QED
  BY <1>1, <1>2, PTL DEF RegSpec

\* While clients come one at a time: types, and what goes with them, that a session
\* which owns documents has them on Telegram, that no registered session is one never
\* begun, and that documents a crash left to nobody are still there.
THEOREM RegistryTypes == ASSUME Apart PROVE RegSpec => []RegTypeOK
<1>1. Shape /\ HoldInv => RegTypeOK
  <2>. SUFFICES ASSUME Shape, HoldInv PROVE RegTypeOK
    OBVIOUS
  <2>1. \A s \in Sessions : /\ sess[s].state \in States /\ sess[s].kept \in 0..Len(sess[s].data)
                            /\ sess[s].lock \in Actors \cup {None}
    BY HasFields DEF SessionFields
  <2>2. \A a \in Actors : client[a].s \in Sessions \cup {None}
    BY HasFields DEF ClientFields
  <2>3. \A s \in Sessions : sess[s].owns => s \in blobs
    BY DEF HoldInv, OwnersInv
  <2>4. \A s \in sessions : sess[s].state # "none"
    BY DEF HoldInv, Unused, Shape
  <2>5. cast \in Casts /\ blobs \subseteq Sessions /\ orphans \subseteq blobs /\ stale \subseteq Sessions
    BY DEF HoldInv, FilesInv, Shape
  <2>. QED
    BY <2>1, <2>2, <2>3, <2>4, <2>5 DEF RegTypeOK
<1>. QED
  BY <1>1, HoldKept, PTL

\* While clients come one at a time, documents on Telegram belong to a file or to a
\* session that is registered or being cleaned up, whatever is resumed, replaced,
\* linked, refused, reaped or cancelled; only a crash leaves documents to nobody.
THEOREM DocumentsHaveOwners == ASSUME Apart PROVE RegSpec => []DocumentsOwned
<1>1. Shape /\ HoldInv => DocumentsOwned
  BY DEF Shape, HoldInv, FilesInv, OwnersInv, Cleaner, DocumentsOwned
<1>. QED
  BY <1>1, HoldKept, PTL

\* While clients come one at a time, a session leaves the registry saved or cancelled:
\* no error of receive() or complete() unregisters one that could be resumed.
THEOREM SessionsKept == ASSUME Apart PROVE RegSpec => KeptForResume
<1>. DEFINE Left == \A s \in sessions \ sessions' : sess[s].state = "Completed" \/ sess'[s].cancelled
<1>1. ASSUME Shape, HoldInv, [RegNext]_vars
      PROVE  Left
  <2>1. ASSUME NEW a \in Clients, TameStep(a)
        PROVE  Left
    BY <1>1, <2>1, TameSteps DEF Tame
  <2>2. ASSUME NEW a \in Clients, Start(a) \/ BeginNew(a) \/ BeginLinks(a)
        PROVE  Left
    BY <1>1, <2>2, StartStep, BeginNewStep, BeginLinksStep
  <2>3. ASSUME NEW a \in Clients, Receive(a) \/ CompleteSaves(a)
        PROVE  Left
    BY <1>1, <2>3, ReceiveStep, SavesStep
  <2>4. ASSUME NEW a \in Actors, Cancel(a) \/ CancelCleans(a)
        PROVE  Left
    BY <1>1, <2>4, CancelTame, CleansStep
  <2>5. ASSUME NEW a \in Actors, Erase(a)
        PROVE  Left
    <3>. DEFINE s == client[a].s
    <3>1. /\ client[a].pc = "erase" /\ sessions' = sessions \ {s}
          /\ sess'[s].cancelled = sess[s].cancelled \/ sess'[s] = Dead
      BY <1>1, <2>5, EraseStep DEF At
    <3>2. sess[s].cancelled \/ sess[s].state = "Completed"
      BY <1>1, <3>1 DEF HoldInv, WorkInv, WorkAt
    <3>. QED
      BY <3>1, <3>2, DeadFields
  <2>6. CASE Crash \/ Shutdown
    BY <1>1, <2>6, CrashStep, ShutdownStep, DeadFields, HasFields DEF HoldInv, Unused
  <2>7. CASE ReapStale \/ ReapNext \/ UNCHANGED vars \/ \E s \in Sessions : TimePasses(s)
    BY <1>1, <2>7, ReapStaleStep, ReapNextTame, RestStep, TimeStep DEF Tame
  <2>. QED
    BY <1>1, <2>1, <2>2, <2>3, <2>4, <2>5, <2>6, <2>7, AnyStep
<1>2. Shape /\ HoldInv /\ [RegNext]_vars => [Left]_vars
  BY <1>1
<1>. QED
  BY <1>2, HoldKept, PTL DEF RegSpec, KeptForResume

-----------------------------------------------------------------------------
(* Part 6: the bytes, while a tab does not come back with another file *)

\* No session has gained bytes.
Shrinks == \A s \in Sessions : Shorter(sess[s], sess'[s])

LEMMA SameShrinks ==
    ASSUME Shape, DataSame
    PROVE  Shrinks
<1>1. \A s \in Sessions : Len(sess[s].data) \in Nat
  BY HasFields, DataLength
<1>. QED
  BY <1>1 DEF DataSame, Shrinks, Shorter

LEMMA StaysShrinks ==
    ASSUME Shape, sess' = sess
    PROVE  Shrinks /\ DataSame
BY SameShrinks DEF DataSame

LEMMA ShorterBegins ==
    ASSUME NEW x, NEW y, SessionFields(x), SessionFields(y), Shorter(x, y), NEW v, Begins(x.data, v)
    PROVE  Begins(y.data, v)
<1>1. Len(x.data) \in Nat /\ Len(y.data) \in Nat /\ Blocks \in Nat
  BY DataLength, RegistryAssumption
<1>. QED
  BY <1>1 DEF Shorter, Begins

LEMMA ShorterEmpty ==
    ASSUME NEW x, NEW y, SessionFields(x), SessionFields(y), Shorter(x, y), x.data = <<>>
    PROVE  y.data = <<>>
<1>1. Len(y.data) \in Nat /\ Len(x.data) = 0 /\ y.data \in Seq(Versions \X Nat)
  BY DataLength DEF SessionFields
<1>2. Len(y.data) = 0
  BY <1>1 DEF Shorter
<1>. QED
  BY <1>1, <1>2, EmptySeq

\* What is a beginning stays one.
LEMMA DataStays ==
    ASSUME Shape, Shape', DataInv, Shrinks, cast' = cast,
           \A s \in Sessions : sess[s].cancelled => sess'[s].cancelled
    PROVE  DataInv'
<1>1. ASSUME NEW s \in Sessions, ~sess'[s].cancelled
      PROVE  sess'[s].data = <<>> \/ \E v \in cast.versions : Begins(sess'[s].data, v)
  <2>1. SessionFields(sess[s]) /\ SessionFields(sess'[s]) /\ Shorter(sess[s], sess'[s])
    BY HasFields DEF Shrinks, Shape, SessionFields
  <2>2. sess[s].data = <<>> \/ \E v \in cast.versions : Begins(sess[s].data, v)
    BY <1>1 DEF DataInv
  <2>. QED
    BY <2>1, <2>2, ShorterBegins, ShorterEmpty
<1>. QED
  BY <1>1 DEF DataInv, Begins

LEMMA DataBound ==
    ASSUME Shape, DataInv, NEW s \in Sessions, ~sess[s].cancelled
    PROVE  Len(sess[s].data) \in 0..Blocks
<1>1. Len(sess[s].data) \in Nat /\ Blocks \in Nat
  BY HasFields, DataLength, RegistryAssumption
<1>. QED
  BY <1>1 DEF DataInv, Begins

\* A claimed session is with a request after the step of a.
ClaimsKept(a) ==
    \A s \in Sessions : sess'[s].busy /\ ~sess'[s].cancelled =>
        \/ a \in Clients \ Web /\ client'[a].s = s
        \/ sess[s].busy /\ ~sess[s].cancelled
           /\ (a \in Clients \ Web => client'[a].s = client[a].s \/ client[a].s # s)

LEMMA ClaimsStay ==
    ASSUME Shape, ClaimsInv, NEW a \in Actors, Moved(a), ClaimsKept(a)
    PROVE  ClaimsInv'
BY Kinds DEF ClaimsInv, ClaimsKept, Moved

\* What a step of client a has to keep.
GoodStep(a) ==
    /\ Shrinks /\ ClaimsKept(a) /\ PlaceAt(a)'
    /\ client'[a].pc = "begin" => NothingToResume'
    /\ client'[a].pc # "reopen"

LEMMA TameBytes ==
    ASSUME Shape, HoldInv, BytesInv, NEW a \in Clients, Tame(a), client[a].pc \notin EndPcs, GoodStep(a)
    PROVE  BytesInv'
<1>1. /\ Shape' /\ Moved(a) /\ UNCHANGED <<sessions, entries, cast>>
      /\ \A s \in Sessions : sess[s].cancelled => sess'[s].cancelled
      /\ Alone /\ a \in Actors
  BY TameShape, Kinds DEF Tame, TameSess, TameFor, storeVars, HoldInv
<1>2. DataInv'
  BY <1>1, DataStays DEF BytesInv, GoodStep
<1>3. ClaimsInv'
  BY <1>1, ClaimsStay DEF BytesInv, GoodStep
<1>4. ASSUME NEW b \in Clients, b # a
      PROVE  /\ client'[b] = client[b] /\ client[b].pc \in EndPcs /\ client[b].s = None
             /\ PlaceAt(b)'
  <2>1. client'[b] = client[b] /\ client[b].pc \in EndPcs /\ client[b].s = None
    BY <1>1, <1>4, OthersAway, Kinds DEF Moved
  <2>. QED
    BY <2>1, Kinds DEF PlaceAt, At
<1>5. FreshStarts'
  BY <1>4 DEF GoodStep, FreshStarts, At
<1>6. PlaceInv'
  BY <1>4 DEF GoodStep, PlaceInv
<1>7. WholeFiles'
  BY <1>1 DEF BytesInv, WholeFiles
<1>. QED
  BY <1>2, <1>3, <1>5, <1>6, <1>7 DEF BytesInv

\* An actor that is done is nowhere in its file.
LEMMA PlaceDone ==
    ASSUME NEW a, client'[a].pc \in EndPcs, client'[a].s = None
    PROVE  PlaceAt(a)'
BY Kinds DEF PlaceAt, At

\* Places where nothing is asked of the position.
LEMMA PlaceFree ==
    ASSUME NEW a, a \in cast'.clients,
           client'[a].pc \in {"init", "claim", "begin", "settle", "mark", "check", "cancel", "clean", "erase"}
    PROVE  PlaceAt(a)'
BY DEF PlaceAt, PlaceOf, At

LEMMA TakesPart ==
    ASSUME BytesInv, NEW a \in Clients, client[a].pc \notin EndPcs, cast' = cast
    PROVE  a \in cast.clients /\ a \in cast'.clients
BY DEF BytesInv, PlaceInv, PlaceAt

\* A tab has but one file to send.
LEMMA OneVersion ==
    ASSUME TabsKeepFile, Shape, NEW a \in Clients \cap Web, a \in cast.clients,
           NEW v \in cast.versions, NEW w \in cast.versions
    PROVE  v = w
BY DEF TabsKeepFile, Shape

\* Who stands where.
LEMMA KindAt ==
    ASSUME Shape, NEW a \in Clients
    PROVE  /\ client[a].pc \in WebPcs => a \in Web
           /\ client[a].pc \in PutPcs => a \notin Web
           /\ client[a].pc \in Before => client[a].s = None
           /\ client[a].pc \in Feeding => client[a].s \in Sessions
           /\ client[a].pc \notin EndPcs => client[a].v \in cast.versions
           /\ client[a].pos \in Nat
<1>1. ClientFields(a, client[a])
  BY HasFields, Kinds
<1>. QED
  BY <1>1 DEF ClientFields, PcsOf

\* Only one session has lost bytes.
LEMMA OneShrinks ==
    ASSUME Shape, NEW s \in Sessions, \A t \in Sessions \ {s} : sess'[t] = sess[t],
           Shorter(sess[s], sess'[s])
    PROVE  Shrinks
<1>1. \A t \in Sessions : Len(sess[t].data) \in Nat
  BY HasFields, DataLength
<1>. QED
  BY <1>1 DEF Shrinks, Shorter

\* What PlaceAt says of an actor at work on session s.
LEMMA PlacedAt ==
    ASSUME NEW a, client'[a].pc \notin EndPcs \cup {"finish"}, a \in cast'.clients, NEW s,
           client'[a].s = s, s \in Sessions /\ ~sess'[s].cancelled => PlaceOf(a)'
    PROVE  PlaceAt(a)'
BY DEF PlaceAt, Of, At

\* A request that ends gives back its session.
LEMMA GoodDone ==
    ASSUME NEW a \in Clients, Shrinks, client'[a].pc \in EndPcs, client'[a].s = None,
           \A t \in Sessions : sess'[t].busy /\ ~sess'[t].cancelled =>
               sess[t].busy /\ ~sess[t].cancelled /\ (a \in Web \/ t # client[a].s)
    PROVE  GoodStep(a)
BY PlaceDone DEF GoodStep, ClaimsKept

\* A request that goes on keeps its session.
LEMMA GoodOn ==
    ASSUME NEW a \in Clients, Shrinks, PlaceAt(a)', client'[a].pc \notin {"begin", "reopen"},
           a \in Web \/ client'[a].s = client[a].s,
           \A t \in Sessions : sess'[t].busy /\ ~sess'[t].cancelled => sess[t].busy /\ ~sess[t].cancelled
    PROVE  GoodStep(a)
BY DEF GoodStep, ClaimsKept

LEMMA NotUncancelled ==
    ASSUME NEW a \in Actors, Tame(a)
    PROVE  /\ \A t \in Sessions : ~sess'[t].cancelled => ~sess[t].cancelled
           /\ cast' = cast
BY DEF Tame, TameSess, TameFor

LEMMA GoodEnding ==
    ASSUME Shape, NEW a \in Clients, OverQuota(a) \/ BeginSkips(a) \/ CloseTab(a)
    PROVE  GoodStep(a)
<1>1. /\ Tame(a) /\ DataSame /\ BusySame /\ client'[a].pc \in EndPcs /\ client'[a].s = None
      /\ a \in Actors
  BY EndingTame, Kinds
<1>2. a \in Web
  BY KindAt DEF OverQuota, BeginSkips, CloseTab, At
<1>. QED
  BY <1>1, <1>2, SameShrinks, NotUncancelled, GoodDone DEF BusySame

\* Who finds a session to resume is a tab: a WebDAV request has looked before.
LEMMA GoodResumes ==
    ASSUME Shape, BytesInv, NEW a \in Clients, BeginResumes(a)
    PROVE  GoodStep(a)
<1>1. /\ Tame(a) /\ DataSame /\ BusySame /\ client[a].pc \in {"init", "begin"}
      /\ client'[a].pc = (IF a \in Web THEN "settle" ELSE "reopen")
      /\ client'[a].s \in Sessions /\ Resumable(client'[a].s) /\ a \in Actors
  BY BeginResumesTame, Kinds
<1>2. a \in Web
  BY <1>1, KindAt DEF BytesInv, FreshStarts, At, NothingToResume
<1>3. PlaceAt(a)'
  BY <1>1, <1>2, NotUncancelled, TakesPart, PlaceFree
<1>. QED
  BY <1>1, <1>2, <1>3, SameShrinks, NotUncancelled, GoodOn DEF BusySame

\* A WebDAV request that claims nothing finds nothing to resume: only a request that
\* is there has claimed a session, and no other is there.
LEMMA GoodClaim ==
    ASSUME Shape, HoldInv, BytesInv, NEW a \in Clients, ClaimResumable(a)
    PROVE  GoodStep(a)
<1>1. /\ Tame(a) /\ DataSame /\ client[a].pc = "claim" /\ a \in Actors
      /\ \/ /\ client'[a].pc = "settle" /\ client'[a].s \in Sessions
            /\ \A t \in Sessions \ {client'[a].s} : sess'[t] = sess[t]
         \/ /\ client'[a].pc = "begin" /\ client'[a].s = None /\ UNCHANGED sess
            /\ \A t \in Sessions : ~CanClaim(t)
  BY ClaimTame, Kinds
<1>2. a \notin Web /\ client[a].s = None /\ None \notin Sessions /\ client[a].pc \notin EndPcs
  BY <1>1, KindAt, Kinds
<1>3. PlaceAt(a)'
  BY <1>1, NotUncancelled, TakesPart, PlaceFree
<1>4. ClaimsKept(a)
  BY <1>1, <1>2, NotUncancelled DEF ClaimsKept
<1>5. ASSUME client'[a].pc = "begin"
      PROVE  NothingToResume'
  <2>1. UNCHANGED <<sess, sessions>> /\ \A t \in Sessions : ~CanClaim(t)
    BY <1>1, <1>5 DEF Tame
  <2>2. ASSUME NEW t \in Sessions
        PROVE  ~Resumable(t)
    <3>1. SUFFICES ASSUME Resumable(t) PROVE FALSE
      OBVIOUS
    <3>2. sess[t].busy /\ ~sess[t].cancelled
      BY <2>1, <3>1 DEF CanClaim, Resumable
    <3>3. PICK b \in Clients \ Web : client[b].s = t
      BY <3>2 DEF BytesInv, ClaimsInv
    <3>4. b # a
      BY <1>2, <3>3
    <3>. QED
      BY <1>2, <3>3, <3>4, OthersAway, Kinds DEF HoldInv
  <2>. QED
    BY <2>1, <2>2 DEF NothingToResume, Resumable
<1>. QED
  BY <1>1, <1>3, <1>4, <1>5, SameShrinks DEF GoodStep

LEMMA GoodSettle ==
    ASSUME Shape, BytesInv, NEW a \in Clients, Settle(a)
    PROVE  GoodStep(a)
<1>. DEFINE s == client[a].s
<1>1. /\ Tame(a) /\ BusySame /\ s \in Sessions /\ client'[a].s = s
      /\ client'[a].pos = client[a].pos /\ a \in Actors
      /\ client[a].pc \in {"settle", "reopen", "mismatch"}
      /\ client'[a].pc = CASE At(a, "settle") -> "mark" [] At(a, "reopen") -> "open"
                           [] At(a, "mismatch") -> "again"
      /\ \A t \in Sessions \ {s} : sess'[t] = sess[t]
      /\ Shorter(sess[s], sess'[s])
  BY SettleTame, Kinds
<1>2. Shrinks
  BY <1>1, OneShrinks
<1>3. ~At(a, "reopen")
  BY DEF BytesInv, FreshStarts
<1>4. \/ At(a, "settle") /\ client'[a].pc = "mark"
      \/ At(a, "mismatch") /\ client'[a].pc = "again"
  BY <1>1, <1>3 DEF At
<1>5. a \in cast'.clients /\ \A t \in Sessions : ~sess'[t].cancelled => ~sess[t].cancelled
  BY <1>1, NotUncancelled, TakesPart
<1>6. PlaceAt(a)'
  <2>1. CASE client'[a].pc = "mark"
    BY <1>5, <2>1, PlaceFree
  <2>2. CASE At(a, "mismatch") /\ client'[a].pc = "again"
    <3>1. ~sess'[s].cancelled => client[a].pos < Blocks
      BY <1>1, <1>5, <2>2 DEF BytesInv, PlaceInv, PlaceAt, PlaceOf, Of, At
    <3>2. ~sess'[s].cancelled => PlaceOf(a)'
      BY <1>1, <2>2, <3>1 DEF PlaceOf, At
    <3>. QED
      BY <1>1, <1>5, <2>2, <3>2, PlacedAt
  <2>. QED
    BY <1>4, <2>1, <2>2
<1>. QED
  BY <1>1, <1>2, <1>4, <1>5, <1>6, GoodOn DEF BusySame

LEMMA AtPlace ==
    ASSUME BytesInv, NEW a \in Clients, client[a].s \in Sessions, ~sess[client[a].s].cancelled
    PROVE  PlaceOf(a)
BY DEF BytesInv, PlaceInv, PlaceAt, Of

\* The position a client is told of is in its file.
LEMMA GoodReads ==
    ASSUME Shape, BytesInv, NEW a \in Clients, ReadMark(a) \/ ReadDigest(a)
    PROVE  GoodStep(a)
<1>. DEFINE s == client[a].s
            d == sess[s].data
<1>1. /\ Tame(a) /\ UNCHANGED <<sess, sessions>> /\ s \in Sessions /\ client'[a].s = s
      /\ a \in Actors /\ client[a].pc \in {"mark", "digest"}
      /\ \/ /\ client'[a].pc = (IF a \in Web THEN "send" ELSE "digest")
            /\ client'[a].pos = Len(d)
         \/ /\ client[a].pc = "digest" /\ client'[a].pc = "verify"
            /\ client'[a].pos = client[a].pos /\ client'[a].want = d
  BY ReadMarkTame, ReadDigestTame, Kinds DEF At, Of
<1>2. ~sess[s].cancelled => Len(d) \in 0..Blocks /\ Blocks \in Nat
  BY <1>1, DataBound, RegistryAssumption DEF BytesInv
<1>3. ~sess[s].cancelled /\ client[a].pc = "digest" => client[a].pos = Len(d)
  BY <1>1, AtPlace DEF PlaceOf, Of
<1>4. ~sess'[s].cancelled => PlaceOf(a)'
  BY <1>1, <1>2, <1>3 DEF PlaceOf, At, Of
<1>5. PlaceAt(a)'
  BY <1>1, <1>4, NotUncancelled, TakesPart, PlacedAt
<1>. QED
  BY <1>1, <1>5, StaysShrinks, GoodOn

\* A WebDAV request goes on when the bytes it sent again are those of the session.
LEMMA GoodVerify ==
    ASSUME Shape, BytesInv, NEW a \in Clients, VerifyPrefix(a)
    PROVE  GoodStep(a)
<1>. DEFINE s == client[a].s
            d == sess[s].data
            v == client[a].v
            n == client[a].pos
<1>1. /\ Tame(a) /\ UNCHANGED <<sess, sessions>> /\ At(a, "verify") /\ s \in Sessions
      /\ client'[a].pc = (IF ~PrefixMatches(a) THEN "cancel"
                          ELSE IF n = Blocks THEN "check" ELSE "recv")
      /\ client'[a].s = s /\ client'[a].v = v /\ client'[a].pos = n /\ a \notin Web
      /\ a \in Actors
  BY VerifyPrefixTame, Kinds
<1>2. a \in cast'.clients /\ cast' = cast
  BY <1>1, NotUncancelled, TakesPart DEF At
<1>3. CASE client'[a].pc \in {"cancel", "check"}
  <2>1. PlaceAt(a)'
    BY <1>2, <1>3, PlaceFree
  <2>. QED
    BY <1>1, <1>3, <2>1, StaysShrinks, GoodOn
<1>4. CASE client'[a].pc = "recv"
  <2>1. PrefixMatches(a) /\ n # Blocks
    BY <1>1, <1>4
  <2>2. ASSUME ~sess[s].cancelled
        PROVE  n = Len(d) /\ n < Blocks /\ Begins(d, v)
    <3>1. n = Len(d) /\ client[a].want = d /\ n \in Nat /\ Blocks \in Nat /\ n <= Blocks
      BY <1>1, <2>1, <2>2, AtPlace, KindAt, RegistryAssumption
      DEF PlaceOf, Of, At, PrefixMatches
    <3>2. ASSUME NEW i \in 1..Len(d)
          PROVE  d[i] = <<v, i>>
      <4>1. n > 0 /\ d = SubSeq(FileOf(v), 1, n) /\ i \in 1..n
        BY <2>1, <3>1, <3>2 DEF PrefixMatches, Prefix
      <4>2. SubSeq(FileOf(v), 1, n)[i] = FileOf(v)[i]
        BY <3>1, <4>1
      <4>3. FileOf(v)[i] = <<v, i>>
        BY <3>1, <4>1 DEF FileOf
      <4>. QED
        BY ONLY <4>1, <4>2, <4>3
    <3>. QED
      BY <2>1, <3>1, <3>2 DEF Begins
  <2>3. ~sess'[s].cancelled => PlaceOf(a)'
    BY <1>1, <1>4, <2>2 DEF PlaceOf, At, Of, Begins
  <2>4. PlaceAt(a)'
    BY <1>1, <1>2, <1>4, <2>3, PlacedAt
  <2>. QED
    BY <1>1, <1>4, <2>4, StaysShrinks, GoodOn
<1>. QED
  BY <1>1, <1>3, <1>4

\* A request sends to a session it has just begun from the first block on.
LEMMA GoodOpen ==
    ASSUME Shape, HoldInv, BytesInv, NEW a \in Clients, Open(a)
    PROVE  GoodStep(a)
<1>. DEFINE s == client[a].s
<1>1. /\ Tame(a) /\ DataSame /\ At(a, "open") /\ a \notin Web /\ s \in Sessions /\ a \in Actors
      /\ \A t \in Sessions : sess'[t].cancelled = sess[t].cancelled
      /\ \/ /\ client'[a].pc = "recv" /\ client'[a].pos = 0 /\ s \in sessions
            /\ client'[a].s = s /\ client'[a].v = client[a].v
            /\ \A t \in Sessions \ {s} : sess'[t] = sess[t]
         \/ /\ client'[a].pc = "over" /\ client'[a].s = None /\ s \notin sessions
            /\ UNCHANGED sess
  BY OpenTame, Kinds
<1>2. CASE client'[a].pc = "over"
  <2>1. sess[s].cancelled
    BY <1>1, <1>2 DEF HoldInv, WorkInv, WorkAt, Unsaved, At
  <2>. QED
    BY <1>1, <1>2, <2>1, StaysShrinks, GoodDone
<1>3. CASE client'[a].pc = "recv"
  <2>1. ~sess'[s].cancelled => sess'[s].data = <<>>
    BY <1>1, AtPlace DEF PlaceOf, Of, DataSame
  <2>2. Blocks \in Nat /\ 0 < Blocks
    BY RegistryAssumption
  <2>3. ~sess'[s].cancelled => Len(sess'[s].data) = 0
    BY <2>1
  <2>4. ~sess'[s].cancelled => PlaceOf(a)'
    BY <1>1, <1>3, <2>2, <2>3 DEF PlaceOf, Of, At, Begins
  <2>5. PlaceAt(a)'
    BY <1>1, <1>3, <2>4, NotUncancelled, TakesPart, PlacedAt DEF At
  <2>6. ClaimsKept(a)
    BY <1>1, <1>3, Kinds DEF ClaimsKept
  <2>. QED
    BY <1>1, <1>3, <2>5, <2>6, SameShrinks DEF GoodStep
<1>. QED
  BY <1>1, <1>2, <1>3

\* A tab whose position is the server's offers the next blocks of its file.
LEMMA TabOffers ==
    ASSUME TabsKeepFile, Shape, BytesInv, NEW a \in Clients \cap Web, client[a].pc \notin EndPcs,
           NEW s, s = client[a].s, s \in Sessions, UNCHANGED <<sess, cast>>,
           client'[a].pc = "recv", client'[a].s = s, client'[a].v = client[a].v,
           client'[a].pos = client[a].pos, client'[a].left = Offered(a),
           client[a].pos = Len(sess[s].data), client[a].pos < Blocks \/ sess[s].cancelled
    PROVE  PlaceAt(a)'
<1>. DEFINE d == sess[s].data
            v == client[a].v
            n == client[a].pos
<1>1. a \in cast.clients /\ a \in cast'.clients /\ v \in cast.versions /\ n \in Nat
  BY TakesPart, KindAt
<1>2. ASSUME ~sess[s].cancelled
      PROVE  Begins(d, v)
  <2>1. d = <<>> \/ \E w \in cast.versions : Begins(d, w)
    BY <1>2 DEF BytesInv, DataInv
  <2>2. CASE d = <<>>
    <3>1. Len(d) = 0 /\ Blocks \in Nat
      BY <2>2, RegistryAssumption
    <3>. QED
      BY <3>1 DEF Begins
  <2>3. CASE \E w \in cast.versions : Begins(d, w)
    BY <1>1, <2>3, OneVersion
  <2>. QED
    BY <2>1, <2>2, <2>3
<1>3. ~sess[s].cancelled => client'[a].left >= 1 /\ n + client'[a].left <= Blocks
  BY <1>1, RegistryAssumption DEF Offered, Least
<1>4. ~sess'[s].cancelled => PlaceOf(a)'
  BY <1>2, <1>3 DEF PlaceOf, Of, At, Begins
<1>. QED
  BY <1>1, <1>4, PlacedAt

LEMMA GoodPut ==
    ASSUME TabsKeepFile, Shape, BytesInv, NEW a \in Clients, PutRoute(a) \/ PutRouteAgain(a)
    PROVE  GoodStep(a)
<1>. DEFINE s == client[a].s
<1>1. /\ Tame(a) /\ UNCHANGED <<sess, sessions>> /\ a \in Web /\ client[a].pc \in {"send", "again"}
      /\ client[a].pc = "send" => client[a].pos < Blocks
      /\ client'[a].s = s /\ client'[a].v = client[a].v /\ client'[a].pos = client[a].pos
      /\ a \in Actors
      /\ \/ client'[a].pc = "cancel"
         \/ client[a].pc = "send" /\ client'[a].pc = "mismatch"
         \/ client[a].pc = "again" /\ client'[a].pc = "ask"
         \/ /\ client'[a].pc = "recv" /\ s \in Sessions
            /\ client[a].pos = Len(sess[s].data) /\ client'[a].left = Offered(a)
  BY PutRouteTame, PutRouteAgainTame, Kinds DEF At, Of
<1>2. a \in cast'.clients /\ cast' = cast
  BY <1>1, NotUncancelled, TakesPart
<1>3. s \in Sessions /\ ~sess[s].cancelled => client[a].pos < Blocks
  BY <1>1, AtPlace DEF PlaceOf
<1>4. PlaceAt(a)'
  <2>1. CASE client'[a].pc = "cancel"
    BY <1>2, <2>1, PlaceFree
  <2>2. CASE client'[a].pc \in {"mismatch", "ask"}
    <3>1. s \in Sessions /\ ~sess'[s].cancelled => PlaceOf(a)'
      BY <1>1, <1>3, <2>2 DEF PlaceOf, At
    <3>. QED
      BY <1>1, <1>2, <2>2, <3>1, PlacedAt
  <2>3. CASE /\ client'[a].pc = "recv" /\ s \in Sessions
             /\ client[a].pos = Len(sess[s].data) /\ client'[a].left = Offered(a)
    BY <1>1, <1>2, <1>3, <2>3, TabOffers
  <2>. QED
    BY <1>1, <2>1, <2>2, <2>3
<1>. QED
  BY <1>1, <1>4, StaysShrinks, GoodOn

LEMMA GoodAsk ==
    ASSUME Shape, BytesInv, NEW a \in Clients, AskPosition(a)
    PROVE  GoodStep(a)
<1>. DEFINE s == client[a].s
<1>1. /\ Tame(a) /\ UNCHANGED <<sess, sessions>> /\ At(a, "ask") /\ a \in Web /\ a \in Actors
      /\ client'[a].s = s /\ client'[a].v = client[a].v
      /\ \/ client'[a].pc = "send" /\ s \in Sessions /\ client'[a].pos = Len(sess[s].data)
         \/ client'[a].pc \in {"send", "cancel"} /\ client'[a].pos = client[a].pos
  BY AskPositionTame, Kinds DEF Of
<1>2. a \in cast'.clients /\ cast' = cast
  BY <1>1, NotUncancelled, TakesPart DEF At
<1>3. PlaceAt(a)'
  <2>1. CASE client'[a].pc = "cancel"
    BY <1>2, <2>1, PlaceFree
  <2>2. CASE client'[a].pc = "send"
    <3>1. ASSUME s \in Sessions, ~sess[s].cancelled
          PROVE  /\ Len(sess[s].data) \in 0..Blocks /\ Blocks \in Nat
                 /\ client[a].pos < Blocks /\ client[a].pos \in Nat
      BY <1>1, <3>1, DataBound, AtPlace, KindAt, RegistryAssumption
      DEF BytesInv, PlaceOf, At
    <3>2. s \in Sessions /\ ~sess'[s].cancelled => PlaceOf(a)'
      BY <1>1, <2>2, <3>1 DEF PlaceOf, At, Of
    <3>. QED
      BY <1>1, <1>2, <2>2, <3>2, PlacedAt
  <2>. QED
    BY <1>1, <2>1, <2>2
<1>. QED
  BY <1>1, <1>3, StaysShrinks, GoodOn

\* A tab that was refused or cut off asks; where it was is in its file.
LEMMA GoodWithdraws ==
    ASSUME Shape, BytesInv, NEW a \in Clients, ReceiveRefused(a) \/ Cut(a) \/ ReceiveFails(a)
    PROVE  GoodStep(a)
<1>. DEFINE s == client[a].s
<1>1. /\ Tame(a) /\ At(a, "recv") /\ s \in Sessions /\ a \in Actors
      /\ \/ /\ a \in Web /\ client'[a].pc = "ask" /\ client'[a].s = s
            /\ client'[a].pos = client[a].pos
         \/ a \notin Web /\ client'[a].pc = "over" /\ client'[a].s = None
      /\ \/ DataSame
         \/ (\A t \in Sessions \ {s} : sess'[t] = sess[t]) /\ Shorter(sess[s], sess'[s])
      /\ \A t \in Sessions : sess'[t].busy => sess[t].busy /\ (a \in Web \/ t # s)
  BY RefusedTame, ReceiveFailsTame, Kinds DEF Withdraws, FailedSession
<1>2. Shrinks
  BY <1>1, SameShrinks, OneShrinks
<1>3. CASE client'[a].pc = "over"
  BY <1>1, <1>2, <1>3, NotUncancelled, GoodDone
<1>4. CASE client'[a].pc = "ask"
  <2>1. ~sess'[s].cancelled => client[a].pos < Blocks
    BY <1>1, NotUncancelled, AtPlace DEF PlaceOf
  <2>2. ~sess'[s].cancelled => PlaceOf(a)'
    BY <1>1, <1>4, <2>1 DEF PlaceOf, At
  <2>3. PlaceAt(a)'
    BY <1>1, <1>4, <2>2, NotUncancelled, TakesPart, PlacedAt DEF At
  <2>. QED
    BY <1>1, <1>2, <1>4, <2>3, NotUncancelled, GoodOn
<1>. QED
  BY <1>1, <1>3, <1>4

\* complete() is asked for when the session has all the blocks.
LEMMA GoodLastCheck ==
    ASSUME Shape, BytesInv, NEW a \in Clients, LastCheck(a)
    PROVE  GoodStep(a)
<1>. DEFINE s == client[a].s
<1>1. /\ Tame(a) /\ a \in Actors
      /\ (At(a, "check") /\ a \notin Web) \/ (At(a, "send") /\ client[a].pos >= Blocks)
      /\ \/ /\ client'[a].pc = "complete" /\ UNCHANGED sess /\ client'[a].s = s
            /\ a \in Web \/ Len(sess[s].data) = Blocks
         \/ /\ client'[a].pc = "over" /\ client'[a].s = None /\ DataSame
            /\ \A t \in Sessions : sess'[t].busy => sess[t].busy /\ t # s
  BY LastCheckTame, Kinds DEF Of
<1>2. CASE client'[a].pc = "over"
  BY <1>1, <1>2, SameShrinks, NotUncancelled, GoodDone
<1>3. CASE client'[a].pc = "complete"
  <2>1. s \in Sessions /\ ~sess[s].cancelled => Len(sess[s].data) = Blocks
    BY <1>1, <1>3, AtPlace DEF PlaceOf, At, Of
  <2>2. s \in Sessions /\ ~sess'[s].cancelled => PlaceOf(a)'
    BY <1>1, <1>3, <2>1 DEF PlaceOf, At, Of
  <2>3. PlaceAt(a)'
    BY <1>1, <1>3, <2>2, NotUncancelled, TakesPart, PlacedAt DEF At
  <2>. QED
    BY <1>1, <1>3, <2>3, StaysShrinks, GoodOn
<1>. QED
  BY <1>1, <1>2, <1>3

LEMMA GoodComplete ==
    ASSUME Shape, BytesInv, NEW a \in Clients, CompleteEnter(a) \/ CompleteFails(a)
    PROVE  GoodStep(a)
<1>. DEFINE s == client[a].s
<1>1. /\ Tame(a) /\ client[a].pc \in {"complete", "finish"} /\ a \in Actors
      /\ \/ /\ client'[a].pc = "finish" /\ client[a].pc = "complete" /\ s \in Sessions
            /\ ~sess[s].cancelled /\ client'[a].s = s /\ DataSame
         \/ a \in Web /\ client'[a].pc = "cancel" /\ client'[a].s = s
         \/ a \notin Web /\ client'[a].pc = "over" /\ client'[a].s = None
      /\ \/ DataSame
         \/ /\ s \in Sessions /\ (\A t \in Sessions \ {s} : sess'[t] = sess[t])
            /\ Shorter(sess[s], sess'[s])
      /\ \A t \in Sessions : sess'[t].busy => /\ sess[t].busy
                                              /\ client'[a].pc = "over" => a \in Web \/ t # s
  <2>1. CASE CompleteEnter(a)
    BY <2>1, CompleteEnterTame, Kinds, HasFields DEF At, Of, BusySame
  <2>2. CASE CompleteFails(a)
    BY <2>2, CompleteFailsTame, Kinds DEF FailedSession, At
  <2>. QED
    BY <2>1, <2>2
<1>2. Shrinks
  BY <1>1, SameShrinks, OneShrinks
<1>3. a \in cast'.clients /\ cast' = cast
  BY <1>1, NotUncancelled, TakesPart
<1>4. CASE client'[a].pc = "over"
  BY <1>1, <1>2, <1>4, NotUncancelled, GoodDone
<1>5. CASE client'[a].pc = "cancel"
  BY <1>1, <1>2, <1>3, <1>5, PlaceFree, NotUncancelled, GoodOn
<1>6. CASE /\ client'[a].pc = "finish" /\ client[a].pc = "complete" /\ s \in Sessions
           /\ ~sess[s].cancelled /\ client'[a].s = s /\ DataSame
  <2>. DEFINE d == sess[s].data
  <2>1. Len(d) = Blocks
    BY <1>6, AtPlace DEF PlaceOf, At, Of
  <2>2. d # <<>>
    BY <2>1, RegistryAssumption
  <2>3. \E v \in cast.versions : Begins(d, v)
    BY <1>6, <2>2 DEF BytesInv, DataInv
  <2>4. sess'[s].data = d
    BY <1>6 DEF DataSame
  <2>5. PlaceAt(a)'
    BY <1>3, <1>6, <2>1, <2>3, <2>4 DEF PlaceAt, PlaceOf, At, Of, Begins
  <2>. QED
    BY <1>1, <1>2, <1>6, <2>5, NotUncancelled, GoodOn
<1>. QED
  BY <1>1, <1>4, <1>5, <1>6

LEMMA TameStepBytes ==
    ASSUME TabsKeepFile, Shape, HoldInv, BytesInv, NEW a \in Clients, TameStep(a)
    PROVE  BytesInv'
<1>1. Tame(a) /\ client[a].pc \notin EndPcs
  BY TameSteps
<1>2. GoodStep(a)
  BY GoodEnding, GoodResumes, GoodClaim, GoodSettle, GoodReads, GoodVerify, GoodOpen, GoodPut, GoodAsk,
     GoodWithdraws, GoodLastCheck, GoodComplete DEF TameStep
<1>. QED
  BY <1>1, <1>2, TameBytes

\* Another actor's place is what it was while its session has the same bytes.
LEMMA OtherPlace ==
    ASSUME Shape, NEW b \in Clients, PlaceAt(b), client'[b] = client[b], cast' = cast,
           client[b].s \in Sessions =>
               /\ sess'[client[b].s].data = sess[client[b].s].data
               /\ sess[client[b].s].cancelled => sess'[client[b].s].cancelled
    PROVE  PlaceAt(b)'
<1>. DEFINE s == client[b].s
<1>1. At(b, "finish") => s \in Sessions
  BY KindAt DEF At
<1>2. s \in Sessions => sess'[s].data = sess[s].data /\ (sess[s].cancelled => sess'[s].cancelled)
  OBVIOUS
<1>3. s \in Sessions /\ ~sess'[s].cancelled => PlaceOf(b)'
  BY <1>2 DEF PlaceAt, PlaceOf, Of, At, Begins
<1>. QED
  BY <1>1, <1>2, <1>3 DEF PlaceAt, Of, At, Begins

\* Where a client is at work, the others have no place.
LEMMA AwayPlaces ==
    ASSUME Shape, Alone, NEW a \in Clients, client[a].pc \notin EndPcs, Moved(a),
           NEW b \in Clients, b # a
    PROVE  client'[b] = client[b] /\ client[b].pc \in EndPcs /\ client[b].s = None /\ PlaceAt(b)'
<1>1. client'[b] = client[b] /\ client[b].pc \in EndPcs /\ client[b].s = None
  BY OthersAway, Kinds DEF Moved
<1>. QED
  BY <1>1, PlaceDone

\* So BytesInv holds again after a step of a client at work when it does for that client.
LEMMA WorkerBytes ==
    ASSUME Shape, Alone, NEW a \in Clients, client[a].pc \notin EndPcs, Moved(a), ClaimsInv, ClaimsKept(a),
           client'[a].pc \notin {"begin", "reopen"}, DataInv', PlaceAt(a)', WholeFiles'
    PROVE  BytesInv'
<1>1. ClaimsInv'
  BY ClaimsStay, Kinds
<1>2. PlaceInv'
  BY AwayPlaces DEF PlaceInv
<1>3. FreshStarts'
  BY AwayPlaces DEF FreshStarts, At
<1>. QED
  BY <1>1, <1>2, <1>3 DEF BytesInv

\* Steps that receive and save nothing: bytes stay where they are, or their session is
\* cancelled, and nothing becomes resumable.
LEMMA StillBytes ==
    ASSUME Shape, BytesInv, NEW a \in Actors, Moved(a), ClaimsKept(a), cast' = cast,
           sessions' \subseteq sessions,
           \A t \in Sessions : /\ sess[t].cancelled => sess'[t].cancelled
                               /\ ~sess'[t].cancelled =>
                                     /\ sess'[t].data = sess[t].data
                                     /\ sess'[t].state = "Receiving" => sess[t].state = "Receiving",
           a \in Clients => PlaceAt(a)' /\ client'[a].pc \notin {"begin", "reopen"},
           \A b \in Clients \ {a} : client[b].s \in Sessions =>
               sess'[client[b].s].data = sess[client[b].s].data,
           WholeFiles'
    PROVE  BytesInv'
<1>1. DataInv'
  BY DEF BytesInv, DataInv, Begins
<1>2. ClaimsInv'
  BY ClaimsStay DEF BytesInv
<1>3. ASSUME NEW b \in Clients, b # a
      PROVE  client'[b] = client[b] /\ PlaceAt(b)'
  <2>1. client'[b] = client[b] /\ PlaceAt(b)
    BY <1>3, Kinds DEF Moved, BytesInv, PlaceInv
  <2>. QED
    BY <1>3, <2>1, OtherPlace
<1>4. PlaceInv'
  BY <1>3 DEF PlaceInv
<1>5. NothingToResume => NothingToResume'
  BY DEF NothingToResume, Resumable
<1>6. FreshStarts'
  BY <1>3, <1>5 DEF FreshStarts, At, BytesInv
<1>. QED
  BY <1>1, <1>2, <1>4, <1>6 DEF BytesInv

LEMMA SameFiles ==
    ASSUME BytesInv, entries' = entries
    PROVE  WholeFiles'
BY DEF BytesInv, WholeFiles

\* Steps of nobody: the clients are where they were.
LEMMA NobodyMoves ==
    ASSUME Shape, client' = client
    PROVE  Moved(Sweeper) /\ Sweeper \in Actors \ Clients
BY Kinds DEF Shape, Moved

LEMMA StartBytes ==
    ASSUME Shape, BytesInv, NEW a \in Clients, Start(a)
    PROVE  BytesInv'
<1>1. /\ Moved(a) /\ UNCHANGED <<sess, sessions, entries, cast>> /\ a \in Actors
      /\ client'[a].pc \in {"init", "claim"} /\ a \in cast'.clients /\ client[a].pc \in EndPcs
  BY StartStep, Kinds DEF storeVars
<1>2. client[a].s = None /\ None \notin Sessions
  BY <1>1, KindAt, Kinds
<1>3. PlaceAt(a)'
  BY <1>1, PlaceFree
<1>4. ClaimsKept(a)
  BY <1>1, <1>2 DEF ClaimsKept
<1>5. WholeFiles'
  BY <1>1, SameFiles
<1>. QED
  BY <1>1, <1>3, <1>4, <1>5, StillBytes

LEMMA BeginLinksBytes ==
    ASSUME Shape, BytesInv, NEW a \in Clients, BeginLinks(a)
    PROVE  BytesInv'
<1>1. /\ Moved(a) /\ UNCHANGED <<sess, sessions, cast>> /\ a \in Actors
      /\ client[a].pc = "init" /\ client'[a].pc = "over" /\ client'[a].s = None
      /\ \E e \in entries : \E f : f.data = e.data /\ f.blob = e.blob /\ entries' = entries \cup {f}
  BY BeginLinksStep, Kinds
<1>2. client[a].s = None /\ None \notin Sessions
  BY <1>1, KindAt, Kinds
<1>3. PlaceAt(a)'
  BY <1>1, PlaceDone
<1>4. ClaimsKept(a)
  BY <1>1, <1>2 DEF ClaimsKept
<1>5. WholeFiles'
  BY <1>1 DEF BytesInv, WholeFiles
<1>. QED
  BY <1>1, <1>3, <1>4, <1>5, StillBytes

LEMMA CancelBytes ==
    ASSUME Shape, BytesInv, NEW a \in Actors, Cancel(a)
    PROVE  BytesInv'
<1>. DEFINE s == client[a].s
<1>1. /\ Tame(a) /\ DataSame /\ client[a].pc = "cancel" /\ UNCHANGED sessions
      /\ \A t \in Sessions : sess'[t].state = sess[t].state /\ (sess'[t].busy => sess[t].busy)
      /\ \/ client'[a].pc \in {"clean", "erase"} /\ client'[a].s = s
         \/ /\ client'[a].pc = "over" /\ client'[a].s = None
            /\ \A t \in Sessions : sess'[t].busy => a \in Web \/ t # s
  BY CancelTame DEF At
<1>2. /\ Moved(a) /\ UNCHANGED <<entries, cast>>
      /\ \A t \in Sessions : sess[t].cancelled => sess'[t].cancelled
  BY <1>1 DEF Tame, TameSess, TameFor, storeVars
<1>3. a \in Clients => PlaceAt(a)' /\ client'[a].pc \notin {"begin", "reopen"}
  BY <1>1, <1>2, TakesPart, PlaceFree, PlaceDone
<1>4. ClaimsKept(a)
  BY <1>1, <1>2 DEF ClaimsKept
<1>5. WholeFiles'
  BY <1>2, SameFiles
<1>. QED
  BY <1>1, <1>2, <1>3, <1>4, <1>5, StillBytes DEF DataSame

LEMMA CleansBytes ==
    ASSUME Shape, BytesInv, NEW a \in Actors, CancelCleans(a)
    PROVE  BytesInv'
<1>. DEFINE s == client[a].s
<1>1. /\ Moved(a) /\ At(a, "clean") /\ s \in Sessions
      /\ sess'[s].cancelled = sess[s].cancelled /\ sess'[s].state = "Cancelled"
      /\ sess'[s].busy = sess[s].busy /\ sess'[s].data = sess[s].data
      /\ \A t \in Sessions \ {s} : sess'[t] = sess[t]
      /\ client'[a].s = s /\ client'[a].pc = "erase"
      /\ UNCHANGED <<sessions, entries, cast>>
  BY CleansStep
<1>2. /\ DataSame
      /\ \A t \in Sessions : /\ sess'[t].cancelled = sess[t].cancelled
                             /\ sess'[t].state = "Receiving" => sess[t].state = "Receiving"
                             /\ sess'[t].busy = sess[t].busy
  BY <1>1 DEF DataSame
<1>3. a \in Clients => PlaceAt(a)'
  BY <1>1, TakesPart, PlaceFree DEF At
<1>4. ClaimsKept(a)
  BY <1>1, <1>2 DEF ClaimsKept
<1>5. WholeFiles'
  BY <1>1, SameFiles
<1>. QED
  BY <1>1, <1>2, <1>3, <1>4, <1>5, StillBytes DEF DataSame

\* An object that dies is nobody's, so nobody else's place was in it.
LEMMA EraseBytes ==
    ASSUME Shape, BytesInv, NEW a \in Actors, Erase(a)
    PROVE  BytesInv'
<1>. DEFINE s == client[a].s
<1>1. /\ Moved(a) /\ At(a, "erase") /\ s \in Sessions
      /\ client'[a].pc = "over" /\ client'[a].s = None /\ sessions' \subseteq sessions
      /\ \A t \in Sessions \ {s} : sess'[t] = sess[t]
      /\ sess'[s].busy => sess[s].busy /\ a \in Web
      /\ \/ /\ Referred(a) /\ sess'[s].cancelled = sess[s].cancelled
            /\ sess'[s].state = sess[s].state /\ sess'[s].data = sess[s].data
         \/ ~Referred(a) /\ sess'[s] = Dead
      /\ UNCHANGED <<entries, cast>>
  BY EraseStep
<1>2. \A t \in Sessions : /\ sess[t].cancelled => sess'[t].cancelled
                          /\ ~sess'[t].cancelled => /\ sess'[t].data = sess[t].data
                                                    /\ sess'[t].state = sess[t].state
                                                    /\ ~sess[t].cancelled
  BY <1>1, DeadFields
<1>3. \A b \in Clients \ {a} : client[b].s \in Sessions =>
         sess'[client[b].s].data = sess[client[b].s].data
  BY <1>1, Kinds DEF Referred
<1>4. a \in Clients => PlaceAt(a)'
  BY <1>1, PlaceDone
<1>5. ClaimsKept(a)
  BY <1>1, <1>2 DEF ClaimsKept
<1>6. WholeFiles'
  BY <1>1, SameFiles
<1>. QED
  BY <1>1, <1>2, <1>3, <1>4, <1>5, <1>6, StillBytes

LEMMA ReapNextBytes ==
    ASSUME Shape, BytesInv, ReapNext
    PROVE  BytesInv'
<1>1. Tame(Sweeper) /\ UNCHANGED <<sess, sessions>> /\ Sweeper \in Actors \ Clients
  BY ReapNextTame, Kinds
<1>2. Moved(Sweeper) /\ UNCHANGED <<entries, cast>> /\ ClaimsKept(Sweeper)
  BY <1>1 DEF Tame, storeVars, ClaimsKept
<1>3. WholeFiles'
  BY <1>2, SameFiles
<1>. QED
  BY <1>1, <1>2, <1>3, StillBytes

LEMMA IdleBytes ==
    ASSUME Shape, BytesInv, UNCHANGED <<client, sessions, entries, cast>>,
           \A t \in Sessions : /\ sess'[t].state = sess[t].state /\ sess'[t].cancelled = sess[t].cancelled
                               /\ sess'[t].busy = sess[t].busy /\ sess'[t].data = sess[t].data
    PROVE  BytesInv'
<1>1. Moved(Sweeper) /\ Sweeper \in Actors \ Clients
  BY NobodyMoves
<1>2. ClaimsKept(Sweeper)
  BY <1>1 DEF ClaimsKept
<1>3. WholeFiles'
  BY SameFiles
<1>4. \A b \in Clients \ {Sweeper} : client[b].s \in Sessions =>
         sess'[client[b].s].data = sess[client[b].s].data
  OBVIOUS
<1>. QED
  BY <1>1, <1>2, <1>3, <1>4, StillBytes

LEMMA BeginNewBytes ==
    ASSUME Shape, HoldInv, BytesInv, NEW a \in Clients, BeginNew(a)
    PROVE  BytesInv'
<1>1. PICK s \in Sessions :
        /\ client'[a].s = s /\ client'[a].pos = 0
        /\ client'[a].pc = (IF a \in Web THEN "send" ELSE "open")
        /\ \A t \in Sessions \ {s} : sess'[t] = sess[t]
        /\ ~sess'[s].cancelled /\ ~sess'[s].busy /\ sess'[s].data = <<>>
  BY BeginNewStep
<1>2. /\ Moved(a) /\ UNCHANGED <<entries, cast>> /\ client[a].pc \in {"init", "begin"}
  BY BeginNewStep DEF storeVars
<1>3. client[a].s = None /\ None \notin Sessions /\ a \in cast'.clients
  BY <1>2, KindAt, Kinds, TakesPart
<1>4. DataInv'
  BY <1>1, <1>2 DEF BytesInv, DataInv, Begins
<1>5. ClaimsKept(a)
  BY <1>1, <1>3 DEF ClaimsKept
<1>6. PlaceAt(a)'
  <2>1. Blocks \in Nat /\ ~(0 >= Blocks)
    BY RegistryAssumption
  <2>2. PlaceOf(a)'
    BY <1>1, <2>1 DEF PlaceOf, Of, At
  <2>. QED
    BY <1>1, <1>3, <2>2, PlacedAt
<1>7. WholeFiles'
  BY <1>2, SameFiles
<1>. QED
  BY <1>1, <1>2, <1>4, <1>5, <1>6, <1>7, WorkerBytes DEF HoldInv, BytesInv

\* The next block after a beginning makes a longer one.
LEMMA AppendBegins ==
    ASSUME NEW x, SessionFields(x), NEW v \in Versions, Begins(x.data, v), Len(x.data) < Blocks, NEW d,
           d = Append(x.data, <<v, Len(x.data) + 1>>)
    PROVE  Begins(d, v) /\ Len(d) = Len(x.data) + 1
<1>. DEFINE q == x.data
            n == Len(q)
            e == <<v, n + 1>>
<1>1. q \in Seq(Versions \X Nat) /\ n \in Nat /\ Blocks \in Nat /\ n < Blocks
  BY DataLength, RegistryAssumption DEF SessionFields
<1>2. e \in Versions \X Nat
  BY <1>1
<1>3. \A i \in 1..n : q[i] = <<v, i>>
  BY DEF Begins
<1>4. d = Append(q, e)
  OBVIOUS
<1>. HIDE DEF q, e
<1>p. q \in Seq(Versions \X Nat)
  BY <1>1
<1>a. /\ Len(Append(q, e)) = Len(q) + 1
      /\ \A i \in 1..Len(q) : Append(q, e)[i] = q[i]
      /\ Append(q, e)[Len(q) + 1] = e
  <2>. HIDE DEF n
  <2>. DEFINE S == Versions \X Nat
  <2>1. q \in Seq(S) /\ e \in S
    BY <1>p, <1>2
  <2>. HIDE DEF S
  <2>. QED
    BY <2>1, AppendProperties
<1>5. Len(d) = n + 1 /\ (\A i \in 1..n : d[i] = q[i]) /\ d[n + 1] = e
  BY <1>4, <1>a, Zenon
<1>. HIDE DEF n
<1>6. \A i \in 1..Len(d) : i \in 1..n \/ i = n + 1
  BY <1>1, <1>5
<1>7. \A i \in 1..Len(d) : d[i] = <<v, i>>
  BY <1>3, <1>5, <1>6 DEF e
<1>8. Len(d) <= Blocks
  BY <1>1, <1>5
<1>. QED
  BY <1>5, <1>7, <1>8 DEF Begins, n, q

\* One session has other bytes, the beginning of a version.
LEMMA OneChanged ==
    ASSUME DataInv, cast' = cast, NEW s \in Sessions, \A t \in Sessions \ {s} : sess'[t] = sess[t],
           \E v \in cast'.versions : Begins(sess'[s].data, v)
    PROVE  DataInv'
<1>1. ASSUME NEW t \in Sessions, ~sess'[t].cancelled
      PROVE  sess'[t].data = <<>> \/ \E v \in cast'.versions : Begins(sess'[t].data, v)
  <2>1. CASE t = s
    BY <2>1
  <2>2. CASE t # s
    BY <1>1, <2>2 DEF DataInv
  <2>. QED
    BY <2>1, <2>2
<1>. QED
  BY <1>1 DEF DataInv, Begins

LEMMA ReceiveBytes ==
    ASSUME Shape, HoldInv, BytesInv, NEW a \in Clients, Receive(a)
    PROVE  BytesInv'
<1>. DEFINE s == client[a].s
            x == client[a]
            y == client'[a]
            d == sess'[s].data
            last == IF a \in Web THEN x.left = 1 ELSE x.pos + 1 = Blocks
<1>1. /\ Moved(a) /\ x.pc = "recv" /\ s \in Sessions
      /\ ~sess[s].cancelled /\ ~sess'[s].cancelled /\ sess'[s].busy = sess[s].busy
      /\ d = Append(sess[s].data, <<x.v, x.pos + 1>>)
      /\ \A t \in Sessions \ {s} : sess'[t] = sess[t]
      /\ y.s = s /\ y.v = x.v /\ y.pos = x.pos + 1
      /\ a \in Web => y.left = x.left - 1
      /\ y.pc = (IF ~last THEN "recv" ELSE IF a \in Web THEN "send" ELSE "check")
      /\ UNCHANGED <<sessions, entries, cast>>
  BY ReceiveStep DEF At
<1>2. /\ x.pos = Len(sess[s].data) /\ x.pos < Blocks /\ Begins(sess[s].data, x.v)
      /\ a \in Web => x.left >= 1 /\ x.pos + x.left <= Blocks
  BY <1>1, AtPlace DEF PlaceOf, Of, At
<1>3. /\ x.v \in cast.versions /\ cast.versions \subseteq Versions /\ x.pos \in Nat /\ Blocks \in Nat
      /\ x.left \in Int /\ SessionFields(sess[s])
  BY <1>1, KindAt, HasFields, Kinds, RegistryAssumption DEF Shape, ClientFields
<1>4. Begins(d, x.v) /\ Len(d) = x.pos + 1
  <2>. DEFINE z == sess[s]
              w == x.v
  <2>1. /\ SessionFields(z) /\ w \in Versions /\ Begins(z.data, w) /\ Len(z.data) < Blocks
        /\ x.pos = Len(z.data) /\ d = Append(z.data, <<w, x.pos + 1>>)
    BY <1>1, <1>2, <1>3, Zenon
  <2>2. d = Append(z.data, <<w, Len(z.data) + 1>>)
    BY <2>1, Zenon
  <2>. HIDE DEF z, w, d
  <2>3. Begins(d, w) /\ Len(d) = Len(z.data) + 1
    BY <2>1, <2>2, AppendBegins
  <2>. QED
    BY <2>1, <2>3, Zenon DEF w
<1>5. DataInv'
  <2>1. \E v \in cast'.versions : Begins(sess'[s].data, v)
    BY <1>1, <1>3, <1>4, Zenon
  <2>. QED
    BY <1>1, <2>1, OneChanged DEF BytesInv
<1>6. ClaimsKept(a)
  BY <1>1 DEF ClaimsKept
<1>7. a \in cast'.clients
  BY <1>1, TakesPart
<1>p. /\ x.pos \in Nat /\ Blocks \in Nat /\ x.left \in Int /\ x.pos < Blocks
      /\ y.pos = x.pos + 1 /\ Len(d) = x.pos + 1
      /\ a \in Web => y.left = x.left - 1 /\ x.left >= 1 /\ x.pos + x.left <= Blocks
  BY <1>1, <1>2, <1>3, <1>4, Zenon
<1>8. PlaceAt(a)'
  <2>1. CASE y.pc = "check"
    BY <1>7, <2>1, PlaceFree
  <2>2. CASE y.pc = "send"
    <3>1. y.pos >= Blocks => Len(d) = Blocks
      BY <1>p
    <3>2. PlaceOf(a)'
      BY <1>1, <2>2, <3>1 DEF PlaceOf, Of, At
    <3>. QED
      BY <1>1, <1>7, <2>2, <3>2, PlacedAt
  <2>3. CASE y.pc = "recv"
    <3>1. ~last
      BY <1>1, <2>3
    <3>2. /\ y.pos = Len(d) /\ y.pos < Blocks
          /\ a \in Web => y.left >= 1 /\ y.pos + y.left <= Blocks
      BY <1>p, <3>1
    <3>3. PlaceOf(a)'
      BY <1>1, <1>4, <2>3, <3>2 DEF PlaceOf, Of, At, Begins
    <3>. QED
      BY <1>1, <1>7, <2>3, <3>3, PlacedAt
  <2>. QED
    BY <1>1, <2>1, <2>2, <2>3
<1>9. WholeFiles'
  BY <1>1, SameFiles
<1>. QED
  BY <1>1, <1>5, <1>6, <1>8, <1>9, WorkerBytes DEF HoldInv, BytesInv

\* All the blocks of a version are the file.
LEMMA WholeIsFile ==
    ASSUME NEW x, SessionFields(x), NEW v, Begins(x.data, v), Len(x.data) = Blocks
    PROVE  x.data = FileOf(v)
<1>. DEFINE q == x.data
<1>1. q \in [1..Len(q) -> Versions \X Nat]
  BY LenProperties DEF SessionFields
<1>2. \A i \in 1..Blocks : q[i] = <<v, i>>
  BY DEF Begins
<1>3. q = [i \in 1..Blocks |-> q[i]]
  BY <1>1
<1>. QED
  BY <1>2, <1>3 DEF FileOf

LEMMA SavesBytes ==
    ASSUME Shape, HoldInv, BytesInv, NEW a \in Clients, CompleteSaves(a)
    PROVE  BytesInv'
<1>. DEFINE s == client[a].s
            me == sess[s]
<1>1. /\ Moved(a) /\ client[a].pc = "finish" /\ s \in Sessions
      /\ sess'[s].cancelled = me.cancelled /\ sess'[s].busy = me.busy /\ sess'[s].data = me.data
      /\ \A t \in Sessions \ {s} : sess'[t] = sess[t]
      /\ \E new : entries' = (entries \ OldOf(me)) \cup {new} /\ new.data = me.data
      /\ client'[a].s = s /\ client'[a].pc = "erase"
      /\ UNCHANGED <<sessions, cast>>
  BY SavesStep DEF At
<1>2. DataInv'
  <2>1. Shape' /\ cast' = cast
    BY <1>1, SavesStep
  <2>2. DataSame /\ \A t \in Sessions : sess[t].cancelled => sess'[t].cancelled
    BY <1>1 DEF DataSame
  <2>. QED
    BY <2>1, <2>2, SameShrinks, DataStays DEF BytesInv
<1>3. ClaimsKept(a)
  BY <1>1 DEF ClaimsKept
<1>4. PlaceAt(a)'
  BY <1>1, TakesPart, PlaceFree
<1>5. \E v \in Versions : me.data = FileOf(v)
  <2>1. Len(me.data) = Blocks /\ \E v \in cast.versions : Begins(me.data, v)
    BY <1>1 DEF BytesInv, PlaceInv, PlaceAt, At, Of
  <2>2. SessionFields(me) /\ cast.versions \subseteq Versions
    BY <1>1, HasFields, RegistryAssumption DEF Shape
  <2>. QED
    BY <2>1, <2>2, WholeIsFile
<1>6. WholeFiles'
  BY <1>1, <1>5 DEF BytesInv, WholeFiles
<1>. QED
  BY <1>1, <1>2, <1>3, <1>4, <1>6, WorkerBytes DEF HoldInv, BytesInv

\* No object survives the process.
LEMMA CrashBytes ==
    ASSUME Shape, HoldInv, BytesInv, Crash
    PROVE  BytesInv'
<1>1. /\ \A s \in Sessions : sess'[s] = IF sess[s].state = "none" THEN sess[s] ELSE Dead
      /\ \A a \in Actors :
            /\ client'[a].s \in {None, client[a].s}
            /\ \/ client'[a] = client[a] /\ client[a].pc \in EndPcs
               \/ a \in Clients /\ client'[a].pc = "ask" /\ client[a].pc \notin EndPcs
               \/ client'[a].pc = "over" /\ client'[a].s = None
      /\ UNCHANGED <<entries, cast>>
  BY CrashStep
<1>2. \A s \in Sessions : ~sess'[s].cancelled => sess[s].state = "none" /\ sess'[s] = sess[s]
  BY <1>1, DeadFields
<1>3. ASSUME NEW a \in Actors, NEW s \in Sessions, client[a].s = s
      PROVE  sess'[s].cancelled
  BY <1>2, <1>3 DEF HoldInv, Unused
<1>4. DataInv'
  BY <1>1, <1>2 DEF BytesInv, DataInv, Begins
<1>5. ClaimsInv'
  BY <1>2, <1>3, Kinds DEF BytesInv, ClaimsInv
<1>6. FreshStarts'
  BY <1>1, Kinds DEF FreshStarts, At
<1>7. ASSUME NEW a \in Clients
      PROVE  PlaceAt(a)'
  <2>1. CASE client'[a] = client[a] /\ client[a].pc \in EndPcs
    BY <2>1, KindAt, PlaceDone
  <2>2. CASE client'[a].pc = "ask" /\ client[a].pc \notin EndPcs
    <3>1. client'[a].s \in Sessions => sess'[client'[a].s].cancelled
      BY <1>1, <1>3, Kinds
    <3>. QED
      BY <1>1, <2>2, <3>1, TakesPart, PlacedAt
  <2>3. CASE client'[a].pc = "over" /\ client'[a].s = None
    BY <2>3, PlaceDone
  <2>. QED
    BY <1>1, <2>1, <2>2, <2>3, Kinds
<1>8. PlaceInv'
  BY <1>7 DEF PlaceInv
<1>9. WholeFiles'
  BY <1>1, SameFiles
<1>. QED
  BY <1>4, <1>5, <1>6, <1>8, <1>9 DEF BytesInv

LEMMA ShutdownBytes ==
    ASSUME Shape, BytesInv, Shutdown
    PROVE  BytesInv'
<1>1. /\ \A a \in Actors : client[a].pc \in EndPcs \cup {"send", "ask"}
      /\ \A s \in Sessions : sess'[s] = IF s \notin sessions THEN sess[s] ELSE Dead
      /\ UNCHANGED <<entries, client, cast>>
  BY ShutdownStep
<1>2. \A s \in Sessions : ~sess'[s].cancelled => sess'[s] = sess[s]
  BY <1>1, DeadFields
<1>3. DataInv'
  BY <1>1, <1>2 DEF BytesInv, DataInv, Begins
<1>4. ClaimsInv'
  BY <1>1, <1>2 DEF BytesInv, ClaimsInv
<1>5. FreshStarts'
  BY <1>1, Kinds DEF FreshStarts, At
<1>6. ASSUME NEW a \in Clients
      PROVE  PlaceAt(a)'
  <2>1. client'[a] = client[a] /\ client[a].pc \in EndPcs \cup {"send", "ask"}
    BY <1>1, <1>6, Kinds
  <2>2. CASE client[a].pc \in EndPcs
    BY <2>1, <2>2, KindAt, PlaceDone
  <2>3. CASE client[a].pc \in {"send", "ask"}
    <3>. DEFINE s == client[a].s
    <3>1. s \in Sessions /\ ~sess'[s].cancelled => sess'[s] = sess[s] /\ PlaceOf(a)
      BY <1>2, AtPlace
    <3>2. s \in Sessions /\ ~sess'[s].cancelled => PlaceOf(a)'
      BY <2>1, <2>3, <3>1 DEF PlaceOf, Of, At
    <3>. QED
      BY <1>1, <2>1, <2>3, <3>2, TakesPart, PlacedAt
  <2>. QED
    BY <2>1, <2>2, <2>3
<1>7. PlaceInv'
  BY <1>6 DEF PlaceInv
<1>8. WholeFiles'
  BY <1>1, SameFiles
<1>. QED
  BY <1>3, <1>4, <1>5, <1>7, <1>8 DEF BytesInv

LEMMA BytesInit == RegInit => BytesInv
<1>. SUFFICES ASSUME RegInit PROVE BytesInv
  OBVIOUS
<1>1. /\ \A a \in Actors : client[a].pc \in EndPcs /\ client[a].s = None
      /\ \A s \in Sessions : sess[s] = FreshSession
      /\ entries = {}
  BY ShapeInit DEF RegInit
<1>2. DataInv /\ ClaimsInv
  BY <1>1, FreshSessionFields DEF DataInv, ClaimsInv
<1>3. FreshStarts /\ PlaceInv
  BY <1>1, Kinds DEF FreshStarts, PlaceInv, PlaceAt, At
<1>4. WholeFiles
  BY <1>1 DEF WholeFiles
<1>. QED
  BY <1>2, <1>3, <1>4 DEF BytesInv

LEMMA BytesStep ==
    ASSUME TabsKeepFile, Shape, HoldInv, BytesInv, [RegNext]_vars
    PROVE  BytesInv'
<1>1. ASSUME NEW a \in Clients, TameStep(a) \/ Start(a) \/ BeginNew(a) \/ BeginLinks(a)
      PROVE  BytesInv'
  BY <1>1, TameStepBytes, StartBytes, BeginNewBytes, BeginLinksBytes
<1>2. ASSUME NEW a \in Clients, Receive(a) \/ CompleteSaves(a)
      PROVE  BytesInv'
  BY <1>2, ReceiveBytes, SavesBytes
<1>3. ASSUME NEW a \in Actors, Cancel(a) \/ CancelCleans(a) \/ Erase(a)
      PROVE  BytesInv'
  BY <1>3, CancelBytes, CleansBytes, EraseBytes
<1>4. ASSUME NEW s \in Sessions, TimePasses(s)
      PROVE  BytesInv'
  BY <1>4, TimeStep, IdleBytes DEF storeVars
<1>5. CASE ReapStale
  BY <1>5, ReapStaleStep, IdleBytes DEF storeVars
<1>6. CASE UNCHANGED vars
  BY <1>6, IdleBytes DEF vars
<1>7. CASE ReapNext \/ Crash \/ Shutdown
  BY <1>7, ReapNextBytes, CrashBytes, ShutdownBytes
<1>. QED
  BY <1>1, <1>2, <1>3, <1>4, <1>5, <1>6, <1>7, AnyStep

\* While clients come one at a time and no tab comes back with another file: every file
\* in the folder has all the bytes of a version some client had, in order, and its
\* documents are on Telegram, whatever was resumed by position or by digest, stepped
\* back, refused, linked, replaced, cancelled, swept or cut off by a crash before.
THEOREM ListedFilesReadable == ASSUME Apart, TabsKeepFile PROVE RegSpec => []ListedFileReadable
<1>1. RegInit => BytesInv
  BY BytesInit
<1>2. BytesInv /\ (Shape /\ HoldInv) /\ [RegNext]_vars => BytesInv'
  BY BytesStep
<1>3. (Shape /\ HoldInv) /\ BytesInv => ListedFileReadable
  BY DEF HoldInv, FilesInv, BytesInv, WholeFiles, ListedFileReadable
<1>4. RegSpec => [](Shape /\ HoldInv)
  BY HoldKept
<1>. QED
  BY <1>1, <1>2, <1>3, <1>4, PTL DEF RegSpec
===============================================================================
