--------------------------- MODULE TelegramProofs ---------------------------
(***************************************************************************)
(* Proofs about one Telegram account and about the pool of accounts: the   *)
(* budgets of a call, its types, that a login survives a restart, why a    *)
(* refused key logs an account out (AccountInv of TgAccountInv), that the  *)
(* load of an account counts its open writers, and that nobody is turned   *)
(* away while an account could serve him all along.  The types of the      *)
(* three layers together, which need RpcSessionProofs, come last.          *)
(***************************************************************************)
EXTENDS TgAccountInv, AccountPool, MCTelegram, RpcSessionProofs, ListProofs, FiniteSetTheorems,
        SequenceTheorems, TLAPS

-----------------------------------------------------------------------------
(* The budgets of a call *)

\* A call that is over, or has not begun, has used nothing.
LEMMA FreshRec ==
    ASSUME NEW n \in Nat,
           NEW y, y = [FreshThread EXCEPT !.done = n]
    PROVE  /\ y \in ThreadRec /\ WithinBudgets(y)
           /\ y.pc = "idle" /\ y.want = "none" /\ y.done = n
<1>1. y = [pc |-> "idle", want |-> "none", dc |-> FirstDc, att |-> 0, waited |-> 0,
           broken |-> 0, slept |-> 0, waits |-> 0, resent |-> 0, rounds |-> 0, done |-> n]
  BY DEF FreshThread
<1>2. y \in ThreadRec
  <2>1. FirstDc \in Dcs /\ "idle" \in ThreadPcs /\ "none" \in {"none"} \cup Wants /\ 0 \in Nat
    BY AccountAssumption DEF ThreadPcs
  <2>2. QED
    BY ONLY <1>1, <2>1, n \in Nat DEF ThreadRec
<1>3. WithinBudgets(y)
  <2>1. y.slept = 0 /\ y.waited = 0 /\ y.resent = 0 /\ y.broken = 0 /\ y.att = 0 /\ y.rounds = 0
        /\ y.waits = 0 /\ y.pc = "idle"
    BY ONLY <1>1
  <2>2. QED
    BY ONLY <2>1, AccountAssumption DEF WithinBudgets, AccountAssumption
<1>4. QED
  BY ONLY <1>1, <1>2, <1>3

\* A call that begins.
LEMMA BeginRec ==
    ASSUME NEW y, y.want \in Wants, y.dc \in Dcs, y.done \in Nat,
           y = [FreshThread EXCEPT !.pc = "open", !.want = y.want, !.dc = y.dc, !.done = y.done]
    PROVE  y \in ThreadRec /\ WithinBudgets(y) /\ y.pc = "open"
<1>1. FreshThread \in ThreadRec /\ FreshThread.att = 0 /\ FreshThread.waited = 0
      /\ FreshThread.broken = 0 /\ FreshThread.slept = 0 /\ FreshThread.waits = 0
      /\ FreshThread.resent = 0 /\ FreshThread.rounds = 0
  BY AccountAssumption DEF FreshThread, ThreadRec, ThreadPcs
<1>2. y \in ThreadRec /\ y.rounds = 0 /\ y.pc = "open" /\ y.att = 0
      /\ y.waits = 0 /\ y.resent = 0 /\ y.slept = 0 /\ y.waited = 0 /\ y.broken = 0
  BY <1>1 DEF ThreadRec, ThreadPcs
<1>3. WithinBudgets(y)
  BY <1>2, AccountAssumption DEF WithinBudgets
<1>4. QED
  BY <1>2, <1>3

\* The round of x that got its session, then y, and the one that waited w seconds.
RoundOpened(x, y) ==
    y.pc \in {"authorize", "send"} /\ y = [x EXCEPT !.pc = y.pc, !.rounds = @ + 1]
RoundWaited(x, y, w) ==
    y = [x EXCEPT !.pc = "open", !.waited = @ + w, !.slept = @ + w, !.waits = @ + 1]

\* A round that got its session.
LEMMA OpenedRec ==
    ASSUME NEW x \in ThreadRec, WithinBudgets(x), x.pc = "open",
           NEW y, RoundOpened(x, y)
    PROVE  y \in ThreadRec /\ WithinBudgets(y) /\ y.want = x.want /\ y.dc = x.dc
<1>1. x.rounds \in Nat /\ x.rounds + 1 \in Nat /\ x.att \in Nat /\ x.waits \in Nat /\ x.resent \in Nat
  BY DEF ThreadRec
<1>2. y \in ThreadRec /\ y.rounds = x.rounds + 1
      /\ y.want = x.want /\ y.dc = x.dc /\ y.att = x.att /\ y.waits = x.waits
      /\ y.resent = x.resent /\ y.slept = x.slept /\ y.waited = x.waited /\ y.broken = x.broken
  BY <1>1 DEF ThreadRec, ThreadPcs, RoundOpened
<1>3. WithinBudgets(y)
  BY <1>1, <1>2 DEF WithinBudgets, RoundOpened
<1>4. QED
  BY <1>2, <1>3

\* A step within a round, and the end of the last one.
LEMMA GoOnRec ==
    ASSUME NEW x \in ThreadRec, WithinBudgets(x), NEW p \in ThreadPcs \ {"open"},
           p \in {"authorize", "send"} => x.pc \in {"authorize", "send"},
           NEW y, y = [x EXCEPT !.pc = p]
    PROVE  /\ y \in ThreadRec /\ WithinBudgets(y)
           /\ y.pc = p /\ y.want = x.want /\ y.dc = x.dc
<1>2. y \in ThreadRec /\ y.rounds = x.rounds
      /\ y.pc = p /\ y.want = x.want /\ y.dc = x.dc /\ y.att = x.att /\ y.waits = x.waits
      /\ y.resent = x.resent /\ y.slept = x.slept /\ y.waited = x.waited /\ y.broken = x.broken
  BY DEF ThreadRec, ThreadPcs
<1>3. WithinBudgets(y)
  BY <1>2 DEF WithinBudgets
<1>4. QED
  BY <1>2, <1>3

\* The round of x that did not succeed, in the end r.
RoundOver(x, r) ==
    /\ r \in ThreadRec
    /\ \/ r = x /\ x.pc \in {"authorize", "send"}
       \/ r = [x EXCEPT !.rounds = @ + 1] /\ x.pc = "open"

\* The next round, charged to the attempts.
LEMMA NextRec ==
    ASSUME NEW x \in ThreadRec, WithinBudgets(x), x.att + 1 < SoLanThuGoiApi,
           NEW r, RoundOver(x, r),
           NEW y, y.dc \in Dcs, y = [r EXCEPT !.pc = "open", !.att = @ + 1, !.dc = y.dc]
    PROVE  y \in ThreadRec /\ WithinBudgets(y) /\ y.pc = "open" /\ y.want = x.want
<1>0. r \in ThreadRec
  BY DEF RoundOver
<1>1. /\ x.rounds \in Nat /\ x.rounds + 1 \in Nat /\ x.att \in Nat /\ x.waits \in Nat
      /\ x.resent \in Nat /\ x.att + 1 \in Nat
  BY DEF ThreadRec
<1>2. /\ r.att = x.att /\ r.want = x.want /\ r.waits = x.waits
      /\ r.resent = x.resent /\ r.slept = x.slept /\ r.waited = x.waited /\ r.broken = x.broken
      /\ r.rounds - r.waits - r.resent = x.att + 1
  <2>1. CASE r = x /\ x.pc \in {"authorize", "send"}
    BY <2>1 DEF WithinBudgets
  <2>2. CASE r = [x EXCEPT !.rounds = @ + 1] /\ x.pc = "open"
    <3>1. r.att = x.att /\ r.want = x.want /\ r.waits = x.waits
          /\ r.resent = x.resent /\ r.slept = x.slept /\ r.waited = x.waited /\ r.broken = x.broken
          /\ r.rounds = x.rounds + 1
      BY <2>2 DEF ThreadRec
    <3>2. x.rounds - x.waits - x.resent = x.att
      BY <2>2 DEF WithinBudgets
    <3>3. QED
      BY <1>1, <3>1, <3>2
  <2>3. QED
    BY <2>1, <2>2 DEF RoundOver
<1>3. y \in ThreadRec /\ y.rounds = r.rounds
      /\ y.pc = "open" /\ y.want = r.want /\ y.att = r.att + 1 /\ y.waits = r.waits
      /\ y.resent = r.resent /\ y.slept = r.slept /\ y.waited = r.waited /\ y.broken = r.broken
  <2>1. r.att + 1 \in Nat
    BY <1>1, <1>2
  <2>2. QED
    BY ONLY <1>0, <2>1, y.dc \in Dcs,
            y = [r EXCEPT !.pc = "open", !.att = @ + 1, !.dc = y.dc] DEF ThreadRec, ThreadPcs
<1>4. WithinBudgets(y)
  BY <1>1, <1>2, <1>3, AccountAssumption DEF WithinBudgets
<1>5. QED
  BY <1>2, <1>3, <1>4

\* A round that waited, or was sent again, is not charged to them.
LEMMA WaitRec ==
    ASSUME NEW w \in Nat, NEW x \in ThreadRec, WithinBudgets(x), x.pc = "send",
           x.waited + w <= TongChoToiDaGiay,
           NEW y, RoundWaited(x, y, w)
    PROVE  /\ y \in ThreadRec /\ WithinBudgets(y)
           /\ y.pc = "open" /\ y.want = x.want /\ y.dc = x.dc
<1>1. /\ x.rounds \in Nat /\ x.att \in Nat /\ x.waits \in Nat /\ x.resent \in Nat
      /\ x.waited \in Nat /\ x.slept \in Nat
      /\ x.waited + w \in Nat /\ x.slept + w \in Nat /\ x.waits + 1 \in Nat
  BY DEF ThreadRec
<1>2. y \in ThreadRec /\ y.rounds = x.rounds
      /\ y.pc = "open" /\ y.want = x.want /\ y.dc = x.dc /\ y.att = x.att /\ y.waits = x.waits + 1
      /\ y.resent = x.resent /\ y.slept = x.slept + w /\ y.waited = x.waited + w
      /\ y.broken = x.broken
  BY <1>1 DEF ThreadRec, ThreadPcs, RoundWaited
<1>3. WithinBudgets(y)
  BY <1>1, <1>2 DEF WithinBudgets
<1>4. QED
  BY <1>2, <1>3

\* The same when the server broke.
LEMMA BreakRec ==
    ASSUME NEW x \in ThreadRec, WithinBudgets(x), x.pc = "send", x.broken < SoLanThuMayChuHong,
           NEW y, y = [x EXCEPT !.pc = "open", !.broken = @ + 1, !.resent = @ + 1]
    PROVE  /\ y \in ThreadRec /\ WithinBudgets(y)
           /\ y.pc = "open" /\ y.want = x.want /\ y.dc = x.dc
<1>1. /\ x.rounds \in Nat /\ x.att \in Nat /\ x.waits \in Nat /\ x.resent \in Nat
      /\ x.broken \in Nat /\ x.broken + 1 \in Nat /\ x.resent + 1 \in Nat
  BY DEF ThreadRec
<1>2. y \in ThreadRec /\ y.rounds = x.rounds
      /\ y.pc = "open" /\ y.want = x.want /\ y.dc = x.dc /\ y.att = x.att /\ y.waits = x.waits
      /\ y.resent = x.resent + 1 /\ y.slept = x.slept /\ y.waited = x.waited
      /\ y.broken = x.broken + 1
  BY <1>1 DEF ThreadRec, ThreadPcs
<1>3. WithinBudgets(y)
  BY <1>1, <1>2, AccountAssumption DEF WithinBudgets
<1>4. QED
  BY <1>2, <1>3

-----------------------------------------------------------------------------
(* How a call goes on *)

Busy == {"open", "authorize", "send"}

\* Every way a call goes on: it ends, it begins, it stays where it is or is sent to
\* another data centre, or a step of a login has its answer or none.
Goes(t) ==
    LET x == thread[t]
        y == thread'[t] IN
    /\ thread' = [thread EXCEPT ![t] = y]
    /\ y \in ThreadRec /\ WithinBudgets(y)
    /\ \/ y.pc = "idle" /\ y.want = "none" /\ x.pc # "idle"
       \/ /\ x.pc = "idle" /\ y.pc = "open" /\ y.want \in Wants /\ login = Due(y.want)
          /\ y.want \in LoginSteps => Quiet /\ y.dc = home
       \/ x.pc \in Busy /\ y.want = x.want /\ y.dc = x.dc /\ y.pc \in Busy
       \/ /\ x.pc \in Busy /\ y.want = x.want /\ y.dc = x.dc
          /\ y.pc \in {"answered", "failed"} /\ x.want \in LoginSteps
       \/ x.pc = "send" /\ y.want = x.want /\ y.pc = "open" /\ y.dc = Where(x.want)

LEMMA FinishGoes ==
    ASSUME AccountTypes, NEW t \in Threads, thread[t].pc # "idle", Finish(t)
    PROVE  Goes(t) /\ thread'[t].pc = "idle"
<1>1. t \in DOMAIN thread /\ thread[t].done \in Nat
  BY DEF AccountTypes, ThreadRec
<1>2. thread'[t] = [FreshThread EXCEPT !.done = thread[t].done]
      \/ thread'[t] = [FreshThread EXCEPT !.done = thread[t].done + 1]
  BY <1>1 DEF Finish, Set
<1>3. thread' = [thread EXCEPT ![t] = thread'[t]]
  BY <1>1 DEF Finish, Set
<1>4. thread[t].done + 1 \in Nat
  BY <1>1
<1>5. QED
  BY <1>1, <1>2, <1>3, <1>4, FreshRec DEF Goes

LEMMA GoOnGoes ==
    ASSUME AccountTypes, NEW t \in Threads, WithinBudgets(thread[t]), thread[t].pc \in Busy,
           NEW p \in ThreadPcs \ {"open", "idle"}, GoOn(t, p),
           p \in {"authorize", "send"} => thread[t].pc \in {"authorize", "send"},
           p \in {"answered", "failed"} => thread[t].want \in LoginSteps
    PROVE  Goes(t) /\ thread'[t].pc = p /\ thread'[t].want = thread[t].want
           /\ thread'[t].dc = thread[t].dc
<1>1. t \in DOMAIN thread /\ thread[t] \in ThreadRec
  BY DEF AccountTypes
<1>2. thread'[t] = [thread[t] EXCEPT !.pc = p] /\ thread' = [thread EXCEPT ![t] = thread'[t]]
  BY <1>1 DEF GoOn, Set
<1>3. /\ thread'[t] \in ThreadRec /\ WithinBudgets(thread'[t])
      /\ thread'[t].pc = p /\ thread'[t].want = thread[t].want /\ thread'[t].dc = thread[t].dc
  BY <1>1, <1>2, GoOnRec
<1>4. QED
  BY <1>2, <1>3 DEF Goes, ThreadPcs, Busy

\* An error ends the call, but for a step of a login, which has something to do yet.
LEMMA GiveUpGoes ==
    ASSUME AccountTypes, NEW t \in Threads, WithinBudgets(thread[t]), thread[t].pc \in Busy,
           GiveUp(t)
    PROVE  Goes(t) /\ (\/ thread'[t].pc = "idle"
                       \/ thread'[t].pc = "failed" /\ thread'[t].dc = thread[t].dc)
<1>1. CASE thread[t].want \in LoginSteps
  BY <1>1, GoOnGoes DEF GiveUp, ThreadPcs
<1>2. CASE thread[t].want \notin LoginSteps
  BY <1>2, FinishGoes DEF GiveUp, Busy
<1>3. QED
  BY <1>1, <1>2

LEMMA NextGoes ==
    ASSUME AccountTypes, NEW t \in Threads, WithinBudgets(thread[t]), NEW d \in Dcs, NEW r,
           \/ r = thread[t] /\ thread[t].pc \in {"authorize", "send"}
           \/ r = [thread[t] EXCEPT !.rounds = @ + 1] /\ thread[t].pc = "open",
           d = thread[t].dc \/ (thread[t].pc = "send" /\ d = Where(thread[t].want)),
           NextAttempt(t, r, d)
    PROVE  Goes(t) /\ (\/ thread'[t].pc = "idle"
                       \/ thread'[t].pc = "failed" /\ thread'[t].dc = thread[t].dc
                       \/ thread'[t].pc = "open" /\ thread'[t].dc = d)
<1> DEFINE x == thread[t]
<1>1. t \in DOMAIN thread /\ x \in ThreadRec /\ x.pc \in Busy
  BY DEF AccountTypes, Busy
<1>2. r \in ThreadRec /\ r.att = x.att
  <2>1. x.rounds + 1 \in Nat
    BY <1>1 DEF ThreadRec
  <2>2. QED
    BY <1>1, <2>1 DEF ThreadRec
<1>3. CASE r.att + 1 < SoLanThuGoiApi
  <2>1. /\ thread'[t] = [r EXCEPT !.pc = "open", !.att = @ + 1, !.dc = d]
        /\ thread' = [thread EXCEPT ![t] = thread'[t]]
    BY <1>1, <1>3 DEF NextAttempt, Set
  <2>2. /\ thread'[t] \in ThreadRec /\ WithinBudgets(thread'[t])
        /\ thread'[t].pc = "open" /\ thread'[t].want = x.want /\ thread'[t].dc = d
    <3> DEFINE y == thread'[t]
    <3>1. y = [r EXCEPT !.pc = "open", !.att = @ + 1, !.dc = d]
      BY <2>1
    <3>2. y.dc = d /\ d \in Dcs
      BY <1>2, <3>1 DEF ThreadRec
    <3>3. RoundOver(x, r) /\ x \in ThreadRec /\ WithinBudgets(x) /\ x.att + 1 < SoLanThuGoiApi
      BY <1>1, <1>2, <1>3 DEF RoundOver
    <3> HIDE DEF x, y
    <3>5. y \in ThreadRec /\ WithinBudgets(y) /\ y.pc = "open" /\ y.want = x.want /\ y.dc = d
      BY <3>1, <3>2, <3>3, NextRec
    <3>4. QED
      BY <3>5 DEF y
  <2>3. QED
    BY <1>1, <2>1, <2>2 DEF Goes, Busy
<1>4. CASE ~(r.att + 1 < SoLanThuGoiApi)
  BY <1>1, <1>4, GiveUpGoes DEF NextAttempt
<1>5. QED
  BY <1>3, <1>4

LEMMA OpenedGoes ==
    ASSUME AccountTypes, NEW t \in Threads, WithinBudgets(thread[t]), thread[t].pc = "open",
           NEW p \in {"authorize", "send"}, Opened(t, p)
    PROVE  Goes(t) /\ thread'[t].pc = p /\ thread'[t].dc = thread[t].dc
<1>1. t \in DOMAIN thread /\ thread[t] \in ThreadRec
  BY DEF AccountTypes
<1>2. /\ thread'[t] = [thread[t] EXCEPT !.pc = p, !.rounds = @ + 1]
      /\ thread' = [thread EXCEPT ![t] = thread'[t]]
  BY <1>1 DEF Opened, Set
<1>3. /\ thread'[t] \in ThreadRec /\ WithinBudgets(thread'[t])
      /\ thread'[t].pc = p /\ thread'[t].want = thread[t].want /\ thread'[t].dc = thread[t].dc
  <2> DEFINE x == thread[t]
             y == thread'[t]
  <2>1. x \in ThreadRec /\ WithinBudgets(x) /\ x.pc = "open"
    BY <1>1
  <2>2. y = [x EXCEPT !.pc = p, !.rounds = @ + 1]
    BY <1>2
  <2>3. y.pc = p
    BY <2>1, <2>2 DEF ThreadRec
  <2>4. RoundOpened(x, y)
    BY <2>2, <2>3 DEF RoundOpened
  <2> HIDE DEF x, y
  <2>5. y \in ThreadRec /\ WithinBudgets(y) /\ y.pc = p /\ y.want = x.want /\ y.dc = x.dc
    BY <2>1, <2>3, <2>4, OpenedRec
  <2>6. QED
    BY <2>5 DEF x, y
<1>4. QED
  BY <1>2, <1>3 DEF Goes, Busy

\* Where the account's requests are answered is a data centre.
LEMMA WhereDc == \A w \in Wants : Where(w) \in Dcs
BY AccountAssumption DEF Where

\* Every step of a call is one of these.
LEMMA StepGoes ==
    ASSUME AccountTypes, NEW t \in Threads, WithinBudgets(thread[t]), InOrder(thread[t]),
           ThreadStep(t)
    PROVE  Goes(t)
<1> DEFINE x == thread[t]
<1>0. x \in ThreadRec /\ t \in DOMAIN thread /\ x.dc \in Dcs /\ x.done \in Nat
  BY DEF AccountTypes, ThreadRec
<1>1. ASSUME NEW w \in Wants, Call(t, w)
      PROVE  Goes(t)
  <2>1. x.pc = "idle"
    BY <1>1 DEF Call, In
  <2>2. PICK d \in Dcs : /\ Set(t, [FreshThread EXCEPT !.pc = "open", !.want = w, !.dc = d,
                                                       !.done = x.done])
                         /\ w # "file" => d = home
    BY <1>1, AccountAssumption DEF Call, AccountTypes
  <2>6. w \in LoginSteps => Quiet
    BY <1>1 DEF Call, Quiet
  <2>7. w \in LoginSteps => d = home
    BY <2>2 DEF LoginSteps
  <2>8. login = Due(w)
    BY <1>1 DEF Call, Due, Wants, NeedsLogin, LoginSteps
  <2>3. /\ thread'[t] = [FreshThread EXCEPT !.pc = "open", !.want = w, !.dc = d, !.done = x.done]
        /\ thread' = [thread EXCEPT ![t] = thread'[t]]
    BY <1>0, <2>2 DEF Set
  <2>4. /\ thread'[t] \in ThreadRec /\ WithinBudgets(thread'[t])
        /\ thread'[t].pc = "open" /\ thread'[t].want = w /\ thread'[t].dc = d
    <3> DEFINE y == thread'[t]
               n == thread[t].done
    <3>1. y = [FreshThread EXCEPT !.pc = "open", !.want = w, !.dc = d, !.done = n]
      BY <2>3
    <3>2. n \in Nat /\ y.want = w /\ y.dc = d /\ y.done = n
      BY <1>0, <3>1 DEF FreshThread
    <3> HIDE DEF y, n
    <3>3. y \in ThreadRec /\ WithinBudgets(y) /\ y.pc = "open" /\ y.want = w /\ y.dc = d
      BY <3>1, <3>2, BeginRec
    <3>4. QED
      BY <3>3 DEF y
  <2>5. QED
    BY <2>1, <2>3, <2>4, <2>6, <2>7, <2>8 DEF Goes
<1>2. CASE UseSession(t)
  BY <1>2, OpenedGoes DEF UseSession, In
<1>3. CASE CreateSession(t)
  <2>1. x.pc = "open" /\ (Opened(t, "authorize") \/ Opened(t, "send"))
    BY <1>3 DEF CreateSession, In
  <2>2. QED
    BY <2>1, OpenedGoes
<1>4. CASE OpenFails(t)
  <2>1. x.pc = "open" /\ NextAttempt(t, [x EXCEPT !.rounds = @ + 1], x.dc)
    BY <1>4 DEF OpenFails, In
  <2>2. QED
    BY <1>0, <2>1, NextGoes
<1>5. CASE Authorize(t)
  BY <1>5, GoOnGoes DEF Authorize, In, Busy, ThreadPcs
<1>6. CASE AuthorizeFails(t)
  BY <1>0, <1>6, NextGoes DEF AuthorizeFails, In
<1>7. CASE AnswerOk(t)
  <2>1. x.pc = "send"
    BY <1>7 DEF AnswerOk, Sending, In
  <2>2. CASE x.want \in LoginSteps
    BY <1>7, <2>1, <2>2, GoOnGoes DEF AnswerOk, Busy, ThreadPcs
  <2>3. CASE x.want \notin LoginSteps
    BY <1>7, <2>1, <2>3, FinishGoes DEF AnswerOk
  <2>4. QED
    BY <2>2, <2>3
<1>8. CASE Migrate(t)
  <2>1. x.pc = "send" /\ NextAttempt(t, x, Where(x.want))
    BY <1>8 DEF Migrate, Sending, In
  <2>2. x.want \in Wants
    BY <1>0, <2>1 DEF InOrder, ThreadRec
  <2>3. Where(x.want) \in Dcs
    BY <2>2, WhereDc
  <2>4. QED
    BY <2>1, <2>3, NextGoes
<1>9. CASE ServerBroke(t)
  <2>1. x.pc = "send"
    BY <1>9 DEF ServerBroke, Sending, In
  <2>2. CASE x.broken < SoLanThuMayChuHong
    <3>1. /\ thread'[t] = [x EXCEPT !.pc = "open", !.broken = @ + 1, !.resent = @ + 1]
          /\ thread' = [thread EXCEPT ![t] = thread'[t]]
      BY <1>0, <1>9, <2>2 DEF ServerBroke, Set
    <3>2. /\ thread'[t] \in ThreadRec /\ WithinBudgets(thread'[t])
          /\ thread'[t].pc = "open" /\ thread'[t].want = x.want /\ thread'[t].dc = x.dc
      BY <1>0, <2>1, <2>2, <3>1, BreakRec
    <3>3. QED
      BY <2>1, <3>1, <3>2 DEF Goes, Busy
  <2>3. CASE ~(x.broken < SoLanThuMayChuHong)
    BY <1>9, <2>1, <2>3, GiveUpGoes DEF ServerBroke, Busy
  <2>4. QED
    BY <2>2, <2>3
<1>10. CASE OtherError(t)
  BY <1>10, GiveUpGoes DEF OtherError, Sending, In, Busy
<1>11. CASE Unregistered(t)
  BY <1>11, FinishGoes DEF Unregistered, Sending, In
<1>12. CASE NetworkError(t)
  BY <1>0, <1>12, NextGoes DEF NetworkError, Sending, In
<1>13. ASSUME NEW w \in scene.waits, AskedToWait(t, w)
       PROVE  Goes(t)
  <2>1. x.pc = "send" /\ w \in Nat
    BY <1>13, AccountAssumption DEF AskedToWait, Sending, In, AccountTypes
  <2>2. CASE w <= ChoToiDaGiay /\ x.waited + w <= TongChoToiDaGiay
    <3>1. /\ thread'[t] = [x EXCEPT !.pc = "open", !.waited = @ + w, !.slept = @ + w, !.waits = @ + 1]
          /\ thread' = [thread EXCEPT ![t] = thread'[t]]
      BY <1>0, <1>13, <2>2 DEF AskedToWait, Set
    <3>2. /\ thread'[t] \in ThreadRec /\ WithinBudgets(thread'[t])
          /\ thread'[t].pc = "open" /\ thread'[t].want = x.want /\ thread'[t].dc = x.dc
      <4> DEFINE y == thread'[t]
      <4>1. RoundWaited(x, y, w)
        BY <3>1 DEF RoundWaited
      <4>2. WithinBudgets(x)
        OBVIOUS
      <4> HIDE DEF x, y
      <4>3. y \in ThreadRec /\ WithinBudgets(y) /\ y.pc = "open" /\ y.want = x.want /\ y.dc = x.dc
        BY <1>0, <2>1, <2>2, <4>1, <4>2, WaitRec
      <4>4. QED
        BY <4>3 DEF y
    <3>3. QED
      BY <2>1, <3>1, <3>2 DEF Goes, Busy
  <2>3. CASE ~(w <= ChoToiDaGiay /\ x.waited + w <= TongChoToiDaGiay)
    BY <1>13, <2>1, <2>3, GiveUpGoes DEF AskedToWait, Busy
  <2>4. QED
    BY <2>2, <2>3
<1>14. CASE CodeSent(t) \/ SignedIn(t) \/ PasswordNeeded(t) \/ LoginFails(t)
  <2>1. x.pc # "idle" /\ Finish(t)
    BY <1>14 DEF CodeSent, SignedIn, PasswordNeeded, LoginFails, Sending, In
  <2>2. QED
    BY <2>1, FinishGoes
<1>15. QED
  BY <1>1, <1>2, <1>3, <1>4, <1>5, <1>6, <1>7, <1>8, <1>9, <1>10, <1>11, <1>12, <1>13, <1>14
  DEF ThreadStep, Wants

-----------------------------------------------------------------------------
(* Types, budgets, and the order of a login *)

\* What the database would be given, and what it then holds, are keys.
LEMMA KeptTypes ==
    ASSUME AccountTypes
    PROVE  Export \in [Dcs -> Nat] /\ Kept \in [Dcs -> Nat]
<1>1. \A d \in Dcs : sess[d].key \in Nat /\ loaded[d] \in Nat /\ store[d] \in Nat
  BY DEF AccountTypes, SessRec
<1>2. Export \in [Dcs -> Nat]
  BY <1>1 DEF Export
<1>3. QED
  BY <1>1, <1>2 DEF Kept

\* A step of a call keeps the types.
LEMMA StepTypes ==
    ASSUME AccountTypes, NEW t \in Threads, Goes(t), ThreadStep(t)
    PROVE  AccountTypes'
<1> DEFINE x == thread[t]
           e == x.dc
<1>0. /\ e \in Dcs /\ sess[e] \in SessRec /\ loaded[e] \in Nat /\ made[e] \in Nat
      /\ NoSession \in SessRec /\ Where(x.want) \in Dcs
  BY AccountAssumption DEF AccountTypes, ThreadRec, SessRec, NoSession, Where
<1>t. thread' \in [Threads -> ThreadRec]
  BY DEF Goes, AccountTypes
<1>k. Kept \in [Dcs -> Nat]
  BY KeptTypes
<1>1. CASE \/ \E w \in Wants : Call(t, w)
           \/ Authorize(t) \/ AnswerOk(t) \/ ServerBroke(t) \/ OtherError(t) \/ Unregistered(t)
           \/ \E w \in scene.waits : AskedToWait(t, w)
  <2>1. UNCHANGED <<loaded, sess, store, made, home, storedHome, scene, net, moved, late, login>>
    BY <1>1
    DEF Call, Authorize, AnswerOk, ServerBroke, OtherError, Unregistered, AskedToWait,
                bounds, dbVars, keyVars
  <2>2. authorized' \in BOOLEAN
    BY <1>1
    DEF Call, Authorize, AnswerOk, ServerBroke, OtherError, Unregistered, AskedToWait,
                AccountTypes
  <2>3. flood' \in BOOLEAN
    BY <1>1
    DEF Call, Authorize, AnswerOk, ServerBroke, OtherError, Unregistered, AskedToWait,
                AccountTypes
  <2>4. QED
    BY <1>t, <2>1, <2>2, <2>3 DEF AccountTypes
<1>2. CASE \/ UseSession(t) \/ CreateSession(t) \/ OpenFails(t) \/ AuthorizeFails(t)
           \/ NetworkError(t)
  <2>1. UNCHANGED <<loaded, store, home, storedHome, scene, net, moved, late, login, authorized, flood>>
    BY <1>2 DEF UseSession, CreateSession, OpenFails, AuthorizeFails, NetworkError,
                bounds, dbVars, keyVars
  <2>2. made' \in [Dcs -> Nat]
    BY <1>2, <1>0 DEF UseSession, CreateSession, OpenFails, AuthorizeFails, NetworkError,
                keyVars, AccountTypes
  <2>3. \E s \in SessRec : sess' = [sess EXCEPT ![e] = s]
    <3>1. CASE UseSession(t) \/ NetworkError(t)
      <4>1. PICK b \in BOOLEAN : sess' = [sess EXCEPT ![e].up = b]
        BY <3>1 DEF UseSession, NetworkError
      <4>2. [sess[e] EXCEPT !.up = b] \in SessRec
        BY <1>0 DEF SessRec
      <4>3. QED
        BY <4>1, <4>2
    <3>2. CASE CreateSession(t)
      <4>1. made' = [made EXCEPT ![e] = IF loaded[e] = 0 THEN @ + 1 ELSE @]
        BY <3>2 DEF CreateSession
      <4>2. made'[e] \in Nat
        BY <1>0, <2>2
      <4> DEFINE b == e # home /\ ~authorized
                 k == IF loaded[e] = 0 THEN made'[e] ELSE loaded[e]
      <4>3. sess' = [sess EXCEPT ![e] = [on |-> TRUE, up |-> TRUE, key |-> k, bare |-> b]]
        BY <3>2 DEF CreateSession
      <4>4. b \in BOOLEAN /\ k \in Nat
        BY <1>0, <4>2
      <4> HIDE DEF b, k
      <4>5. QED
        BY <4>3, <4>4 DEF SessRec
    <3>3. CASE OpenFails(t) \/ AuthorizeFails(t)
      BY <1>0, <3>3 DEF OpenFails, AuthorizeFails
    <3>4. QED
      BY <1>2, <3>1, <3>2, <3>3
  <2>4. QED
    BY <1>t, <2>1, <2>2, <2>3 DEF AccountTypes
<1>3. CASE Migrate(t)
  <2>1. UNCHANGED <<loaded, sess, store, made, storedHome, scene, net, login, authorized, flood>>
    BY <1>3 DEF Migrate, dbVars, keyVars
  <2>2. home' \in Dcs
    BY <1>0, <1>3 DEF Migrate, AccountTypes
  <2>3. moved' \in BOOLEAN
    BY <1>3 DEF Migrate, AccountTypes
  <2>4. late' \in BOOLEAN
    BY <1>3 DEF Migrate, AccountTypes
  <2>5. QED
    BY <1>t, <2>1, <2>2, <2>3, <2>4 DEF AccountTypes
<1>4. CASE CodeSent(t) \/ SignedIn(t) \/ PasswordNeeded(t) \/ LoginFails(t)
  <2>1. UNCHANGED <<loaded, made, home, scene, net, moved, late, flood>>
    BY <1>4 DEF CodeSent, SignedIn, PasswordNeeded, LoginFails, bounds, keyVars
  <2>2. store' \in [Dcs -> Nat]
    BY <1>4, <1>k DEF CodeSent, SignedIn, PasswordNeeded, LoginFails, AccountTypes
  <2>3. login' \in {"none", "code", "password", "in", "gone"}
    BY <1>4 DEF CodeSent, SignedIn, PasswordNeeded, LoginFails, AccountTypes
  <2>4. storedHome' \in Dcs
    BY <1>4 DEF CodeSent, SignedIn, PasswordNeeded, LoginFails, AccountTypes, dbVars
  <2>5. authorized' \in BOOLEAN
    BY <1>4 DEF CodeSent, SignedIn, PasswordNeeded, LoginFails, AccountTypes
  <2>6. sess' \in [Dcs -> SessRec]
    BY <1>0, <1>4 DEF CodeSent, SignedIn, PasswordNeeded, LoginFails, AccountTypes
  <2>7. QED
    BY <1>t, <2>1, <2>2, <2>3, <2>4, <2>5, <2>6 DEF AccountTypes
<1>5. QED
  BY <1>1, <1>2, <1>3, <1>4 DEF ThreadStep, Wants

\* Every call over, as it is after a restart.
LEMMA RestartThreads ==
    ASSUME AccountTypes, NEW o \in BOOLEAN, Restart(o)
    PROVE  \A t \in Threads : /\ thread'[t] \in ThreadRec /\ WithinBudgets(thread'[t])
                              /\ thread'[t].pc = "idle" /\ thread'[t].want = "none"
<1> SUFFICES ASSUME NEW t \in Threads
             PROVE  /\ thread'[t] \in ThreadRec /\ WithinBudgets(thread'[t])
                    /\ thread'[t].pc = "idle" /\ thread'[t].want = "none"
  OBVIOUS
<1> DEFINE y == thread'[t]
           n == thread[t].done
<1>1. y = [FreshThread EXCEPT !.done = n]
  BY DEF Restart
<1>2. n \in Nat
  BY DEF AccountTypes, ThreadRec
<1> HIDE DEF y, n
<1>3. y \in ThreadRec /\ WithinBudgets(y) /\ y.pc = "idle" /\ y.want = "none"
  BY <1>1, <1>2, FreshRec
<1>4. QED
  BY <1>3 DEF y

\* So does every other step.
LEMMA OtherTypes ==
    ASSUME AccountTypes,
           \/ RemoveAccount \/ PersistAll \/ UpdateAppInfo \/ (\E o \in BOOLEAN : Restart(o))
           \/ NetFails \/ NetReturns \/ FloodEnds
    PROVE  AccountTypes'
<1>1. Export \in [Dcs -> Nat] /\ Kept \in [Dcs -> Nat] /\ NoSession \in SessRec
  BY KeptTypes DEF NoSession, SessRec
<1>2. CASE RemoveAccount
  <2>1. /\ sess' \in [Dcs -> SessRec] /\ loaded' \in [Dcs -> Nat] /\ store' \in [Dcs -> Nat]
        /\ authorized' \in BOOLEAN /\ login' = "gone"
    BY <1>1, <1>2 DEF RemoveAccount
  <2>2. UNCHANGED <<home, flood, storedHome, thread, made, net, moved, late, scene>>
    BY <1>2 DEF RemoveAccount, bounds
  <2>3. QED
    BY <2>1, <2>2 DEF AccountTypes
<1>3. CASE PersistAll
  BY <1>1, <1>3 DEF PersistAll, AccountTypes, keyVars, bounds
<1>4. CASE UpdateAppInfo
  BY <1>1, <1>4 DEF UpdateAppInfo, AccountTypes, dbVars, bounds
<1>5. ASSUME NEW o \in BOOLEAN, Restart(o)
      PROVE  AccountTypes'
  <2>1. /\ sess' \in [Dcs -> SessRec] /\ store' \in [Dcs -> Nat] /\ loaded' \in [Dcs -> Nat]
        /\ home' \in Dcs /\ authorized' \in BOOLEAN /\ flood' \in BOOLEAN
    BY <1>1, <1>5 DEF Restart, AccountTypes
  <2>2. UNCHANGED <<storedHome, login, made, net, moved, late, scene>>
    BY <1>5 DEF Restart
  <2>3. thread' = [t \in Threads |-> thread'[t]]
    BY <1>5 DEF Restart
  <2>4. thread' \in [Threads -> ThreadRec]
    BY <1>5, <2>3, RestartThreads
  <2>5. QED
    BY <2>1, <2>2, <2>4 DEF AccountTypes
<1>6. CASE NetFails
  <2>1. \A d \in Dcs : [sess[d] EXCEPT !.up = FALSE] \in SessRec
    BY DEF AccountTypes, SessRec
  <2>2. sess' \in [Dcs -> SessRec] /\ net' \in BOOLEAN
    BY <1>6, <2>1 DEF NetFails
  <2>3. UNCHANGED <<loaded, store, made, home, storedHome, scene, thread, moved, late, login,
                    authorized, flood>>
    BY <1>6 DEF NetFails, dbVars, keyVars
  <2>4. QED
    BY <2>2, <2>3 DEF AccountTypes
<1>7. CASE NetReturns
  BY <1>7 DEF NetReturns, AccountTypes, dbVars, keyVars, bounds
<1>8. CASE FloodEnds
  BY <1>8 DEF FloodEnds, AccountTypes, dbVars, keyVars, bounds
<1>9. QED
  BY <1>2, <1>3, <1>4, <1>5, <1>6, <1>7, <1>8

Quietly == \/ RemoveAccount \/ PersistAll \/ UpdateAppInfo \/ (\E o \in BOOLEAN : Restart(o))
           \/ NetFails \/ NetReturns \/ FloodEnds

\* Where a call may be.
LEMMA PcOf ==
    ASSUME AccountTypes, NEW t \in Threads
    PROVE  thread[t].pc \in ThreadPcs /\ thread[t].want \in {"none"} \cup Wants /\ "none" \notin Wants
BY DEF AccountTypes, ThreadRec, Wants, NeedsLogin, LoginSteps

\* What changes how far a login has come is the end of its step, and its step is then
\* the only call there is.
LEMMA LoginMoves ==
    ASSUME CallsInv, NEW t \in Threads, ThreadStep(t)
    PROVE  \/ login' = login
           \/ /\ thread'[t].pc = "idle" /\ thread[t].want \in LoginSteps
              /\ \A u \in Threads \ {t} : In(u, "idle")
<1>1. CASE CodeSent(t) \/ SignedIn(t) \/ PasswordNeeded(t) \/ LoginFails(t)
  <2>1. thread[t].want \in LoginSteps
    <3>1. CASE CodeSent(t)
      BY <3>1 DEF CodeSent, LoginSteps
    <3>2. CASE SignedIn(t)
      BY <3>2 DEF SignedIn, LoginSteps
    <3>3. CASE PasswordNeeded(t)
      BY <3>3 DEF PasswordNeeded, LoginSteps
    <3>4. CASE LoginFails(t)
      BY <3>4 DEF LoginFails, CallsInv, InOrder, In
    <3>5. QED
      BY <1>1, <3>1, <3>2, <3>3, <3>4
  <2>2. thread[t].pc # "idle" /\ Finish(t)
    BY <1>1 DEF CodeSent, SignedIn, PasswordNeeded, LoginFails, Sending, In
  <2>3. thread'[t].pc = "idle"
    BY <2>2, FinishGoes DEF CallsInv
  <2>4. QED
    BY <2>1, <2>3 DEF CallsInv, LoginAlone
<1>2. CASE ~(CodeSent(t) \/ SignedIn(t) \/ PasswordNeeded(t) \/ LoginFails(t))
  BY <1>2
  DEF ThreadStep, Call, UseSession, CreateSession, OpenFails, Authorize, AuthorizeFails,
      AnswerOk,
     Migrate, ServerBroke, OtherError, Unregistered, NetworkError, AskedToWait
<1>3. QED
  BY <1>1, <1>2

\* A step of a call keeps them.
LEMMA CallsStep ==
    ASSUME CallsInv, NEW t \in Threads, ThreadStep(t)
    PROVE  CallsInv'
<1>0. AccountTypes /\ WithinBudgets(thread[t]) /\ InOrder(thread[t]) /\ LoginAlone
  BY DEF CallsInv
<1>1. Goes(t)
  BY <1>0, StepGoes
<1>2. AccountTypes'
  BY <1>0, <1>1, StepTypes
<1>3. \A u \in Threads : u # t => thread'[u] = thread[u]
  BY <1>0, <1>1 DEF Goes, AccountTypes
<1>4. \A u \in Threads : WithinBudgets(thread'[u])
  BY <1>1, <1>3 DEF Goes, CallsInv
<1> DEFINE x == thread[t]
           y == thread'[t]
<1>5. /\ x.pc \in ThreadPcs /\ x.want \in {"none"} \cup Wants /\ "none" \notin Wants
      /\ LoginSteps \subseteq Wants
  BY <1>0, PcOf DEF Wants
<1>6. /\ y.pc = "idle" <=> y.want = "none"
      /\ y.pc \in {"answered", "failed"} => y.want \in LoginSteps
      /\ y.want \in Wants => \/ login = Due(y.want) /\ x.pc = "idle"
                             \/ y.want = x.want /\ x.pc # "idle"
  BY <1>0, <1>1, <1>5 DEF Goes, InOrder, Busy
<1>7. \A u \in Threads : InOrder(thread[u])
  BY DEF CallsInv
<1>8. ASSUME NEW u \in Threads
      PROVE  InOrder(thread[u])'
  <2>1. CASE login' = login
    <3>1. CASE u = t
      BY <1>0, <1>6, <2>1, <3>1 DEF InOrder, Due
    <3>2. CASE u # t
      BY <1>3, <1>7, <2>1, <3>2 DEF InOrder, Due
    <3>3. QED
      BY <3>1, <3>2
  <2>2. CASE /\ y.pc = "idle" /\ x.want \in LoginSteps
             /\ \A v \in Threads \ {t} : In(v, "idle")
    <3>1. thread'[u].pc = "idle"
      BY <1>3, <2>2 DEF In
    <3>2. thread'[u].want = "none"
      BY <1>3, <1>6, <1>7, <2>2, <3>1 DEF In, InOrder
    <3>3. QED
      BY <1>5, <3>1, <3>2 DEF InOrder
  <2>3. QED
    BY <2>1, <2>2, LoginMoves
<1>9. LoginAlone'
  <2> SUFFICES ASSUME NEW u \in Threads, NEW v \in Threads, u # v, thread'[u].want \in LoginSteps
               PROVE  thread'[v].pc = "idle"
    BY DEF LoginAlone, In
  <2>1. CASE u = t
    <3>1. x.pc = "idle" => Quiet
      BY <1>0, <1>1, <1>5, <2>1 DEF Goes, InOrder, Busy
    <3>2. x.pc # "idle" => x.want \in LoginSteps
      BY <1>6, <1>5, <2>1
    <3>3. thread[v].pc = "idle"
      BY <1>0, <2>1, <3>1, <3>2 DEF Quiet, LoginAlone, In
    <3>4. QED
      BY <1>3, <2>1, <3>3
  <2>2. CASE u # t
    <3>1. thread[u].want \in LoginSteps
      BY <1>3, <2>2
    <3>2. thread[v].pc = "idle"
      BY <1>0, <3>1 DEF LoginAlone, In
    <3>3. CASE v # t
      BY <1>3, <3>2, <3>3
    <3>4. CASE v = t
      <4>1. login = Due(thread[u].want)
        BY <1>5, <1>7, <3>1 DEF InOrder
      <4>2. ~Quiet
        BY <1>5, <1>7, <3>1 DEF Quiet, In, InOrder
      <4>3. y.pc \in ThreadPcs
        BY <1>2 DEF AccountTypes, ThreadRec
      <4>4. ASSUME y.pc = "open" PROVE FALSE
        <5>1. y.want \in Wants /\ login = Due(y.want) /\ (y.want \in LoginSteps => Quiet)
          BY <1>1, <3>2, <3>4, <4>4 DEF Goes, Busy
        <5>2. y.want \in NeedsLogin
          BY <5>1, <4>2 DEF Wants
        <5>3. QED
          BY <3>1, <4>1, <5>1, <5>2 DEF Due, NeedsLogin, LoginSteps
      <4>5. QED
        BY <1>1, <3>2, <3>4, <4>4 DEF Goes, Busy
    <3>5. QED
      BY <3>3, <3>4
  <2>3. QED
    BY <2>1, <2>2
<1>10. QED
  BY <1>2, <1>4, <1>8, <1>9 DEF CallsInv

\* So does every other step.
LEMMA CallsOther ==
    ASSUME CallsInv, Quietly
    PROVE  CallsInv'
<1>0. AccountTypes /\ LoginAlone /\ AccountTypes'
  BY OtherTypes DEF CallsInv, Quietly
<1>1. CASE RemoveAccount
  <2>1. thread' = thread /\ \A t \in Threads : thread[t].pc = "idle" /\ thread[t].want = "none"
    BY <1>1 DEF RemoveAccount, Quiet, In, CallsInv, InOrder
  <2>2. \A t \in Threads : InOrder(thread[t])'
    BY <2>1, PcOf, <1>0 DEF InOrder
  <2>3. LoginAlone'
    BY <2>1 DEF LoginAlone, In
  <2>4. QED
    BY <1>0, <2>1, <2>2, <2>3 DEF CallsInv, WithinBudgets
<1>2. CASE PersistAll \/ UpdateAppInfo \/ NetFails \/ NetReturns \/ FloodEnds
  <2>1. UNCHANGED <<thread, login>>
    BY <1>2 DEF PersistAll, UpdateAppInfo, NetFails, NetReturns, FloodEnds
  <2>2. QED
    BY <1>0, <2>1 DEF CallsInv, WithinBudgets, InOrder, LoginAlone, Due, In
<1>3. ASSUME NEW o \in BOOLEAN, Restart(o)
      PROVE  CallsInv'
  <2>1. \A t \in Threads : /\ WithinBudgets(thread'[t])
                           /\ thread'[t].pc = "idle" /\ thread'[t].want = "none"
    BY <1>0, <1>3, RestartThreads
  <2>2. \A t \in Threads : InOrder(thread[t])'
    BY <2>1 DEF InOrder, Wants, NeedsLogin, LoginSteps
  <2>3. LoginAlone'
    BY <2>1 DEF LoginAlone, In
  <2>4. QED
    BY <1>0, <2>1, <2>2, <2>3 DEF CallsInv
<1>4. QED
  BY <1>1, <1>2, <1>3 DEF Quietly

-----------------------------------------------------------------------------
(* Keys *)

\* What is exported and stored was made.
LEMMA KeptMade ==
    ASSUME AccountTypes, KeysMade
    PROVE  \A d \in Dcs : Export[d] <= made[d] /\ Kept[d] <= made[d]
<1>1. \A d \in Dcs : Export[d] <= made[d]
  BY DEF Export, KeysMade, AccountTypes
<1>2. QED
  BY <1>1 DEF Kept, Export, KeysMade, AccountTypes

\* A step that makes no key, and knows no new one.
LEMMA NoNewKeys ==
    ASSUME KeysMade, UNCHANGED <<made>>, granted' \subseteq granted,
           \A d \in Dcs : /\ loaded'[d] <= made[d] /\ store'[d] <= made[d]
                          /\ sess'[d].key <= made[d] /\ (sess'[d].on => sess'[d].key # 0)
                          /\ (sess'[d].up => sess'[d].on /\ net')
    PROVE  KeysMade'
BY DEF KeysMade

\* The same for the session of one data centre.
LEMMA OneSession ==
    ASSUME AccountTypes, KeysMade, NEW d \in Dcs, NEW s, sess' = [sess EXCEPT ![d] = s],
           s.key <= made[d], s.on => s.key # 0, s.up => s.on /\ net,
           UNCHANGED <<made, loaded, store, net, granted>>
    PROVE  KeysMade'
<1>1. \A e \in Dcs : e # d => sess'[e] = sess[e]
  BY DEF AccountTypes
<1>2. sess'[d] = s
  BY DEF AccountTypes
<1>3. \A e \in Dcs : /\ sess'[e].key <= made[e] /\ (sess'[e].on => sess'[e].key # 0)
                     /\ (sess'[e].up => sess'[e].on /\ net')
  <2> SUFFICES ASSUME NEW e \in Dcs
               PROVE  /\ sess'[e].key <= made[e] /\ (sess'[e].on => sess'[e].key # 0)
                      /\ (sess'[e].up => sess'[e].on /\ net')
    OBVIOUS
  <2>1. CASE e = d
    BY <1>2, <2>1
  <2>2. CASE e # d
    BY <1>1, <2>2 DEF KeysMade
  <2>3. QED
    BY <2>1, <2>2
<1>4. QED
  BY <1>3, NoNewKeys DEF KeysMade

\* A key that comes to be known to the server is that of a session.
LEMMA NewGrant ==
    ASSUME AccountTypes, KeysMade, NEW d \in Dcs, sess[d].on,
           granted' = granted \cup {<<d, sess[d].key>>},
           UNCHANGED <<made, loaded, store, net, sess>>
    PROVE  KeysMade'
<1>1. sess[d].key \in 1..made[d]
  BY DEF AccountTypes, SessRec, KeysMade
<1>2. QED
  BY <1>1 DEF KeysMade

LEMMA KeysStep ==
    ASSUME AccountTypes, KeysMade, NEW t \in Threads, ThreadStep(t)
    PROVE  KeysMade'
<1> DEFINE x == thread[t]
           e == x.dc
<1>0. /\ e \in Dcs /\ sess[e] \in SessRec /\ loaded[e] \in Nat /\ made[e] \in Nat
      /\ sess[e].key \in Nat
  BY DEF AccountTypes, ThreadRec, SessRec
<1>1. CASE \/ \E w \in Wants : Call(t, w)
           \/ ServerBroke(t) \/ OtherError(t) \/ Unregistered(t) \/ Migrate(t)
           \/ \E w \in scene.waits : AskedToWait(t, w)
  <2>1. UNCHANGED <<loaded, sess, store, made, net, granted>>
    BY <1>1
    DEF Call, ServerBroke, OtherError, Unregistered, Migrate, AskedToWait, dbVars,
        keyVars
  <2>2. QED
    BY <2>1 DEF KeysMade
<1>2. CASE Authorize(t)
  <2>1. /\ sess[e].on /\ granted' = granted \cup {<<e, sess[e].key>>}
        /\ UNCHANGED <<made, loaded, store, net, sess>>
    BY <1>2 DEF Authorize, dbVars
  <2>2. QED
    BY <1>0, <2>1, NewGrant
<1>3. CASE AnswerOk(t)
  <2>1. /\ sess[e].on /\ UNCHANGED <<made, loaded, store, net, sess>>
        /\ granted' = granted \cup {<<e, sess[e].key>>} \/ granted' = granted
    BY <1>3 DEF AnswerOk, Reached, dbVars
  <2>2. CASE granted' = granted
    BY <2>1, <2>2 DEF KeysMade
  <2>3. QED
    BY <1>0, <2>1, <2>2, NewGrant
<1>4. CASE UseSession(t) \/ NetworkError(t)
  <2>1. UNCHANGED <<made, loaded, store, net, granted>>
    BY <1>4 DEF UseSession, NetworkError, dbVars, keyVars
  <2>2. PICK b \in BOOLEAN : /\ sess' = [sess EXCEPT ![e] = [sess[e] EXCEPT !.up = b]]
                             /\ b => sess[e].on /\ net
    BY <1>4 DEF UseSession, NetworkError
  <2> DEFINE s == [sess[e] EXCEPT !.up = b]
  <2>3. s.key = sess[e].key /\ s.on = sess[e].on /\ s.up = b
    BY <1>0 DEF SessRec
  <2>4. s.key <= made[e] /\ (s.on => s.key # 0) /\ (s.up => s.on /\ net)
    BY <1>0, <2>2, <2>3 DEF KeysMade
  <2>5. sess' = [sess EXCEPT ![e] = s]
    BY <2>2
  <2> HIDE DEF s
  <2>6. QED
    BY <1>0, <2>1, <2>4, <2>5, OneSession
<1>5. CASE OpenFails(t) \/ AuthorizeFails(t)
  <2> DEFINE s == NoSession
  <2>1. UNCHANGED <<made, loaded, store, net, granted>> /\ sess' = [sess EXCEPT ![e] = s]
    BY <1>5 DEF OpenFails, AuthorizeFails, dbVars, keyVars
  <2>2. s.key <= made[e] /\ (s.on => s.key # 0) /\ (s.up => s.on /\ net)
    BY <1>0 DEF NoSession
  <2> HIDE DEF s
  <2>3. QED
    BY <1>0, <2>1, <2>2, OneSession
<1>6. CASE CreateSession(t)
  <2> DEFINE b == e # home /\ ~authorized
             k == IF loaded[e] = 0 THEN made'[e] ELSE loaded[e]
             s == [on |-> TRUE, up |-> TRUE, key |-> k, bare |-> b]
  <2>1. /\ UNCHANGED <<loaded, store, net, granted>> /\ net
        /\ made' = [made EXCEPT ![e] = IF loaded[e] = 0 THEN @ + 1 ELSE @]
        /\ sess' = [sess EXCEPT ![e] = s]
    BY <1>6 DEF CreateSession, dbVars
  <2>2. /\ \A d \in Dcs : d # e => made'[d] = made[d]
        /\ made'[e] = IF loaded[e] = 0 THEN made[e] + 1 ELSE made[e]
        /\ \A d \in Dcs : made[d] \in Nat /\ made'[d] \in Nat /\ made[d] <= made'[d]
    BY <1>0, <2>1 DEF AccountTypes
  <2>3. s.key = k /\ s.on /\ s.up
    OBVIOUS
  <2>4. k # 0 /\ k <= made'[e] /\ k \in Nat
    BY <1>0, <2>2 DEF KeysMade
  <2>5. sess'[e] = s /\ \A d \in Dcs : d # e => sess'[d] = sess[d]
    BY <1>0, <2>1 DEF AccountTypes
  <2> HIDE DEF s, k
  <2>6. \A d \in Dcs : /\ loaded'[d] <= made'[d] /\ store'[d] <= made'[d]
    BY <2>1, <2>2 DEF KeysMade, AccountTypes
  <2>7. \A d \in Dcs : d # e => /\ sess'[d].key <= made'[d]
                                /\ sess'[d].on => sess'[d].key # 0
                                /\ sess'[d].up => sess'[d].on /\ net'
    BY <2>1, <2>2, <2>5 DEF KeysMade, AccountTypes, SessRec
  <2>8. /\ sess'[e].key <= made'[e] /\ sess'[e].key # 0 /\ sess'[e].on /\ net'
    BY <2>1, <2>3, <2>4, <2>5
  <2>9. \A g \in granted' : g[1] \in Dcs /\ g[2] \in 1..made'[g[1]] /\ g = <<g[1], g[2]>>
    BY <2>1, <2>2 DEF KeysMade
  <2>10. QED
    BY <2>6, <2>7, <2>8, <2>9 DEF KeysMade
<1>7. CASE CodeSent(t) \/ SignedIn(t) \/ PasswordNeeded(t) \/ LoginFails(t)
  <2>1. /\ UNCHANGED <<made, loaded, net, granted>> /\ (store' = Kept \/ store' = store)
        /\ \/ sess' = sess
           \/ sess' = [d \in Dcs |-> NoSession]
    BY <1>7 DEF CodeSent, SignedIn, PasswordNeeded, LoginFails, keyVars
  <2>2. \A d \in Dcs : store'[d] <= made[d]
    BY <2>1, KeptMade DEF KeysMade
  <2>3. \A d \in Dcs : /\ sess'[d].key <= made[d] /\ (sess'[d].on => sess'[d].key # 0)
                       /\ (sess'[d].up => sess'[d].on /\ net')
    BY <2>1 DEF KeysMade, NoSession, AccountTypes
  <2>4. QED
    BY <2>1, <2>2, <2>3, NoNewKeys DEF KeysMade
<1>8. QED
  BY <1>1, <1>2, <1>3, <1>4, <1>5, <1>6, <1>7 DEF ThreadStep, Wants

LEMMA KeysOther ==
    ASSUME AccountTypes, KeysMade, Quietly
    PROVE  KeysMade'
<1>0. /\ \A d \in Dcs : Export[d] <= made[d] /\ Kept[d] <= made[d] /\ 0 <= made[d]
                        /\ loaded[d] <= made[d] /\ store[d] <= made[d]
      /\ NoSession.key = 0 /\ ~NoSession.on /\ ~NoSession.up
  BY KeptMade DEF NoSession, AccountTypes, KeysMade
<1>1. CASE RemoveAccount
  BY <1>0, <1>1, NoNewKeys DEF RemoveAccount
<1>2. CASE PersistAll
  BY <1>0, <1>2, NoNewKeys DEF PersistAll, keyVars, KeysMade
<1>3. CASE UpdateAppInfo
  BY <1>0, <1>3, NoNewKeys DEF UpdateAppInfo, dbVars
<1>4. ASSUME NEW o \in BOOLEAN, Restart(o)
      PROVE  KeysMade'
  <2>1. UNCHANGED <<made, granted>> /\ sess' = [d \in Dcs |-> NoSession] /\ loaded' = store'
        /\ (store' = Kept \/ store' = store)
    BY <1>4 DEF Restart
  <2>2. QED
    BY <1>0, <2>1, NoNewKeys
<1>5. CASE NetFails
  <2>1. UNCHANGED <<made, granted, loaded, store>>
        /\ sess' = [d \in Dcs |-> [sess[d] EXCEPT !.up = FALSE]]
    BY <1>5 DEF NetFails, dbVars, keyVars
  <2>2. \A d \in Dcs : sess'[d].key = sess[d].key /\ sess'[d].on = sess[d].on /\ ~sess'[d].up
    BY <2>1 DEF AccountTypes, SessRec
  <2>3. QED
    BY <1>0, <2>1, <2>2, NoNewKeys DEF KeysMade
<1>6. CASE NetReturns
  BY <1>6 DEF NetReturns, dbVars, keyVars, KeysMade
<1>7. CASE FloodEnds
  BY <1>7 DEF FloodEnds, dbVars, keyVars, KeysMade
<1>8. QED
  BY <1>1, <1>2, <1>3, <1>4, <1>5, <1>6, <1>7 DEF Quietly

-----------------------------------------------------------------------------
(* Where it begins *)

LEMMA AccInitCalls == AccInit => CallsInv
<1> SUFFICES ASSUME AccInit PROVE CallsInv
  OBVIOUS
<1> DEFINE old(d) == IF ~scene.fresh /\ d = TrueDc THEN 1 ELSE 0
<1>1. \A d \in Dcs : old(d) \in Nat
  OBVIOUS
<1>2. made \in [Dcs -> Nat] /\ loaded = made /\ store = made
  BY <1>1 DEF AccInit
<1>3. sess \in [Dcs -> SessRec]
  BY DEF AccInit, SessRec, NoSession
<1>4. \A t \in Threads : thread[t] \in ThreadRec /\ WithinBudgets(thread[t])
                         /\ thread[t].pc = "idle" /\ thread[t].want = "none"
  <2> SUFFICES ASSUME NEW t \in Threads
               PROVE  thread[t] \in ThreadRec /\ WithinBudgets(thread[t])
                      /\ thread[t].pc = "idle" /\ thread[t].want = "none"
    OBVIOUS
  <2> DEFINE y == thread[t]
  <2>1. y = [FreshThread EXCEPT !.done = 0]
    BY DEF AccInit, FreshThread
  <2> HIDE DEF y
  <2>2. y \in ThreadRec /\ WithinBudgets(y) /\ y.pc = "idle" /\ y.want = "none"
    BY <2>1, FreshRec
  <2>3. QED
    BY <2>2 DEF y
<1>5. thread \in [Threads -> ThreadRec]
  BY <1>4 DEF AccInit
<1>6. AccountTypes
  BY <1>2, <1>3, <1>5, AccountAssumption DEF AccountTypes, AccInit
<1>7. \A t \in Threads : InOrder(thread[t])
  BY <1>4 DEF InOrder, Wants, NeedsLogin, LoginSteps
<1>8. LoginAlone
  BY <1>4 DEF LoginAlone, In
<1>9. QED
  BY <1>4, <1>6, <1>7, <1>8 DEF CallsInv

LEMMA AccInitKeys == AccInit => KeysMade
<1> SUFFICES ASSUME AccInit PROVE KeysMade
  OBVIOUS
<1>1. \A d \in Dcs : /\ made[d] = (IF ~scene.fresh /\ d = TrueDc THEN 1 ELSE 0)
                     /\ loaded[d] = made[d] /\ store[d] = made[d]
                     /\ sess[d].key = 0 /\ ~sess[d].on /\ ~sess[d].up
  BY DEF AccInit, NoSession
<1>2. granted = {d \in Dcs : (IF ~scene.fresh /\ d = TrueDc THEN 1 ELSE 0) = 1} \X {1}
  BY DEF AccInit
<1>3. \A g \in granted : g[1] \in Dcs /\ g[2] = 1 /\ made[g[1]] = 1 /\ g = <<g[1], g[2]>>
  BY <1>1, <1>2
<1>4. QED
  BY <1>1, <1>3 DEF KeysMade

\* A call, another step, or none.
LEMMA AccSteps ==
    ASSUME [AccNext]_accVars
    PROVE  (\E t \in Threads : ThreadStep(t)) \/ Quietly \/ UNCHANGED accVars
BY DEF AccNext, Quietly

\* Types and budgets, and the order and the keys, at every step.
LEMMA CallsAndKeys == AccSpec => [](CallsInv /\ KeysMade)
<1>1. ASSUME CallsInv, KeysMade, [AccNext]_accVars
      PROVE  CallsInv' /\ KeysMade'
  <2>1. ASSUME NEW t \in Threads, ThreadStep(t)
        PROVE  CallsInv' /\ KeysMade'
    BY <1>1, <2>1, CallsStep, KeysStep DEF CallsInv
  <2>2. CASE Quietly
    BY <1>1, <2>2, CallsOther, KeysOther DEF CallsInv
  <2>3. CASE UNCHANGED accVars
    <3>1. CallsInv'
      BY <1>1, <2>3
      DEF accVars, CallsInv, AccountTypes, WithinBudgets, InOrder, LoginAlone, In, Due
    <3>2. KeysMade'
      BY <1>1, <2>3 DEF accVars, KeysMade
    <3>3. QED
      BY <3>1, <3>2
  <2>4. QED
    BY <1>1, <2>1, <2>2, <2>3, AccSteps
<1>2. AccInit => CallsInv /\ KeysMade
  BY AccInitCalls, AccInitKeys
<1>3. QED
  BY <1>1, <1>2, PTL DEF AccSpec

\* A call keeps to its budgets.
THEOREM CallsKeepBudgets == AccSpec => []BudgetsKept
<1>1. CallsInv => BudgetsKept
  BY DEF CallsInv, WithinBudgets, BudgetsKept
<1>2. QED
  BY <1>1, CallsAndKeys, PTL

\* Types.
THEOREM AccountTyped == AccSpec => []AccTypeOK
<1>1. CallsInv /\ KeysMade => AccTypeOK
  <2> SUFFICES ASSUME CallsInv, KeysMade PROVE AccTypeOK
    OBVIOUS
  <2>1. \A d \in Dcs : /\ loaded[d] \in 0..made[d] /\ store[d] \in 0..made[d]
                       /\ sess[d].key \in 0..made[d] /\ (sess[d].up => sess[d].on /\ net)
    BY DEF CallsInv, AccountTypes, SessRec, KeysMade
  <2>2. \A t \in Threads : thread[t].dc \in Dcs /\ thread[t].att \in 0..SoLanThuGoiApi
    <3>1. SoLanThuGoiApi \in Nat
      BY AccountAssumption
    <3>2. \A t \in Threads : thread[t] \in ThreadRec /\ WithinBudgets(thread[t])
      BY DEF CallsInv, AccountTypes
    <3>3. \A t \in Threads : thread[t].dc \in Dcs /\ thread[t].att \in Nat
      BY <3>2 DEF ThreadRec
    <3>4. \A t \in Threads : thread[t].att <= SoLanThuGoiApi
      BY <3>2 DEF WithinBudgets
    <3>5. ASSUME NEW t \in Threads PROVE thread[t].att \in 0..SoLanThuGoiApi
      <4> DEFINE a == thread[t].att
      <4>1. a \in Nat /\ a <= SoLanThuGoiApi
        BY <3>3, <3>4
      <4> HIDE DEF a
      <4>2. a \in 0..SoLanThuGoiApi
        BY <3>1, <4>1
      <4>3. QED
        BY <4>2 DEF a
    <3>6. QED
      BY <3>3, <3>5
  <2>3. QED
    BY <2>1, <2>2 DEF AccTypeOK, CallsInv, AccountTypes
<1>2. QED
  BY <1>1, CallsAndKeys, PTL

-----------------------------------------------------------------------------
(* The login and the key that is kept of it *)

\* The steps that end a login's request, or answer it.
LEMMA StoreMoves ==
    ASSUME NEW t \in Threads, ThreadStep(t)
    PROVE  /\ store' = store \/ (store' = Kept /\ (CodeSent(t) \/ SignedIn(t) \/ PasswordNeeded(t)
                                                   \/ LoginFails(t)))
           /\ granted \subseteq granted'
           /\ storedHome' = storedHome \/ SignedIn(t)
           /\ home' = home \/ Migrate(t)
           /\ late => late'
           /\ moved => moved'
<1>1. CASE \/ \E w \in Wants : Call(t, w)
           \/ UseSession(t) \/ CreateSession(t) \/ OpenFails(t) \/ Authorize(t) \/ AuthorizeFails(t)
  <2>1. UNCHANGED <<store, storedHome, home, late, moved>>
    BY <1>1
    DEF Call, UseSession, CreateSession, OpenFails, Authorize, AuthorizeFails, dbVars,
       bounds
  <2>2. granted \subseteq granted'
    BY <1>1
    DEF Call, UseSession, CreateSession, OpenFails, Authorize, AuthorizeFails, keyVars
  <2>3. QED
    BY <2>1, <2>2
<1>2. CASE \/ AnswerOk(t) \/ ServerBroke(t) \/ OtherError(t) \/ Unregistered(t)
           \/ NetworkError(t) \/ \E w \in scene.waits : AskedToWait(t, w)
  <2>1. UNCHANGED <<store, storedHome, home, late, moved>>
    BY <1>2
    DEF AnswerOk, ServerBroke, OtherError, Unregistered, NetworkError, AskedToWait,
        dbVars,
       bounds
  <2>2. granted \subseteq granted'
    BY <1>2
    DEF AnswerOk, ServerBroke, OtherError, Unregistered, NetworkError, AskedToWait,
        keyVars
  <2>3. QED
    BY <2>1, <2>2
<1>3. CASE Migrate(t)
  BY <1>3 DEF Migrate, dbVars, keyVars
<1>4. CASE CodeSent(t) \/ SignedIn(t) \/ PasswordNeeded(t) \/ LoginFails(t)
  BY <1>4 DEF CodeSent, SignedIn, PasswordNeeded, LoginFails, keyVars, bounds
<1>5. QED
  BY <1>1, <1>2, <1>3, <1>4 DEF ThreadStep, Wants

\* No key is unmade.
LEMMA MadeGrows ==
    ASSUME AccountTypes, [AccNext]_accVars
    PROVE  (OneKeyPerDc)' => OneKeyPerDc
<1>1. \A d \in Dcs : made'[d] = made[d] \/ made'[d] = made[d] + 1
  <2>1. ASSUME NEW t \in Threads, ThreadStep(t)
        PROVE  \A d \in Dcs : made'[d] = made[d] \/ made'[d] = made[d] + 1
    <3>1. CASE CreateSession(t)
      BY <3>1 DEF CreateSession, AccountTypes
    <3>2. CASE ~CreateSession(t)
      <4>1. made' = made
        BY <2>1, <3>2
        DEF ThreadStep, Call, UseSession, OpenFails, Authorize, AuthorizeFails,
           AnswerOk, Migrate, ServerBroke, OtherError, Unregistered, NetworkError, AskedToWait,
           CodeSent, SignedIn, PasswordNeeded, LoginFails, keyVars
      <4>2. QED
        BY <4>1
    <3>3. QED
      BY <3>1, <3>2
  <2>2. CASE Quietly \/ UNCHANGED accVars
    BY <2>2
    DEF Quietly, RemoveAccount, PersistAll, UpdateAppInfo, Restart, NetFails,
        NetReturns,
       FloodEnds, keyVars, accVars
  <2>3. QED
    BY <2>1, <2>2, AccSteps
<1>2. \A d \in Dcs : made[d] \in Nat
  BY DEF AccountTypes
<1>3. QED
  BY <1>1, <1>2 DEF OneKeyPerDc

\* With one key in each data centre, storing again stores the same.
LEMMA KeptSame ==
    ASSUME AccountTypes, KeysMade, OneKeyPerDc, <<TrueDc, store[TrueDc]>> \in granted
    PROVE  store[TrueDc] = 1 /\ made[TrueDc] = 1 /\ Kept[TrueDc] = store[TrueDc]
<1>1. TrueDc \in Dcs /\ made[TrueDc] \in Nat /\ store[TrueDc] \in Nat /\ made[TrueDc] <= 1
  BY AccountAssumption DEF AccountTypes, OneKeyPerDc
<1>2. store[TrueDc] \in 1..made[TrueDc]
  <2> DEFINE g == <<TrueDc, store[TrueDc]>>
  <2>1. g[1] = TrueDc /\ g[2] = store[TrueDc]
    OBVIOUS
  <2>2. g[2] \in 1..made[g[1]]
    BY DEF KeysMade
  <2>3. QED
    BY <2>1, <2>2
<1>3. store[TrueDc] = 1 /\ made[TrueDc] = 1
  BY <1>1, <1>2
<1>4. Kept[TrueDc] \in Nat /\ Kept[TrueDc] <= made[TrueDc]
  BY <1>1, KeptTypes, KeptMade
<1>5. Kept[TrueDc] # 0
  BY <1>1, <1>3 DEF Kept
<1>6. QED
  BY <1>3, <1>4, <1>5

\* The key of a session is the one that is stored, over which somebody logged in.
LEMMA KeptSession ==
    ASSUME AccountTypes, KeysMade, <<TrueDc, sess[TrueDc].key>> \in granted
    PROVE  Kept[TrueDc] = sess[TrueDc].key
<1>1. TrueDc \in Dcs /\ sess[TrueDc].key \in Nat
  BY AccountAssumption DEF AccountTypes, SessRec
<1>2. sess[TrueDc].key # 0
  <2> DEFINE g == <<TrueDc, sess[TrueDc].key>>
  <2>1. g[1] = TrueDc /\ g[2] = sess[TrueDc].key
    OBVIOUS
  <2>2. g[2] \in 1..made[g[1]]
    BY DEF KeysMade
  <2>3. QED
    BY <1>1, <2>1, <2>2
<1>3. QED
  BY <1>1, <1>2 DEF Kept, Export

\* While a login has a request under way, no other call moves.
LEMMA LoginMovesAlone ==
    ASSUME CallsInv, NEW t \in Threads, thread[t].want \in LoginSteps,
           NEW u \in Threads, ThreadStep(u)
    PROVE  u = t
<1> SUFFICES ASSUME u # t PROVE FALSE
  OBVIOUS
<1>1. thread[u].pc = "idle"
  BY DEF CallsInv, LoginAlone, In
<1>2. \E w \in Wants : Call(u, w)
  BY <1>1
  DEF ThreadStep, UseSession, CreateSession, OpenFails, Authorize, AuthorizeFails,
      AnswerOk,
     Migrate, ServerBroke, OtherError, Unregistered, NetworkError, AskedToWait, CodeSent, SignedIn,
     PasswordNeeded, LoginFails, In, Sending, Wants
<1>3. PICK w \in Wants : Call(u, w)
  BY <1>2
<1>4. InOrder(thread[t]) /\ thread[t].want \in Wants /\ thread[t].pc # "idle"
  BY DEF CallsInv, InOrder, Wants, LoginSteps
<1>5. login = Due(thread[t].want)
  BY <1>4 DEF InOrder
<1>6. w \notin LoginSteps
  BY <1>3, <1>4 DEF Call, In
<1>7. login = "in"
  BY <1>3, <1>6 DEF Call, Wants, NeedsLogin
<1>8. QED
  BY <1>5, <1>7 DEF Due, LoginSteps

\* A step of a login is answered where the account is.
LEMMA ThereStep ==
    ASSUME CallsInv, KeysMade, LoginThere, NEW t \in Threads, ThreadStep(t)
    PROVE  LoginThere'
<1>0. AccountTypes /\ WithinBudgets(thread[t]) /\ InOrder(thread[t]) /\ AccountTypes'
  BY CallsStep DEF CallsInv
<1>1. Goes(t)
  BY <1>0, StepGoes
<1> SUFFICES ASSUME NEW u \in Threads, thread'[u].want \in LoginSteps
             PROVE  /\ thread'[u].pc = "answered" => thread'[u].dc = TrueDc
                    /\ thread'[u].pc = "answered" /\ thread'[u].want # "sendCode"
                          => <<TrueDc, sess'[TrueDc].key>> \in granted'
                    /\ thread'[u].dc = TrueDc => late' \/ home' = TrueDc
  BY DEF LoginThere, In
<1>2. u # t => thread'[u] = thread[u]
  BY <1>0, <1>1 DEF Goes, AccountTypes
<1>3. u = t
  BY <1>2, LoginMovesAlone
<1> DEFINE x == thread[t]
           y == thread'[t]
<1>4. x.pc \in ThreadPcs /\ y.pc \in ThreadPcs /\ x.dc \in Dcs /\ "none" \notin LoginSteps
  BY <1>0 DEF AccountTypes, ThreadRec, LoginSteps
<1>5. y.pc # "idle"
  BY <1>1, <1>3, <1>4, CallsStep DEF CallsInv, InOrder
<1>6. /\ y.pc \in {"answered", "failed"} \/ y.pc \in Busy
      /\ x.pc # "idle" => x.want = y.want
  BY <1>1, <1>3, <1>4, <1>5 DEF Goes, Busy, ThreadPcs, InOrder
<1>7. CASE AnswerOk(t)
  <2>1. x.pc = "send" /\ x.want = y.want /\ x.dc = Where(x.want)
    BY <1>6, <1>7 DEF AnswerOk, Sending, In
  <2>2. Where(x.want) = TrueDc /\ x.want \in LoginSteps
    BY <1>3, <2>1 DEF Where, LoginSteps
  <2>3. y.dc = x.dc /\ UNCHANGED <<late, home, sess>>
    <3>1. GoOn(t, "answered")
      BY <1>7, <2>2 DEF AnswerOk
    <3>2. QED
      BY <1>0, <1>7, <2>1, <2>2, <3>1, GoOnGoes DEF AnswerOk, bounds, Busy, ThreadPcs
  <2>4. y.want # "sendCode" => <<TrueDc, sess[TrueDc].key>> \in granted'
    BY <1>7, <2>1, <2>2 DEF AnswerOk, LoginSteps
  <2>5. TrueDc = x.dc => late \/ home = TrueDc
    BY <2>2 DEF LoginThere
  <2>6. QED
    BY <1>3, <2>1, <2>2, <2>3, <2>4, <2>5
<1>8. CASE Migrate(t)
  <2>1. x.pc = "send" /\ x.want = y.want /\ Where(x.want) = TrueDc /\ x.dc # TrueDc
    BY <1>3, <1>6, <1>8 DEF Migrate, Sending, In, Where, LoginSteps
  <2>2. NextAttempt(t, x, TrueDc) /\ TrueDc \in Dcs
    BY <1>8, <2>1, AccountAssumption DEF Migrate
  <2>3. (y.pc = "failed" /\ y.dc = x.dc) \/ y.pc = "open"
    BY <1>0, <1>5, <2>1, <2>2, NextGoes
  <2>4. late' \/ home' = TrueDc
    BY <1>3, <1>8, <2>1 DEF Migrate
  <2>5. QED
    BY <1>3, <2>3, <2>4
<1>9. CASE ~AnswerOk(t) /\ ~Migrate(t)
  <2>1. home' = home /\ (late => late')
    BY <1>9, StoreMoves
  <2>2. (y.dc = x.dc \/ (x.pc = "idle" /\ y.dc = home)) /\ y.pc # "answered"
    <3>1. CASE \/ \E w \in Wants : Call(t, w)
      <4>1. x.pc = "idle"
        BY <3>1 DEF Call, In
      <4>2. QED
        BY <1>1, <1>3, <4>1, <1>5 DEF Goes, Busy
    <3>2. CASE UseSession(t) \/ CreateSession(t)
      <4>1. x.pc = "open" /\ (Opened(t, "send") \/ Opened(t, "authorize"))
        BY <3>2 DEF UseSession, CreateSession, In
      <4>2. QED
        BY <1>0, <4>1, OpenedGoes
    <3>3. CASE OpenFails(t)
      <4>1. x.pc = "open" /\ NextAttempt(t, [x EXCEPT !.rounds = @ + 1], x.dc)
        BY <3>3 DEF OpenFails, In
      <4>2. QED
        BY <1>0, <1>4, <1>5, <4>1, NextGoes
    <3>4. CASE AuthorizeFails(t) \/ NetworkError(t)
      <4>1. x.pc \in {"authorize", "send"} /\ NextAttempt(t, x, x.dc)
        BY <3>4 DEF AuthorizeFails, NetworkError, In, Sending
      <4>2. QED
        BY <1>0, <1>4, <1>5, <4>1, NextGoes
    <3>5. CASE Authorize(t)
      <4>1. x.pc = "authorize" /\ GoOn(t, "send")
        BY <3>5 DEF Authorize, In
      <4>2. QED
        BY <1>0, <4>1, GoOnGoes DEF Busy, ThreadPcs
    <3>6. CASE \/ ServerBroke(t) \/ OtherError(t) \/ \E w \in scene.waits : AskedToWait(t, w)
      <4>1. x.pc = "send"
        BY <3>6 DEF ServerBroke, OtherError, AskedToWait, Sending, In
      <4>2. CASE GiveUp(t)
        BY <1>0, <1>5, <4>1, <4>2, GiveUpGoes DEF Busy
      <4>3. CASE ~GiveUp(t)
        <5>1. \/ y = [x EXCEPT !.pc = "open", !.broken = @ + 1, !.resent = @ + 1]
              \/ \E w \in scene.waits :
                    y = [x EXCEPT !.pc = "open", !.waited = @ + w, !.slept = @ + w, !.waits = @ + 1]
          BY <1>0, <3>6, <4>3 DEF ServerBroke, OtherError, AskedToWait, Set, AccountTypes
        <5>2. x \in ThreadRec
          BY <1>0 DEF AccountTypes
        <5>3. y.dc = x.dc /\ y.pc = "open"
          BY <5>1, <5>2 DEF ThreadRec
        <5>4. QED
          BY <5>3
      <4>4. QED
        BY <4>2, <4>3
    <3>7. CASE Unregistered(t) \/ CodeSent(t) \/ SignedIn(t) \/ PasswordNeeded(t) \/ LoginFails(t)
      <4>1. x.pc # "idle" /\ Finish(t)
        BY <3>7
        DEF Unregistered, CodeSent, SignedIn, PasswordNeeded, LoginFails, Sending, In
      <4>2. QED
        BY <1>0, <1>5, <4>1, FinishGoes
    <3>8. QED
      BY <1>9, <3>1, <3>2, <3>3, <3>4, <3>5, <3>6, <3>7 DEF ThreadStep, Wants
  <2>3. x.pc # "idle" /\ x.dc = TrueDc => late \/ home = TrueDc
    BY <1>3, <1>6 DEF LoginThere
  <2>4. x.pc = "idle" => y.dc = home
    BY <1>1, <1>3, <1>5 DEF Goes, Busy
  <2>5. QED
    BY <1>3, <2>1, <2>2, <2>3, <2>4
<1>10. QED
  BY <1>7, <1>8, <1>9

\* The other steps leave a login's request where it is.
LEMMA ThereOther ==
    ASSUME CallsInv, LoginThere, Quietly
    PROVE  LoginThere'
<1>1. CASE RemoveAccount \/ UpdateAppInfo
  <2>1. thread' = thread /\ \A t \in Threads : thread[t].pc = "idle"
    BY <1>1 DEF RemoveAccount, UpdateAppInfo, Quiet, In
  <2>2. \A t \in Threads : thread[t].want = "none"
    BY <2>1 DEF CallsInv, InOrder
  <2>3. QED
    BY <2>1, <2>2 DEF LoginThere, LoginSteps
<1>2. ASSUME NEW o \in BOOLEAN, Restart(o)
      PROVE  LoginThere'
  <2>1. \A t \in Threads : thread'[t].want = "none"
    BY <1>2, RestartThreads DEF CallsInv
  <2>2. QED
    BY <2>1 DEF LoginThere, LoginSteps
<1>3. CASE NetFails
  <2>1. /\ UNCHANGED <<thread, granted, late, home>>
        /\ sess' = [d \in Dcs |-> [sess[d] EXCEPT !.up = FALSE]]
    BY <1>3 DEF NetFails, keyVars
  <2>2. sess'[TrueDc].key = sess[TrueDc].key
    BY <2>1, AccountAssumption DEF CallsInv, AccountTypes, SessRec
  <2>3. QED
    BY <2>1, <2>2 DEF LoginThere, In
<1>4. CASE PersistAll \/ NetReturns \/ FloodEnds
  <2>1. UNCHANGED <<thread, granted, late, home, sess>>
    BY <1>4 DEF PersistAll, NetReturns, FloodEnds, keyVars, bounds
  <2>2. QED
    BY <2>1 DEF LoginThere, In
<1>5. QED
  BY <1>1, <1>2, <1>3, <1>4 DEF Quietly

\* Once somebody is in, the key in the database stays the one that was logged in, and
\* so does the data centre of the account.
LEMMA StoredStep ==
    ASSUME CallsInv, KeysMade, LoginThere, KeyStored, HomesTrue, NEW t \in Threads, ThreadStep(t),
           (OneKeyPerDc)' => OneKeyPerDc
    PROVE  KeyStored' /\ HomesTrue'
<1>0. AccountTypes /\ InOrder(thread[t])
  BY DEF CallsInv
<1>1. CASE SignedIn(t)
  <2>1. /\ thread[t].pc = "answered" /\ thread[t].want \in LoginSteps
        /\ thread[t].want # "sendCode"
    BY <1>1 DEF SignedIn, In, LoginSteps
  <2>2. thread[t].dc = TrueDc /\ <<TrueDc, sess[TrueDc].key>> \in granted
    BY <2>1 DEF LoginThere, In
  <2>3. late \/ home = TrueDc
    BY <2>1, <2>2 DEF LoginThere
  <2>4. /\ store' = Kept /\ storedHome' = home
        /\ UNCHANGED <<home, granted, late, moved>>
    BY <1>1 DEF SignedIn, keyVars, bounds
  <2>5. store'[TrueDc] = sess[TrueDc].key
    BY <1>0, <2>2, <2>4, KeptSession
  <2>6. KeyStored'
    BY <2>2, <2>4, <2>5 DEF KeyStored
  <2>7. HomesTrue'
    BY <2>3, <2>4 DEF HomesTrue
  <2>8. QED
    BY <2>6, <2>7
<1>2. CASE ~SignedIn(t)
  <2>1. login' = "in" => login = "in"
    BY <1>2
    DEF ThreadStep, Call, UseSession, CreateSession, OpenFails, Authorize,
        AuthorizeFails,
       AnswerOk, Migrate, ServerBroke, OtherError, Unregistered, NetworkError, AskedToWait,
       CodeSent, PasswordNeeded, LoginFails
  <2>2. login' = "in" => store' = store
    <3>1. CASE CodeSent(t) \/ PasswordNeeded(t)
      BY <3>1 DEF CodeSent, PasswordNeeded
    <3>2. CASE LoginFails(t)
      <4>1. thread[t].want \in LoginSteps /\ thread[t].want \in Wants
        BY <1>0, <3>2 DEF LoginFails, In, InOrder, Wants
      <4>2. login # "in"
        BY <1>0, <4>1 DEF InOrder, Due, LoginSteps
      <4>3. QED
        BY <2>1, <4>2
    <3>3. QED
      BY <1>2, <3>1, <3>2, StoreMoves
  <2>3. granted \subseteq granted' /\ storedHome' = storedHome /\ (late => late') /\ (moved => moved')
    BY <1>2, StoreMoves
  <2>4. KeyStored'
    BY <2>1, <2>2, <2>3 DEF KeyStored
  <2>5. home' = home \/ moved'
    <3>1. CASE Migrate(t)
      BY <3>1 DEF Migrate
    <3>2. QED
      BY <3>1, StoreMoves
  <2>7. HomesTrue'
    BY <2>1, <2>3, <2>5 DEF HomesTrue
  <2>8. QED
    BY <2>4, <2>7
<1>3. QED
  BY <1>1, <1>2

LEMMA StoredOther ==
    ASSUME CallsInv, KeysMade, KeyStored, HomesTrue, Quietly, (OneKeyPerDc)' => OneKeyPerDc
    PROVE  KeyStored' /\ HomesTrue'
<1>0. AccountTypes
  BY DEF CallsInv
<1>1. CASE RemoveAccount
  BY <1>1 DEF RemoveAccount, KeyStored, HomesTrue
<1>2. CASE ~RemoveAccount
  <2>1. /\ UNCHANGED <<login, storedHome, granted, late, moved>>
        /\ store' = Kept \/ store' = store
        /\ home' = home \/ home' = storedHome
    BY <1>2
    DEF Quietly, PersistAll, UpdateAppInfo, Restart, NetFails, NetReturns, FloodEnds,
       dbVars, keyVars, bounds
  <2>2. HomesTrue'
    BY <2>1 DEF HomesTrue
  <2>3. ASSUME login = "in", OneKeyPerDc
        PROVE  <<TrueDc, store'[TrueDc]>> \in granted
    <3>1. <<TrueDc, store[TrueDc]>> \in granted
      BY <2>3 DEF KeyStored
    <3>2. Kept[TrueDc] = store[TrueDc]
      BY <1>0, <2>3, <3>1, KeptSame
    <3>3. QED
      BY <2>1, <3>1, <3>2
  <2>4. KeyStored'
    BY <2>1, <2>3 DEF KeyStored
  <2>5. QED
    BY <2>2, <2>4
<1>3. QED
  BY <1>1, <1>2

LEMMA AccInitLogin == AccInit => LoginInv
<1> SUFFICES ASSUME AccInit PROVE LoginInv
  OBVIOUS
<1>1. LoginThere
  BY DEF AccInit, LoginThere, FreshThread, LoginSteps
<1>2. HomesTrue
  BY DEF AccInit, HomesTrue
<1>3. KeyStored
  <2>1. CASE scene.fresh
    BY <2>1 DEF AccInit, KeyStored
  <2>2. CASE ~scene.fresh
    <3>1. store[TrueDc] = 1 /\ TrueDc \in {d \in Dcs : (IF ~scene.fresh /\ d = TrueDc THEN 1 ELSE 0) = 1}
      BY <2>2, AccountAssumption DEF AccInit
    <3>2. QED
      BY <3>1 DEF AccInit, KeyStored
  <2>3. QED
    BY <2>1, <2>2
<1>4. QED
  BY <1>1, <1>2, <1>3 DEF LoginInv

\* The login and its key, at every step.
LEMMA LoginKept == AccSpec => []LoginInv
<1>1. ASSUME CallsInv, KeysMade, LoginInv, [AccNext]_accVars
      PROVE  LoginInv'
  <2>0. (OneKeyPerDc)' => OneKeyPerDc
    BY <1>1, MadeGrows DEF CallsInv
  <2>1. ASSUME NEW t \in Threads, ThreadStep(t)
        PROVE  LoginInv'
    BY <1>1, <2>0, <2>1, ThereStep, StoredStep DEF LoginInv
  <2>2. CASE Quietly
    BY <1>1, <2>0, <2>2, ThereOther, StoredOther DEF LoginInv
  <2>3. CASE UNCHANGED accVars
    BY <1>1, <2>3 DEF accVars, LoginInv, KeyStored, LoginThere, HomesTrue, OneKeyPerDc, In
  <2>4. QED
    BY <1>1, <2>1, <2>2, <2>3, AccSteps
<1>2. QED
  BY <1>1, AccInitLogin, CallsAndKeys, PTL DEF AccSpec

\* Once somebody has logged in, the key the server knows is in the database, under the
\* data centre the account's row names, at every moment a crash could come.
THEOREM LoginIsKept == AccSpec => []LoginSurvivesRestart
<1>1. LoginInv => LoginSurvivesRestart
  BY DEF LoginInv, KeyStored, HomesTrue, LoginSurvivesRestart
<1>2. QED
  BY <1>1, LoginKept, PTL

-----------------------------------------------------------------------------
(* Sessions away from home *)

\* The server knows the session of d, or somebody is about to see to it.
SeenTo(d) ==
    sess[d].on /\ ~sess[d].bare
    => \/ <<d, sess[d].key>> \in granted
       \/ \E t \in Threads : In(t, "authorize") /\ thread[t].dc = d

\* A step after which a session is as it was, or closed, and nobody has stopped seeing to it.
LEMMA SeenToKept ==
    ASSUME NEW d \in Dcs, SeenTo(d), granted \subseteq granted',
           \/ ~sess'[d].on
           \/ /\ sess'[d].on = sess[d].on /\ sess'[d].key = sess[d].key /\ sess'[d].bare = sess[d].bare
              /\ \A t \in Threads : In(t, "authorize") => thread'[t] = thread[t]
    PROVE  SeenTo(d)'
BY DEF SeenTo, In

\* What a step of a call does to the sessions but for opening one and authorising it.
LEMMA SessionKept ==
    ASSUME CallsInv, NEW t \in Threads, ThreadStep(t), ~CreateSession(t), NEW d \in Dcs
    PROVE  \/ ~sess'[d].on
           \/ sess'[d].on = sess[d].on /\ sess'[d].key = sess[d].key /\ sess'[d].bare = sess[d].bare
<1> DEFINE e == thread[t].dc
<1>0. e \in Dcs /\ sess \in [Dcs -> SessRec] /\ sess[e] \in SessRec /\ ~NoSession.on
  BY DEF CallsInv, AccountTypes, ThreadRec, NoSession
<1>1. CASE \/ \E w \in Wants : Call(t, w)
           \/ Authorize(t) \/ AnswerOk(t) \/ Migrate(t) \/ ServerBroke(t) \/ OtherError(t)
           \/ Unregistered(t) \/ CodeSent(t) \/ SignedIn(t) \/ PasswordNeeded(t)
           \/ \E w \in scene.waits : AskedToWait(t, w)
  <2>1. sess' = sess
    BY <1>1 DEF Call, Authorize, AnswerOk, Migrate, ServerBroke, OtherError, Unregistered,
       AskedToWait, CodeSent, SignedIn, PasswordNeeded
  <2>2. QED
    BY <2>1
<1>2. CASE UseSession(t) \/ NetworkError(t)
  <2>1. PICK b \in BOOLEAN : sess' = [sess EXCEPT ![e] = [sess[e] EXCEPT !.up = b]]
    BY <1>2 DEF UseSession, NetworkError
  <2> DEFINE s == [sess[e] EXCEPT !.up = b]
  <2>2. s.on = sess[e].on /\ s.key = sess[e].key /\ s.bare = sess[e].bare
    BY <1>0 DEF SessRec
  <2>3. sess'[d] = IF d = e THEN s ELSE sess[d]
    BY <1>0, <2>1
  <2> HIDE DEF s
  <2>4. QED
    BY <2>2, <2>3
<1>3. CASE OpenFails(t) \/ AuthorizeFails(t)
  <2>1. sess' = [sess EXCEPT ![e] = NoSession]
    BY <1>3 DEF OpenFails, AuthorizeFails
  <2>2. sess'[d] = NoSession \/ sess'[d] = sess[d]
    BY <1>0, <2>1
  <2>3. QED
    BY <1>0, <2>2
<1>4. CASE LoginFails(t)
  <2>1. sess' = sess \/ sess'[d] = NoSession
    BY <1>4 DEF LoginFails
  <2>2. QED
    BY <1>0, <2>1
<1>5. QED
  BY <1>1, <1>2, <1>3, <1>4 DEF ThreadStep, Wants

LEMMA AwayStep ==
    ASSUME CallsInv, AwayKnown, NEW t \in Threads, ThreadStep(t)
    PROVE  AwayKnown'
<1>0. AccountTypes /\ WithinBudgets(thread[t]) /\ InOrder(thread[t]) /\ thread[t].dc \in Dcs
      /\ t \in DOMAIN thread
  BY DEF CallsInv, AccountTypes, ThreadRec
<1>1. Goes(t)
  BY <1>0, StepGoes
<1>2. \A u \in Threads : u # t => thread'[u] = thread[u]
  BY <1>0, <1>1 DEF Goes, AccountTypes
<1>3. granted \subseteq granted' /\ (moved => moved')
  BY StoreMoves
<1> SUFFICES ASSUME ~moved', NEW d \in Dcs, d # home'
             PROVE  SeenTo(d)'
  BY DEF AwayKnown, SeenTo
<1>4. ~moved /\ home' = home
  <2>1. CASE Migrate(t)
    BY <1>3, <2>1 DEF Migrate
  <2>2. CASE ~Migrate(t)
    BY <1>3, <2>2, StoreMoves
  <2>3. QED
    BY <2>1, <2>2
<1>5. SeenTo(d)
  BY <1>4 DEF AwayKnown, SeenTo
<1>6. CASE CreateSession(t)
  <2> DEFINE e == thread[t].dc
  <2>1. /\ thread[t].pc = "open" /\ granted' = granted
        /\ Opened(t, IF e # home /\ authorized THEN "authorize" ELSE "send")
    BY <1>6 DEF CreateSession, In
  <2>2. CASE d # e
    <3>1. sess'[d] = sess[d]
      BY <1>0, <1>6, <2>2 DEF CreateSession, AccountTypes
    <3>2. \A u \in Threads : In(u, "authorize") => thread'[u] = thread[u]
      BY <1>2, <2>1 DEF In
    <3>3. QED
      BY <1>3, <1>5, <3>1, <3>2, SeenToKept
  <2>3. CASE d = e
    <3>1. CASE authorized
      <4>1. thread'[t].pc = "authorize" /\ thread'[t].dc = d
        BY <1>0, <1>4, <2>1, <2>3, <3>1, OpenedGoes
      <4>2. QED
        BY <4>1 DEF SeenTo, In
    <3>2. CASE ~authorized
      <4> DEFINE k == IF loaded[e] = 0 THEN made'[e] ELSE loaded[e]
                 b == e # home /\ ~authorized
      <4>1. sess' = [sess EXCEPT ![e] = [on |-> TRUE, up |-> TRUE, key |-> k, bare |-> b]]
        BY <1>6 DEF CreateSession
      <4>2. b
        BY <1>4, <2>3, <3>2
      <4>3. sess'[d].bare = b
        BY <1>0, <2>3, <4>1 DEF AccountTypes
      <4>4. QED
        BY <4>2, <4>3 DEF SeenTo
    <3>3. QED
      BY <3>1, <3>2
  <2>4. QED
    BY <2>2, <2>3
<1>7. CASE Authorize(t)
  <2>1. /\ thread[t].pc = "authorize" /\ sess' = sess
        /\ <<thread[t].dc, sess[thread[t].dc].key>> \in granted'
    BY <1>7 DEF Authorize, In
  <2>2. CASE thread[t].dc = d
    BY <2>1, <2>2 DEF SeenTo
  <2>3. CASE thread[t].dc # d
    BY <1>2, <1>3, <1>5, <2>1, <2>3 DEF SeenTo, In
  <2>4. QED
    BY <2>2, <2>3
<1>8. CASE AuthorizeFails(t)
  <2>1. /\ thread[t].pc = "authorize" /\ sess' = [sess EXCEPT ![thread[t].dc] = NoSession]
    BY <1>8 DEF AuthorizeFails, In
  <2>2. CASE thread[t].dc = d
    <3>1. ~sess'[d].on
      BY <1>0, <2>1, <2>2 DEF AccountTypes, NoSession
    <3>2. QED
      BY <3>1 DEF SeenTo
  <2>3. CASE thread[t].dc # d
    <3>1. sess'[d] = sess[d]
      BY <1>0, <2>1, <2>3 DEF AccountTypes
    <3>2. QED
      BY <1>2, <1>3, <1>5, <2>3, <3>1 DEF SeenTo, In
  <2>4. QED
    BY <2>2, <2>3
<1>9. CASE ~CreateSession(t) /\ ~Authorize(t) /\ ~AuthorizeFails(t)
  <2>1. thread[t].pc # "authorize"
    BY <1>9
    DEF ThreadStep, Call, UseSession, OpenFails, AnswerOk, Migrate, ServerBroke,
        OtherError,
       Unregistered, NetworkError, AskedToWait, CodeSent, SignedIn, PasswordNeeded, LoginFails,
       Sending, In
  <2>2. \A u \in Threads : In(u, "authorize") => thread'[u] = thread[u]
    BY <1>2, <2>1 DEF In
  <2>3. QED
    BY <1>3, <1>5, <1>9, <2>2, SessionKept, SeenToKept
<1>10. QED
  BY <1>6, <1>7, <1>8, <1>9

LEMMA AwayOther ==
    ASSUME CallsInv, AwayKnown, Quietly
    PROVE  AwayKnown'
<1>1. CASE RemoveAccount \/ UpdateAppInfo \/ \E o \in BOOLEAN : Restart(o)
  <2>1. sess' = [d \in Dcs |-> NoSession]
    BY <1>1 DEF RemoveAccount, UpdateAppInfo, Restart
  <2>2. \A d \in Dcs : ~sess'[d].on
    BY <2>1 DEF NoSession
  <2>3. QED
    BY <2>2 DEF AwayKnown
<1>2. CASE NetFails
  <2>1. UNCHANGED <<granted, thread, home, moved>>
        /\ sess' = [d \in Dcs |-> [sess[d] EXCEPT !.up = FALSE]]
    BY <1>2 DEF NetFails, keyVars
  <2>2. \A d \in Dcs : sess'[d].on = sess[d].on /\ sess'[d].key = sess[d].key /\ sess'[d].bare = sess[d].bare
    BY <2>1 DEF CallsInv, AccountTypes, SessRec
  <2>3. QED
    BY <2>1, <2>2 DEF AwayKnown, In
<1>3. CASE PersistAll \/ NetReturns \/ FloodEnds
  <2>1. UNCHANGED <<granted, thread, home, moved, sess>>
    BY <1>3 DEF PersistAll, NetReturns, FloodEnds, keyVars, bounds
  <2>2. QED
    BY <2>1 DEF AwayKnown, In
<1>4. QED
  BY <1>1, <1>2, <1>3 DEF Quietly

LEMMA AwayKept == AccSpec => []AwayKnown
<1>1. ASSUME CallsInv, AwayKnown, [AccNext]_accVars
      PROVE  AwayKnown'
  <2>1. CASE UNCHANGED accVars
    BY <1>1, <2>1 DEF accVars, AwayKnown, In
  <2>2. QED
    BY <1>1, <2>1, AwayStep, AwayOther, AccSteps
<1>2. AccInit => AwayKnown
  BY DEF AccInit, AwayKnown, NoSession
<1>3. QED
  BY <1>1, <1>2, CallsAndKeys, PTL DEF AccSpec

\* Why a refused key logs an account out.
LEMMA RefusedKey ==
    ASSUME CallsInv, KeysMade, LoginInv, AwayKnown, NEW t \in Threads, Unregistered(t),
           OneKeyPerDc, ~moved, ~late, \A u \in Threads : ~In(u, "authorize")
    PROVE  \E d \in Dcs : sess[d].bare
<1> DEFINE d == thread[t].dc
<1>1. d \in Dcs /\ sess[d].on /\ <<d, sess[d].key>> \notin granted /\ thread[t].want \in NeedsLogin
  BY DEF Unregistered, Reached, Known, CallsInv, AccountTypes, ThreadRec
<1>2. CASE d # home
  BY <1>1, <1>2 DEF AwayKnown
<1>3. CASE d = home
  <2>1. login = "in"
    BY <1>1 DEF CallsInv, InOrder, Due, Wants, NeedsLogin
  <2>2. d = TrueDc
    BY <1>3, <2>1 DEF LoginInv, HomesTrue
  <2>3. <<TrueDc, store[TrueDc]>> \in granted
    BY <2>1 DEF LoginInv, KeyStored
  <2>4. store[TrueDc] = 1 /\ made[TrueDc] = 1
    BY <2>3, KeptSame DEF CallsInv
  <2>5. sess[d].key = 1
    <3>1. sess[d].key # 0 /\ sess[d].key <= made[d] /\ made[d] = 1
      BY <1>1, <2>2, <2>4 DEF KeysMade
    <3>2. sess[d].key \in Nat
      BY <1>1 DEF CallsInv, AccountTypes, SessRec
    <3>3. QED
      BY <3>1, <3>2
  <2>6. QED
    BY <1>1, <2>2, <2>3, <2>4, <2>5
<1>4. QED
  BY <1>2, <1>3

\* An account counts as logged out by a refused key only if a key was made anew, a
\* migration moved the home or came too late to, or a session away from home had not
\* been authorised.
THEOREM LogoutsHaveACause == AccSpec => LogoutHasACause
<1> DEFINE Cause == \/ ~OneKeyPerDc \/ moved \/ late
                    \/ \E t \in Threads : In(t, "authorize")
                    \/ \E d \in Dcs : sess[d].bare
           LoggedOut == authorized /\ ~authorized' /\ login' = "in" /\ restarts' = restarts
<1>1. ASSUME CallsInv, KeysMade, LoginInv, AwayKnown, [AccNext]_accVars
      PROVE  [LoggedOut => Cause]_accVars
  <2> SUFFICES ASSUME LoggedOut, ~UNCHANGED accVars PROVE Cause
    OBVIOUS
  <2>1. ASSUME NEW t \in Threads, ThreadStep(t)
        PROVE  Unregistered(t)
    BY <2>1
    DEF ThreadStep, Call, UseSession, CreateSession, OpenFails, Authorize,
        AuthorizeFails,
       AnswerOk, Migrate, ServerBroke, OtherError, NetworkError, AskedToWait, CodeSent, SignedIn,
       PasswordNeeded, LoginFails
  <2>2. ~Quietly
    <3>1. ~RemoveAccount
      BY DEF RemoveAccount
    <3>2. ~(\E o \in BOOLEAN : Restart(o))
      BY DEF Restart
    <3>3. ~(PersistAll \/ UpdateAppInfo \/ NetFails \/ NetReturns \/ FloodEnds)
      BY DEF PersistAll, UpdateAppInfo, NetFails, NetReturns, FloodEnds
    <3>4. QED
      BY <3>1, <3>2, <3>3 DEF Quietly
  <2>3. PICK t \in Threads : Unregistered(t)
    BY <1>1, <2>1, <2>2, AccSteps
  <2>4. QED
    BY <1>1, <2>3, RefusedKey
<1>2. QED
  BY <1>1, CallsAndKeys, LoginKept, AwayKept, PTL DEF AccSpec, LogoutHasACause

-----------------------------------------------------------------------------
(* The pool *)

\* Who is in the list, what a writer's record has in it, and what is counted.
WriterFields(x) ==
    x = [pc |-> x.pc, tried |-> x.tried, acc |-> x.acc, round |-> x.round, could |-> x.could]

PoolShape ==
    /\ accounts \in Seq(PoolIds)
    /\ writer = [w \in Writers |-> writer[w]] /\ \A w \in Writers : WriterFields(writer[w])
    /\ activeUploads \in [PoolIds -> Nat]

\* The writers that count for the load of an account are finitely many.
LEMMA OpenFinite ==
    ASSUME NEW a
    PROVE  /\ IsFiniteSet(Open(a)) /\ Cardinality(Open(a)) \in Nat
           /\ Cardinality(Open(a)) = 0 <=> Open(a) = {}
<1>1. Open(a) \subseteq Writers
  BY DEF Open
<1>2. IsFiniteSet(Open(a))
  BY <1>1, FS_Subset, PoolAssumption
<1>3. QED
  BY <1>2, FS_CardinalityType, FS_EmptySet

\* A step that leaves the list and the loads alone, and no writer comes to be open or
\* ceases to.
LEMMA SameLoads ==
    ASSUME PoolShape, LoadMatchesWriters, UNCHANGED <<accounts, activeUploads>>,
           writer' = [w \in Writers |-> writer'[w]], \A w \in Writers : WriterFields(writer'[w]),
           \A w \in Writers : \/ writer'[w].pc # "open" /\ writer[w].pc # "open"
                              \/ writer'[w].pc = writer[w].pc /\ writer'[w].acc = writer[w].acc
    PROVE  PoolShape' /\ LoadMatchesWriters'
<1>1. \A a : Open(a)' = Open(a)
  BY DEF Open
<1>2. Listed' = Listed
  BY DEF Listed
<1>3. QED
  BY <1>1, <1>2 DEF PoolShape, LoadMatchesWriters, Load

\* The same for one writer.
LEMMA OneWriter ==
    ASSUME PoolShape, LoadMatchesWriters, UNCHANGED <<accounts, activeUploads>>, NEW w \in Writers,
           NEW y, writer' = [writer EXCEPT ![w] = y], WriterFields(y),
           writer[w].pc # "open", y.pc # "open"
    PROVE  PoolShape' /\ LoadMatchesWriters'
<1>1. /\ writer' = [v \in Writers |-> writer'[v]] /\ writer'[w] = y
      /\ \A v \in Writers : v # w => writer'[v] = writer[v]
  BY DEF PoolShape
<1>2. \A v \in Writers : WriterFields(writer'[v])
  BY <1>1 DEF PoolShape
<1>3. \A v \in Writers : \/ writer'[v].pc # "open" /\ writer[v].pc # "open"
                         \/ writer'[v].pc = writer[v].pc /\ writer'[v].acc = writer[v].acc
  BY <1>1
<1>4. QED
  BY <1>1, <1>2, <1>3, SameLoads

\* Counting one up, or down from more than nothing, is counting still.
LEMMA CountsStay ==
    ASSUME PoolShape, NEW a,
           \/ activeUploads' = [activeUploads EXCEPT ![a] = @ + 1]
           \/ activeUploads[a] > 0 /\ activeUploads' = [activeUploads EXCEPT ![a] = @ - 1]
           \/ activeUploads' = [activeUploads EXCEPT ![a] = 0]
    PROVE  activeUploads' \in [PoolIds -> Nat]
<1>1. CASE a \in PoolIds
  <2>1. PICK n \in Nat : activeUploads' = [activeUploads EXCEPT ![a] = n]
    <3>1. activeUploads[a] \in Nat /\ activeUploads[a] + 1 \in Nat
          /\ (activeUploads[a] > 0 => activeUploads[a] - 1 \in Nat)
      BY <1>1 DEF PoolShape
    <3>2. QED
      BY <3>1
  <2>2. QED
    BY <2>1 DEF PoolShape
<1>2. CASE a \notin PoolIds
  BY <1>2 DEF PoolShape
<1>3. QED
  BY <1>1, <1>2

\* A writer opened counts one more.
LEMMA OpenedLoads ==
    ASSUME PoolShape, LoadMatchesWriters, NEW w \in Writers, OpenWriter(w)
    PROVE  PoolShape' /\ LoadMatchesWriters'
<1> DEFINE a == writer[w].acc
           y == [FreshWriter EXCEPT !.pc = "open", !.acc = a]
<1>1. /\ y.pc = "open" /\ y.acc = a /\ WriterFields(y) /\ writer[w].pc = "accepted"
      /\ writer' = [writer EXCEPT ![w] = y] /\ accounts' = accounts
      /\ activeUploads' = [activeUploads EXCEPT ![a] = @ + 1]
  <2>1. WriterFields(FreshWriter)
    BY DEF FreshWriter, WriterFields
  <2>2. y.pc = "open" /\ y.acc = a /\ WriterFields(y)
    <3>1. y = [FreshWriter EXCEPT !.pc = "open", !.acc = a]
      OBVIOUS
    <3> HIDE DEF a, y
    <3>2. QED
      BY <2>1, <3>1 DEF WriterFields
  <2>3. QED
    BY <2>2 DEF OpenWriter, At
<1> HIDE DEF y
<1>2. /\ writer' = [v \in Writers |-> writer'[v]] /\ writer'[w] = y
      /\ \A v \in Writers : v # w => writer'[v] = writer[v]
  BY <1>1 DEF PoolShape
<1>3. \A v \in Writers : WriterFields(writer'[v])
  BY <1>1, <1>2 DEF PoolShape
<1>4. activeUploads' \in [PoolIds -> Nat]
  BY <1>1, CountsStay
<1>5. ASSUME NEW b \in Listed
      PROVE  activeUploads'[b] = Cardinality(Open(b)')
  <2>1. b \in PoolIds /\ activeUploads[b] = Cardinality(Open(b)) /\ activeUploads[b] \in Nat
    BY DEF PoolShape, LoadMatchesWriters, Load, Listed, Elems
  <2>2. CASE b = a
    <3>1. Open(b)' = Open(b) \cup {w} /\ w \notin Open(b)
      BY <1>1, <1>2, <2>2 DEF Open
    <3>2. Cardinality(Open(b) \cup {w}) = Cardinality(Open(b)) + 1
      BY <3>1, OpenFinite, FS_AddElement
    <3>3. activeUploads'[b] = activeUploads[b] + 1
      BY <1>1, <2>1, <2>2 DEF PoolShape
    <3>4. QED
      BY <2>1, <3>1, <3>2, <3>3
  <2>3. CASE b # a
    <3>1. Open(b)' = Open(b)
      BY <1>1, <1>2, <2>3 DEF Open
    <3>2. activeUploads'[b] = activeUploads[b]
      BY <1>1, <2>1, <2>3 DEF PoolShape
    <3>3. QED
      BY <2>1, <3>1, <3>2
  <2>4. QED
    BY <2>2, <2>3
<1>6. Listed' = Listed
  BY <1>1 DEF Listed
<1>7. QED
  BY <1>1, <1>2, <1>3, <1>4, <1>5, <1>6 DEF PoolShape, LoadMatchesWriters, Load

\* A writer closed, or destroyed open, counts one less.
LEMMA ReleasedLoads ==
    ASSUME PoolShape, LoadMatchesWriters, NEW w \in Writers, writer[w].pc = "open",
           Release(writer[w].acc), accounts' = accounts,
           NEW y, writer' = [writer EXCEPT ![w] = y], WriterFields(y), y.pc # "open"
    PROVE  PoolShape' /\ LoadMatchesWriters'
<1> DEFINE a == writer[w].acc
<1>1. activeUploads' = [activeUploads EXCEPT ![a] = IF a \in Listed /\ @ > 0 THEN @ - 1 ELSE @]
  BY DEF Release
<1>2. /\ writer' = [v \in Writers |-> writer'[v]] /\ writer'[w] = y
      /\ \A v \in Writers : v # w => writer'[v] = writer[v]
  BY DEF PoolShape
<1>3. \A v \in Writers : WriterFields(writer'[v])
  BY <1>2 DEF PoolShape
<1>4. activeUploads' \in [PoolIds -> Nat]
  <2>1. CASE a \in Listed /\ activeUploads[a] > 0
    BY <1>1, <2>1, CountsStay
  <2>2. CASE ~(a \in Listed /\ activeUploads[a] > 0)
    BY <1>1, <2>2 DEF PoolShape
  <2>3. QED
    BY <2>1, <2>2
<1>5. ASSUME NEW b \in Listed
      PROVE  activeUploads'[b] = Cardinality(Open(b)')
  <2>1. b \in PoolIds /\ activeUploads[b] = Cardinality(Open(b)) /\ activeUploads[b] \in Nat
    BY DEF PoolShape, LoadMatchesWriters, Load, Listed, Elems
  <2>2. CASE b = a
    <3>1. Open(b)' = Open(b) \ {w} /\ w \in Open(b)
      BY <1>2, <2>2 DEF Open
    <3>2. Cardinality(Open(b) \ {w}) = Cardinality(Open(b)) - 1 /\ Cardinality(Open(b)) # 0
      BY <3>1, OpenFinite, FS_RemoveElement
    <3>3. activeUploads[b] > 0
      BY <2>1, <3>2
    <3>4. activeUploads'[b] = activeUploads[b] - 1
      BY <1>1, <2>1, <2>2, <3>3 DEF PoolShape
    <3>5. QED
      BY <2>1, <3>1, <3>2, <3>4
  <2>3. CASE b # a
    <3>1. Open(b)' = Open(b)
      BY <1>2, <2>3 DEF Open
    <3>2. activeUploads'[b] = activeUploads[b]
      BY <1>1, <2>1, <2>3 DEF PoolShape
    <3>3. QED
      BY <2>1, <3>1, <3>2
  <2>4. QED
    BY <2>2, <2>3
<1>6. Listed' = Listed
  BY DEF Listed
<1>7. QED
  BY <1>2, <1>3, <1>4, <1>5, <1>6 DEF PoolShape, LoadMatchesWriters, Load

\* What erasing one element leaves.
LEMMA Erased ==
    ASSUME NEW S, NEW q \in Seq(S), NEW i \in 1..Len(q)
    PROVE  LET p == SubSeq(q, 1, i - 1) \o SubSeq(q, i + 1, Len(q)) IN
           p \in Seq(S) /\ Elems(p) \subseteq Elems(q)
<1> DEFINE l == SubSeq(q, 1, i - 1)
           r == SubSeq(q, i + 1, Len(q))
           p == l \o r
<1>1. /\ l \in Seq(S) /\ Len(l) = i - 1 /\ \A j \in 1..i - 1 : l[j] = q[j]
  OBVIOUS
<1>2. /\ r \in Seq(S) /\ Len(r) = Len(q) - i /\ \A j \in 1..Len(q) - i : r[j] = q[i + j]
  OBVIOUS
<1> HIDE DEF l, r
<1>3. /\ p \in Seq(S) /\ Len(p) = Len(l) + Len(r)
      /\ \A j \in 1..Len(l) + Len(r) : p[j] = IF j <= Len(l) THEN l[j] ELSE r[j - Len(l)]
  BY <1>1, <1>2, ConcatProperties
<1> HIDE DEF p
<1>4. ASSUME NEW j \in 1..Len(p)
      PROVE  \E k \in 1..Len(q) : p[j] = q[k]
  <2>0. j \in Nat /\ Len(q) \in Nat /\ j <= Len(q) - 1 /\ 1 <= j /\ j \in 1..Len(l) + Len(r)
    BY <1>1, <1>2, <1>3
  <2>1. CASE j <= i - 1
    <3>1. j \in 1..i - 1 /\ j \in 1..Len(q) /\ j <= Len(l)
      BY <1>1, <2>0, <2>1
    <3>2. p[j] = q[j]
      BY <1>1, <1>3, <2>0, <3>1
    <3>3. QED
      BY <3>1, <3>2
  <2>2. CASE ~(j <= i - 1)
    <3>1. p[j] = r[j - (i - 1)] /\ j - (i - 1) \in 1..Len(q) - i
      BY <1>1, <1>2, <1>3, <2>0, <2>2
    <3>2. p[j] = q[i + (j - (i - 1))] /\ i + (j - (i - 1)) \in 1..Len(q)
      BY <1>2, <3>1
    <3>3. QED
      BY <3>2
  <2>3. QED
    BY <2>1, <2>2
<1>6. Elems(p) \subseteq Elems(q)
  BY <1>3, <1>4 DEF Elems
<1>5. QED
  BY <1>3, <1>6 DEF p, l, r

\* Every step of a writer.
LEMMA WriterStep ==
    ASSUME PoolShape, LoadMatchesWriters, NEW w \in Writers,
           \/ BeginChunk(w) \/ PickAccount(w) \/ Accepts(w) \/ Declines(w)
           \/ OpenWriter(w) \/ CloseWriter(w) \/ DestroyWriter(w) \/ DropWriter(w)
    PROVE  PoolShape' /\ LoadMatchesWriters'
<1> DEFINE x == writer[w]
<1>0. WriterFields(x) /\ WriterFields(FreshWriter) /\ FreshWriter.pc = "idle"
  BY DEF PoolShape, WriterFields, FreshWriter
<1>1. CASE BeginChunk(w)
  <2> DEFINE y == [FreshWriter EXCEPT !.pc = "pick", !.could = {a \in PoolIds : CanServe(a)}]
  <2>1. WriterFields(y) /\ y.pc = "pick" /\ writer[w].pc = "idle"
    <3> DEFINE c == {a \in PoolIds : CanServe(a)}
    <3>1. y = [FreshWriter EXCEPT !.pc = "pick", !.could = c]
      OBVIOUS
    <3> HIDE DEF c, y
    <3>2. WriterFields(y) /\ y.pc = "pick"
      BY <1>0, <3>1 DEF WriterFields
    <3>3. QED
      BY <1>1, <3>2 DEF BeginChunk, At
  <2>2. writer' = [writer EXCEPT ![w] = y] /\ UNCHANGED <<accounts, activeUploads>>
    BY <1>1 DEF BeginChunk
  <2> HIDE DEF y
  <2>3. QED
    BY <2>1, <2>2, OneWriter
<1>2. CASE PickAccount(w)
  <2> DEFINE a == Best(x.tried)
             y == writer'[w]
  <2>0. /\ \/ writer' = [writer EXCEPT ![w].pc = "connect", ![w].acc = a, ![w].tried = @ \cup {a},
                                      ![w].round = @ + 1]
           \/ writer' = [writer EXCEPT ![w].pc = "failed"]
    BY <1>2 DEF PickAccount
  <2> HIDE DEF a
  <2>1. /\ writer' = [writer EXCEPT ![w] = y]
        /\ \/ y = [x EXCEPT !.pc = "connect", !.acc = a, !.tried = @ \cup {a}, !.round = @ + 1]
           \/ y = [x EXCEPT !.pc = "failed"]
    <3>1. w \in DOMAIN writer
      BY DEF PoolShape
    <3>2. QED
      BY <2>0, <3>1
  <2>2. WriterFields(y) /\ y.pc # "open"
    <3> HIDE DEF x, y
    <3>1. QED
      BY <1>0, <2>1 DEF WriterFields
  <2>3. x.pc = "pick" /\ UNCHANGED <<accounts, activeUploads>>
    BY <1>2 DEF PickAccount, At
  <2>4. QED
    BY <2>1, <2>2, <2>3, OneWriter
<1>3. CASE Accepts(w) \/ Declines(w)
  <2>1. PICK y : /\ writer' = [writer EXCEPT ![w] = y]
                 /\ \/ y = [x EXCEPT !.pc = "accepted"]
                    \/ y = [x EXCEPT !.pc = "pick", !.could = @ \ {x.acc}]
    BY <1>3 DEF Accepts, Declines, PoolShape
  <2>2. WriterFields(y) /\ y.pc # "open"
    BY <1>0, <2>1 DEF WriterFields
  <2>3. x.pc = "connect" /\ UNCHANGED <<accounts, activeUploads>>
    BY <1>3 DEF Accepts, Declines, At
  <2>4. QED
    BY <2>1, <2>2, <2>3, OneWriter
<1>4. CASE OpenWriter(w)
  BY <1>4, OpenedLoads
<1>5. CASE CloseWriter(w)
  <2> DEFINE y == [x EXCEPT !.pc = "closed"]
  <2>1. writer' = [writer EXCEPT ![w] = y] /\ x.pc = "open" /\ Release(x.acc) /\ accounts' = accounts
    BY <1>5 DEF CloseWriter, At, PoolShape
  <2>2. WriterFields(y) /\ y.pc # "open"
    BY <1>0 DEF WriterFields
  <2> HIDE DEF y
  <2>3. QED
    BY <2>1, <2>2, ReleasedLoads
<1>6. CASE DestroyWriter(w)
  <2>1. /\ writer' = [writer EXCEPT ![w] = FreshWriter] /\ x.pc # "open"
        /\ UNCHANGED <<accounts, activeUploads>>
    BY <1>6 DEF DestroyWriter, At
  <2>2. QED
    BY <1>0, <2>1, OneWriter
<1>7. CASE DropWriter(w)
  <2>1. /\ writer' = [writer EXCEPT ![w] = FreshWriter] /\ x.pc = "open" /\ Release(x.acc)
        /\ accounts' = accounts
    BY <1>7 DEF DropWriter, At
  <2>2. QED
    BY <1>0, <2>1, ReleasedLoads
<1>8. QED
  BY <1>1, <1>2, <1>3, <1>4, <1>5, <1>6, <1>7

\* What happens to accounts.
LEMMA AccountStep ==
    ASSUME PoolShape, LoadMatchesWriters, NEW a \in PoolIds,
           RemoveFromPool(a) \/ \E f \in {"enabled", "auth", "flooded", "member"} : AccountChanges(a, f)
    PROVE  PoolShape' /\ LoadMatchesWriters'
<1>1. /\ writer' = [w \in Writers |-> [writer[w] EXCEPT !.could = @ \ {a}]]
  BY DEF RemoveFromPool, AccountChanges, Lost
<1>2. /\ writer' = [w \in Writers |-> writer'[w]]
      /\ \A w \in Writers : /\ WriterFields(writer'[w]) /\ writer'[w].pc = writer[w].pc
                            /\ writer'[w].acc = writer[w].acc
  <2>1. ASSUME NEW w \in Writers
        PROVE  /\ WriterFields(writer'[w]) /\ writer'[w].pc = writer[w].pc
               /\ writer'[w].acc = writer[w].acc
    <3> DEFINE x == writer[w]
               y == writer'[w]
    <3>1. y = [x EXCEPT !.could = @ \ {a}] /\ WriterFields(x)
      BY <1>1 DEF PoolShape
    <3> HIDE DEF x, y
    <3>2. WriterFields(y) /\ y.pc = x.pc /\ y.acc = x.acc
      BY <3>1 DEF WriterFields
    <3>3. QED
      BY <3>2 DEF x, y
  <2>2. QED
    BY <1>1, <2>1
<1>3. CASE \E f \in {"enabled", "auth", "flooded", "member"} : AccountChanges(a, f)
  <2>1. UNCHANGED <<accounts, activeUploads>>
    BY <1>3 DEF AccountChanges
  <2>2. QED
    BY <1>2, <2>1, SameLoads
<1>4. CASE RemoveFromPool(a)
  <2>1. PICK i \in DOMAIN accounts :
           accounts' = SubSeq(accounts, 1, i - 1) \o SubSeq(accounts, i + 1, Len(accounts))
    BY <1>4 DEF RemoveFromPool, Erase
  <2>2. i \in 1..Len(accounts) /\ accounts \in Seq(PoolIds)
    BY DEF PoolShape
  <2>3. accounts' \in Seq(PoolIds) /\ Listed' \subseteq Listed
    BY <2>1, <2>2, Erased DEF Listed
  <2>4. \A b : Open(b)' = Open(b)
    BY <1>2 DEF Open
  <2>5. activeUploads' = [activeUploads EXCEPT ![a] = 0] /\ \A w \in Writers : writer[w].acc # a
    BY <1>4 DEF RemoveFromPool
  <2>6. Cardinality(Open(a)) = 0
    BY <2>5, FS_EmptySet DEF Open
  <2>7. \A b \in Listed' : activeUploads'[b] = Cardinality(Open(b))
    <3>0. \A b \in Listed : b \in PoolIds /\ activeUploads[b] = Cardinality(Open(b))
      BY DEF PoolShape, LoadMatchesWriters, Load, Listed, Elems
    <3>1. \A b \in Listed' : b \in PoolIds /\ activeUploads[b] = Cardinality(Open(b))
      BY <2>3, <3>0
    <3>2. \A b \in PoolIds : activeUploads'[b] = IF b = a THEN 0 ELSE activeUploads[b]
      BY <2>5 DEF PoolShape
    <3>3. QED
      BY <2>6, <3>1, <3>2
  <2>9. activeUploads' \in [PoolIds -> Nat]
    BY <2>5, CountsStay
  <2>8. QED
    BY <1>2, <2>3, <2>4, <2>7, <2>9 DEF PoolShape, LoadMatchesWriters, Load
<1>5. QED
  BY <1>3, <1>4

LEMMA PoolStarts == PoolInit => PoolShape /\ LoadMatchesWriters
<1> SUFFICES ASSUME PoolInit PROVE PoolShape /\ LoadMatchesWriters
  OBVIOUS
<1>1. accounts \in Seq(PoolIds)
  BY PoolAssumption DEF PoolInit, PoolIds
<1>2. writer = [w \in Writers |-> writer[w]] /\ \A w \in Writers : WriterFields(writer[w])
  BY DEF PoolInit, FreshWriter, WriterFields
<1>3. \A a : Cardinality(Open(a)) = 0
  BY FS_EmptySet DEF PoolInit, FreshWriter, Open
<1>4. activeUploads = [a \in PoolIds |-> 0]
  BY DEF PoolInit
<1>5. \A a \in Listed : a \in PoolIds
  BY <1>1 DEF Listed, Elems
<1>6. QED
  BY <1>1, <1>2, <1>3, <1>4, <1>5 DEF PoolShape, LoadMatchesWriters, Load

\* Readers leave the list, the loads and the writers alone.
LEMMA ReaderLeaves ==
    ASSUME NEW r \in Readers,
           \/ BeginRead(r) \/ AskReference(r) \/ Downloads(r) \/ DownloadFails(r)
           \/ ListOthers(r) \/ TryOther(r) \/ EndRead(r) \/ BeginRemove(r) \/ DeleteMessages(r)
    PROVE  UNCHANGED <<accounts, state, activeUploads, writer>>
BY DEF BeginRead, AskReference, Downloads, DownloadFails, ListOthers, TryOther, EndRead, BeginRemove, DeleteMessages

LEMMA PoolKept == PoolShape /\ LoadMatchesWriters /\ [PoolNext]_poolVars => PoolShape' /\ LoadMatchesWriters'
<1> SUFFICES ASSUME PoolShape, LoadMatchesWriters, [PoolNext]_poolVars
             PROVE  PoolShape' /\ LoadMatchesWriters'
  OBVIOUS
<1>1. CASE UNCHANGED <<accounts, activeUploads, writer>>
  BY <1>1 DEF PoolShape, LoadMatchesWriters, Load, Listed, Open
<1>2. ASSUME NEW r \in Readers,
             \/ BeginRead(r) \/ AskReference(r) \/ Downloads(r) \/ DownloadFails(r)
             \/ ListOthers(r) \/ TryOther(r) \/ EndRead(r) \/ BeginRemove(r) \/ DeleteMessages(r)
      PROVE  UNCHANGED <<accounts, activeUploads, writer>>
  BY <1>2, ReaderLeaves
<1>3. CASE ReferenceExpires \/ UNCHANGED poolVars
  BY <1>1, <1>3 DEF ReferenceExpires, poolVars
<1>4. QED
  BY <1>1, <1>2, <1>3, WriterStep, AccountStep DEF PoolNext

\* The load of an account is the number of its writers that are open.
THEOREM LoadsMatch == PoolSpec => []LoadMatchesWriters
BY PoolStarts, PoolKept, PTL DEF PoolSpec

-----------------------------------------------------------------------------
(* The pool: who is asked *)

\* Going round from anywhere reaches every place.
LEMMA Round ==
    ASSUME NEW x \in Nat, NEW n \in Nat, n > 0, NEW j \in 0..n - 1
    PROVE  \E i \in 0..n - 1 : (x + i) % n = j
<1>1. PICK m \in 0..n - 1 : x % n = m
  OBVIOUS
<1>2. CASE j >= m
  <2>1. (x + (j - m)) % n = j
    BY <1>1, <1>2
  <2>2. j - m \in 0..n - 1
    BY <1>2
  <2> QED BY <2>1, <2>2
<1>3. CASE j < m
  <2>1. PICK q \in Nat : x = q * n + m
    BY <1>1
  <2>2. x + (n + j - m) = (q + 1) * n + j
    BY <2>1
  <2>3. (x + (n + j - m)) % n = j
    <3>1. \A y \in Nat, p \in Nat : y = p * n + j => y % n = j
      OBVIOUS
    <3>2. x + (n + j - m) \in Nat /\ q + 1 \in Nat
      OBVIOUS
    <3> QED BY <2>2, <3>1, <3>2
  <2>4. n + j - m \in 0..n - 1
    BY <1>3
  <2> QED BY <2>3, <2>4
<1> QED BY <1>2, <1>3

LEMMA SeatsAre ==
    ASSUME PoolShape, roundRobin \in Nat
    PROVE  /\ Len(accounts) \in Nat
           /\ \A i \in 0..Len(accounts) - 1 : Seat(i) \in Listed
           /\ \A a \in Listed : \E i \in 0..Len(accounts) - 1 : Seat(i) = a
           /\ Listed \subseteq PoolIds
<1> DEFINE n == Len(accounts)
<1>1. n \in Nat /\ DOMAIN accounts = 1..n /\ accounts \in Seq(PoolIds)
  BY DEF PoolShape
<1>2. Listed \subseteq PoolIds
  BY <1>1 DEF Listed, Elems
<1>3. ASSUME NEW i \in 0..n - 1 PROVE Seat(i) \in Listed
  <2>1. (roundRobin + i) % n \in 0..n - 1
    <3> HIDE DEF n
    <3>1. roundRobin + i \in Nat /\ n > 0
      BY <1>1
    <3> QED BY <1>1, <3>1
  <2>2. 1 + ((roundRobin + i) % n) \in 1..n
    <3> HIDE DEF n
    <3> QED BY <1>1, <2>1
  <2> QED BY <1>1, <2>2 DEF Seat, Listed, Elems
<1>4. ASSUME NEW a \in Listed PROVE \E i \in 0..n - 1 : Seat(i) = a
  <2>1. PICK k \in 1..n : a = accounts[k]
    BY <1>1 DEF Listed, Elems
  <2>2. k - 1 \in 0..n - 1 /\ n > 0
    BY <1>1
  <2>3. PICK i \in 0..n - 1 : (roundRobin + i) % n = k - 1
    <3> HIDE DEF n
    <3> QED BY <1>1, <2>2, Round
  <2>4. 1 + ((roundRobin + i) % n) = k
    BY <2>3
  <2> QED BY <2>1, <2>4 DEF Seat
<1> QED BY <1>1, <1>2, <1>3, <1>4

\* pickAccount() finds an account if there is one that may be picked.
LEMMA BestIs ==
    ASSUME PoolShape, roundRobin \in Nat, NEW tried
    PROVE  \/ Best(tried) = NoAccount /\ \A a \in Listed : Pickable(a) => a \in tried
           \/ Best(tried) \in Listed \ tried /\ Best(tried) # NoAccount
<1> DEFINE n == Len(accounts)
           ok  == {i \in 0..n - 1 : Pickable(Seat(i)) /\ Seat(i) \notin tried}
           min == {i \in ok : \A j \in ok : Load(Seat(i)) <= Load(Seat(j))}
           least == CHOOSE i \in min : \A j \in min : i <= j
<1>1. n \in Nat /\ (\A i \in 0..n - 1 : Seat(i) \in Listed) /\ Listed \subseteq PoolIds
      /\ \A a \in Listed : \E i \in 0..n - 1 : Seat(i) = a
  BY SeatsAre
<1>2. Best(tried) = IF ok = {} THEN NoAccount ELSE Seat(least)
  BY DEF Best
<1>3. CASE ok = {}
  <2>1. ASSUME NEW a \in Listed, Pickable(a) PROVE a \in tried
    <3>1. PICK i \in 0..n - 1 : Seat(i) = a
      BY <1>1
    <3> HIDE DEF n
    <3> QED BY <1>3, <2>1, <3>1
  <2> HIDE DEF ok, min, least
  <2> QED BY <1>2, <1>3, <2>1
<1>4. CASE ok # {}
  <2>0. ok \in SUBSET Nat
    BY <1>1
  <2>1. \A i \in ok : Load(Seat(i)) \in Nat
    BY <1>1 DEF Load, PoolShape
  <2> HIDE DEF n
  <2>2. min # {}
    <3> DEFINE T == {Load(Seat(i)) : i \in ok}
    <3>1. T \in SUBSET Nat /\ T # {}
      <4> HIDE DEF ok
      <4> QED BY <1>4, <2>1
    <3>2. PICK l \in T : \A m \in T : l <= m
      <4> HIDE DEF T
      <4> QED BY <3>1, LeastNat
    <3>3. PICK i \in ok : l = Load(Seat(i))
      <4> HIDE DEF ok
      <4> QED BY <3>2
    <3>4. \A j \in ok : Load(Seat(i)) <= Load(Seat(j))
      <4> HIDE DEF ok
      <4> QED BY <3>2, <3>3
    <3> HIDE DEF ok
    <3> QED BY <3>3, <3>4
  <2>3. min \in SUBSET Nat
    <3> HIDE DEF ok
    <3> QED BY <2>0
  <2>4. \E i \in min : \A j \in min : i <= j
    <3> HIDE DEF min
    <3> QED BY <2>2, <2>3, LeastNat
  <2>5. least \in min
    <3> HIDE DEF min
    <3> QED BY <2>4
  <2>6. least \in ok
    <3> HIDE DEF ok, least
    <3> QED BY <2>5
  <2>7. least \in 0..n - 1 /\ Seat(least) \notin tried
    <3> HIDE DEF least, min
    <3> QED BY <2>6
  <2>8. Seat(least) \in Listed
    <3> HIDE DEF least, min, ok
    <3> QED BY <1>1, <2>7
  <2>9. Seat(least) # NoAccount
    <3> HIDE DEF least, min, ok
    <3> QED BY <1>1, <2>8, PoolAssumption DEF PoolIds
  <2> HIDE DEF ok, least
  <2> QED BY <1>2, <1>4, <2>7, <2>8, <2>9
<1> QED BY <1>3, <1>4

\* The accounts are finitely many, and not more of them than places in the list.
LEMMA FewAccounts ==
    /\ IsFiniteSet(PoolIds)
    /\ PoolShape => IsFiniteSet(Listed) /\ Cardinality(Listed) \in Nat /\ Cardinality(Listed) <= Len(accounts)
<1>1. ASSUME NEW S, NEW q \in Seq(S)
      PROVE  IsFiniteSet(Elems(q)) /\ Cardinality(Elems(q)) <= Len(q) /\ Cardinality(Elems(q)) \in Nat
  <2>1. Len(q) \in Nat /\ DOMAIN q = 1..Len(q) /\ q = [i \in 1..Len(q) |-> q[i]]
    OBVIOUS
  <2>2. q \in Surjection(1..Len(q), Elems(q))
    BY <2>1 DEF Surjection, Elems
  <2>3. IsFiniteSet(1..Len(q)) /\ Cardinality(1..Len(q)) = Len(q)
    <3> DEFINE m == Len(q)
    <3>1. m \in Nat /\ m \in Int /\ 1 \in Int /\ (1 > m => m = 0) /\ (m - 1) + 1 = m
      BY <2>1
    <3> HIDE DEF m
    <3>2. IsFiniteSet(1..m) /\ Cardinality(1..m) = IF 1 > m THEN 0 ELSE m - 1 + 1
      BY <3>1, FS_Interval
    <3>3. IsFiniteSet(1..m) /\ Cardinality(1..m) = m
      BY <3>1, <3>2
    <3> QED BY <3>3 DEF m
  <2> QED BY <2>2, <2>3, FS_Surjection, FS_CardinalityType
<1>2. Accounts \in Seq({Accounts[i] : i \in DOMAIN Accounts}) /\ PoolIds = Elems(Accounts)
  BY PoolAssumption DEF PoolIds, Elems
<1>3. IsFiniteSet(PoolIds)
  BY <1>1, <1>2
<1>4. ASSUME PoolShape PROVE IsFiniteSet(Listed) /\ Cardinality(Listed) \in Nat /\ Cardinality(Listed) <= Len(accounts)
  BY <1>1, <1>4 DEF PoolShape, Listed
<1> QED BY <1>3, <1>4

\* What a writer that asks around has done so far: the accounts it tried are counted,
\* and whoever could serve all along is not among those that declined.
WriterAsks(x) ==
    /\ \A a \in x.could : CanServe(a)
    /\ x.tried \subseteq PoolIds
    /\ x.pc \in {"pick", "connect"} => x.round = Cardinality(x.tried)
    /\ x.pc = "pick" => x.tried \cap x.could = {}
    /\ x.pc = "connect" => x.tried \cap x.could \subseteq {x.acc}
    /\ x.pc = "failed" => x.could = {} \/ Cardinality(x.tried \ Listed) > 1

ReaderFields(x) ==
    x = [pc |-> x.pc, acc |-> x.acc, rest |-> x.rest, hash |-> x.hash, fresh |-> x.fresh, could |-> x.could]

\* Whoever could serve a reader all along is still to be asked.
ReaderAsks(x) ==
    /\ \A a \in x.could : CanServe(a)
    /\ x.pc \in {"next", "alt"} => x.rest \in Seq(PoolIds)
    /\ x.pc = "others" => x.acc \notin x.could
    /\ x.pc = "next" => x.could \subseteq Elems(x.rest)
    /\ x.pc = "alt" => x.could \subseteq Elems(x.rest) \cup {x.acc}
    /\ x.pc = "failed" => x.could = {}

AccountsAsked ==
    /\ roundRobin \in Nat /\ state = [a \in PoolIds |-> state[a]]
    /\ \A w \in Writers : WriterAsks(writer[w])
    /\ reader = [r \in Readers |-> reader[r]] /\ \A r \in Readers : ReaderFields(reader[r]) /\ ReaderAsks(reader[r])

LEMMA AsksStay ==
    ASSUME UNCHANGED <<accounts, state>>, NEW x
    PROVE  (WriterAsks(x) => WriterAsks(x)') /\ (ReaderAsks(x) => ReaderAsks(x)')
BY DEF WriterAsks, ReaderAsks, CanServe, Pickable, Listed

LEMMA OneAsks ==
    ASSUME PoolShape, AccountsAsked, UNCHANGED <<accounts, state, reader>>, roundRobin' \in Nat,
           NEW w \in Writers, NEW y, writer' = [writer EXCEPT ![w] = y], WriterAsks(y)
    PROVE  AccountsAsked'
<1>1. ASSUME NEW v \in Writers PROVE WriterAsks(writer[v])'
  <2>1. PICK x : x = writer'[v] /\ WriterAsks(x)
    BY DEF PoolShape, AccountsAsked
  <2>2. WriterAsks(x)'
    BY <2>1, AsksStay
  <2> QED BY <2>1, <2>2 DEF WriterAsks
<1>2. ASSUME NEW r \in Readers PROVE (ReaderFields(reader[r]) /\ ReaderAsks(reader[r]))'
  <2>1. PICK x : x = reader[r] /\ ReaderAsks(x) /\ ReaderFields(x)
    BY DEF AccountsAsked
  <2>2. ReaderAsks(x)' /\ x = reader'[r]
    BY <2>1, AsksStay
  <2> QED BY <2>1, <2>2 DEF ReaderAsks, ReaderFields
<1> QED BY <1>1, <1>2 DEF AccountsAsked

LEMMA OneReads ==
    ASSUME AccountsAsked, UNCHANGED <<accounts, state, writer>>, roundRobin' \in Nat,
           NEW q \in Readers, NEW y, reader' = [reader EXCEPT ![q] = y], ReaderFields(y), ReaderAsks(y)
    PROVE  AccountsAsked'
<1>1. ASSUME NEW v \in Writers PROVE WriterAsks(writer[v])'
  <2>1. PICK x : x = writer'[v] /\ WriterAsks(x)
    BY DEF AccountsAsked
  <2>2. WriterAsks(x)'
    BY <2>1, AsksStay
  <2> QED BY <2>1, <2>2 DEF WriterAsks
<1>2. ASSUME NEW r \in Readers PROVE (ReaderFields(reader[r]) /\ ReaderAsks(reader[r]))'
  <2>1. PICK x : x = reader'[r] /\ ReaderAsks(x) /\ ReaderFields(x)
    BY DEF AccountsAsked
  <2>2. ReaderAsks(x)'
    BY <2>1, AsksStay
  <2> QED BY <2>1, <2>2 DEF ReaderAsks, ReaderFields
<1>3. reader' = [r \in Readers |-> reader'[r]]
  BY DEF AccountsAsked
<1> QED BY <1>1, <1>2, <1>3 DEF AccountsAsked

LEMMA TurnedNat == ASSUME PoolShape, roundRobin \in Nat, Turned PROVE roundRobin' \in Nat
<1>1. CASE accounts = <<>>
  BY <1>1 DEF Turned
<1>2. CASE accounts # <<>>
  <2>1. Len(accounts) \in Nat /\ Len(accounts) > 0
    BY <1>2, EmptySeq DEF PoolShape
  <2> QED BY <1>2, <2>1 DEF Turned
<1> QED BY <1>1, <1>2

LEMMA WriterAround ==
    ASSUME PoolShape, AccountsAsked, NEW w \in Writers,
           \/ BeginChunk(w) \/ PickAccount(w) \/ Accepts(w) \/ Declines(w)
           \/ OpenWriter(w) \/ CloseWriter(w) \/ DestroyWriter(w) \/ DropWriter(w)
    PROVE  AccountsAsked'
<1> DEFINE x == writer[w]
<1>0. /\ WriterFields(x) /\ WriterAsks(x) /\ roundRobin \in Nat /\ w \in DOMAIN writer
      /\ Cardinality({}) = 0
  BY FS_EmptySet DEF PoolShape, AccountsAsked
<1>1. /\ UNCHANGED <<accounts, state, reader>> /\ roundRobin' \in Nat
  BY <1>0, TurnedNat DEF BeginChunk, PickAccount, Accepts, Declines, OpenWriter, CloseWriter, DestroyWriter, DropWriter
<1>2. /\ WriterAsks(FreshWriter)
      /\ \A a : WriterAsks([FreshWriter EXCEPT !.pc = "open", !.acc = a])
  BY DEF WriterAsks, FreshWriter
<1>3. CASE BeginChunk(w)
  <2> DEFINE c == {a \in PoolIds : CanServe(a)}
             y == [FreshWriter EXCEPT !.pc = "pick", !.could = c]
  <2>1. \A a \in c : CanServe(a)
    OBVIOUS
  <2> HIDE DEF c
  <2>2. WriterAsks(y)
    BY <1>0, <2>1 DEF WriterAsks, FreshWriter
  <2>3. writer' = [writer EXCEPT ![w] = y]
    BY <1>3 DEF BeginChunk, c
  <2> HIDE DEF y
  <2> QED BY <1>1, <2>2, <2>3, OneAsks
<1>4. CASE PickAccount(w)
  <2>1. PICK a : a = Best(x.tried)
    OBVIOUS
  <2>2. \/ a = NoAccount /\ \A b \in Listed : Pickable(b) => b \in x.tried
        \/ a \in Listed \ x.tried /\ a # NoAccount
    BY <1>0, <2>1, BestIs
  <2>3. /\ x.pc = "pick" /\ x.round = Cardinality(x.tried) /\ x.tried \cap x.could = {} /\ x.tried \subseteq PoolIds
        /\ \A b \in x.could : CanServe(b)
    BY <1>0, <1>4 DEF PickAccount, At, WriterAsks
  <2>4. IsFiniteSet(x.tried) /\ Cardinality(x.tried) \in Nat
    BY <2>3, FewAccounts, FS_Subset, FS_CardinalityType
  <2>5. CASE x.round < Len(accounts) + 1 /\ a # NoAccount
    <3> DEFINE y == [x EXCEPT !.pc = "connect", !.acc = a, !.tried = @ \cup {a}, !.round = @ + 1]
    <3>1. writer' = [writer EXCEPT ![w] = y]
      BY <1>0, <1>4, <2>1, <2>5 DEF PickAccount
    <3>2. a \in PoolIds /\ a \notin x.tried
      BY <2>2, <2>5, SeatsAre, <1>0
    <3>3. Cardinality(x.tried \cup {a}) = Cardinality(x.tried) + 1
      BY <2>4, <3>2, FS_AddElement
    <3>4. /\ y.could = x.could /\ y.tried = x.tried \cup {a} /\ y.round = x.round + 1 /\ y.pc = "connect" /\ y.acc = a
      <4> HIDE DEF x
      <4> QED BY <1>0 DEF WriterFields
    <3> HIDE DEF x, y
    <3>5. WriterAsks(y)
      BY <2>3, <3>2, <3>3, <3>4 DEF WriterAsks
    <3> QED BY <1>1, <3>1, <3>5, OneAsks
  <2>6. CASE ~(x.round < Len(accounts) + 1 /\ a # NoAccount)
    <3> DEFINE y == [x EXCEPT !.pc = "failed"]
    <3>1. writer' = [writer EXCEPT ![w] = y]
      BY <1>0, <1>4, <2>1, <2>6 DEF PickAccount
    <3>2. x.could = {} \/ Cardinality(x.tried \ Listed) > 1
      <4>1. CASE a = NoAccount
        <5>1. \A b \in x.could : b \in x.tried
          BY <2>2, <2>3, <4>1 DEF CanServe, Pickable
        <5> QED BY <2>3, <5>1
      <4>2. CASE x.could # {} /\ ~(x.round < Len(accounts) + 1)
        <5> DEFINE t == x.tried
                   n == Len(accounts)
        <5>1. PICK b \in x.could : b \in Listed /\ b \notin t
          BY <2>3, <4>2 DEF CanServe, Pickable
        <5>2. IsFiniteSet(Listed) /\ Cardinality(Listed) \in Nat /\ Cardinality(Listed) <= n /\ n \in Nat
          BY FewAccounts, SeatsAre, <1>0
        <5>3. IsFiniteSet(t) /\ Cardinality(t) \in Nat /\ Cardinality(t) >= n + 1
          BY <2>3, <2>4, <4>2, <5>2
        <5> HIDE DEF t, n
        <5>4. t \cap Listed \subseteq Listed \ {b}
          BY <5>1
        <5>5. IsFiniteSet(Listed \ {b}) /\ Cardinality(Listed \ {b}) = Cardinality(Listed) - 1
          BY <5>1, <5>2, FS_RemoveElement
        <5>6. Cardinality(t \cap Listed) <= Cardinality(Listed \ {b}) /\ IsFiniteSet(t \cap Listed)
          BY <5>4, <5>5, FS_Subset
        <5>7. Cardinality(t \ Listed) = Cardinality(t) - Cardinality(t \cap Listed) /\ Cardinality(t \cap Listed) \in Nat
          BY <5>3, <5>6, FS_Difference, FS_CardinalityType
        <5>8. Cardinality(t \ Listed) > 1
          BY <5>2, <5>3, <5>5, <5>6, <5>7
        <5> QED BY <5>8 DEF t
      <4> QED BY <2>6, <4>1, <4>2
    <3>3. /\ y.could = x.could /\ y.tried = x.tried /\ y.pc = "failed"
      <4> HIDE DEF x
      <4> QED BY <1>0 DEF WriterFields
    <3> HIDE DEF x, y
    <3>4. WriterAsks(y)
      BY <2>3, <3>2, <3>3 DEF WriterAsks
    <3> QED BY <1>1, <3>1, <3>4, OneAsks
  <2> QED BY <2>5, <2>6
<1>5. CASE Accepts(w) \/ Declines(w) \/ CloseWriter(w)
  <2>1. PICK y : /\ writer' = [writer EXCEPT ![w] = y]
                 /\ \/ y = [x EXCEPT !.pc = "accepted"] \/ y = [x EXCEPT !.pc = "closed"]
                    \/ x.pc = "connect" /\ y = [x EXCEPT !.pc = "pick", !.could = x.could \ {x.acc}]
    BY <1>0, <1>5 DEF Accepts, Declines, CloseWriter, At
  <2>2. WriterAsks(y)
    <3> HIDE DEF x
    <3>1. CASE y = [x EXCEPT !.pc = "accepted"] \/ y = [x EXCEPT !.pc = "closed"]
      BY <1>0, <3>1 DEF WriterFields, WriterAsks
    <3>2. CASE x.pc = "connect" /\ y = [x EXCEPT !.pc = "pick", !.could = x.could \ {x.acc}]
      <4>1. y.pc = "pick" /\ y.could = x.could \ {x.acc} /\ y.tried = x.tried /\ y.round = x.round
        BY <1>0, <3>2 DEF WriterFields
      <4> QED BY <1>0, <3>2, <4>1 DEF WriterAsks
    <3> QED BY <2>1, <3>1, <3>2
  <2> QED BY <1>1, <2>1, <2>2, OneAsks
<1>6. CASE OpenWriter(w) \/ DestroyWriter(w) \/ DropWriter(w)
  <2>1. PICK y : writer' = [writer EXCEPT ![w] = y] /\ WriterAsks(y)
    BY <1>2, <1>6 DEF OpenWriter, DestroyWriter, DropWriter
  <2> QED BY <1>1, <2>1, OneAsks
<1> QED BY <1>3, <1>4, <1>5, <1>6

LEMMA FreshReads ==
    /\ ReaderFields(FreshReader) /\ FreshReader.could = {} /\ FreshReader.pc = "idle" /\ FreshReader.acc = NoAccount
    /\ \A x : ReaderFields(x) => /\ x = [x EXCEPT !.pc = x.pc, !.acc = x.acc]
                                 /\ \A p : [x EXCEPT !.pc = p] = [x EXCEPT !.pc = p, !.acc = x.acc]
<1>1. ReaderFields(FreshReader) /\ FreshReader.could = {} /\ FreshReader.pc = "idle" /\ FreshReader.acc = NoAccount
  BY DEF ReaderFields, FreshReader
<1>2. ASSUME NEW x, ReaderFields(x) PROVE x = [x EXCEPT !.pc = x.pc, !.acc = x.acc]
  BY <1>2 DEF ReaderFields
<1>3. ASSUME NEW x, ReaderFields(x), NEW p PROVE [x EXCEPT !.pc = p] = [x EXCEPT !.pc = p, !.acc = x.acc]
  BY <1>3 DEF ReaderFields
<1> QED BY <1>1, <1>2, <1>3

LEMMA ReaderAround ==
    ASSUME PoolShape, AccountsAsked, NEW r \in Readers,
           \/ BeginRead(r) \/ AskReference(r) \/ Downloads(r) \/ DownloadFails(r)
           \/ ListOthers(r) \/ TryOther(r) \/ EndRead(r) \/ BeginRemove(r) \/ DeleteMessages(r)
    PROVE  AccountsAsked'
<1> DEFINE x == reader[r]
<1>0. /\ ReaderFields(x) /\ ReaderAsks(x) /\ roundRobin \in Nat /\ r \in DOMAIN reader
  BY DEF AccountsAsked
<1>1. /\ UNCHANGED <<accounts, state, writer>> /\ roundRobin' \in Nat
  <2>1. UNCHANGED <<accounts, state, writer>> /\ (roundRobin' = roundRobin \/ Turned)
    BY DEF BeginRead, AskReference, Downloads, DownloadFails, ListOthers, TryOther, EndRead, BeginRemove, DeleteMessages
  <2> QED BY <1>0, <2>1, TurnedNat
<1>2. ASSUME NEW y, reader' = [reader EXCEPT ![r] = y], ReaderFields(y), ReaderAsks(y) PROVE AccountsAsked'
  BY <1>1, <1>2, OneReads
<1>3. ASSUME NEW pc \in {"idle", "served", "kept", "delete"}, NEW a
      PROVE  /\ ReaderFields([FreshReader EXCEPT !.pc = pc, !.acc = a])
             /\ ReaderAsks([FreshReader EXCEPT !.pc = pc, !.acc = a])
  <2>1. PICK y : y = [FreshReader EXCEPT !.pc = pc, !.acc = a]
    OBVIOUS
  <2>2. ReaderFields(y) /\ y.pc = pc /\ y.could = {}
    <3>1. PICK z : z = FreshReader
      OBVIOUS
    <3>2. ReaderFields(z) /\ z.could = {} /\ y = [z EXCEPT !.pc = pc, !.acc = a]
      BY <2>1, <3>1, FreshReads
    <3> QED BY ONLY <3>2 DEF ReaderFields
  <2>3. ReaderAsks(y)
    BY <2>2 DEF ReaderAsks
  <2> QED BY <2>1, <2>2, <2>3
<1>4. CASE BeginRead(r)
  <2> DEFINE c == {b \in PoolIds : CanServe(b)}
  <2>1. PICK a, pc : /\ reader' = [reader EXCEPT ![r] =
                          [FreshReader EXCEPT !.pc = pc, !.acc = a, !.hash = loc.hash, !.fresh = loc.fresh, !.could = c]]
                     /\ pc \in {"failed", "localize", "read"}
                     /\ pc = "failed" => a = NoAccount
                     /\ a = IF Usable(loc.hash) THEN loc.hash ELSE Best({})
    <3> DEFINE b == IF Usable(loc.hash) THEN loc.hash ELSE Best({})
               pc == IF b = NoAccount THEN "failed" ELSE IF b # loc.hash THEN "localize" ELSE "read"
    <3>1. reader' = [reader EXCEPT ![r] =
             [FreshReader EXCEPT !.pc = pc, !.acc = b, !.hash = loc.hash, !.fresh = loc.fresh, !.could = c]]
      BY <1>4 DEF BeginRead
    <3>2. pc \in {"failed", "localize", "read"} /\ (pc = "failed" => b = NoAccount)
      OBVIOUS
    <3> HIDE DEF pc, c
    <3> QED BY <3>1, <3>2
  <2>2. pc = "failed" => c = {}
    <3> SUFFICES ASSUME pc = "failed", NEW b \in c PROVE FALSE
      OBVIOUS
    <3>1. b \in Listed /\ Pickable(b)
      BY DEF CanServe, Pickable
    <3>2. NoAccount \notin Listed
      BY <1>0, SeatsAre, PoolAssumption DEF PoolIds
    <3>3. ~Usable(loc.hash) /\ Best({}) = NoAccount
      BY <2>1, <3>2 DEF Usable
    <3> QED BY <1>0, <3>1, <3>3, BestIs
  <2>3. \A b \in c : CanServe(b)
    OBVIOUS
  <2> HIDE DEF c
  <2> DEFINE y == [FreshReader EXCEPT !.pc = pc, !.acc = a, !.hash = loc.hash, !.fresh = loc.fresh, !.could = c]
  <2>4. ReaderFields(y) /\ ReaderAsks(y)
    <3> HIDE DEF y
    <3>1. ReaderFields(y) /\ y.pc = pc /\ y.acc = a /\ y.could = c
      <4>1. PICK z, h, f : z = FreshReader /\ h = loc.hash /\ f = loc.fresh
        OBVIOUS
      <4>2. ReaderFields(z) /\ y = [z EXCEPT !.pc = pc, !.acc = a, !.hash = h, !.fresh = f, !.could = c]
        BY <4>1, FreshReads DEF y
      <4> QED BY ONLY <4>2 DEF ReaderFields
    <3> QED BY <2>1, <2>2, <2>3, <3>1 DEF ReaderAsks
  <2>5. reader' = [reader EXCEPT ![r] = y]
    BY <2>1
  <2> HIDE DEF y
  <2> QED BY <1>2, <2>4, <2>5
<1>5. CASE AskReference(r)
  <2>1. PICK y : /\ reader' = [reader EXCEPT ![r] = y]
                 /\ \/ \E pc \in {"read", "reread"} : y = [x EXCEPT !.pc = pc, !.hash = x.acc, !.fresh = TRUE]
                    \/ \E pc \in {"read", "others"} : y = [x EXCEPT !.pc = pc, !.could = x.could \ {x.acc}]
    <3>1. CASE reader' = [reader EXCEPT ![r] = Refreshed(r, x.acc, IF At(x, "renew") THEN "reread" ELSE "read", x)]
      BY <3>1 DEF Refreshed
    <3>2. CASE reader' = [reader EXCEPT ![r].pc = IF At(x, "renew") THEN "others" ELSE "read", ![r].could = @ \ {x.acc}]
      BY <1>0, <3>2
    <3> QED BY <1>5, <3>1, <3>2 DEF AskReference
  <2>2. ReaderFields(y) /\ ReaderAsks(y)
    <3> HIDE DEF x
    <3>1. ASSUME NEW pc \in {"read", "reread"}, y = [x EXCEPT !.pc = pc, !.hash = x.acc, !.fresh = TRUE]
          PROVE  ReaderFields(y) /\ ReaderAsks(y)
      BY <1>0, <3>1 DEF ReaderFields, ReaderAsks
    <3>2. ASSUME NEW pc \in {"read", "others"}, y = [x EXCEPT !.pc = pc, !.could = x.could \ {x.acc}]
          PROVE  ReaderFields(y) /\ ReaderAsks(y)
      <4>1. ReaderFields(y) /\ y.pc = pc /\ y.could = x.could \ {x.acc} /\ y.acc = x.acc
        BY <1>0, <3>2 DEF ReaderFields
      <4> QED BY <1>0, <4>1 DEF ReaderAsks
    <3> QED BY <2>1, <3>1, <3>2
  <2> QED BY <1>2, <2>1, <2>2
<1>6. CASE DownloadFails(r)
  <2>1. PICK y : /\ reader' = [reader EXCEPT ![r] = y]
                 /\ \/ y = [x EXCEPT !.pc = "renew"]
                    \/ x.pc = "reread" /\ y = [x EXCEPT !.pc = "others", !.could = x.could \ {x.acc}]
                    \/ x.pc = "alt" /\ y = [x EXCEPT !.pc = "next", !.could = x.could \ {x.acc}]
    <3> DEFINE y == [x EXCEPT !.pc = IF At(x, "read") THEN "renew"
                                     ELSE IF At(x, "reread") THEN "others" ELSE "next",
                              !.could = IF At(x, "read") THEN @ ELSE @ \ {x.acc}]
    <3>1. reader' = [reader EXCEPT ![r] = y] /\ x.pc \in {"read", "reread", "alt"}
      BY <1>6 DEF DownloadFails
    <3> HIDE DEF x
    <3>2. x = [x EXCEPT !.could = x.could]
      BY <1>0 DEF ReaderFields
    <3>3. CASE x.pc = "read"
      <4>1. y = [x EXCEPT !.pc = "renew"]
        BY <1>0, <3>3 DEF At, ReaderFields
      <4> QED BY <3>1, <4>1
    <3>4. CASE x.pc = "reread"
      <4>1. y = [x EXCEPT !.pc = "others", !.could = x.could \ {x.acc}]
        BY <3>4 DEF At
      <4> QED BY <3>1, <3>4, <4>1
    <3>5. CASE x.pc = "alt"
      <4>1. y = [x EXCEPT !.pc = "next", !.could = x.could \ {x.acc}]
        BY <3>5 DEF At
      <4> QED BY <3>1, <3>5, <4>1
    <3> QED BY <3>1, <3>3, <3>4, <3>5
  <2>2. ReaderFields(y) /\ ReaderAsks(y)
    <3> HIDE DEF x
    <3>1. CASE y = [x EXCEPT !.pc = "renew"]
      BY <1>0, <3>1 DEF ReaderFields, ReaderAsks
    <3>2. ASSUME NEW pc, y = [x EXCEPT !.pc = pc, !.could = x.could \ {x.acc}],
                 pc = "others" \/ (pc = "next" /\ x.pc = "alt")
          PROVE  ReaderFields(y) /\ ReaderAsks(y)
      <4>1. ReaderFields(y) /\ y.pc = pc /\ y.could = x.could \ {x.acc} /\ y.acc = x.acc /\ y.rest = x.rest
        BY <1>0, <3>2 DEF ReaderFields
      <4> QED BY <1>0, <3>2, <4>1 DEF ReaderAsks
    <3> QED BY <2>1, <3>1, <3>2
  <2> QED BY <1>2, <2>1, <2>2
<1>7. CASE ListOthers(r)
  <2> DEFINE S == {a \in Listed : Usable(a) /\ a # x.acc}
  <2>1. PICK q : q = Those(accounts, S)
    OBVIOUS
  <2>2. q \in Seq(PoolIds) /\ Elems(q) = Listed \cap S
    BY <2>1, ThoseAre DEF PoolShape, Listed
  <2> DEFINE y == [x EXCEPT !.pc = "next", !.rest = q]
  <2>3. reader' = [reader EXCEPT ![r] = y] /\ x.pc = "others"
    BY <1>0, <1>7, <2>1 DEF ListOthers, At
  <2>4. x.could \subseteq Elems(q)
    BY <1>0, <2>2, <2>3 DEF ReaderAsks, CanServe, Pickable, Usable
  <2>5. ReaderFields(y) /\ y.pc = "next" /\ y.rest = q /\ y.could = x.could
    <3>1. y = [x EXCEPT !.pc = "next", !.rest = q]
      OBVIOUS
    <3> HIDE DEF x, y
    <3> QED BY ONLY <1>0, <3>1 DEF ReaderFields
  <2>6. ReaderAsks(y)
    <3> HIDE DEF x, y
    <3> QED BY <1>0, <2>2, <2>4, <2>5 DEF ReaderAsks
  <2> HIDE DEF y
  <2> QED BY <1>2, <2>3, <2>5, <2>6
<1>8. CASE TryOther(r)
  <2>0. x.pc = "next" /\ x.rest \in Seq(PoolIds) /\ x.could \subseteq Elems(x.rest)
    BY <1>0, <1>8 DEF TryOther, At, ReaderAsks
  <2>1. CASE x.rest = <<>>
    <3> DEFINE y == [x EXCEPT !.pc = "failed"]
    <3>1. reader' = [reader EXCEPT ![r] = y]
      BY <1>0, <1>8, <2>1 DEF TryOther
    <3>2. x.could = {}
      BY <2>0, <2>1 DEF Elems
    <3>3. ReaderFields(y) /\ y.pc = "failed" /\ y.could = {}
      <4> HIDE DEF x
      <4> QED BY <1>0, <3>2 DEF ReaderFields
    <3> HIDE DEF y
    <3>4. ReaderAsks(y)
      BY <3>3 DEF ReaderAsks
    <3> QED BY <1>2, <3>1, <3>3, <3>4
  <2>2. CASE x.rest # <<>>
    <3> DEFINE a == Head(x.rest)
               t == Tail(x.rest)
    <3>1. PICK h, f, c : /\ reader' = [reader EXCEPT ![r] =
                              [x EXCEPT !.pc = "alt", !.acc = a, !.rest = t, !.hash = h, !.fresh = f, !.could = c]]
                         /\ c = x.could \/ c = x.could \ {a}
      <4> DEFINE z == [x EXCEPT !.pc = "alt", !.acc = a, !.rest = Tail(@), !.hash = loc.hash, !.fresh = loc.fresh]
      <4>1. \/ reader' = [reader EXCEPT ![r] = Refreshed(r, a, "alt", z)]
            \/ reader' = [reader EXCEPT ![r] = [z EXCEPT !.could = @ \ {a}]]
        BY <1>8, <2>2 DEF TryOther
      <4> HIDE DEF x, a, t
      <4>a. Tail(x.rest) = t
        BY DEF t
      <4>2. /\ Refreshed(r, a, "alt", z) =
                  [x EXCEPT !.pc = "alt", !.acc = a, !.rest = t, !.hash = a, !.fresh = TRUE, !.could = x.could]
            /\ [z EXCEPT !.could = @ \ {a}] =
                  [x EXCEPT !.pc = "alt", !.acc = a, !.rest = t, !.hash = loc.hash, !.fresh = loc.fresh,
                            !.could = x.could \ {a}]
        BY <1>0, <4>a DEF Refreshed, ReaderFields
      <4> HIDE DEF z
      <4>3. CASE reader' = [reader EXCEPT ![r] = Refreshed(r, a, "alt", z)]
        BY <4>2, <4>3
      <4>4. CASE reader' = [reader EXCEPT ![r] = [z EXCEPT !.could = @ \ {a}]]
        BY <4>2, <4>4
      <4> QED BY <4>1, <4>3, <4>4
    <3>2. t \in Seq(PoolIds) /\ Elems(x.rest) \subseteq Elems(t) \cup {a}
      <4> DEFINE q == x.rest
      <4>1. q \in Seq(PoolIds) /\ q # <<>>
        BY <2>0, <2>2
      <4> HIDE DEF q
      <4>2. /\ Tail(q) \in Seq(PoolIds) /\ Head(q) = q[1] /\ Len(Tail(q)) = Len(q) - 1 /\ Len(q) \in Nat
            /\ \A i \in 1..Len(q) - 1 : Tail(q)[i] = q[i + 1]
        BY <4>1, HeadTailProperties, EmptySeq
      <4>3. PICK p : p = Tail(q)
        OBVIOUS
      <4>4. DOMAIN q = 1..Len(q) /\ DOMAIN p = 1..Len(q) - 1
        BY <4>1, <4>2, <4>3
      <4>5. ASSUME NEW b \in Elems(q) PROVE b \in Elems(p) \cup {Head(q)}
        <5>1. PICK i \in 1..Len(q) : b = q[i]
          BY <4>4 DEF Elems
        <5>2. CASE i = 1
          BY <4>2, <5>1, <5>2
        <5>3. CASE i # 1
          <6>1. i - 1 \in 1..Len(q) - 1 /\ (i - 1) + 1 = i
            BY <4>2, <5>3
          <6>2. p[i - 1] = b
            BY <4>2, <4>3, <5>1, <6>1
          <6> QED BY <4>4, <6>1, <6>2 DEF Elems
        <5> QED BY <5>2, <5>3
      <4> QED BY <4>2, <4>3, <4>5 DEF q
    <3> HIDE DEF a, t
    <3> DEFINE y == [x EXCEPT !.pc = "alt", !.acc = a, !.rest = t, !.hash = h, !.fresh = f, !.could = c]
    <3>3. ReaderFields(y) /\ y.pc = "alt" /\ y.acc = a /\ y.rest = t /\ y.could = c
      <4>1. y = [x EXCEPT !.pc = "alt", !.acc = a, !.rest = t, !.hash = h, !.fresh = f, !.could = c]
        OBVIOUS
      <4> HIDE DEF x, y
      <4> QED BY ONLY <1>0, <4>1 DEF ReaderFields
    <3>4. \A b \in c : CanServe(b)
      BY <1>0, <3>1 DEF ReaderAsks
    <3>5. c \subseteq Elems(t) \cup {a}
      BY <2>0, <3>1, <3>2
    <3> HIDE DEF y
    <3>6. ReaderAsks(y)
      BY <3>2, <3>3, <3>4, <3>5 DEF ReaderAsks
    <3> QED BY <1>2, <3>1, <3>3, <3>6 DEF y
  <2> QED BY <2>1, <2>2
<1>9. CASE Downloads(r) \/ EndRead(r) \/ BeginRemove(r) \/ DeleteMessages(r)
  <2> DEFINE Ended(pc, a) == /\ pc \in {"idle", "served", "kept", "delete"}
                             /\ reader' = [reader EXCEPT ![r] = [FreshReader EXCEPT !.pc = pc, !.acc = a]]
  <2>1. \E pc, a : Ended(pc, a)
    <3>1. /\ FreshReader = [FreshReader EXCEPT !.pc = "idle", !.acc = NoAccount]
          /\ \A p : [FreshReader EXCEPT !.pc = p] = [FreshReader EXCEPT !.pc = p, !.acc = NoAccount]
      BY FreshReads
    <3>2. CASE Downloads(r) \/ DeleteMessages(r)
      <4>1. Ended("served", NoAccount) \/ Ended("kept", NoAccount)
        BY <3>1, <3>2 DEF Downloads, DeleteMessages
      <4> HIDE DEF Ended
      <4> QED BY <4>1
    <3>3. CASE EndRead(r)
      <4>1. Ended("idle", NoAccount)
        BY <3>1, <3>3 DEF EndRead
      <4> HIDE DEF Ended
      <4> QED BY <4>1
    <3>4. CASE BeginRemove(r)
      <4>1. PICK a : a = IF loc.hash \in Listed /\ state[loc.hash].auth THEN loc.hash ELSE Best({})
        OBVIOUS
      <4>2. reader' = [reader EXCEPT ![r] = [FreshReader EXCEPT
                           !.pc = IF a = NoAccount THEN "kept" ELSE "delete", !.acc = a]]
        BY <3>4, <4>1, Zenon DEF BeginRemove
      <4>3. Ended("kept", a) \/ Ended("delete", a)
        BY <4>2
      <4> HIDE DEF Ended
      <4> QED BY <4>3
    <3> QED BY <1>9, <3>2, <3>3, <3>4
  <2>2. PICK pc, a : Ended(pc, a)
    BY <2>1
  <2> QED BY <1>2, <1>3, <2>2
<1> QED BY <1>4, <1>5, <1>6, <1>7, <1>8, <1>9

\* Erasing one element leaves the others.
LEMMA ErasedKeeps ==
    ASSUME NEW S, NEW q \in Seq(S), NEW i \in 1..Len(q),
           NEW p, p = SubSeq(q, 1, i - 1) \o SubSeq(q, i + 1, Len(q)), NEW b \in Elems(q), b # q[i]
    PROVE  b \in Elems(p)
<1> DEFINE l == SubSeq(q, 1, i - 1)
           r == SubSeq(q, i + 1, Len(q))
<1>1. /\ l \in Seq(S) /\ Len(l) = i - 1 /\ \A j \in 1..i - 1 : l[j] = q[j]
  OBVIOUS
<1>2. /\ r \in Seq(S) /\ Len(r) = Len(q) - i /\ \A j \in 1..Len(q) - i : r[j] = q[i + j]
  OBVIOUS
<1>3. Len(q) \in Nat /\ DOMAIN q = 1..Len(q)
  OBVIOUS
<1> HIDE DEF l, r
<1>4. /\ p \in Seq(S) /\ Len(p) = Len(l) + Len(r)
      /\ \A j \in 1..Len(l) + Len(r) : p[j] = IF j <= Len(l) THEN l[j] ELSE r[j - Len(l)]
  <2>1. p = l \o r
    BY DEF l, r
  <2>2. l \in Seq(S) /\ r \in Seq(S)
    BY <1>1, <1>2
  <2> QED BY ONLY <2>1, <2>2, ConcatProperties
<1>5. DOMAIN p = 1..Len(q) - 1
  <2>1. DOMAIN p = 1..Len(p) /\ Len(p) = Len(q) - 1
    <3>1. Len(p) = (i - 1) + (Len(q) - i)
      BY <1>1, <1>2, <1>4
    <3>2. DOMAIN p = 1..Len(p)
      BY <1>4
    <3>3. Len(q) \in Nat /\ i \in Nat
      BY <1>3
    <3> QED BY ONLY <3>1, <3>2, <3>3
  <2> QED BY <2>1
<1>6. PICK k \in 1..Len(q) : b = q[k]
  BY <1>3 DEF Elems
<1>7. CASE k < i
  <2>1. k \in 1..i - 1 /\ k \in 1..Len(l) + Len(r) /\ k <= Len(l) /\ k \in 1..Len(q) - 1
    BY <1>1, <1>2, <1>3, <1>7
  <2>2. p[k] = q[k]
    BY <1>1, <1>4, <2>1
  <2> QED BY <1>5, <1>6, <2>1, <2>2 DEF Elems
<1>8. CASE k > i
  <2>1. k - 1 \in 1..Len(l) + Len(r) /\ ~(k - 1 <= Len(l)) /\ k - i \in 1..Len(q) - i /\ (k - 1) - Len(l) = k - i
        /\ i + (k - i) = k /\ k - 1 \in 1..Len(q) - 1
    BY <1>1, <1>2, <1>3, <1>8
  <2>2. p[k - 1] = r[k - i] /\ r[k - i] = q[k]
    BY <1>2, <1>4, <2>1
  <2> QED BY <1>5, <1>6, <2>1, <2>2 DEF Elems
<1> QED BY <1>3, <1>6, <1>7, <1>8

LEMMA AccountAround ==
    ASSUME PoolShape, AccountsAsked, NEW a \in PoolIds,
           RemoveFromPool(a) \/ \E f \in {"enabled", "auth", "flooded", "member"} : AccountChanges(a, f)
    PROVE  AccountsAsked'
<1>1. /\ writer' = [w \in Writers |-> [writer[w] EXCEPT !.could = @ \ {a}]]
      /\ reader' = [r \in Readers |-> [reader[r] EXCEPT !.could = @ \ {a}]]
  BY DEF RemoveFromPool, AccountChanges, Lost
<1>2. Listed' \subseteq Listed /\ (\A b \in Listed : b # a => b \in Listed') /\ roundRobin' \in Nat
  <2>1. CASE RemoveFromPool(a)
    <3>1. PICK i \in DOMAIN accounts :
             accounts[i] = a /\ accounts' = SubSeq(accounts, 1, i - 1) \o SubSeq(accounts, i + 1, Len(accounts))
      BY <2>1 DEF RemoveFromPool, Erase
    <3>2. i \in 1..Len(accounts) /\ accounts \in Seq(PoolIds) /\ DOMAIN accounts = 1..Len(accounts)
      BY DEF PoolShape
    <3>3. Listed' \subseteq Listed
      BY <3>1, <3>2, Erased DEF Listed
    <3>4. \A b \in Listed : b # a => b \in Listed'
      BY <3>1, <3>2, ErasedKeeps DEF Listed
    <3>5. roundRobin' \in Nat
      BY <2>1, <3>2 DEF RemoveFromPool
    <3> QED BY <3>3, <3>4, <3>5
  <2>2. CASE \E f \in {"enabled", "auth", "flooded", "member"} : AccountChanges(a, f)
    BY <2>2 DEF AccountChanges, Listed, AccountsAsked
  <2> QED BY <2>1, <2>2
<1>3. state' = [b \in PoolIds |-> state'[b]] /\ \A b \in PoolIds : b # a => state'[b] = state[b]
  <2>1. CASE RemoveFromPool(a)
    BY <2>1 DEF RemoveFromPool, AccountsAsked
  <2>2. CASE \E f \in {"enabled", "auth", "flooded", "member"} : AccountChanges(a, f)
    BY <2>2 DEF AccountChanges, AccountsAsked
  <2> QED BY <2>1, <2>2
<1>4. \A b : CanServe(b) /\ b # a => CanServe(b)'
  <2> SUFFICES ASSUME NEW b, CanServe(b), b # a PROVE CanServe(b)'
    OBVIOUS
  <2>1. b \in Listed /\ b \in PoolIds
    BY SeatsAre DEF CanServe, Pickable, AccountsAsked
  <2>2. b \in Listed' /\ state'[b] = state[b]
    BY <1>2, <1>3, <2>1
  <2> QED BY <2>2 DEF CanServe, Pickable
<1>5. ASSUME NEW w \in Writers PROVE WriterAsks(writer[w])'
  <2>1. PICK x : x = writer[w] /\ WriterFields(x) /\ WriterAsks(x)
    BY DEF PoolShape, AccountsAsked
  <2>2. PICK y : y = writer'[w] /\ y = [x EXCEPT !.could = @ \ {a}]
    BY <1>1, <2>1
  <2>3. y.pc = x.pc /\ y.could = x.could \ {a} /\ y.tried = x.tried /\ y.round = x.round /\ y.acc = x.acc
    BY <2>1, <2>2 DEF WriterFields
  <2>4. Cardinality(x.tried \ Listed) > 1 => Cardinality(x.tried \ Listed') > 1
    <3> DEFINE S == x.tried \ Listed'
               T == x.tried \ Listed
    <3>1. IsFiniteSet(S) /\ T \subseteq S
      <4>1. x.tried \subseteq PoolIds
        BY <2>1 DEF WriterAsks
      <4>2. S \subseteq PoolIds
        BY <4>1
      <4> QED BY <1>2, <4>2, FewAccounts, FS_Subset
    <3> HIDE DEF S, T
    <3>2. Cardinality(T) <= Cardinality(S) /\ Cardinality(T) \in Nat /\ Cardinality(S) \in Nat
      BY <3>1, FS_Subset, FS_CardinalityType
    <3>3. Cardinality(T) > 1 => Cardinality(S) > 1
      BY <3>2
    <3> QED BY <3>3 DEF S, T
  <2>5. WriterAsks(y)'
    BY <1>4, <2>1, <2>3, <2>4 DEF WriterAsks
  <2> QED BY <2>2, <2>5 DEF WriterAsks
<1>6. ASSUME NEW r \in Readers PROVE (ReaderFields(reader[r]) /\ ReaderAsks(reader[r]))'
  <2>1. PICK x : x = reader[r] /\ ReaderFields(x) /\ ReaderAsks(x)
    BY DEF AccountsAsked
  <2>2. PICK y : y = reader'[r] /\ y = [x EXCEPT !.could = @ \ {a}]
    BY <1>1, <2>1
  <2>3. /\ y.pc = x.pc /\ y.could = x.could \ {a} /\ y.rest = x.rest /\ y.acc = x.acc /\ ReaderFields(y)
    BY <2>1, <2>2 DEF ReaderFields
  <2>4. ReaderAsks(y)'
    BY <1>4, <2>1, <2>3 DEF ReaderAsks
  <2> QED BY <2>2, <2>3, <2>4 DEF ReaderAsks, ReaderFields
<1>7. reader' = [r \in Readers |-> reader'[r]]
  BY <1>1
<1> QED BY <1>2, <1>3, <1>5, <1>6, <1>7 DEF AccountsAsked

LEMMA AskedStarts == PoolInit => AccountsAsked
<1> SUFFICES ASSUME PoolInit PROVE AccountsAsked
  OBVIOUS
<1>1. \A w \in Writers : WriterAsks(writer[w])
  BY DEF PoolInit, FreshWriter, WriterAsks
<1>2. \A r \in Readers : ReaderFields(reader[r]) /\ ReaderAsks(reader[r])
  BY DEF PoolInit, FreshReader, ReaderFields, ReaderAsks
<1>3. roundRobin \in Nat /\ state = [a \in PoolIds |-> state[a]] /\ reader = [r \in Readers |-> reader[r]]
  BY DEF PoolInit
<1> QED BY <1>1, <1>2, <1>3 DEF AccountsAsked

LEMMA AskedKept == PoolShape /\ AccountsAsked /\ [PoolNext]_poolVars => AccountsAsked'
<1> SUFFICES ASSUME PoolShape, AccountsAsked, [PoolNext]_poolVars PROVE AccountsAsked'
  OBVIOUS
<1>1. CASE ReferenceExpires \/ UNCHANGED poolVars
  <2>1. UNCHANGED <<accounts, state, writer, reader, roundRobin>>
    BY <1>1 DEF ReferenceExpires, poolVars
  <2>2. ASSUME NEW w \in Writers PROVE WriterAsks(writer[w])'
    <3>1. PICK x : x = writer[w] /\ WriterAsks(x)
      BY DEF AccountsAsked
    <3>2. WriterAsks(x)' /\ x = writer'[w]
      BY <2>1, <3>1, AsksStay
    <3> QED BY <3>2 DEF WriterAsks
  <2>3. ASSUME NEW r \in Readers PROVE (ReaderFields(reader[r]) /\ ReaderAsks(reader[r]))'
    <3>1. PICK x : x = reader[r] /\ ReaderFields(x) /\ ReaderAsks(x)
      BY DEF AccountsAsked
    <3>2. ReaderAsks(x)' /\ x = reader'[r]
      BY <2>1, <3>1, AsksStay
    <3> QED BY <3>1, <3>2 DEF ReaderAsks, ReaderFields
  <2> QED BY <2>1, <2>2, <2>3 DEF AccountsAsked
<1> QED BY <1>1, WriterAround, ReaderAround, AccountAround DEF PoolNext

\* beginChunk() and readRange() fail only when no account was able to serve all the
\* time they took, or when two accounts that were tried have been removed since: a
\* writer counts the accounts it has tried, which are no more than those there are,
\* and a reader has everybody still to ask who could serve it all along.
THEOREM NobodyCould == PoolSpec => []FailsOnlyWhenNobodyCan
<1>1. PoolShape /\ AccountsAsked => FailsOnlyWhenNobodyCan
  BY DEF AccountsAsked, WriterAsks, ReaderAsks, FailsOnlyWhenNobodyCan, At
<1> QED BY <1>1, PoolStarts, PoolKept, AskedStarts, AskedKept, PTL DEF PoolSpec

-----------------------------------------------------------------------------
(* The pool: whom writers and readers hold *)

\* A writer that holds an account holds one of the list; a reader may keep one that
\* was there when it asked.
WriterSits(x) == /\ x.acc \in Listed \cup {NoAccount}
                 /\ x.pc \in {"connect", "accepted", "open"} => x.acc \in Listed
ReaderSits(x) == /\ x.acc \in PoolIds \cup {NoAccount} /\ x.rest \in Seq(PoolIds)
                 /\ x.pc \in {"localize", "renew", "read", "reread", "alt"} => x.acc \in PoolIds

Located == loc.hash \in PoolIds /\ loc.fresh \in BOOLEAN

\* Nobody is listed twice, and whoever is not listed has no load.
PoolSits ==
    /\ \A i, j \in DOMAIN accounts : accounts[i] = accounts[j] => i = j
    /\ \A a \in PoolIds \ Listed : activeUploads[a] = 0
    /\ \A w \in Writers : WriterSits(writer[w])
    /\ \A r \in Readers : ReaderSits(reader[r])
    /\ Located

LEMMA SitsStay ==
    ASSUME UNCHANGED accounts, NEW x
    PROVE  (WriterSits(x) => WriterSits(x)') /\ (ReaderSits(x) => ReaderSits(x)')
BY DEF WriterSits, ReaderSits, Listed

LEMMA WritersSit ==
    ASSUME PoolShape, AccountsAsked, PoolSits, UNCHANGED <<accounts, reader, loc>>,
           \A a \in PoolIds \ Listed : activeUploads'[a] = 0,
           NEW w \in Writers, NEW y, writer' = [writer EXCEPT ![w] = y], WriterSits(y)
    PROVE  PoolSits'
<1>1. ASSUME NEW v \in Writers PROVE WriterSits(writer[v])'
  <2>1. PICK x : x = writer'[v] /\ WriterSits(x)
    BY DEF PoolShape, PoolSits
  <2>2. WriterSits(x)'
    BY <2>1, SitsStay
  <2> QED BY <2>1, <2>2 DEF WriterSits
<1>2. ASSUME NEW r \in Readers PROVE ReaderSits(reader[r])'
  <2>1. PICK x : x = reader[r] /\ ReaderSits(x)
    BY DEF PoolSits
  <2>2. ReaderSits(x)' /\ x = reader'[r]
    BY <2>1, SitsStay
  <2> QED BY <2>1, <2>2 DEF ReaderSits
<1> QED BY <1>1, <1>2 DEF PoolSits, Listed, Located

LEMMA ReadersSit ==
    ASSUME PoolShape, AccountsAsked, PoolSits, UNCHANGED <<accounts, writer, activeUploads>>, Located',
           NEW q \in Readers, NEW y, reader' = [reader EXCEPT ![q] = y], ReaderSits(y)
    PROVE  PoolSits'
<1>1. ASSUME NEW v \in Writers PROVE WriterSits(writer[v])'
  <2>1. PICK x : x = writer'[v] /\ WriterSits(x)
    BY DEF PoolSits
  <2>2. WriterSits(x)'
    BY <2>1, SitsStay
  <2> QED BY <2>1, <2>2 DEF WriterSits
<1>2. ASSUME NEW r \in Readers PROVE ReaderSits(reader[r])'
  <2>1. PICK x : x = reader'[r] /\ ReaderSits(x)
    BY DEF AccountsAsked, PoolSits
  <2>2. ReaderSits(x)'
    BY <2>1, SitsStay
  <2> QED BY <2>1, <2>2 DEF ReaderSits
<1> QED BY <1>1, <1>2 DEF PoolSits, Listed

LEMMA SeatedStarts == PoolInit => PoolSits
<1> SUFFICES ASSUME PoolInit PROVE PoolSits
  OBVIOUS
<1>1. \A w \in Writers : WriterSits(writer[w])
  BY DEF PoolInit, FreshWriter, WriterSits
<1>2. \A r \in Readers : ReaderSits(reader[r])
  <2>1. ReaderSits(FreshReader)
    <3>1. FreshReader.acc = NoAccount /\ FreshReader.rest = <<>> /\ FreshReader.pc = "idle" /\ <<>> \in Seq(PoolIds)
      BY DEF FreshReader
    <3> QED BY <3>1 DEF ReaderSits
  <2> QED BY <2>1 DEF PoolInit
<1>3. Located
  BY DEF PoolInit, Located
<1>4. \A i, j \in DOMAIN accounts : accounts[i] = accounts[j] => i = j
  BY PoolAssumption DEF PoolInit
<1>5. \A a \in PoolIds : activeUploads[a] = 0
  BY DEF PoolInit
<1> QED BY <1>1, <1>2, <1>3, <1>4, <1>5 DEF PoolSits

LEMMA WriterSeated ==
    ASSUME PoolShape, AccountsAsked, PoolSits, NEW w \in Writers,
           \/ BeginChunk(w) \/ PickAccount(w) \/ Accepts(w) \/ Declines(w)
           \/ OpenWriter(w) \/ CloseWriter(w) \/ DestroyWriter(w) \/ DropWriter(w)
    PROVE  PoolSits'
<1> DEFINE x == writer[w]
<1>0. WriterFields(x) /\ WriterSits(x) /\ roundRobin \in Nat /\ w \in DOMAIN writer
  BY DEF PoolShape, AccountsAsked, PoolSits
<1>1. UNCHANGED <<accounts, reader, loc>>
  BY DEF BeginChunk, PickAccount, Accepts, Declines, OpenWriter, CloseWriter, DestroyWriter, DropWriter
<1>2. \A a \in PoolIds \ Listed : activeUploads'[a] = 0
  <2>1. CASE OpenWriter(w)
    <3>1. x.acc \in Listed /\ activeUploads' = [activeUploads EXCEPT ![x.acc] = @ + 1]
      BY <1>0, <2>1 DEF OpenWriter, At, WriterSits
    <3> QED BY <3>1 DEF PoolSits, PoolShape
  <2>2. CASE CloseWriter(w) \/ DropWriter(w)
    <3>1. x.acc \in Listed /\ Release(x.acc)
      BY <1>0, <2>2 DEF CloseWriter, DropWriter, At, WriterSits
    <3> QED BY <3>1 DEF PoolSits, PoolShape, Release
  <2>3. CASE UNCHANGED activeUploads
    BY <2>3 DEF PoolSits
  <2> QED BY <2>1, <2>2, <2>3 DEF BeginChunk, PickAccount, Accepts, Declines, DestroyWriter
<1>3. PICK y : writer' = [writer EXCEPT ![w] = y] /\ WriterSits(y)
  <2>1. ASSUME NEW y, writer' = [writer EXCEPT ![w] = y], WriterSits(y)
        PROVE  \E z : writer' = [writer EXCEPT ![w] = z] /\ WriterSits(z)
    BY <2>1
  <2>2. CASE BeginChunk(w)
    <3> DEFINE y == [FreshWriter EXCEPT !.pc = "pick", !.could = {a \in PoolIds : CanServe(a)}]
    <3>1. WriterSits(y)
      BY DEF WriterSits, FreshWriter
    <3>2. writer' = [writer EXCEPT ![w] = y]
      BY <2>2 DEF BeginChunk
    <3> HIDE DEF y
    <3> QED BY <2>1, <3>1, <3>2
  <2>3. CASE PickAccount(w)
    <3>1. PICK a : a = Best(x.tried)
      OBVIOUS
    <3>2. a = NoAccount \/ a \in Listed
      BY <1>0, <3>1, BestIs
    <3>3. CASE a # NoAccount /\ x.round < Len(accounts) + 1
      <4> DEFINE y == [x EXCEPT !.pc = "connect", !.acc = a, !.tried = @ \cup {a}, !.round = @ + 1]
      <4>1. writer' = [writer EXCEPT ![w] = y]
        BY <1>0, <2>3, <3>1, <3>3 DEF PickAccount
      <4>2. y.acc = a
        <5> HIDE DEF x
        <5> QED BY <1>0 DEF WriterFields
      <4> HIDE DEF y
      <4>3. WriterSits(y)
        BY <3>2, <3>3, <4>2 DEF WriterSits
      <4> QED BY <2>1, <4>1, <4>3
    <3>4. CASE ~(a # NoAccount /\ x.round < Len(accounts) + 1)
      <4> DEFINE y == [x EXCEPT !.pc = "failed"]
      <4>1. writer' = [writer EXCEPT ![w] = y]
        BY <1>0, <2>3, <3>1, <3>4 DEF PickAccount
      <4>2. y.acc = x.acc /\ y.pc = "failed"
        <5> HIDE DEF x
        <5> QED BY <1>0 DEF WriterFields
      <4> HIDE DEF y
      <4>3. WriterSits(y)
        BY <1>0, <4>2 DEF WriterSits
      <4> QED BY <2>1, <4>1, <4>3
    <3> QED BY <3>3, <3>4
  <2>4. CASE Accepts(w) \/ Declines(w) \/ CloseWriter(w)
    <3>1. PICK y : /\ writer' = [writer EXCEPT ![w] = y]
                   /\ \/ y = [x EXCEPT !.pc = "accepted"] /\ x.pc = "connect"
                      \/ y = [x EXCEPT !.pc = "closed"]
                      \/ y = [x EXCEPT !.pc = "pick", !.could = x.could \ {x.acc}]
      BY <1>0, <2>4 DEF Accepts, Declines, CloseWriter, At
    <3>2. y.acc = x.acc /\ (y.pc \in {"closed", "pick"} \/ x.pc = "connect")
      <4> HIDE DEF x
      <4> QED BY <1>0, <3>1 DEF WriterFields
    <3>3. WriterSits(y)
      BY <1>0, <3>2 DEF WriterSits
    <3> QED BY <2>1, <3>1, <3>3
  <2>5. CASE OpenWriter(w)
    <3> DEFINE y == [FreshWriter EXCEPT !.pc = "open", !.acc = x.acc]
    <3>1. writer' = [writer EXCEPT ![w] = y] /\ x.pc = "accepted"
      BY <2>5 DEF OpenWriter, At
    <3>2. y.acc = x.acc /\ x.acc \in Listed
      BY <1>0, <3>1 DEF FreshWriter, WriterSits
    <3> HIDE DEF y
    <3>3. WriterSits(y)
      BY <3>2 DEF WriterSits
    <3> QED BY <2>1, <3>1, <3>3
  <2>6. CASE DestroyWriter(w) \/ DropWriter(w)
    <3>1. WriterSits(FreshWriter)
      BY DEF WriterSits, FreshWriter
    <3>2. writer' = [writer EXCEPT ![w] = FreshWriter]
      BY <2>6 DEF DestroyWriter, DropWriter
    <3> QED BY <2>1, <3>1, <3>2
  <2> QED BY <2>2, <2>3, <2>4, <2>5, <2>6
<1> QED BY <1>1, <1>2, <1>3, WritersSit

LEMMA ReaderSeated ==
    ASSUME PoolShape, AccountsAsked, PoolSits, NEW r \in Readers,
           \/ BeginRead(r) \/ AskReference(r) \/ Downloads(r) \/ DownloadFails(r)
           \/ ListOthers(r) \/ TryOther(r) \/ EndRead(r) \/ BeginRemove(r) \/ DeleteMessages(r)
    PROVE  PoolSits'
<1> DEFINE x == reader[r]
<1>0. /\ ReaderFields(x) /\ ReaderSits(x) /\ roundRobin \in Nat /\ r \in DOMAIN reader
      /\ UNCHANGED <<accounts, writer, activeUploads>>
  BY ReaderLeaves DEF AccountsAsked, PoolSits
<1>1. ASSUME NEW y, reader' = [reader EXCEPT ![r] = y], ReaderSits(y), Located' PROVE PoolSits'
  BY <1>0, <1>1, ReadersSit
<1>2. Located' /\ (x.pc \in {"read", "reread", "alt"} => x.acc \in PoolIds)
  <2>1. x.pc \in {"read", "reread", "alt"} => x.acc \in PoolIds
    BY <1>0 DEF ReaderSits
  <2>2. CASE Downloads(r)
    <3>1. x.hash \in PoolIds /\ loc' = [hash |-> x.hash, fresh |-> TRUE]
      BY <2>1, <2>2 DEF Downloads
    <3> QED BY <2>1, <3>1 DEF Located
  <2>3. CASE UNCHANGED loc
    BY <2>1, <2>3 DEF PoolSits, Located
  <2> QED BY <2>2, <2>3 DEF BeginRead, AskReference, DownloadFails, ListOthers, TryOther, EndRead, BeginRemove, DeleteMessages
<1>3. /\ \A pc, a : a \in PoolIds \/ (a = NoAccount /\ pc \in {"idle", "served", "failed", "kept"})
                       => ReaderSits([FreshReader EXCEPT !.pc = pc, !.acc = a])
      /\ \A y : ReaderFields(y) /\ y.acc \in PoolIds /\ y.rest \in Seq(PoolIds) => ReaderSits(y)
  <2>1. ASSUME NEW pc, NEW a, a \in PoolIds \/ (a = NoAccount /\ pc \in {"idle", "served", "failed", "kept"})
        PROVE  ReaderSits([FreshReader EXCEPT !.pc = pc, !.acc = a])
    <3> DEFINE y == [FreshReader EXCEPT !.pc = pc, !.acc = a]
    <3>1. y.pc = pc /\ y.acc = a /\ y.rest = <<>> /\ <<>> \in Seq(PoolIds)
      BY DEF FreshReader
    <3> HIDE DEF y
    <3>2. ReaderSits(y)
      BY <2>1, <3>1 DEF ReaderSits
    <3> QED BY <3>2 DEF y
  <2> QED BY <2>1 DEF ReaderSits
<1>4. CASE BeginRead(r)
  <2>1. PICK h : h = loc.hash /\ h \in PoolIds
    BY DEF PoolSits, Located
  <2>2. PICK a : a = IF Usable(h) THEN h ELSE Best({})
    OBVIOUS
  <2>3. a \in PoolIds \/ a = NoAccount
    BY <1>0, <2>1, <2>2, BestIs, SeatsAre
  <2>4. PICK pc, f, c : /\ reader' = [reader EXCEPT ![r] =
                              [FreshReader EXCEPT !.pc = pc, !.acc = a, !.hash = h, !.fresh = f, !.could = c]]
                        /\ pc = IF a = NoAccount THEN "failed" ELSE IF a # h THEN "localize" ELSE "read"
    <3> DEFINE c == {b \in PoolIds : CanServe(b)}
               pc == IF a = NoAccount THEN "failed" ELSE IF a # h THEN "localize" ELSE "read"
    <3>1. reader' = [reader EXCEPT ![r] =
                        [FreshReader EXCEPT !.pc = pc, !.acc = a, !.hash = h, !.fresh = loc.fresh, !.could = c]]
      BY <1>4, <2>1, <2>2 DEF BeginRead
    <3> HIDE DEF c
    <3> QED BY <3>1
  <2> DEFINE y == [FreshReader EXCEPT !.pc = pc, !.acc = a, !.hash = h, !.fresh = f, !.could = c]
  <2>5. y.pc = pc /\ y.acc = a /\ y.rest = <<>> /\ <<>> \in Seq(PoolIds)
    BY DEF FreshReader
  <2>6. reader' = [reader EXCEPT ![r] = y]
    BY <2>4
  <2> HIDE DEF y
  <2>7. ReaderSits(y)
    BY <2>3, <2>4, <2>5 DEF ReaderSits
  <2> QED BY <1>1, <1>2, <2>6, <2>7
<1>5. CASE AskReference(r)
  <2>1. x.acc \in PoolIds /\ x.rest \in Seq(PoolIds)
    BY <1>0, <1>5 DEF AskReference, At, ReaderSits
  <2>2. PICK y : /\ reader' = [reader EXCEPT ![r] = y]
                 /\ \/ \E pc \in {"read", "reread"} : y = [x EXCEPT !.pc = pc, !.hash = x.acc, !.fresh = TRUE]
                    \/ \E pc \in {"read", "others"} : y = [x EXCEPT !.pc = pc, !.could = x.could \ {x.acc}]
    <3>1. CASE reader' = [reader EXCEPT ![r] = Refreshed(r, x.acc, IF At(x, "renew") THEN "reread" ELSE "read", x)]
      BY <3>1 DEF Refreshed
    <3>2. CASE reader' = [reader EXCEPT ![r].pc = IF At(x, "renew") THEN "others" ELSE "read", ![r].could = @ \ {x.acc}]
      BY <1>0, <3>2
    <3> QED BY <1>5, <3>1, <3>2 DEF AskReference
  <2>3. ReaderFields(y) /\ y.acc = x.acc /\ y.rest = x.rest
    <3> HIDE DEF x
    <3> QED BY <1>0, <2>2 DEF ReaderFields
  <2> QED BY <1>1, <1>2, <1>3, <2>1, <2>2, <2>3
<1>6. CASE DownloadFails(r)
  <2>1. x.acc \in PoolIds /\ x.rest \in Seq(PoolIds)
    BY <1>0, <1>6 DEF DownloadFails, At, ReaderSits
  <2>2. PICK y, pc, c : reader' = [reader EXCEPT ![r] = y] /\ y = [x EXCEPT !.pc = pc, !.could = c]
    <3> DEFINE pc == IF At(x, "read") THEN "renew" ELSE IF At(x, "reread") THEN "others" ELSE "next"
               c == IF At(x, "read") THEN x.could ELSE x.could \ {x.acc}
    <3>1. reader' = [reader EXCEPT ![r] = [x EXCEPT !.pc = pc, !.could = c]]
      BY <1>6 DEF DownloadFails
    <3> HIDE DEF pc, c
    <3> QED BY <3>1
  <2>3. ReaderFields(y) /\ y.acc = x.acc /\ y.rest = x.rest
    <3> HIDE DEF x
    <3> QED BY <1>0, <2>2 DEF ReaderFields
  <2> QED BY <1>1, <1>2, <1>3, <2>1, <2>2, <2>3
<1>7. CASE ListOthers(r)
  <2>1. PICK q : q = Those(accounts, {a \in Listed : Usable(a) /\ a # x.acc})
    OBVIOUS
  <2>2. q \in Seq(PoolIds)
    BY <2>1, ThoseAre DEF PoolShape
  <2>3. PICK y : reader' = [reader EXCEPT ![r] = y] /\ y = [x EXCEPT !.pc = "next", !.rest = q]
    BY <1>0, <1>7, <2>1 DEF ListOthers
  <2>4. y.pc = "next" /\ y.rest = q /\ y.acc = x.acc
    <3> HIDE DEF x
    <3> QED BY <1>0, <2>3 DEF ReaderFields
  <2>5. ReaderSits(y)
    BY <1>0, <2>2, <2>4 DEF ReaderSits
  <2> QED BY <1>1, <1>2, <2>3, <2>5
<1>8. CASE TryOther(r)
  <2>0. x.rest \in Seq(PoolIds)
    BY <1>0 DEF ReaderSits
  <2>1. CASE x.rest = <<>>
    <3>1. PICK y : reader' = [reader EXCEPT ![r] = y] /\ y = [x EXCEPT !.pc = "failed"]
      BY <1>0, <1>8, <2>1 DEF TryOther
    <3>2. y.pc = "failed" /\ y.rest = x.rest /\ y.acc = x.acc
      <4> HIDE DEF x
      <4> QED BY <1>0, <3>1 DEF ReaderFields
    <3>3. ReaderSits(y)
      BY <1>0, <3>2 DEF ReaderSits
    <3> QED BY <1>1, <1>2, <3>1, <3>3
  <2>2. CASE x.rest # <<>>
    <3>1. PICK a, t : a = Head(x.rest) /\ t = Tail(x.rest) /\ a \in PoolIds /\ t \in Seq(PoolIds)
      BY <2>0, <2>2, HeadTailProperties, EmptySeq
    <3>2. PICK y, h, f, c : /\ reader' = [reader EXCEPT ![r] = y]
                            /\ y = [x EXCEPT !.pc = "alt", !.acc = a, !.rest = t, !.hash = h, !.fresh = f, !.could = c]
      <4> DEFINE z == [x EXCEPT !.pc = "alt", !.acc = a, !.rest = Tail(@), !.hash = loc.hash, !.fresh = loc.fresh]
      <4>1. \/ reader' = [reader EXCEPT ![r] = Refreshed(r, a, "alt", z)]
            \/ reader' = [reader EXCEPT ![r] = [z EXCEPT !.could = @ \ {a}]]
        BY <1>8, <2>2, <3>1 DEF TryOther
      <4> HIDE DEF x
      <4>2. /\ Refreshed(r, a, "alt", z) =
                  [x EXCEPT !.pc = "alt", !.acc = a, !.rest = t, !.hash = a, !.fresh = TRUE, !.could = x.could]
            /\ [z EXCEPT !.could = @ \ {a}] =
                  [x EXCEPT !.pc = "alt", !.acc = a, !.rest = t, !.hash = loc.hash, !.fresh = loc.fresh,
                            !.could = x.could \ {a}]
        BY <1>0, <3>1 DEF Refreshed, ReaderFields
      <4> HIDE DEF z
      <4>3. CASE reader' = [reader EXCEPT ![r] = Refreshed(r, a, "alt", z)]
        BY <4>2, <4>3
      <4>4. CASE reader' = [reader EXCEPT ![r] = [z EXCEPT !.could = @ \ {a}]]
        BY <4>2, <4>4
      <4> QED BY <4>1, <4>3, <4>4
    <3>3. ReaderFields(y) /\ y.acc = a /\ y.rest = t
      <4> HIDE DEF x
      <4> QED BY ONLY <1>0, <3>2 DEF ReaderFields
    <3> QED BY <1>1, <1>2, <1>3, <3>1, <3>2, <3>3
  <2> QED BY <2>1, <2>2
<1>9. CASE Downloads(r) \/ EndRead(r) \/ DeleteMessages(r)
  <2>1. PICK pc : pc \in {"idle", "served", "kept"} /\ reader' = [reader EXCEPT ![r] = [FreshReader EXCEPT !.pc = pc]]
    <3>1. FreshReader = [FreshReader EXCEPT !.pc = "idle"]
      BY FreshReads
    <3> QED BY <1>9, <3>1 DEF Downloads, EndRead, DeleteMessages
  <2>2. [FreshReader EXCEPT !.pc = pc] = [FreshReader EXCEPT !.pc = pc, !.acc = NoAccount]
    BY FreshReads
  <2>3. ReaderSits([FreshReader EXCEPT !.pc = pc])
    BY <1>3, <2>1, <2>2
  <2> QED BY <1>1, <1>2, <2>1, <2>3
<1>10. CASE BeginRemove(r)
  <2>1. PICK a : a = IF loc.hash \in Listed /\ state[loc.hash].auth THEN loc.hash ELSE Best({})
    OBVIOUS
  <2>2. PICK y, pc : /\ reader' = [reader EXCEPT ![r] = y] /\ y = [FreshReader EXCEPT !.pc = pc, !.acc = a]
                     /\ pc = IF a = NoAccount THEN "kept" ELSE "delete"
    <3>1. reader' = [reader EXCEPT ![r] = [FreshReader EXCEPT
                         !.pc = IF a = NoAccount THEN "kept" ELSE "delete", !.acc = a]]
      BY <1>10, <2>1, Zenon DEF BeginRemove
    <3> QED BY <3>1
  <2>3. a \in PoolIds \/ a = NoAccount
    BY <1>0, <2>1, BestIs, SeatsAre DEF PoolSits, Located
  <2>4. ReaderSits(y)
    <3>1. a \in PoolIds \/ (a = NoAccount /\ pc \in {"idle", "served", "failed", "kept"})
      BY <2>2, <2>3
    <3>2. ReaderSits([FreshReader EXCEPT !.pc = pc, !.acc = a])
      BY ONLY <1>3, <3>1
    <3> QED BY <2>2, <3>2
  <2> QED BY <1>1, <1>2, <2>2, <2>4
<1> QED BY <1>4, <1>5, <1>6, <1>7, <1>8, <1>9, <1>10

\* Erasing one element leaves the others where nothing is twice.
LEMMA ErasedOnce ==
    ASSUME NEW S, NEW q \in Seq(S), NEW i \in 1..Len(q), \A j, k \in DOMAIN q : q[j] = q[k] => j = k,
           NEW p, p = SubSeq(q, 1, i - 1) \o SubSeq(q, i + 1, Len(q))
    PROVE  \A j, k \in DOMAIN p : p[j] = p[k] => j = k
<1> DEFINE l == SubSeq(q, 1, i - 1)
           r == SubSeq(q, i + 1, Len(q))
<1>1. /\ l \in Seq(S) /\ Len(l) = i - 1 /\ \A j \in 1..i - 1 : l[j] = q[j]
  OBVIOUS
<1>2. /\ r \in Seq(S) /\ Len(r) = Len(q) - i /\ \A j \in 1..Len(q) - i : r[j] = q[i + j]
  OBVIOUS
<1>3. Len(q) \in Nat /\ DOMAIN q = 1..Len(q)
  OBVIOUS
<1> HIDE DEF l, r
<1>4. /\ p \in Seq(S) /\ Len(p) = Len(l) + Len(r) /\ DOMAIN p = 1..Len(p)
      /\ \A j \in 1..Len(l) + Len(r) : p[j] = IF j <= Len(l) THEN l[j] ELSE r[j - Len(l)]
  <2>1. p = l \o r
    BY DEF l, r
  <2>2. l \in Seq(S) /\ r \in Seq(S)
    BY <1>1, <1>2
  <2>3. /\ p \in Seq(S) /\ Len(p) = Len(l) + Len(r)
        /\ \A j \in 1..Len(l) + Len(r) : p[j] = IF j <= Len(l) THEN l[j] ELSE r[j - Len(l)]
    BY ONLY <2>1, <2>2, ConcatProperties
  <2>4. DOMAIN p = 1..Len(p)
    BY <2>3
  <2> QED BY <2>3, <2>4
<1>5. DOMAIN p = 1..Len(q) - 1 /\ i \in Nat /\ Len(q) \in Nat /\ 1 <= i /\ i <= Len(q)
  <2>1. Len(p) = (i - 1) + (Len(q) - i) /\ DOMAIN p = 1..Len(p)
    BY <1>1, <1>2, <1>4
  <2>2. i \in Nat /\ Len(q) \in Nat /\ 1 <= i /\ i <= Len(q)
    BY <1>3
  <2>3. Len(p) = Len(q) - 1
    BY ONLY <2>1, <2>2
  <2> QED BY <2>1, <2>2, <2>3
<1> DEFINE At1(j) == IF j < i THEN j ELSE j + 1
<1>6. ASSUME NEW j \in DOMAIN p PROVE At1(j) \in DOMAIN q /\ p[j] = q[At1(j)]
  <2>0. j \in 1..Len(q) - 1 /\ j \in 1..Len(l) + Len(r)
    <3>1. Len(p) = Len(l) + Len(r) /\ DOMAIN p = 1..Len(p)
      BY <1>4
    <3> QED BY <1>5, <3>1
  <2>1. CASE j < i
    <3>1. j \in 1..i - 1 /\ j <= Len(l) /\ j \in 1..Len(q)
      BY <1>1, <1>3, <2>0, <2>1
    <3>2. p[j] = q[j]
      BY <1>1, <1>4, <2>0, <3>1
    <3> QED BY <1>3, <2>1, <3>1, <3>2
  <2>2. CASE ~(j < i)
    <3>1. ~(j <= Len(l)) /\ j - Len(l) = j - i + 1 /\ j - i + 1 \in 1..Len(q) - i /\ i + (j - i + 1) = j + 1
          /\ j + 1 \in 1..Len(q)
      <4>1. Len(l) = i - 1 /\ j \in Nat /\ j <= Len(q) - 1
        BY <1>1, <1>5, <2>0
      <4> QED BY ONLY <1>5, <2>2, <4>1
    <3>2. p[j] = r[j - i + 1] /\ r[j - i + 1] = q[j + 1]
      BY <1>2, <1>4, <2>0, <3>1
    <3> QED BY <1>3, <2>2, <3>1, <3>2
  <2> QED BY <2>1, <2>2
<1>7. \A j, k \in DOMAIN p : At1(j) = At1(k) => j = k
  <2>1. \A j, k \in 1..Len(q) - 1 : At1(j) = At1(k) => j = k
    BY ONLY <1>5
  <2> QED BY <1>5, <2>1
<1> HIDE DEF At1
<1> SUFFICES ASSUME NEW j \in DOMAIN p, NEW k \in DOMAIN p, p[j] = p[k] PROVE j = k
  OBVIOUS
<1>8. q[At1(j)] = q[At1(k)] /\ At1(j) \in DOMAIN q /\ At1(k) \in DOMAIN q
  BY <1>6
<1> QED BY <1>7, <1>8

LEMMA AccountSeated ==
    ASSUME PoolShape, AccountsAsked, PoolSits, NEW a \in PoolIds,
           RemoveFromPool(a) \/ \E f \in {"enabled", "auth", "flooded", "member"} : AccountChanges(a, f)
    PROVE  PoolSits'
<1>1. /\ writer' = [w \in Writers |-> [writer[w] EXCEPT !.could = @ \ {a}]]
      /\ reader' = [r \in Readers |-> [reader[r] EXCEPT !.could = @ \ {a}]]
      /\ loc' = loc
  BY DEF RemoveFromPool, AccountChanges, Lost
<1>2. /\ \A i, j \in DOMAIN accounts' : accounts'[i] = accounts'[j] => i = j
      /\ \A b \in Listed : b \in Listed' \/ (b = a /\ RemoveFromPool(a))
  <2>1. CASE RemoveFromPool(a)
    <3>1. PICK i \in DOMAIN accounts :
             accounts[i] = a /\ accounts' = SubSeq(accounts, 1, i - 1) \o SubSeq(accounts, i + 1, Len(accounts))
      BY <2>1 DEF RemoveFromPool, Erase
    <3>2. i \in 1..Len(accounts) /\ accounts \in Seq(PoolIds) /\ DOMAIN accounts = 1..Len(accounts)
      BY DEF PoolShape
    <3>3. \A b \in Listed : b # a => b \in Listed'
      BY <3>1, <3>2, ErasedKeeps DEF Listed
    <3>4. \A k, j \in DOMAIN accounts : accounts[k] = accounts[j] => k = j
      BY DEF PoolSits
    <3>5. \A k, j \in DOMAIN accounts' : accounts'[k] = accounts'[j] => k = j
      BY <3>1, <3>2, <3>4, ErasedOnce
    <3> QED BY <2>1, <3>3, <3>5
  <2>2. CASE \E f \in {"enabled", "auth", "flooded", "member"} : AccountChanges(a, f)
    BY <2>2 DEF AccountChanges, Listed, PoolSits
  <2> QED BY <2>1, <2>2
<1>3. \A b \in PoolIds \ Listed' : activeUploads'[b] = 0
  <2>1. CASE RemoveFromPool(a)
    <3>1. activeUploads' = [activeUploads EXCEPT ![a] = 0]
      BY <2>1 DEF RemoveFromPool
    <3> QED BY <1>2, <3>1 DEF PoolSits, PoolShape
  <2>2. CASE \E f \in {"enabled", "auth", "flooded", "member"} : AccountChanges(a, f)
    BY <2>2 DEF AccountChanges, Listed, PoolSits
  <2> QED BY <2>1, <2>2
<1>4. \A w \in Writers : RemoveFromPool(a) => writer[w].acc # a
  BY DEF RemoveFromPool
<1>5. ASSUME NEW w \in Writers PROVE WriterSits(writer[w])'
  <2>1. PICK x : x = writer[w] /\ WriterFields(x) /\ WriterSits(x)
    BY DEF PoolShape, PoolSits
  <2>2. PICK y : y = writer'[w] /\ y = [x EXCEPT !.could = @ \ {a}]
    BY <1>1, <2>1
  <2>3. y.pc = x.pc /\ y.acc = x.acc
    BY <2>1, <2>2 DEF WriterFields
  <2>4. WriterSits(y)'
    BY <1>2, <1>4, <2>1, <2>3 DEF WriterSits
  <2> QED BY <2>2, <2>4 DEF WriterSits
<1>6. ASSUME NEW r \in Readers PROVE ReaderSits(reader[r])'
  <2>1. PICK x : x = reader[r] /\ ReaderFields(x) /\ ReaderSits(x)
    BY DEF AccountsAsked, PoolSits
  <2>2. PICK y : y = reader'[r] /\ y = [x EXCEPT !.could = @ \ {a}]
    BY <1>1, <2>1
  <2>3. y.pc = x.pc /\ y.rest = x.rest /\ y.acc = x.acc
    BY <2>1, <2>2 DEF ReaderFields
  <2>4. ReaderSits(y)'
    BY <2>1, <2>3 DEF ReaderSits
  <2> QED BY <2>2, <2>4 DEF ReaderSits
<1>7. Located'
  BY <1>1 DEF PoolSits, Located
<1> QED BY <1>2, <1>3, <1>5, <1>6, <1>7 DEF PoolSits

LEMMA SeatedKept == PoolShape /\ AccountsAsked /\ PoolSits /\ [PoolNext]_poolVars => PoolSits'
<1> SUFFICES ASSUME PoolShape, AccountsAsked, PoolSits, [PoolNext]_poolVars PROVE PoolSits'
  OBVIOUS
<1>1. CASE ReferenceExpires \/ UNCHANGED poolVars
  <2>1. UNCHANGED <<accounts, activeUploads, writer, reader>> /\ Located'
    <3>1. CASE ReferenceExpires
      <4>1. loc' = [loc EXCEPT !.fresh = FALSE] /\ UNCHANGED <<accounts, activeUploads, writer, reader>>
        BY <3>1 DEF ReferenceExpires
      <4>2. loc'.hash \in PoolIds /\ loc'.fresh \in BOOLEAN
        BY <3>1, <4>1 DEF PoolSits, Located, ReferenceExpires
      <4> QED BY <4>1, <4>2 DEF Located
    <3>2. CASE UNCHANGED poolVars
      BY <3>2 DEF poolVars, PoolSits, Located
    <3> QED BY <1>1, <3>1, <3>2
  <2> QED BY <2>1 DEF PoolSits, WriterSits, ReaderSits, Listed
<1> QED BY <1>1, WriterSeated, ReaderSeated, AccountSeated DEF PoolNext

\* As many accounts as places, and loads that some writers make.
LEMMA PoolTypes == PoolShape /\ LoadMatchesWriters /\ AccountsAsked /\ PoolSits => PoolTypeOK
<1> SUFFICES ASSUME PoolShape, LoadMatchesWriters, AccountsAsked, PoolSits PROVE PoolTypeOK
  OBVIOUS
<1>1. Listed \subseteq PoolIds
  BY SeatsAre DEF AccountsAsked
<1>2. Cardinality(Listed) = Len(accounts)
  <2> DEFINE n == Len(accounts)
  <2>1. n \in Nat /\ DOMAIN accounts = 1..n /\ accounts = [i \in 1..n |-> accounts[i]]
    BY DEF PoolShape
  <2>2. IsFiniteSet(1..n) /\ Cardinality(1..n) = n
    <3>1. n \in Int /\ 1 \in Int /\ (1 > n => n = 0) /\ (n - 1) + 1 = n
      BY <2>1
    <3> HIDE DEF n
    <3>2. IsFiniteSet(1..n) /\ Cardinality(1..n) = IF 1 > n THEN 0 ELSE n - 1 + 1
      BY <3>1, FS_Interval
    <3> QED BY <3>1, <3>2
  <2>3. accounts \in Bijection(1..n, Listed)
    <3>1. \A i, j \in 1..n : accounts[i] = accounts[j] => i = j
      BY <2>1 DEF PoolSits
    <3> QED BY <2>1, <3>1 DEF Bijection, Injection, Surjection, IsInjective, Listed, Elems
  <2> HIDE DEF n
  <2>4. Cardinality(1..n) = Cardinality(Listed)
    <3>1. ExistsBijection(1..n, Listed)
      BY <2>3 DEF ExistsBijection
    <3> QED BY <2>2, <3>1, FS_Bijection
  <2> QED BY <2>2, <2>4 DEF n
<1>3. ASSUME NEW a \in PoolIds PROVE Load(a) \in 0..Cardinality(Writers)
  <2>1. Cardinality(Writers) \in Nat /\ IsFiniteSet(Writers)
    BY PoolAssumption, FS_CardinalityType
  <2>2. CASE a \in Listed
    <3>1. Open(a) \subseteq Writers
      BY DEF Open
    <3>2. Cardinality(Open(a)) <= Cardinality(Writers) /\ Cardinality(Open(a)) \in Nat
      BY <2>1, <3>1, FS_Subset, FS_CardinalityType
    <3> QED BY <2>1, <2>2, <3>2 DEF LoadMatchesWriters
  <2>3. CASE a \notin Listed
    BY <2>1, <2>3 DEF PoolSits, Load
  <2> QED BY <2>2, <2>3
<1>4. ASSUME NEW w \in Writers PROVE writer[w].acc \in PoolIds \cup {NoAccount} /\ writer[w].tried \subseteq PoolIds
  BY <1>1 DEF PoolSits, WriterSits, AccountsAsked, WriterAsks
<1>5. ASSUME NEW r \in Readers
      PROVE  reader[r].acc \in PoolIds \cup {NoAccount} /\ Elems(reader[r].rest) \subseteq PoolIds
  <2>1. reader[r].acc \in PoolIds \cup {NoAccount} /\ reader[r].rest \in Seq(PoolIds)
    BY DEF PoolSits, ReaderSits
  <2> QED BY <2>1 DEF Elems
<1> QED BY <1>1, <1>2, <1>3, <1>4, <1>5 DEF PoolTypeOK, PoolSits, Located

\* Writers, readers and the list of accounts keep their types, for any accounts: a writer
\* holds an account of the list, a reader one that was there when it asked.
THEOREM PoolTyped == PoolSpec => []PoolTypeOK
BY PoolStarts, PoolKept, AskedStarts, AskedKept, SeatedStarts, SeatedKept, PoolTypes, PTL DEF PoolSpec

-----------------------------------------------------------------------------
(* The three layers together *)

\* A step of one layer leaves the others as they are.
LEMMA OthersRest == [Next]_vars => [RpcNext]_rpcVars /\ [AccNext]_accVars /\ [PoolNext]_poolVars
BY DEF Next, vars

\* The behaviours the run looks at are behaviours of every layer.
THEOREM LayersAlone == Spec => RpcInit /\ [][RpcNext]_rpcVars /\ AccSpec /\ PoolSpec
<1>1. Init => RpcInit /\ AccInit /\ PoolInit
  BY DEF Init
<1> QED BY <1>1, OthersRest, PTL DEF Spec, AccSpec, PoolSpec

\* Every layer keeps its types, for any callers, threads, accounts and bounds.
THEOREM BackendTyped == Spec => []TypeOK
<1>1. RpcTypeOK /\ AccTypeOK /\ PoolTypeOK <=> TypeOK
  BY DEF TypeOK
<1> QED BY <1>1, LayersAlone, LineTyped, AccountTyped, PoolTyped, PTL
=============================================================================
