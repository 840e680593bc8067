------------------------------ MODULE TgAccount ------------------------------
(***************************************************************************)
(* tg::TgAccount: one Telegram account, with a session and an              *)
(* authorisation key per data centre, the loop that calls an API function  *)
(* (tg/tg_account.cpp), logging in (tg/tg_login.cpp) and what the          *)
(* application keeps of it in the database (app/app.cpp).                  *)
(*                                                                         *)
(* A key is the number of the handshake that made it.  The server          *)
(* (external) answers a request by whether it knows the key as logged in,  *)
(* and may ask to wait, break, or send the caller to another data centre.  *)
(* MtprotoSession::invoke() is one answer or a network error: RpcSession   *)
(* has the detail.                                                         *)
(***************************************************************************)
EXTENDS Integers

CONSTANTS
    Threads, Dcs,
    FirstDc,              \* where a new account is tried first (homeDc = 2)
    TrueDc,               \* where the server keeps the account
    FileDc,               \* where its file is
    SoLanThuGoiApi,       \* attempts for network errors
    ChoToiDaGiay,         \* longest single wait taken on
    TongChoToiDaGiay,     \* longest wait in one call
    SoLanThuMayChuHong,   \* resends after an internal error of the server
    Scenes                \* who takes part, and BOUNDS: [threads, waits, breaks, fresh,
                          \* outages, restarts, calls of one thread]

ASSUME AccountAssumption ==
    /\ {FirstDc, TrueDc, FileDc} \subseteq Dcs
    /\ \A n \in {SoLanThuGoiApi, ChoToiDaGiay, TongChoToiDaGiay, SoLanThuMayChuHong} : n \in Nat
    /\ \A s \in Scenes : s.waits \subseteq Nat

VARIABLES
    loaded,      \* loadedKeys_, 0 for none
    sess,        \* sessions_: [on, up, key] per data centre; bare: made away from home
                 \* while the account counted as logged out, and so never authorised
    home,        \* config_.homeDc
    authorized,  \* authorized_
    flood,       \* floodWaitUntil_ lies ahead
    store,       \* rows of session keys in the database
    storedHome,  \* homeDc of the account's row
    login,       \* how far logging in has come
    thread,      \* where each call stands
    made,        \* handshakes done, by data centre
    granted,     \* <<dc, key>> the server knows as logged in
    net,         \* the network works
    moved,       \* a migration has changed home
    late,        \* a step of a login was migrated after a failed attempt
    scene, outages, restarts

accVars == <<loaded, sess, home, authorized, flood, store, storedHome, login, thread,
             made, granted, net, moved, late, scene, outages, restarts>>
dbVars  == <<store, storedHome>>
keyVars == <<loaded, made, granted>>
bounds  == <<moved, late, scene, outages, restarts>>

-----------------------------------------------------------------------------
NoSession == [on |-> FALSE, up |-> FALSE, key |-> 0, bare |-> FALSE]
FreshThread == [pc |-> "idle", want |-> "none", dc |-> FirstDc, att |-> 0, waited |-> 0,
                broken |-> 0, slept |-> 0, waits |-> 0, resent |-> 0, rounds |-> 0, done |-> 0]

\* Requests anyone may make, and those a login makes.
NeedsLogin == {"self", "file"}
LoginSteps == {"sendCode", "signIn", "checkPassword"}
Where(want) == IF want = "file" THEN FileDc ELSE TrueDc

AccTypeOK ==
    /\ \A d \in Dcs : /\ loaded[d] \in 0..made[d] /\ store[d] \in 0..made[d]
                      /\ sess[d].key \in 0..made[d] /\ (sess[d].up => sess[d].on /\ net)
    /\ home \in Dcs /\ storedHome \in Dcs
    /\ authorized \in BOOLEAN /\ flood \in BOOLEAN /\ net \in BOOLEAN
    /\ login \in {"none", "code", "password", "in", "gone"}
    /\ \A t \in Threads : thread[t].dc \in Dcs /\ thread[t].att \in 0..SoLanThuGoiApi

AccInit ==
    /\ scene \in Scenes
    /\ LET old(d) == IF ~scene.fresh /\ d = TrueDc THEN 1 ELSE 0
       IN /\ made   = [d \in Dcs |-> old(d)]
          /\ loaded = made /\ store = made
          /\ granted = {d \in Dcs : old(d) = 1} \X {1}
    /\ login = IF scene.fresh THEN "none" ELSE "in"
    /\ home = (IF scene.fresh THEN FirstDc ELSE TrueDc) /\ storedHome = home
    /\ sess = [d \in Dcs |-> NoSession]
    /\ authorized = FALSE /\ flood = FALSE /\ net = TRUE /\ moved = FALSE /\ late = FALSE
    /\ thread = [t \in Threads |-> FreshThread]
    /\ outages = 0 /\ restarts = 0

In(t, pc)   == thread[t].pc = pc
Set(t, r)   == thread' = [thread EXCEPT ![t] = r]
GoOn(t, pc) == Set(t, [thread[t] EXCEPT !.pc = pc])
Opened(t, pc) == Set(t, [thread[t] EXCEPT !.pc = pc, !.rounds = @ + 1])
Finish(t)   == Set(t, [FreshThread EXCEPT !.done = thread[t].done + 1])

\* An error for the caller; a login step has something to do about it.
GiveUp(t) == IF thread[t].want \in LoginSteps THEN GoOn(t, "failed") ELSE Finish(t)

\* What the database would be given: keys of sessions before keys loaded.
Export == [d \in Dcs |-> IF sess[d].key # 0 THEN sess[d].key ELSE loaded[d]]

\* MUTANT: only the keys that were loaded are exported.
KeptLoaded == [d \in Dcs |-> IF loaded[d] # 0 THEN loaded[d] ELSE store[d]]

Kept   == [d \in Dcs |-> IF Export[d] # 0 THEN Export[d] ELSE store[d]]

\* The next round of the loop, or the end of it.
NextAttempt(t, r, dc) ==
    IF r.att + 1 < SoLanThuGoiApi
    THEN Set(t, [r EXCEPT !.pc = "open", !.att = @ + 1, !.dc = dc])
    ELSE GiveUp(t)

-----------------------------------------------------------------------------
(* session() *)

\* The session is there, or comes back.
UseSession(t) ==
    /\ In(t, "open")
    /\ sess[thread[t].dc].on /\ net
    /\ sess' = [sess EXCEPT ![thread[t].dc].up = TRUE]
    /\ Opened(t, "send")
    /\ UNCHANGED <<home, authorized, flood, dbVars, login, keyVars, net, bounds>>

\* There is none: a new one, with the key that was loaded or a new key.
CreateSession(t) ==
    LET d   == thread[t].dc
        new == loaded[d] = 0
    IN /\ In(t, "open") /\ ~sess[d].on /\ net
       /\ made' = [made EXCEPT ![d] = IF new THEN @ + 1 ELSE @]
       /\ sess' = [sess EXCEPT ![d] = [on |-> TRUE, up |-> TRUE,
                                       key |-> IF new THEN made'[d] ELSE loaded[d],
                                       bare |-> d # home /\ ~authorized]]
       /\ Opened(t, IF d # home /\ authorized THEN "authorize" ELSE "send")
       /\ UNCHANGED <<loaded, home, authorized, flood, dbVars, login, granted, net, bounds>>

\* It does not come back, nor does a new one: the session is erased with its key.
OpenFails(t) ==
    /\ In(t, "open") /\ ~net
    /\ sess' = [sess EXCEPT ![thread[t].dc] = NoSession]
    /\ NextAttempt(t, [thread[t] EXCEPT !.rounds = @ + 1], thread[t].dc)
    /\ UNCHANGED <<home, authorized, flood, dbVars, login, keyVars, net, bounds>>

\* authorizeSession(), outside the mutex: export at home, import here.
Authorize(t) ==
    LET d == thread[t].dc
    IN /\ In(t, "authorize")
       /\ net /\ sess[home].on /\ <<home, sess[home].key>> \in granted /\ sess[d].on
       /\ granted' = granted \cup {<<d, sess[d].key>>}
       /\ GoOn(t, "send")
       /\ UNCHANGED <<loaded, sess, home, authorized, flood, dbVars, login, made, net, bounds>>

\* MUTANT: the session is used all the same.
AuthorizeFailsUnnoticed(t) ==
    LET d == thread[t].dc
    IN /\ In(t, "authorize")
       /\ ~(net /\ sess[home].on /\ <<home, sess[home].key>> \in granted /\ sess[d].on)
       /\ GoOn(t, "send")
       /\ UNCHANGED <<sess, home, authorized, flood, dbVars, login, keyVars, net, bounds>>

AuthorizeFails(t) ==
    LET d == thread[t].dc
    IN /\ In(t, "authorize")
       /\ ~(net /\ sess[home].on /\ <<home, sess[home].key>> \in granted /\ sess[d].on)
       /\ sess' = [sess EXCEPT ![d] = NoSession]
       /\ NextAttempt(t, thread[t], d)
       /\ UNCHANGED <<home, authorized, flood, dbVars, login, keyVars, net, bounds>>

-----------------------------------------------------------------------------
(* invoke() *)

\* A new call; under a long wait it is turned away at once.
Call(t, want) ==
    /\ In(t, "idle") /\ thread[t].done < scene.calls /\ t \in scene.threads
    /\ ~flood
    /\ CASE want = "self"          -> login = "in"
         [] want = "file"          -> login = "in" /\ authorized
         [] want = "sendCode"      -> login = "none"
         [] want = "signIn"        -> login = "code"
         [] want = "checkPassword" -> login = "password"
    /\ want \in LoginSteps => \A u \in Threads : In(u, "idle")
    /\ \E d \in IF want = "file" THEN {FileDc, home} ELSE {home} :
          Set(t, [FreshThread EXCEPT !.pc = "open", !.want = want, !.dc = d, !.done = thread[t].done])
    /\ UNCHANGED <<sess, home, authorized, flood, dbVars, login, keyVars, net, bounds>>

Sending(t) == In(t, "send")
Reached(t) == LET s == sess[thread[t].dc] IN s.on /\ s.up
Known(t)   == <<thread[t].dc, sess[thread[t].dc].key>> \in granted

\* A result.  The steps of a login end in submitAccountCode() and its like.
AnswerOk(t) ==
    LET w == thread[t].want
    IN /\ Sending(t) /\ Reached(t)
       /\ thread[t].dc = Where(w)
       /\ w \in NeedsLogin => Known(t)
       /\ IF w \in LoginSteps THEN GoOn(t, "answered") ELSE Finish(t)
       /\ authorized' = (authorized \/ w = "self")
       /\ granted' = IF w \in {"signIn", "checkPassword"}
                     THEN granted \cup {<<thread[t].dc, sess[thread[t].dc].key>>} ELSE granted
       /\ UNCHANGED <<loaded, sess, home, flood, dbVars, login, made, net, bounds>>

\* *_MIGRATE: followed, and on the first attempt taken for the account's home.
Migrate(t) ==
    LET d == Where(thread[t].want)
    IN /\ Sending(t) /\ Reached(t) /\ thread[t].dc # d
       /\ thread[t].want \in NeedsLogin => Known(t)
       /\ home' = IF thread[t].att = 0 THEN d ELSE home
       /\ moved' = (moved \/ home' # home)
       /\ late' = (late \/ (thread[t].att # 0 /\ thread[t].want \in LoginSteps))
       /\ NextAttempt(t, thread[t], d)
       /\ UNCHANGED <<sess, authorized, flood, dbVars, login, keyVars, net, scene, outages, restarts>>

\* MUTANT: the seconds waited are not added up.
AskedToWaitAgain(t, w) ==
    /\ Sending(t) /\ Reached(t) /\ w \in scene.waits
    /\ IF w <= ChoToiDaGiay /\ thread[t].waited + w <= TongChoToiDaGiay
       THEN /\ Set(t, [thread[t] EXCEPT !.pc = "open", !.slept = @ + w, !.waits = @ + 1])
            /\ UNCHANGED flood
       ELSE flood' = TRUE /\ GiveUp(t)
    /\ UNCHANGED <<sess, home, authorized, dbVars, login, keyVars, net, bounds>>

\* 420: a short wait within the budget is waited for and does not count as an
\* attempt; a longer one leaves the account to others for a while.
AskedToWait(t, w) ==
    /\ Sending(t) /\ Reached(t) /\ w \in scene.waits
    /\ IF w <= ChoToiDaGiay /\ thread[t].waited + w <= TongChoToiDaGiay
       THEN /\ Set(t, [thread[t] EXCEPT !.pc = "open", !.waited = @ + w,
                                           !.slept = @ + w, !.waits = @ + 1])
            /\ UNCHANGED flood
       ELSE flood' = TRUE /\ GiveUp(t)
    /\ UNCHANGED <<sess, home, authorized, dbVars, login, keyVars, net, bounds>>

\* 500: sent again, a few times, and not counted as an attempt either.
ServerBroke(t) ==
    /\ Sending(t) /\ Reached(t) /\ scene.breaks
    /\ IF thread[t].broken < SoLanThuMayChuHong
       THEN Set(t, [thread[t] EXCEPT !.pc = "open", !.broken = @ + 1, !.resent = @ + 1])
       ELSE GiveUp(t)
    /\ UNCHANGED <<sess, home, authorized, flood, dbVars, login, keyVars, net, bounds>>

\* Any other error is the caller's.
OtherError(t) ==
    /\ Sending(t) /\ Reached(t) /\ scene.breaks
    /\ GiveUp(t)
    /\ UNCHANGED <<sess, home, authorized, flood, dbVars, login, keyVars, net, bounds>>

\* AUTH_KEY_UNREGISTERED: the whole account counts as logged out.
Unregistered(t) ==
    /\ Sending(t) /\ Reached(t) /\ thread[t].want \in NeedsLogin /\ ~Known(t)
    /\ authorized' = FALSE
    /\ Finish(t)
    /\ UNCHANGED <<sess, home, flood, dbVars, login, keyVars, net, bounds>>

\* No answer: the session is disconnected, its key stays with it.
NetworkError(t) ==
    LET d == thread[t].dc
    IN /\ Sending(t) /\ ~Reached(t)
       /\ sess' = [sess EXCEPT ![d].up = FALSE]
       /\ NextAttempt(t, thread[t], d)
       /\ UNCHANGED <<home, authorized, flood, dbVars, login, keyVars, net, bounds>>

-----------------------------------------------------------------------------
(* Logging in, and what the application does with keys *)

\* addAccountAndSendCode() after the code was sent: the keys are stored.
CodeSent(t) ==
    /\ In(t, "answered") /\ thread[t].want = "sendCode"
    /\ login' = "code" /\ store' = Kept
    /\ Finish(t)
    /\ UNCHANGED <<sess, home, authorized, flood, storedHome, keyVars, net, bounds>>

\* submitAccountCode() and submitAccountPassword(): the account is in.
SignedIn(t) ==
    /\ In(t, "answered") /\ thread[t].want \in {"signIn", "checkPassword"}
    /\ store' = Kept
    /\ login' = "in" /\ storedHome' = home /\ authorized' = TRUE
    /\ Finish(t)
    /\ UNCHANGED <<sess, home, flood, keyVars, net, bounds>>

\* SESSION_PASSWORD_NEEDED: the code was right, a password is wanted as well.
PasswordNeeded(t) ==
    /\ Sending(t) /\ Reached(t) /\ thread[t].want = "signIn" /\ thread[t].dc = TrueDc
    /\ store' = Kept
    /\ login' = "password"
    /\ Finish(t)
    /\ UNCHANGED <<sess, home, authorized, flood, storedHome, keyVars, net, bounds>>

\* A login step without an answer: an account whose code was never sent is removed.
LoginFails(t) ==
    /\ In(t, "failed")
    /\ IF thread[t].want = "sendCode"
       THEN /\ login' = "gone"
            /\ sess' = [d \in Dcs |-> NoSession] /\ UNCHANGED store
       ELSE store' = Kept /\ UNCHANGED <<login, sess>>
    /\ Finish(t)
    /\ UNCHANGED <<home, authorized, flood, storedHome, keyVars, net, bounds>>

Quiet == \A t \in Threads : In(t, "idle")

\* App::removeAccount(): logged out at the server if it can be reached, and forgotten.
RemoveAccount ==
    /\ Quiet /\ login = "in"
    /\ granted' = IF sess[home].up
                  THEN granted \ {<<home, sess[home].key>>} ELSE granted
    /\ authorized' = FALSE
    /\ sess' = [d \in Dcs |-> NoSession] /\ loaded' = [d \in Dcs |-> 0]
    /\ store' = [d \in Dcs |-> 0] /\ login' = "gone"
    /\ UNCHANGED <<home, flood, storedHome, thread, made, net, bounds>>

\* The background thread, every five minutes.
PersistAll ==
    /\ store # Kept /\ login # "gone"
    /\ store' = Kept
    /\ UNCHANGED <<sess, home, authorized, flood, storedHome, login, thread, keyVars, net, bounds>>

\* Settings saved with another api_id: sessions are closed, their keys kept.
UpdateAppInfo ==
    /\ Quiet /\ \E d \in Dcs : sess[d].on
    /\ loaded' = Export
    /\ sess' = [d \in Dcs |-> NoSession]
    /\ UNCHANGED <<home, authorized, flood, dbVars, login, thread, made, granted, net, bounds>>

\* The process ends, orderly (disconnectAll() persists) or not, and starts again.
Restart(orderly) ==
    /\ scene.restarts /\ restarts = 0 /\ restarts' = 1
    /\ login = "in"
    /\ store' = IF orderly THEN Kept ELSE store
    /\ loaded' = store' /\ home' = storedHome
    /\ sess' = [d \in Dcs |-> NoSession]
    /\ authorized' = FALSE /\ flood' = FALSE
    /\ thread' = [t \in Threads |-> [FreshThread EXCEPT !.done = thread[t].done]]
    /\ UNCHANGED <<storedHome, login, made, granted, net, moved, late, scene, outages>>

\* The network (external), and the end of a long wait.
NetFails ==
    /\ net /\ outages < scene.outages /\ outages' = outages + 1
    /\ net' = FALSE
    /\ sess' = [d \in Dcs |-> [sess[d] EXCEPT !.up = FALSE]]
    /\ UNCHANGED <<home, authorized, flood, dbVars, login, thread, keyVars, moved, late, scene, restarts>>

NetReturns ==
    /\ ~net /\ net' = TRUE
    /\ UNCHANGED <<sess, home, authorized, flood, dbVars, login, thread, keyVars, bounds>>

FloodEnds ==
    /\ flood /\ flood' = FALSE
    /\ UNCHANGED <<sess, home, authorized, dbVars, login, thread, keyVars, net, bounds>>

-----------------------------------------------------------------------------
ThreadStep(t) ==
    \/ \E w \in NeedsLogin \cup LoginSteps : Call(t, w)
    \/ UseSession(t) \/ CreateSession(t) \/ OpenFails(t) \/ Authorize(t) \/ AuthorizeFails(t)
    \/ AnswerOk(t) \/ Migrate(t) \/ ServerBroke(t) \/ OtherError(t) \/ Unregistered(t) \/ NetworkError(t)
    \/ \E w \in scene.waits : AskedToWait(t, w)
    \/ CodeSent(t) \/ SignedIn(t) \/ PasswordNeeded(t) \/ LoginFails(t)

AccNext ==
    \/ \E t \in Threads : ThreadStep(t)
    \/ RemoveAccount \/ PersistAll \/ UpdateAppInfo \/ \E o \in BOOLEAN : Restart(o)
    \/ NetFails \/ NetReturns \/ FloodEnds

AccSpec == AccInit /\ [][AccNext]_accVars

-----------------------------------------------------------------------------
(* Properties *)

\* One call keeps to its three budgets however the answers come: the seconds it
\* waits, the times it sends again for a broken server, and the attempts it has
\* for everything else; waits and resends are not charged to the attempts, and no
\* answer makes it go round for nothing.
BudgetsKept ==
    \A t \in Threads :
        /\ thread[t].slept <= TongChoToiDaGiay
        /\ thread[t].resent <= SoLanThuMayChuHong
        /\ thread[t].rounds - thread[t].waits - thread[t].resent
              \in thread[t].att .. thread[t].att + 1

\* A key is made once per data centre and used ever after, as the documentation of
\* the protocol says.  It is not: session() erases a session that does not reopen,
\* with the key it had made.  What follows is promised while no second key is made.
OneKeyPerDc == \A d \in Dcs : made[d] <= 1

\* Once somebody has logged in, the database holds the key the server knows, so
\* the login survives a crash at any moment, unless a key was made anew.  A login
\* that was sent to the account's data centre only after a failed attempt does not
\* survive either: home is moved on the first attempt and no other.
LoginSurvivesRestart ==
    login = "in" /\ OneKeyPerDc /\ ~late => <<storedHome, store[storedHome]>> \in granted

\* An account counts as logged out by a refused key only for a few reasons, none of
\* them the server's: a key was made anew, a migration had moved the home or come too
\* late to, another thread was still authorising the session, or the session was made
\* by a call that was under way while the account counted as logged out.
LogoutHasACause ==
    [][authorized /\ ~authorized' /\ login' = "in" /\ restarts' = restarts
         => \/ ~OneKeyPerDc \/ moved \/ late
            \/ \E t \in Threads : In(t, "authorize")
            \/ \E d \in Dcs : sess[d].bare]_accVars
=============================================================================
