---------------------------- MODULE TgAccountInv ----------------------------
(***************************************************************************)
(* What the proofs about TgAccount carry through every step: the budgets   *)
(* of one call, the keys there are, that a login runs alone, and which     *)
(* keys the server knows as logged in.  t and u are threads, d a data      *)
(* centre.                                                                 *)
(***************************************************************************)
EXTENDS TgAccount

ThreadPcs == {"idle", "open", "authorize", "send", "answered", "failed"}
Wants     == NeedsLogin \cup LoginSteps

ThreadRec == [pc : ThreadPcs, want : {"none"} \cup Wants, dc : Dcs, att : Nat, waited : Nat,
              broken : Nat, slept : Nat, waits : Nat, resent : Nat, rounds : Nat, done : Nat]
SessRec   == [on : BOOLEAN, up : BOOLEAN, key : Nat, bare : BOOLEAN]

AccountTypes ==
    /\ thread \in [Threads -> ThreadRec] /\ sess \in [Dcs -> SessRec]
    /\ loaded \in [Dcs -> Nat] /\ store \in [Dcs -> Nat] /\ made \in [Dcs -> Nat]
    /\ home \in Dcs /\ storedHome \in Dcs /\ scene \in Scenes
    /\ authorized \in BOOLEAN /\ flood \in BOOLEAN /\ net \in BOOLEAN
    /\ moved \in BOOLEAN /\ late \in BOOLEAN
    /\ login \in {"none", "code", "password", "in", "gone"}

\* Where one call stands in its budgets.
WithinBudgets(x) ==
    /\ x.slept = x.waited /\ x.waited <= TongChoToiDaGiay
    /\ x.resent = x.broken /\ x.broken <= SoLanThuMayChuHong
    /\ x.att <= SoLanThuGoiApi
    /\ x.rounds - x.waits - x.resent \in x.att .. x.att + 1
    /\ x.pc = "open" => x.rounds - x.waits - x.resent = x.att
    /\ x.pc \in {"authorize", "send"} => x.rounds - x.waits - x.resent = x.att + 1

\* The step of a login is one that is due, and a call is one or the other.
Due(want) == CASE want = "sendCode" -> "none" [] want = "signIn" -> "code"
               [] want = "checkPassword" -> "password" [] OTHER -> "in"

InOrder(x) ==
    /\ x.pc = "idle" <=> x.want = "none"
    /\ x.pc \in {"answered", "failed"} => x.want \in LoginSteps
    /\ x.want \in Wants => login = Due(x.want)

\* While somebody logs in nobody else calls.
LoginAlone ==
    \A t, u \in Threads : thread[t].want \in LoginSteps /\ t # u => In(u, "idle")

\* Keys are made by handshakes, and the server knows none but those.
KeysMade ==
    /\ \A d \in Dcs : /\ loaded[d] <= made[d] /\ store[d] <= made[d] /\ sess[d].key <= made[d]
                      /\ sess[d].on => sess[d].key # 0
                      /\ sess[d].up => sess[d].on /\ net
    /\ \A g \in granted : g[1] \in Dcs /\ g[2] \in 1..made[g[1]] /\ g = <<g[1], g[2]>>

\* The key that was logged in is the one in the database, at every restart.
KeyStored == login = "in" /\ OneKeyPerDc => <<TrueDc, store[TrueDc]>> \in granted

\* A step of a login that was answered was answered where the account is, over a
\* session whose key the server now knows; and home is there too, unless the step
\* was sent there late.
LoginThere ==
    \A t \in Threads :
        thread[t].want \in LoginSteps =>
            /\ In(t, "answered") => thread[t].dc = TrueDc
            /\ In(t, "answered") /\ thread[t].want # "sendCode"
                  => <<TrueDc, sess[TrueDc].key>> \in granted
            /\ thread[t].dc = TrueDc => late \/ home = TrueDc

HomesTrue ==
    login = "in" /\ ~late => storedHome = TrueDc /\ (~moved => home = TrueDc)

\* A session away from home is known to the server, or somebody is at it, or it was
\* made by a call under way while the account counted as logged out.
AwayKnown ==
    ~moved => \A d \in Dcs \ {home} :
        sess[d].on /\ ~sess[d].bare
        => \/ <<d, sess[d].key>> \in granted
           \/ \E t \in Threads : In(t, "authorize") /\ thread[t].dc = d

\* The calls themselves: where each is in its budgets, which step of a login it is,
\* and that a login runs alone.
CallsInv ==
    /\ AccountTypes
    /\ \A t \in Threads : WithinBudgets(thread[t]) /\ InOrder(thread[t])
    /\ LoginAlone

LoginInv == KeyStored /\ LoginThere /\ HomesTrue

AccountInv == CallsInv /\ KeysMade /\ LoginInv /\ AwayKnown
=============================================================================
