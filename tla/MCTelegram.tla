----------------------------- MODULE MCTelegram -----------------------------
(***************************************************************************)
(* The three layers of the Telegram backend for TLC.  Each is modelled     *)
(* against what it sees of the layer below, so a behaviour is one of one   *)
(* layer (part), and the others rest.                                      *)
(***************************************************************************)
EXTENDS RpcSession, TgAccount, AccountPool

CONSTANTS c1, c2, t1, t2, a1, a2, a3, w1, w2, r1

VARIABLE part

Scene(ts, fresh, calls) == [threads |-> ts, waits |-> {}, breaks |-> FALSE, fresh |-> fresh,
                            outages |-> 1, restarts |-> TRUE, calls |-> calls]
AccountScenes == {[Scene({t1}, FALSE, 2) EXCEPT !.waits = {60, 61}, !.breaks = TRUE, !.restarts = FALSE],
                  Scene({t1}, TRUE, 5), [Scene({t1, t2}, FALSE, 2) EXCEPT !.restarts = FALSE]}

Seats == <<a1, a2, a3>>
Team(w, r, o) == [writers |-> w, readers |-> r, outside |-> o]
Teams == {Team({w1, w2}, {}, {}), Team({w1}, {}, {a3}), Team({}, {r1}, {}), Team({}, {r1}, {a3})}

\* A part that rests starts in one way only; with an old key one thread calls, with
\* none two.
Init == /\ part \in {"rpc", "account", "pool"}
        /\ RpcInit /\ AccInit /\ PoolInit
        /\ part # "rpc" => ~key
        /\ On(c1, "idle") /\ (On(c2, "over") <=> key)
        /\ part # "account" => scene.fresh
        /\ part # "pool" => poolScene.writers = {w1} /\ loc.fresh /\ loc.hash = a1

Next == \/ part = "rpc" /\ RpcNext /\ UNCHANGED <<part, accVars, poolVars>>
        \/ part = "account" /\ AccNext /\ UNCHANGED <<part, rpcVars, poolVars>>
        \/ part = "pool" /\ PoolNext /\ UNCHANGED <<part, rpcVars, accVars>>

vars == <<part, rpcVars, accVars, poolVars>>

Fairness == /\ \A c \in Calls : WF_rpcVars(part = "rpc" /\ CallStep(c))
            /\ WF_rpcVars(part = "rpc" /\ ReaderStep)

Spec == Init /\ [][Next]_vars /\ Fairness

\* Every layer keeps its types: counters that only go down to nothing, keys that
\* some handshake made, sessions up only while the network is.
TypeOK == RpcTypeOK /\ AccTypeOK /\ PoolTypeOK

=============================================================================
