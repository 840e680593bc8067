-------------------------- MODULE RpcSessionProofs --------------------------
(***************************************************************************)
(* Proofs about RpcSession: pending_ holds the calls that wait and no      *)
(* other, a result is the answer to the request of its own call and no     *)
(* request of a call is executed twice, and the first request of a         *)
(* connection introduces the client.                                       *)
(***************************************************************************)
EXTENDS RpcSessionInv, TLAPS

-----------------------------------------------------------------------------
(* Types *)

\* A new message id is one.
LEMMA MsgIdType ==
    ASSUME CallsType, NEW c \in Calls, call[c].pc \notin {"close", "over"}
    PROVE  MsgId(c) \in Ids
<1>1. call[c] \in CallRec /\ call[c].tries # Tries
  BY DEF CallsType
<1>2. call[c].tries \in 0..Tries - 1 /\ call[c].att \in 0..Attempts - 1
  BY <1>1, RpcAssumption DEF CallRec
<1>3. QED
  BY <1>2 DEF MsgId, Ids

\* A step that writes one call.
LEMMA OneCallType ==
    ASSUME CallsType, NEW c \in Calls, NEW r \in CallRec,
           r.tries = Tries => r.pc \in {"close", "over"},
           call' = [call EXCEPT ![c] = r]
    PROVE  CallsType'
BY DEF CallsType

\* The calls that FailAllPending() ends keep their place.
LEMMA FailType ==
    ASSUME CallsType, FailAllPending
    PROVE  CallsType'
<1>1. ASSUME NEW c \in Calls
      PROVE  /\ call'[c] \in CallRec /\ call'[c].pc = call[c].pc
             /\ call'[c].tries = call[c].tries
  <2>1. call[c] \in CallRec
    BY DEF CallsType
  <2>2. [call[c] EXCEPT !.done = TRUE, !.res = "lost"] \in CallRec
    BY <2>1 DEF CallRec, Results
  <2>3. call'[c] = call[c] \/ call'[c] = [call[c] EXCEPT !.done = TRUE, !.res = "lost"]
    BY DEF FailAllPending
  <2>4. QED
    BY <2>1, <2>2, <2>3 DEF CallRec
<1>2. DOMAIN call' = Calls /\ call' = [c \in Calls |-> call'[c]]
  BY DEF FailAllPending
<1>3. call' \in [Calls -> CallRec]
  BY <1>1, <1>2
<1>4. QED
  BY <1>1, <1>3 DEF CallsType

\* A call that is new to invoke() is one.
LEMMA FreshCallType == FreshCall \in CallRec
<1>1. 0 \in 0..Attempts - 1 /\ 0 \in 0..Tries
  BY RpcAssumption
<1>2. QED
  BY <1>1 DEF FreshCall, CallRec, Pcs, Results

\* What a step of a call to invoke() writes of it.
LEMMA CallStepCalls ==
    ASSUME TypeInv, NEW c \in Calls, CallStep(c)
    PROVE  CallsType'
<1> DEFINE x == call[c]
<1>0. CallsType /\ x \in CallRec /\ (x.tries = Tries => x.pc \in {"close", "over"})
  BY DEF TypeInv, CallsType
<1>a. FreshCall \in CallRec /\ Attempts \in Nat \ {0} /\ Tries \in Nat \ {0}
  BY RpcAssumption, FreshCallType
<1>b. line.gen \in Nat
  BY DEF TypeInv, LineType, LineRec
<1>1. CASE EnsureConnected(c)
  <2>1. x.pc = "idle"
    BY <1>1 DEF EnsureConnected, On
  <2>2. \/ call' = [call EXCEPT ![c] = [x EXCEPT !.pc = "prepare"]]
        \/ call' = [call EXCEPT ![c] = [x EXCEPT !.pc = "join"]]
    BY <1>1 DEF EnsureConnected, Turn, Become, Return, Over
  <2>3. [x EXCEPT !.pc = "prepare"] \in CallRec
    BY <1>0, <1>a, <1>b, <2>1 DEF CallRec, Pcs, Results
  <2>4. [x EXCEPT !.pc = "join"] \in CallRec
    BY <1>0, <1>a, <1>b, <2>1 DEF CallRec, Pcs, Results
  <2>5. QED
    BY <1>0, <1>a, <2>1, <2>2, <2>3, <2>4, OneCallType DEF CallRec
<1>2. CASE Reconnect(c)
  <2>1. x.pc = "join"
    BY <1>2 DEF Reconnect, On
  <2>2. \/ call' = [call EXCEPT ![c] = [x EXCEPT !.pc = "ready"]]
        \/ call' = [call EXCEPT ![c] = [x EXCEPT !.pc = "pq"]]
        \/ call' = [call EXCEPT ![c] = [x EXCEPT !.pc = "leave", !.res = "lost"]]
    BY <1>2 DEF Reconnect, Turn, Become, Return, Over
  <2>3. [x EXCEPT !.pc = "ready"] \in CallRec
    BY <1>0, <1>a, <1>b, <2>1 DEF CallRec, Pcs, Results
  <2>4. [x EXCEPT !.pc = "pq"] \in CallRec
    BY <1>0, <1>a, <1>b, <2>1 DEF CallRec, Pcs, Results
  <2>5. [x EXCEPT !.pc = "leave", !.res = "lost"] \in CallRec
    BY <1>0, <1>a, <1>b, <2>1 DEF CallRec, Pcs, Results
  <2>6. QED
    BY <1>0, <1>a, <2>1, <2>2, <2>3, <2>4, <2>5, OneCallType DEF CallRec
<1>3. CASE AskPq(c)
  <2>1. x.pc = "pq"
    BY <1>3 DEF AskPq, On
  <2>2. \/ call' = [call EXCEPT ![c] = [x EXCEPT !.pc = "dh"]]
        \/ call' = [call EXCEPT ![c] = [x EXCEPT !.pc = "leave", !.res = "lost"]]
    BY <1>3 DEF AskPq, Exchange, Turn, Become, Return, Over
  <2>3. [x EXCEPT !.pc = "dh"] \in CallRec
    BY <1>0, <1>a, <1>b, <2>1 DEF CallRec, Pcs, Results
  <2>4. [x EXCEPT !.pc = "leave", !.res = "lost"] \in CallRec
    BY <1>0, <1>a, <1>b, <2>1 DEF CallRec, Pcs, Results
  <2>5. QED
    BY <1>0, <1>a, <2>1, <2>2, <2>3, <2>4, OneCallType DEF CallRec
<1>4. CASE AskDh(c)
  <2>1. x.pc = "dh"
    BY <1>4 DEF AskDh, On
  <2>2. \/ call' = [call EXCEPT ![c] = [x EXCEPT !.pc = "gen"]]
        \/ call' = [call EXCEPT ![c] = [x EXCEPT !.pc = "leave", !.res = "lost"]]
    BY <1>4 DEF AskDh, Exchange, Turn, Become, Return, Over
  <2>3. [x EXCEPT !.pc = "gen"] \in CallRec
    BY <1>0, <1>a, <1>b, <2>1 DEF CallRec, Pcs, Results
  <2>4. [x EXCEPT !.pc = "leave", !.res = "lost"] \in CallRec
    BY <1>0, <1>a, <1>b, <2>1 DEF CallRec, Pcs, Results
  <2>5. QED
    BY <1>0, <1>a, <2>1, <2>2, <2>3, <2>4, OneCallType DEF CallRec
<1>5. CASE AgreeKey(c)
  <2>1. x.pc = "gen"
    BY <1>5 DEF AgreeKey, On
  <2>2. \/ call' = [call EXCEPT ![c] = [x EXCEPT !.pc = "ready"]]
        \/ call' = [call EXCEPT ![c] = [x EXCEPT !.pc = "leave", !.res = "lost"]]
    BY <1>5 DEF AgreeKey, Exchange, Turn, Become, Return, Over
  <2>3. [x EXCEPT !.pc = "ready"] \in CallRec
    BY <1>0, <1>a, <1>b, <2>1 DEF CallRec, Pcs, Results
  <2>4. [x EXCEPT !.pc = "leave", !.res = "lost"] \in CallRec
    BY <1>0, <1>a, <1>b, <2>1 DEF CallRec, Pcs, Results
  <2>5. QED
    BY <1>0, <1>a, <2>1, <2>2, <2>3, <2>4, OneCallType DEF CallRec
<1>6. CASE StartReader(c)
  <2>1. x.pc = "ready"
    BY <1>6 DEF StartReader, On
  <2>2. call' = [call EXCEPT ![c] = [x EXCEPT !.pc = "prepare"]]
    BY <1>6 DEF StartReader, Turn, Become, Return, Over
  <2>3. [x EXCEPT !.pc = "prepare"] \in CallRec
    BY <1>0, <1>a, <1>b, <2>1 DEF CallRec, Pcs, Results
  <2>4. QED
    BY <1>0, <1>a, <2>1, <2>2, <2>3, OneCallType DEF CallRec
<1>7. CASE PrepareRequest(c)
  <2>1. x.pc = "prepare"
    BY <1>7 DEF PrepareRequest, On
  <2>2. call' = [call EXCEPT ![c] = [x EXCEPT !.pc = "register", !.wrap = ~line.init, !.on = line.gen, !.att = 0]]
    BY <1>7 DEF PrepareRequest, Turn, Become, Return, Over
  <2>3. [x EXCEPT !.pc = "register", !.wrap = ~line.init, !.on = line.gen, !.att = 0] \in CallRec
    <3> DEFINE b == ~line.init
    <3>1. b \in BOOLEAN /\ 0 \in 0..Attempts - 1
      BY <1>a
    <3> HIDE DEF b
    <3>2. [x EXCEPT !.pc = "register", !.wrap = b, !.on = line.gen, !.att = 0] \in CallRec
      BY <1>0, <1>b, <3>1 DEF CallRec, Pcs
    <3>3. QED
      BY <3>2 DEF b
  <2>4. QED
    BY <1>0, <1>a, <2>1, <2>2, <2>3, OneCallType DEF CallRec
<1>8. CASE Register(c)
  <2>1. x.pc = "register"
    BY <1>8 DEF Register, On
  <2>2. call' = [call EXCEPT ![c] = [x EXCEPT !.pc = "send", !.done = FALSE, !.resend = FALSE, !.res = "none"]]
    BY <1>8 DEF Register, Turn, Become, Return, Over
  <2>3. [x EXCEPT !.pc = "send", !.done = FALSE, !.resend = FALSE, !.res = "none"] \in CallRec
    BY <1>0, <1>a, <1>b, <2>1 DEF CallRec, Pcs, Results
  <2>4. QED
    BY <1>0, <1>a, <2>1, <2>2, <2>3, OneCallType DEF CallRec
<1>9. CASE SendRequest(c)
  <2>1. x.pc = "send"
    BY <1>9 DEF SendRequest, On
  <2>2. \/ call' = [call EXCEPT ![c] = [x EXCEPT !.pc = "sent"]]
        \/ call' = [call EXCEPT ![c] = [x EXCEPT !.pc = "wait"]]
    BY <1>9 DEF SendRequest, Turn, Become, Return, Over
  <2>3. [x EXCEPT !.pc = "sent"] \in CallRec
    BY <1>0, <1>a, <1>b, <2>1 DEF CallRec, Pcs, Results
  <2>4. [x EXCEPT !.pc = "wait"] \in CallRec
    BY <1>0, <1>a, <1>b, <2>1 DEF CallRec, Pcs, Results
  <2>5. QED
    BY <1>0, <1>a, <2>1, <2>2, <2>3, <2>4, OneCallType DEF CallRec
<1>10. CASE SendFails(c)
  <2>1. x.pc = "send"
    BY <1>10 DEF SendFails, On
  <2>2. call' = [call EXCEPT ![c] = [x EXCEPT !.pc = "leave", !.res = "lost"]]
    BY <1>10 DEF SendFails, Turn, Become, Return, Over
  <2>3. [x EXCEPT !.pc = "leave", !.res = "lost"] \in CallRec
    BY <1>0, <1>a, <1>b, <2>1 DEF CallRec, Pcs, Results
  <2>4. QED
    BY <1>0, <1>a, <2>1, <2>2, <2>3, OneCallType DEF CallRec
<1>11. CASE MarkInit(c)
  <2>1. x.pc = "sent"
    BY <1>11 DEF MarkInit, On
  <2>2. call' = [call EXCEPT ![c] = [x EXCEPT !.pc = "wait"]]
    BY <1>11 DEF MarkInit, Turn, Become, Return, Over
  <2>3. [x EXCEPT !.pc = "wait"] \in CallRec
    BY <1>0, <1>a, <1>b, <2>1 DEF CallRec, Pcs, Results
  <2>4. QED
    BY <1>0, <1>a, <2>1, <2>2, <2>3, OneCallType DEF CallRec
<1>12. CASE Answered(c)
  <2>1. x.pc = "wait"
    BY <1>12 DEF Answered, On
  <2>2. \/ call' = [call EXCEPT ![c] = [FreshCall EXCEPT !.pc = "over", !.res = x.res, !.of = x.of, !.tries = x.tries]]
        \/ call' = [call EXCEPT ![c] = [x EXCEPT !.pc = "leave"]]
    BY <1>12 DEF Answered, Turn, Become, Return, Over
  <2>3. [FreshCall EXCEPT !.pc = "over", !.res = x.res, !.of = x.of, !.tries = x.tries] \in CallRec
    BY <1>0, <1>a, <1>b, <2>1 DEF CallRec, Pcs, Results
  <2>4. [x EXCEPT !.pc = "leave"] \in CallRec
    BY <1>0, <1>a, <1>b, <2>1 DEF CallRec, Pcs, Results
  <2>5. QED
    BY <1>0, <1>a, <2>1, <2>2, <2>3, <2>4, OneCallType DEF CallRec
<1>13. CASE Resend(c)
  <2>1. x.pc = "wait"
    BY <1>13 DEF Resend, On
  <2>2. \/ x.att + 1 < Attempts /\ call' = [call EXCEPT ![c] = [x EXCEPT !.pc = "register", !.att = @ + 1]]
        \/ call' = [call EXCEPT ![c] = [x EXCEPT !.pc = "leave", !.res = "spent"]]
    BY <1>13 DEF Resend, Turn, Become, Return, Over
  <2>3. ASSUME x.att + 1 < Attempts PROVE [x EXCEPT !.pc = "register", !.att = @ + 1] \in CallRec
    <3>1. x.att + 1 \in 0..Attempts - 1
      BY <1>0, <1>a, <2>3 DEF CallRec
    <3>2. QED
      BY <1>0, <3>1 DEF CallRec, Pcs
  <2>4. [x EXCEPT !.pc = "leave", !.res = "spent"] \in CallRec
    BY <1>0, <1>a, <1>b, <2>1 DEF CallRec, Pcs, Results
  <2>5. QED
    BY <1>0, <1>a, <2>1, <2>2, <2>3, <2>4, OneCallType DEF CallRec
<1>14. CASE TimesOut(c)
  <2>1. x.pc = "wait"
    BY <1>14 DEF TimesOut, On
  <2>2. call' = [call EXCEPT ![c] = [x EXCEPT !.pc = "leave", !.res = "late"]]
    BY <1>14 DEF TimesOut, Turn, Become, Return, Over
  <2>3. [x EXCEPT !.pc = "leave", !.res = "late"] \in CallRec
    BY <1>0, <1>a, <1>b, <2>1 DEF CallRec, Pcs, Results
  <2>4. QED
    BY <1>0, <1>a, <2>1, <2>2, <2>3, OneCallType DEF CallRec
<1>15. CASE Closed(c)
  <2>1. x.pc = "close"
    BY <1>15 DEF Closed, On
  <2>2. \/ x.tries < Tries /\ call' = [call EXCEPT ![c] = [FreshCall EXCEPT !.tries = x.tries]]
        \/ call' = [call EXCEPT ![c] = [FreshCall EXCEPT !.pc = "over", !.res = x.res, !.of = x.of, !.tries = x.tries]]
    BY <1>15 DEF Closed, Turn, Become, Return, Over
  <2>3. ASSUME x.tries < Tries PROVE [FreshCall EXCEPT !.tries = x.tries] \in CallRec
    BY <1>0, <1>a, <1>b, <2>1, <2>3 DEF CallRec, Pcs, Results
  <2>4. [FreshCall EXCEPT !.pc = "over", !.res = x.res, !.of = x.of, !.tries = x.tries] \in CallRec
    BY <1>0, <1>a, <1>b, <2>1 DEF CallRec, Pcs, Results
  <2>5. CASE x.tries < Tries /\ call' = [call EXCEPT ![c] = [FreshCall EXCEPT !.tries = x.tries]]
    <3>1. x.tries # Tries /\ [FreshCall EXCEPT !.tries = x.tries].tries = x.tries
      BY <1>0, <1>a, <2>5 DEF CallRec
    <3>2. QED
      BY <1>0, <2>3, <2>5, <3>1, OneCallType
  <2>6. QED
    BY <1>0, <1>a, <2>2, <2>4, <2>5, OneCallType DEF CallRec
<1>16. CASE Disconnect(c)
  <2> DEFINE r == [FreshCall EXCEPT !.pc = "close", !.on = line.gen, !.tries = x.tries + 1]
  <2>1. x.pc = "leave" /\ x.tries + 1 \in 0..Tries
    <3>1. x.pc = "leave"
      BY <1>16 DEF Disconnect, On
    <3>2. x.tries \in 0..Tries /\ x.tries # Tries
      BY <1>0, <3>1 DEF CallRec
    <3>3. QED
      BY <1>a, <3>1, <3>2
  <2>2. r \in CallRec
    BY <1>a, <1>b, <2>1 DEF CallRec, Pcs
  <2>3. ASSUME NEW d \in Calls
        PROVE  /\ call'[d] \in CallRec
               /\ call'[d].tries = Tries => call'[d].pc \in {"close", "over"}
    <3>1. call[d] \in CallRec /\ (call[d].tries = Tries => call[d].pc \in {"close", "over"})
      BY <1>0 DEF CallsType
    <3>2. [call[d] EXCEPT !.done = TRUE, !.res = "lost"] \in CallRec
      BY <3>1 DEF CallRec, Results
    <3>3. \/ d = c /\ call'[d] = r
          \/ call'[d] = call[d] \/ call'[d] = [call[d] EXCEPT !.done = TRUE, !.res = "lost"]
      BY <1>16 DEF Disconnect
    <3>4. QED
      BY <1>a, <2>2, <3>1, <3>2, <3>3 DEF CallRec
  <2>4. DOMAIN call' = Calls /\ call' = [d \in Calls |-> call'[d]]
    BY <1>16 DEF Disconnect
  <2>5. call' \in [Calls -> CallRec]
    BY <2>3, <2>4
  <2>6. QED
    BY <2>3, <2>5 DEF CallsType
<1>17. QED
  BY <1>1, <1>2, <1>3, <1>4, <1>5, <1>6, <1>7, <1>8, <1>9, <1>10, <1>11, <1>12, <1>13, <1>14, <1>15, <1>16
  DEF CallStep

FirstRec == [asked : BOOLEAN, wrapped : BOOLEAN, crossed : BOOLEAN]

\* A record of how the first request went.
LEMMA FirstType ==
    ASSUME NEW w \in BOOLEAN, NEW x \in BOOLEAN
    PROVE  [asked |-> TRUE, wrapped |-> w, crossed |-> x] \in FirstRec
BY DEF FirstRec

\* What it leaves of the line and of the calls waiting.
LEMMA CallStepLine ==
    ASSUME TypeInv, NEW c \in Calls, CallStep(c)
    PROVE  LineType'
<1>0. CallsType /\ LineType
  BY DEF TypeInv
<1>a. Offline.gen \in Nat /\ FreshLine \in [asked : BOOLEAN, wrapped : BOOLEAN, crossed : BOOLEAN]
  BY DEF Offline, FreshLine
<1>1. CASE EnsureConnected(c)
  BY <1>1, <1>0, <1>a DEF EnsureConnected, LineType, LineRec, wires, world, callVars
<1>2. CASE Reconnect(c)
  <2>1. line' \in LineRec /\ line'.reader \in {0, line'.gen}
    <3>1. line \in LineRec /\ line.reader = 0
      BY <1>2, <1>0 DEF Reconnect, LineType
    <3>2. \/ line' = [line EXCEPT !.open = TRUE, !.alive = TRUE, !.cut = FALSE,
                                     !.gen = @ + 1, !.init = FALSE]
          \/ line' = [line EXCEPT !.open = FALSE, !.alive = FALSE]
      BY <1>2 DEF Reconnect
    <3>3. CASE line' = [line EXCEPT !.open = TRUE, !.alive = TRUE, !.cut = FALSE,
                                     !.gen = @ + 1, !.init = FALSE]
      <4>1. line.gen + 1 \in Nat
        BY <3>1 DEF LineRec
      <4>2. line' \in LineRec
        BY <3>1, <3>3, <4>1 DEF LineRec
      <4>3. line'.reader = 0
        BY <3>1, <3>3 DEF LineRec
      <4>4. QED
        BY <4>2, <4>3
    <3>4. CASE line' = [line EXCEPT !.open = FALSE, !.alive = FALSE]
      BY <3>1, <3>4 DEF LineRec
    <3>5. QED
      BY <3>2, <3>3, <3>4
  <2>2. first' \in [asked : BOOLEAN, wrapped : BOOLEAN, crossed : BOOLEAN]
    BY <1>2, <1>0, <1>a DEF Reconnect, LineType
  <2>3. connector' \in Calls \cup {NoCall} /\ UNCHANGED <<key, salt, pending, found>>
    BY <1>2, <1>0 DEF Reconnect, LineType
  <2>4. QED
    BY <1>0, <2>1, <2>2, <2>3 DEF LineType
<1>3. CASE AskPq(c)
  BY <1>3, <1>0, <1>a DEF AskPq, Exchange, LineType, LineRec, wires, world, callVars
<1>4. CASE AskDh(c)
  BY <1>4, <1>0, <1>a DEF AskDh, Exchange, LineType, LineRec, wires, world, callVars
<1>5. CASE AgreeKey(c)
  BY <1>5, <1>0, <1>a DEF AgreeKey, Exchange, LineType, LineRec, wires, world, callVars
<1>6. CASE StartReader(c)
  BY <1>6, <1>0, <1>a DEF StartReader, LineType, LineRec, wires, world, callVars
<1>7. CASE PrepareRequest(c)
  BY <1>7, <1>0, <1>a DEF PrepareRequest, LineType, LineRec, wires, world, callVars
<1>8. CASE Register(c)
  BY <1>8, <1>0, <1>a, MsgIdType DEF Register, LineType, LineRec, wires, world, callVars, On
<1>9. CASE SendRequest(c)
  <2> DEFINE w == IF first.asked THEN first.wrapped ELSE call[c].wrap
             x == first.crossed \/ call[c].on # line.gen
  <2>1. first.wrapped \in BOOLEAN /\ call[c].wrap \in BOOLEAN
    BY <1>0 DEF LineType, CallsType, CallRec
  <2>2. w \in BOOLEAN
    BY <2>1
  <2>3. x \in BOOLEAN
    BY Zenon
  <2>4. first' = first \/ first' = [asked |-> TRUE, wrapped |-> w, crossed |-> x]
    BY <1>9 DEF SendRequest
  <2> HIDE DEF w, x
  <2>5. first' \in [asked : BOOLEAN, wrapped : BOOLEAN, crossed : BOOLEAN]
    BY <1>0, <2>2, <2>3, <2>4, FirstType DEF LineType, FirstRec
  <2>6. QED
    BY <1>9, <1>0, <2>5 DEF SendRequest, LineType
<1>10. CASE SendFails(c)
  BY <1>10, <1>0, <1>a DEF SendFails, LineType, LineRec, wires, world, callVars, Without
<1>11. CASE MarkInit(c)
  BY <1>11, <1>0, <1>a DEF MarkInit, LineType, LineRec, wires, world, callVars
<1>12. CASE Answered(c)
  BY <1>12, <1>0, <1>a DEF Answered, LineType, LineRec, wires, world, callVars, Without
<1>13. CASE Resend(c)
  BY <1>13, <1>0, <1>a DEF Resend, LineType, LineRec, wires, world, callVars, Without
<1>14. CASE TimesOut(c)
  BY <1>14, <1>0, <1>a DEF TimesOut, LineType, LineRec, wires, world, callVars, Without
<1>15. CASE Disconnect(c)
  BY <1>15, <1>0, <1>a DEF Disconnect, LineType, LineRec, wires, world, callVars
<1>16. CASE Closed(c)
  BY <1>16, <1>0, <1>a DEF Closed, LineType, LineRec, wires, world, callVars
<1>17. QED
  BY <1>1, <1>2, <1>3, <1>4, <1>5, <1>6, <1>7, <1>8, <1>9, <1>10, <1>11, <1>12, <1>13, <1>14, <1>15, <1>16
  DEF CallStep

\* And of the messages under way.
LEMMA CallStepWires ==
    ASSUME TypeInv, NEW c \in Calls, CallStep(c)
    PROVE  WiresType'
<1>0. CallsType /\ LineType /\ WiresType
  BY DEF TypeInv
<1>1. CASE EnsureConnected(c)
  BY <1>1, <1>0 DEF EnsureConnected, WiresType, wires, world, LineType, LineRec
<1>2. CASE Reconnect(c)
  BY <1>2, <1>0 DEF Reconnect, WiresType, wires, world
<1>3. CASE AskPq(c)
  BY <1>3, <1>0 DEF AskPq, Exchange, WiresType, wires, world, LineType, LineRec
<1>4. CASE AskDh(c)
  BY <1>4, <1>0 DEF AskDh, Exchange, WiresType, wires, world, LineType, LineRec
<1>5. CASE AgreeKey(c)
  BY <1>5, <1>0 DEF AgreeKey, Exchange, WiresType, wires, world, LineType, LineRec
<1>6. CASE StartReader(c)
  BY <1>6, <1>0 DEF StartReader, WiresType, wires, world, LineType, LineRec
<1>7. CASE PrepareRequest(c)
  BY <1>7, <1>0 DEF PrepareRequest, WiresType, wires, world
<1>8. CASE Register(c)
  BY <1>8, <1>0 DEF Register, WiresType, wires, world
<1>9. CASE SendRequest(c)
  <2>1. [gen |-> line.gen, id |-> MsgId(c), salt |-> salt.client] \in RequestMsg
    BY <1>9, <1>0, MsgIdType DEF SendRequest, On, LineType, LineRec, RequestMsg
  <2>2. UNCHANGED <<line, toClient, served>>
    BY <1>9 DEF SendRequest
  <2>3. \/ toServer' = toServer
        \/ toServer' = toServer \cup {[gen |-> line.gen, id |-> MsgId(c), salt |-> salt.client]}
    BY <1>9 DEF SendRequest
  <2>4. QED
    BY <1>0, <2>1, <2>2, <2>3 DEF WiresType
<1>10. CASE SendFails(c)
  BY <1>10, <1>0 DEF SendFails, WiresType, wires, world, LineType, LineRec
<1>11. CASE MarkInit(c)
  BY <1>11, <1>0 DEF MarkInit, WiresType, wires, world, LineType, LineRec
<1>12. CASE Answered(c)
  BY <1>12, <1>0 DEF Answered, WiresType, wires, world
<1>13. CASE Resend(c)
  BY <1>13, <1>0 DEF Resend, WiresType, wires, world
<1>14. CASE TimesOut(c)
  BY <1>14, <1>0 DEF TimesOut, WiresType, wires, world
<1>15. CASE Disconnect(c)
  BY <1>15, <1>0 DEF Disconnect, WiresType, wires, world
<1>16. CASE Closed(c)
  BY <1>16, <1>0 DEF Closed, WiresType, wires, world
<1>17. QED
  BY <1>1, <1>2, <1>3, <1>4, <1>5, <1>6, <1>7, <1>8, <1>9, <1>10, <1>11, <1>12, <1>13, <1>14, <1>15, <1>16
  DEF CallStep

\* Ending one waiting call with what the reader has read.
LEMMA CompleteType ==
    ASSUME CallsType, LineType, NEW id \in Ids, NEW res \in {"ok", "refused"},
           CompletePending(id, res)
    PROVE  CallsType'
<1>1. CASE id \in DOMAIN pending
  <2> DEFINE c == pending[id]
             r == [call[c] EXCEPT !.done = TRUE, !.res = res, !.of = id]
  <2>1. c \in Calls
    BY <1>1 DEF LineType, Ids
  <2>2. call[c] \in CallRec /\ (call[c].tries = Tries => call[c].pc \in {"close", "over"})
    BY <2>1 DEF CallsType
  <2>3. r \in CallRec
    BY <2>2 DEF CallRec, Results
  <2>4. r.tries = Tries => r.pc \in {"close", "over"}
    BY <2>2 DEF CallRec
  <2>5. call' = [call EXCEPT ![c] = r]
    BY <1>1 DEF CompletePending, Become
  <2>6. QED
    BY <2>1, <2>3, <2>4, <2>5, OneCallType
<1>2. CASE id \notin DOMAIN pending
  BY <1>2 DEF CompletePending, CallsType
<1>3. QED
  BY <1>1, <1>2

\* The reader keeps the types.
LEMMA ReaderType ==
    ASSUME TypeInv, ReaderStep
    PROVE  TypeInv'
<1>0. CallsType /\ LineType /\ WiresType
  BY DEF TypeInv
<1>1. CASE ReaderStops
  <2>1. CallsType'
    BY <1>1, <1>0 DEF ReaderStops, callVars, CallsType
  <2>2. LineType'
    BY <1>1, <1>0 DEF ReaderStops, callVars, LineType, LineRec, world
  <2>3. WiresType'
    BY <1>1, <1>0 DEF ReaderStops, WiresType, LineType, LineRec, wires, world
  <2>4. QED
    BY <2>1, <2>2, <2>3 DEF TypeInv
<1>2. CASE ReaderLoses
  <2>1. CallsType'
    BY <1>2, <1>0, FailType DEF ReaderLoses
  <2>2. LineType'
    BY <1>2, <1>0 DEF ReaderLoses, LineType, LineRec, world
  <2>3. WiresType'
    BY <1>2, <1>0 DEF ReaderLoses, WiresType, LineType, LineRec, wires, world
  <2>4. QED
    BY <2>1, <2>2, <2>3 DEF TypeInv
<1>3. CASE MarkResend
  <2>1. LineType'
    BY <1>3, <1>0 DEF MarkResend, LineType, world
  <2>2. WiresType'
    BY <1>3, <1>0 DEF MarkResend, WiresType, wires, world
  <2>3. CallsType'
    <3>1. found \in Calls \X Nat
      BY <1>3, <1>0 DEF MarkResend, LineType
    <3> DEFINE c == found[1]
               r == [call[c] EXCEPT !.resend = TRUE]
    <3>2. c \in Calls /\ call[c] \in CallRec
          /\ (call[c].tries = Tries => call[c].pc \in {"close", "over"})
      BY <1>0, <3>1 DEF CallsType
    <3>3. r \in CallRec /\ (r.tries = Tries => r.pc \in {"close", "over"})
      BY <3>2 DEF CallRec
    <3>4. call' = [call EXCEPT ![c] = r] \/ call' = call
      BY <1>3 DEF MarkResend, Become
    <3>5. QED
      BY <1>0, <3>2, <3>3, <3>4, OneCallType DEF CallsType
  <2>4. QED
    BY <2>1, <2>2, <2>3 DEF TypeInv
<1>4. ASSUME NEW m \in toClient, ReadResult(m) \/ ReadBadMsg(m) \/ ReadBadSalt(m)
      PROVE  TypeInv'
  <2>1. m \in ReplyMsg /\ toClient' = toClient \ {m} /\ UNCHANGED <<line, toServer, served>>
    BY <1>4, <1>0 DEF ReadResult, ReadBadMsg, ReadBadSalt, Incoming, WiresType, world
  <2>2. WiresType'
    BY <1>0, <2>1 DEF WiresType
  <2>3. m.id \in Ids /\ m.salt \in Nat
    BY <2>1 DEF ReplyMsg
  <2>4. CallsType'
    BY <1>4, <1>0, <2>3, CompleteType
    DEF ReadResult, ReadBadMsg, ReadBadSalt, callVars, CallsType
  <2>5. ASSUME ReadBadSalt(m)
        PROVE  LineType'
    <3>1. m.id \in DOMAIN pending => InvokeOf(pending[m.id]) \in Calls \X Nat
      <4>1. m.id \in DOMAIN pending => pending[m.id] \in Calls
        BY <1>0, <2>3 DEF LineType, Ids
      <4>2. ASSUME NEW c \in Calls
            PROVE  call[c].tries \in Nat
        <5>1. call[c] \in CallRec
          BY <1>0 DEF CallsType
        <5>2. QED
          BY <5>1, RpcAssumption DEF CallRec
      <4>3. QED
        BY <4>1, <4>2 DEF InvokeOf
    <3>2. found' = <<>> \/ found' \in Calls \X Nat
      BY <2>5, <3>1 DEF ReadBadSalt
    <3>3. salt' \in [client : Nat, server : Nat]
      BY <1>0, <2>3, <2>5 DEF ReadBadSalt, LineType
    <3>4. UNCHANGED <<line, key, pending, connector, first>>
      BY <2>5 DEF ReadBadSalt, callVars, world
    <3>5. QED
      BY <1>0, <3>2, <3>3, <3>4 DEF LineType
  <2>6. ASSUME ReadResult(m) \/ ReadBadMsg(m)
        PROVE  LineType'
    BY <1>0, <2>6 DEF ReadResult, ReadBadMsg, LineType, world
  <2>7. QED
    BY <1>4, <2>2, <2>4, <2>5, <2>6 DEF TypeInv
<1>5. QED
  BY <1>1, <1>2, <1>3, <1>4 DEF ReaderStep

\* So do the server and the network.
LEMMA OutsideType ==
    ASSUME TypeInv, Outside
    PROVE  TypeInv'
<1>0. CallsType /\ LineType /\ WiresType
  BY DEF TypeInv
<1>1. UNCHANGED call => CallsType'
  BY <1>0 DEF CallsType
<1>2. CASE NewSession
  BY <1>0, <1>1, <1>2 DEF NewSession, TypeInv, WiresType, LineType, callVars, wires, world
<1>3. CASE ChangeSalt
  BY <1>0, <1>1, <1>3 DEF ChangeSalt, TypeInv, WiresType, LineType, callVars, wires, world
<1>4. CASE LineDies
  <2>1. PICK cut \in BOOLEAN : line' = [line EXCEPT !.alive = FALSE, !.cut = cut]
    BY <1>0, <1>4 DEF LineDies, LineType, LineRec
  <2>2. line' \in LineRec /\ line'.reader = line.reader /\ line'.gen = line.gen
    BY <1>0, <2>1 DEF LineType, LineRec
  <2>3. QED
    BY <1>0, <1>1, <1>4, <2>2 DEF LineDies, TypeInv, WiresType, LineType, callVars
<1>5. CASE StreamBreaks
  <2>1. line' \in LineRec /\ line'.reader = line.reader /\ line'.gen = line.gen
    BY <1>0, <1>5 DEF StreamBreaks, LineType, LineRec
  <2>2. QED
    BY <1>0, <1>1, <1>5, <2>1 DEF StreamBreaks, TypeInv, WiresType, LineType, callVars, wires
<1>6. ASSUME NEW m \in toServer, Serve(m) \/ Refuse(m)
      PROVE  TypeInv'
  <2>1. m \in RequestMsg /\ m.gen = line.gen
    BY <1>0 DEF WiresType
  <2>2. PICK kind \in {"result", "badMsg", "badSalt"} : Reply(m, kind)
    BY <1>6 DEF Serve, Refuse
  <2>3. [gen |-> m.gen, id |-> m.id, kind |-> kind, salt |-> salt.server] \in ReplyMsg
    BY <1>0, <2>1 DEF LineType, RequestMsg, ReplyMsg
  <2>4. served' \subseteq served \cup {m.id} /\ m.id \in Ids
    BY <1>6, <2>1 DEF Serve, Refuse, RequestMsg
  <2>5. UNCHANGED <<line, key, salt, pending, call, connector, found, first>>
    BY <1>6 DEF Serve, Refuse, callVars
  <2>6. WiresType'
    BY <1>0, <2>1, <2>2, <2>3, <2>4, <2>5 DEF WiresType, Reply
  <2>7. LineType'
    BY <1>0, <2>5 DEF LineType
  <2>8. QED
    BY <1>1, <2>5, <2>6, <2>7 DEF TypeInv
<1>7. QED
  BY <1>2, <1>3, <1>4, <1>5, <1>6 DEF Outside

\* The types hold at the start and after every step.
LEMMA TypeInit ==
    ASSUME RpcInit
    PROVE  TypeInv
<1>1. CallsType
  <2>1. \A c \in Calls : call[c] \in CallRec /\ call[c].tries = 0
    <3>1. [FreshCall EXCEPT !.pc = "over"] \in CallRec
      BY FreshCallType DEF CallRec, Pcs
    <3>2. FreshCall.tries = 0 /\ [FreshCall EXCEPT !.pc = "over"].tries = 0
      BY DEF FreshCall
    <3>3. QED
      BY <3>1, <3>2, FreshCallType DEF RpcInit
  <2>2. call \in [Calls -> CallRec]
    BY <2>1 DEF RpcInit
  <2>3. QED
    BY <2>1, <2>2, RpcAssumption DEF CallsType
<1>2. LineType
  BY DEF RpcInit, LineType, LineRec, Offline, FreshLine
<1>3. QED
  BY <1>1, <1>2 DEF TypeInv, WiresType, RpcInit

\* Every step keeps the types.
LEMMA TypeStep ==
    ASSUME TypeInv, [RpcNext]_rpcVars
    PROVE  TypeInv'
<1>1. CASE UNCHANGED rpcVars
  BY <1>1 DEF TypeInv, CallsType, WiresType, LineType, rpcVars
<1>2. ASSUME NEW c \in Calls, CallStep(c)
      PROVE  TypeInv'
  BY <1>2, CallStepCalls, CallStepLine, CallStepWires DEF TypeInv
<1>3. QED
  BY <1>1, <1>2, ReaderType, OutsideType DEF RpcNext

-----------------------------------------------------------------------------
(* pending_ *)

\* Where call c stands is as it was, and whether it has to be sent again.
Stays(c) == /\ call'[c].pc = call[c].pc
            /\ call'[c].tries = call[c].tries /\ call'[c].att = call[c].att
Same(c)  == Stays(c) /\ call'[c].resend = call[c].resend

\* No call is given a result.
NoResult(c) == call'[c].res = "ok" => /\ call[c].res = "ok" /\ call'[c].of = call[c].of
                                     /\ call'[c].tries = call[c].tries

\* A step of call c that neither enters nor leaves the wait, enters it or leaves it.
LEMMA PendingKept ==
    ASSUME TypeInv, PendingIsWaiting, NEW c \in Calls, \A d \in Calls \ {c} : Same(d),
           \/ /\ DOMAIN pending' = DOMAIN pending
              /\ call'[c].pc \in Waiting <=> call[c].pc \in Waiting
              /\ call[c].pc \in Waiting => call'[c].tries = call[c].tries /\ call'[c].att = call[c].att
           \/ /\ DOMAIN pending' = DOMAIN pending \cup {MsgId(c)'}
              /\ call[c].pc \notin Waiting /\ call'[c].pc \in Waiting
           \/ /\ DOMAIN pending' = DOMAIN pending \ {MsgId(c)}
              /\ call'[c].pc \notin Waiting
    PROVE  PendingIsWaiting'
<1>1. \A i \in DOMAIN pending : i[1] \in Calls
  BY DEF TypeInv, LineType, Ids
<1>2. MsgId(c)'[1] = c /\ \A d \in Calls : MsgId(d)[1] = d
  BY DEF MsgId
<1>3. \A d \in Calls \ {c} : MsgId(d)' = MsgId(d)
  BY DEF MsgId, Same, Stays
<1>4. ASSUME NEW i \in DOMAIN pending'
      PROVE  call'[i[1]].pc \in Waiting /\ MsgId(i[1])' = i
  <2>1. CASE i \in DOMAIN pending /\ i[1] # c
    BY <1>1, <1>3, <2>1 DEF PendingIsWaiting, Same, Stays
  <2>2. CASE i \in DOMAIN pending /\ i[1] = c
    <3>1. call[c].pc \in Waiting /\ MsgId(c) = i
      BY <2>2 DEF PendingIsWaiting
    <3>2. call'[c].pc \in Waiting /\ call'[c].tries = call[c].tries /\ call'[c].att = call[c].att
      BY <1>4, <3>1
    <3>3. QED
      BY <2>2, <3>1, <3>2 DEF MsgId
  <2>3. CASE i \notin DOMAIN pending
    BY <1>2, <1>4, <2>3
  <2>4. QED
    BY <2>1, <2>2, <2>3
<1>5. ASSUME NEW d \in Calls, call'[d].pc \in Waiting
      PROVE  MsgId(d)' \in DOMAIN pending'
  <2>1. CASE d # c
    BY <1>2, <1>3, <1>5, <2>1 DEF PendingIsWaiting, Same, Stays
  <2>2. CASE d = c
    BY <1>5, <2>2 DEF PendingIsWaiting, MsgId
  <2>3. QED
    BY <2>1, <2>2
<1>6. QED
  BY <1>4, <1>5 DEF PendingIsWaiting

\* A step that moves no call.
LEMMA PendingSame ==
    ASSUME TypeInv, PendingIsWaiting, DOMAIN pending' = DOMAIN pending,
           \A c \in Calls : Stays(c)
    PROVE  PendingIsWaiting'
<1>1. \A i \in DOMAIN pending : i[1] \in Calls
  BY DEF TypeInv, LineType, Ids
<1>2. QED
  BY <1>1 DEF PendingIsWaiting, MsgId, Stays

\* The steps that end other calls leave them where they stand.
LEMMA FailSame ==
    ASSUME TypeInv, FailAllPending
    PROVE  \A c \in Calls : Same(c) /\ NoResult(c)
<1>1. ASSUME NEW c \in Calls
      PROVE  Same(c) /\ NoResult(c)
  <2>1. call[c] \in CallRec
    BY DEF TypeInv, CallsType
  <2>2. call'[c] = call[c] \/ call'[c] = [call[c] EXCEPT !.done = TRUE, !.res = "lost"]
    BY DEF FailAllPending
  <2>3. QED
    BY <2>1, <2>2 DEF Same, Stays, NoResult, CallRec
<1>2. QED
  BY <1>1

\* So does an answer.
LEMMA CompleteSame ==
    ASSUME TypeInv, NEW id \in Ids, NEW res \in {"ok", "refused"}, CompletePending(id, res)
    PROVE  \A c \in Calls : Same(c)
<1>1. ASSUME NEW c \in Calls
      PROVE  Same(c)
  <2>1. call[c] \in CallRec /\ c \in DOMAIN call
    BY DEF TypeInv, CallsType
  <2>2. call'[c] = call[c] \/ call'[c] = [call[c] EXCEPT !.done = TRUE, !.res = res, !.of = id]
    BY <2>1 DEF CompletePending, Become
  <2>3. QED
    BY <2>1, <2>2 DEF Same, Stays, CallRec
<1>2. QED
  BY <1>1

\* Where a step of a call to invoke() takes it.
LEMMA CallStepMoves ==
    ASSUME TypeInv, NEW c \in Calls, CallStep(c)
    PROVE  \A d \in Calls \ {c} : Same(d) /\ NoResult(d)
<1>1. ASSUME NEW d \in Calls \ {c}
      PROVE  Same(d) /\ NoResult(d)
  <2>1. call[d] \in CallRec /\ c \in DOMAIN call /\ d \in DOMAIN call
    BY DEF TypeInv, CallsType
  <2>2. CASE Disconnect(c)
    <3>1. call'[d] = call[d] \/ call'[d] = [call[d] EXCEPT !.done = TRUE, !.res = "lost"]
      BY <2>2 DEF Disconnect
    <3>2. QED
      BY <2>1, <3>1 DEF Same, Stays, NoResult, CallRec
  <2>4. CASE EnsureConnected(c) \/ Reconnect(c) \/ StartReader(c) \/ PrepareRequest(c)
             \/ Register(c) \/ SendRequest(c) \/ SendFails(c)
    BY <2>1, <2>4 DEF EnsureConnected, Reconnect, StartReader, PrepareRequest, Register,
                      SendRequest, SendFails, Turn, Become, Return, Same, Stays, NoResult, Stays
  <2>5. CASE AskPq(c) \/ AskDh(c) \/ AgreeKey(c)
    BY <2>1, <2>5
    DEF AskPq, AskDh, AgreeKey, Exchange, Turn, Become, Return, Same, Stays, NoResult,
        Stays
  <2>6. CASE MarkInit(c) \/ Answered(c) \/ Resend(c) \/ TimesOut(c) \/ Closed(c)
    BY <2>1, <2>6 DEF MarkInit, Answered, Resend, TimesOut, Closed, Over, Turn, Become,
                      Return, Same, Stays, NoResult, Stays
  <2>7. QED
    BY <2>2, <2>4, <2>5, <2>6 DEF CallStep
<1>2. QED
  BY <1>1

-----------------------------------------------------------------------------
(* How a call goes on *)

Early == {"idle", "join", "pq", "dh", "gen", "ready", "prepare", "close"}

\* Every way a call goes on but for sending its request.
Moves(c) ==
    LET x == call[c]
        y == call'[c] IN
    \/ y.pc \in {"leave", "over"} /\ y.tries = x.tries
    \/ x.pc = "leave" /\ y.pc = "close" /\ y.tries = x.tries + 1
    \/ x.pc \in Early /\ y.pc \in Early \cup {"register"} /\ y.tries = x.tries
    \/ x.pc = "register" /\ y.pc = "send" /\ y.tries = x.tries /\ y.att = x.att /\ ~y.resend
    \/ x.pc = "sent" /\ y.pc = "wait" /\ y.tries = x.tries /\ y.att = x.att
       /\ y.resend = x.resend
    \/ x.pc = "wait" /\ y.pc = "register" /\ y.tries = x.tries /\ y.att = x.att + 1 /\ x.resend

\* What a call's step does to pending_: nothing, or it registers or forgets its request.
PendingMoves(c) ==
    \/ /\ DOMAIN pending' = DOMAIN pending
       /\ call[c].pc \in Waiting => call'[c].pc \in Waiting /\ call'[c].tries = call[c].tries
                                    /\ call'[c].att = call[c].att
       /\ call[c].pc \notin Waiting => call'[c].pc \notin Waiting
    \/ /\ DOMAIN pending' = DOMAIN pending \cup {MsgId(c)'}
       /\ call[c].pc \notin Waiting /\ call'[c].pc \in Waiting
    \/ /\ DOMAIN pending' = DOMAIN pending \ {MsgId(c)}
       /\ call'[c].pc \notin Waiting

\* The steps of a call, one by one.
LEMMA CallMoves ==
    ASSUME TypeInv, NEW c \in Calls, CallStep(c), ~SendRequest(c)
    PROVE  /\ Moves(c) /\ NoResult(c) /\ PendingMoves(c)
           /\ toServer' \subseteq toServer /\ toClient' \subseteq toClient
           /\ UNCHANGED <<served, found>>
<1> DEFINE x == call[c]
           y == call'[c]
<1>0. x \in CallRec /\ c \in DOMAIN call /\ FreshCall \in CallRec
      /\ FreshCall.pc = "idle" /\ FreshCall.res = "none"
  BY FreshCallType DEF TypeInv, CallsType, FreshCall
<1>1. CASE EnsureConnected(c)
  <2>1. x.pc = "idle" /\ UNCHANGED <<served, found>>
    BY <1>1 DEF EnsureConnected, On, world
  <2>2. y.pc \in {"prepare", "join"} /\ y.tries = x.tries /\ y.res = x.res /\ y.of = x.of
    BY <1>1, <1>0 DEF EnsureConnected, Turn, Become, Return, Over, FreshCall, CallRec
  <2>3. toServer' \subseteq toServer /\ toClient' \subseteq toClient
    BY <1>1 DEF EnsureConnected, wires
  <2>4. DOMAIN pending' = DOMAIN pending
    BY <1>1 DEF EnsureConnected
  <2>5. QED
    BY <2>1, <2>2, <2>3, <2>4 DEF Moves, NoResult, PendingMoves, Waiting, Early
<1>2. CASE Reconnect(c)
  <2>1. x.pc = "join" /\ UNCHANGED <<served, found>>
    BY <1>2 DEF Reconnect, On, world
  <2>2. y.pc \in {"ready", "pq", "leave"} /\ y.tries = x.tries /\ y.res \in {x.res, "lost"} /\ y.of = x.of
    <3>1. \/ y = [x EXCEPT !.pc = "ready"]
          \/ y = [x EXCEPT !.pc = "pq"]
          \/ y = [x EXCEPT !.pc = "leave", !.res = "lost"]
      BY <1>2, <1>0 DEF Reconnect, Turn, Become, Return, Over
    <3>2. QED
      BY <1>0, <3>1 DEF CallRec
  <2>3. toServer' \subseteq toServer /\ toClient' \subseteq toClient
    BY <1>2 DEF Reconnect, wires
  <2>4. DOMAIN pending' = DOMAIN pending
    BY <1>2 DEF Reconnect
  <2>5. QED
    BY <2>1, <2>2, <2>3, <2>4 DEF Moves, NoResult, PendingMoves, Waiting, Early
<1>3. CASE AskPq(c)
  <2>1. x.pc = "pq" /\ UNCHANGED <<served, found>>
    BY <1>3 DEF AskPq, On, world
  <2>2. y.pc \in {"dh", "leave"} /\ y.tries = x.tries /\ y.res \in {x.res, "lost"} /\ y.of = x.of
    <3>1. \/ y = [x EXCEPT !.pc = "dh"]
          \/ y = [x EXCEPT !.pc = "leave", !.res = "lost"]
      BY <1>3, <1>0 DEF AskPq, Exchange, Turn, Become, Return, Over
    <3>2. QED
      BY <1>0, <3>1 DEF CallRec
  <2>3. toServer' \subseteq toServer /\ toClient' \subseteq toClient
    BY <1>3 DEF AskPq, wires
  <2>4. DOMAIN pending' = DOMAIN pending
    BY <1>3 DEF AskPq
  <2>5. QED
    BY <2>1, <2>2, <2>3, <2>4 DEF Moves, NoResult, PendingMoves, Waiting, Early
<1>4. CASE AskDh(c)
  <2>1. x.pc = "dh" /\ UNCHANGED <<served, found>>
    BY <1>4 DEF AskDh, On, world
  <2>2. y.pc \in {"gen", "leave"} /\ y.tries = x.tries /\ y.res \in {x.res, "lost"} /\ y.of = x.of
    <3>1. \/ y = [x EXCEPT !.pc = "gen"]
          \/ y = [x EXCEPT !.pc = "leave", !.res = "lost"]
      BY <1>4, <1>0 DEF AskDh, Exchange, Turn, Become, Return, Over
    <3>2. QED
      BY <1>0, <3>1 DEF CallRec
  <2>3. toServer' \subseteq toServer /\ toClient' \subseteq toClient
    BY <1>4 DEF AskDh, wires
  <2>4. DOMAIN pending' = DOMAIN pending
    BY <1>4 DEF AskDh
  <2>5. QED
    BY <2>1, <2>2, <2>3, <2>4 DEF Moves, NoResult, PendingMoves, Waiting, Early
<1>5. CASE AgreeKey(c)
  <2>1. x.pc = "gen" /\ UNCHANGED <<served, found>>
    BY <1>5 DEF AgreeKey, On, world
  <2>2. y.pc \in {"ready", "leave"} /\ y.tries = x.tries /\ y.res \in {x.res, "lost"} /\ y.of = x.of
    <3>1. \/ y = [x EXCEPT !.pc = "ready"]
          \/ y = [x EXCEPT !.pc = "leave", !.res = "lost"]
      BY <1>5, <1>0 DEF AgreeKey, Exchange, Turn, Become, Return, Over
    <3>2. QED
      BY <1>0, <3>1 DEF CallRec
  <2>3. toServer' \subseteq toServer /\ toClient' \subseteq toClient
    BY <1>5 DEF AgreeKey, wires
  <2>4. DOMAIN pending' = DOMAIN pending
    BY <1>5 DEF AgreeKey
  <2>5. QED
    BY <2>1, <2>2, <2>3, <2>4 DEF Moves, NoResult, PendingMoves, Waiting, Early
<1>6. CASE StartReader(c)
  <2>1. x.pc = "ready" /\ UNCHANGED <<served, found>>
    BY <1>6 DEF StartReader, On, world
  <2>2. y.pc = "prepare" /\ y.tries = x.tries /\ y.res = x.res /\ y.of = x.of
    BY <1>6, <1>0 DEF StartReader, Turn, Become, Return, Over, FreshCall, CallRec
  <2>3. toServer' \subseteq toServer /\ toClient' \subseteq toClient
    BY <1>6 DEF StartReader, wires
  <2>4. DOMAIN pending' = DOMAIN pending
    BY <1>6 DEF StartReader
  <2>5. QED
    BY <2>1, <2>2, <2>3, <2>4 DEF Moves, NoResult, PendingMoves, Waiting, Early
<1>7. CASE PrepareRequest(c)
  <2>1. x.pc = "prepare" /\ UNCHANGED <<served, found>>
    BY <1>7 DEF PrepareRequest, On, world
  <2>2. y.pc = "register" /\ y.tries = x.tries /\ y.res = x.res /\ y.of = x.of
    BY <1>7, <1>0 DEF PrepareRequest, Turn, Become, Return, Over, FreshCall, CallRec
  <2>3. toServer' \subseteq toServer /\ toClient' \subseteq toClient
    BY <1>7 DEF PrepareRequest, wires
  <2>4. DOMAIN pending' = DOMAIN pending
    BY <1>7 DEF PrepareRequest
  <2>5. QED
    BY <2>1, <2>2, <2>3, <2>4 DEF Moves, NoResult, PendingMoves, Waiting, Early
<1>8. CASE Register(c)
  <2>1. x.pc = "register" /\ UNCHANGED <<served, found>>
    BY <1>8 DEF Register, On, world
  <2>2. y.pc = "send" /\ y.tries = x.tries /\ y.att = x.att /\ ~y.resend /\ y.res = "none"
    BY <1>8, <1>0 DEF Register, Turn, Become, Return, Over, FreshCall, CallRec
  <2>3. toServer' \subseteq toServer /\ toClient' \subseteq toClient
    BY <1>8 DEF Register, wires
  <2>4. DOMAIN pending' = DOMAIN pending \cup {MsgId(c)'}
    BY <1>8, <2>2 DEF Register, MsgId
  <2>5. QED
    BY <2>1, <2>2, <2>3, <2>4 DEF Moves, NoResult, PendingMoves, Waiting, Early
<1>9. CASE SendFails(c)
  <2>1. x.pc = "send" /\ UNCHANGED <<served, found>>
    BY <1>9 DEF SendFails, On, world
  <2>2. y.pc = "leave" /\ y.tries = x.tries /\ y.res = "lost"
    BY <1>9, <1>0 DEF SendFails, Turn, Become, Return, Over, FreshCall, CallRec
  <2>3. toServer' \subseteq toServer /\ toClient' \subseteq toClient
    BY <1>9 DEF SendFails, wires
  <2>4. DOMAIN pending' = DOMAIN pending \ {MsgId(c)}
    BY <1>9 DEF SendFails, Without
  <2>5. QED
    BY <2>1, <2>2, <2>3, <2>4 DEF Moves, NoResult, PendingMoves, Waiting, Early
<1>10. CASE MarkInit(c)
  <2>1. x.pc = "sent" /\ UNCHANGED <<served, found>>
    BY <1>10 DEF MarkInit, On, world
  <2>2. y.pc = "wait" /\ y.tries = x.tries /\ y.att = x.att /\ y.resend = x.resend
        /\ y.res = x.res /\ y.of = x.of
    BY <1>10, <1>0 DEF MarkInit, Turn, Become, Return, Over, FreshCall, CallRec
  <2>3. toServer' \subseteq toServer /\ toClient' \subseteq toClient
    BY <1>10 DEF MarkInit, wires
  <2>4. DOMAIN pending' = DOMAIN pending
    BY <1>10 DEF MarkInit
  <2>5. QED
    BY <2>1, <2>2, <2>3, <2>4 DEF Moves, NoResult, PendingMoves, Waiting, Early
<1>11. CASE Answered(c)
  <2>1. x.pc = "wait" /\ UNCHANGED <<served, found>>
    BY <1>11 DEF Answered, On, world
  <2>2. y.pc \in {"leave", "over"} /\ y.tries = x.tries /\ y.res = x.res /\ y.of = x.of
    <3>1. \/ y = [FreshCall EXCEPT !.pc = "over", !.res = x.res, !.of = x.of, !.tries = x.tries]
          \/ y = [x EXCEPT !.pc = "leave"]
      BY <1>11, <1>0 DEF Answered, Turn, Become, Return, Over
    <3>2. QED
      BY <1>0, <3>1 DEF CallRec
  <2>3. toServer' \subseteq toServer /\ toClient' \subseteq toClient
    BY <1>11 DEF Answered, wires
  <2>4. DOMAIN pending' = DOMAIN pending \ {MsgId(c)}
    BY <1>11 DEF Answered, Without
  <2>5. QED
    BY <2>1, <2>2, <2>3, <2>4 DEF Moves, NoResult, PendingMoves, Waiting, Early
<1>12. CASE Resend(c)
  <2>1. x.pc = "wait" /\ UNCHANGED <<served, found>>
    BY <1>12 DEF Resend, On, world
  <2>2. \/ y.pc = "register" /\ y.tries = x.tries /\ y.att = x.att + 1 /\ x.resend
           /\ y.res = x.res /\ y.of = x.of
        \/ y.pc = "leave" /\ y.tries = x.tries /\ y.res = "spent"
    <3>1. \/ x.resend /\ y = [x EXCEPT !.pc = "register", !.att = @ + 1]
          \/ y = [x EXCEPT !.pc = "leave", !.res = "spent"]
      BY <1>12, <1>0 DEF Resend, Turn, Become, Return, Over
    <3>2. QED
      BY <1>0, <3>1 DEF CallRec
  <2>3. toServer' \subseteq toServer /\ toClient' \subseteq toClient
    BY <1>12 DEF Resend, wires
  <2>4. DOMAIN pending' = DOMAIN pending \ {MsgId(c)}
    BY <1>12 DEF Resend, Without
  <2>5. QED
    BY <2>1, <2>2, <2>3, <2>4 DEF Moves, NoResult, PendingMoves, Waiting, Early
<1>13. CASE TimesOut(c)
  <2>1. x.pc = "wait" /\ UNCHANGED <<served, found>>
    BY <1>13 DEF TimesOut, On, world
  <2>2. y.pc = "leave" /\ y.tries = x.tries /\ y.res = "late"
    BY <1>13, <1>0 DEF TimesOut, Turn, Become, Return, Over, FreshCall, CallRec
  <2>3. toServer' \subseteq toServer /\ toClient' \subseteq toClient
    BY <1>13 DEF TimesOut, wires
  <2>4. DOMAIN pending' = DOMAIN pending \ {MsgId(c)}
    BY <1>13 DEF TimesOut, Without
  <2>5. QED
    BY <2>1, <2>2, <2>3, <2>4 DEF Moves, NoResult, PendingMoves, Waiting, Early
<1>14. CASE Disconnect(c)
  <2>1. x.pc = "leave" /\ UNCHANGED <<served, found>>
    BY <1>14 DEF Disconnect, On, world
  <2>2. y.pc = "close" /\ y.tries = x.tries + 1 /\ y.res = "none"
    BY <1>14, <1>0 DEF Disconnect, Turn, Become, Return, Over, FreshCall, CallRec
  <2>3. toServer' \subseteq toServer /\ toClient' \subseteq toClient
    BY <1>14 DEF Disconnect, wires
  <2>4. DOMAIN pending' = DOMAIN pending
    BY <1>14 DEF Disconnect
  <2>5. QED
    BY <2>1, <2>2, <2>3, <2>4 DEF Moves, NoResult, PendingMoves, Waiting, Early
<1>15. CASE Closed(c)
  <2>1. x.pc = "close" /\ UNCHANGED <<served, found>>
    BY <1>15 DEF Closed, On, world
  <2>2. \/ y.pc = "idle" /\ y.tries = x.tries /\ y.res = "none"
        \/ y.pc = "over" /\ y.tries = x.tries /\ y.res = x.res /\ y.of = x.of
    <3>1. \/ y = [FreshCall EXCEPT !.tries = x.tries]
          \/ y = [FreshCall EXCEPT !.pc = "over", !.res = x.res, !.of = x.of, !.tries = x.tries]
      BY <1>15, <1>0 DEF Closed, Turn, Become, Return, Over
    <3>2. QED
      BY <1>0, <3>1 DEF CallRec
  <2>3. toServer' \subseteq toServer /\ toClient' \subseteq toClient
    BY <1>15 DEF Closed, wires
  <2>4. DOMAIN pending' = DOMAIN pending
    BY <1>15 DEF Closed
  <2>5. QED
    BY <2>1, <2>2, <2>3, <2>4 DEF Moves, NoResult, PendingMoves, Waiting, Early
<1>16. QED
  BY <1>1, <1>2, <1>3, <1>4, <1>5, <1>6, <1>7, <1>8, <1>9, <1>10, <1>11, <1>12, <1>13, <1>14, <1>15
  DEF CallStep

\* Sending moves the call on and leaves pending_ alone.
LEMMA SendMoves ==
    ASSUME TypeInv, NEW c \in Calls, SendRequest(c)
    PROVE  /\ call[c].pc = "send" /\ call'[c].pc \in {"sent", "wait"}
           /\ call'[c].tries = call[c].tries /\ call'[c].att = call[c].att
           /\ call'[c].resend = call[c].resend
           /\ call'[c].res = call[c].res /\ call'[c].of = call[c].of
<1>0. call[c] \in CallRec /\ c \in DOMAIN call
  BY DEF TypeInv, CallsType
<1>1. \/ call'[c] = [call[c] EXCEPT !.pc = "sent"]
      \/ call'[c] = [call[c] EXCEPT !.pc = "wait"]
  BY <1>0 DEF SendRequest, Turn, Become
<1>2. QED
  BY <1>0, <1>1 DEF CallRec, SendRequest, On

\* pending_ is the calls that wait: at the start, and after every step.
LEMMA PendingInit ==
    ASSUME RpcInit
    PROVE  PendingIsWaiting
<1>1. \A c \in Calls : call[c].pc \in {"idle", "over"}
  BY DEF RpcInit, FreshCall
<1>2. DOMAIN pending = {}
  BY DEF RpcInit
<1>3. QED
  BY <1>1, <1>2 DEF PendingIsWaiting, Waiting

\* The same after every step: a request is registered and forgotten with its call.
LEMMA PendingStep ==
    ASSUME TypeInv, PendingIsWaiting, [RpcNext]_rpcVars
    PROVE  PendingIsWaiting'
<1>1. CASE UNCHANGED rpcVars
  BY <1>1 DEF PendingIsWaiting, MsgId, rpcVars
<1>2. ASSUME NEW c \in Calls, CallStep(c)
      PROVE  PendingIsWaiting'
  <2>1. \A d \in Calls \ {c} : Same(d)
    BY <1>2, CallStepMoves
  <2>2. CASE SendRequest(c)
    <3>1. DOMAIN pending' = DOMAIN pending
      BY <2>2 DEF SendRequest
    <3>2. QED
      BY <2>1, <2>2, <3>1, SendMoves, PendingKept DEF Waiting
  <2>3. CASE ~SendRequest(c)
    <3>1. PendingMoves(c)
      BY <1>2, <2>3, CallMoves
    <3>2. QED
      BY <2>1, <3>1, PendingKept DEF PendingMoves
  <2>4. QED
    BY <2>2, <2>3
<1>3. CASE ReaderStep
  <2>1. CASE ReaderStops
    BY <2>1, PendingSame DEF ReaderStops, callVars, Stays
  <2>2. CASE ReaderLoses
    <3>1. \A c \in Calls : Stays(c)
      BY <2>2, FailSame DEF ReaderLoses, Same
    <3>2. QED
      BY <2>2, <3>1, PendingSame DEF ReaderLoses
  <2>3. CASE MarkResend
    <3>1. ASSUME NEW c \in Calls
          PROVE  Stays(c)
      <4>1. call[c] \in CallRec /\ c \in DOMAIN call
        BY DEF TypeInv, CallsType
      <4>2. call'[c] = call[c] \/ call'[c] = [call[c] EXCEPT !.resend = TRUE]
        BY <2>3, <4>1 DEF MarkResend, Become
      <4>3. QED
        BY <4>1, <4>2 DEF Stays, CallRec
    <3>2. QED
      BY <2>3, <3>1, PendingSame DEF MarkResend
  <2>4. ASSUME NEW m \in toClient, ReadResult(m) \/ ReadBadMsg(m) \/ ReadBadSalt(m)
        PROVE  PendingIsWaiting'
    <3>1. m.id \in Ids
      BY DEF TypeInv, WiresType, ReplyMsg
    <3>2. UNCHANGED pending
      BY <2>4 DEF ReadResult, ReadBadMsg, ReadBadSalt, callVars
    <3>3. \A c \in Calls : Stays(c)
      BY <2>4, <3>1, CompleteSame
      DEF ReadResult, ReadBadMsg, ReadBadSalt, callVars, Same, Stays
    <3>4. QED
      BY <3>2, <3>3, PendingSame
  <2>5. QED
    BY <1>3, <2>1, <2>2, <2>3, <2>4 DEF ReaderStep
<1>4. CASE Outside
  <2>1. UNCHANGED <<pending, call>>
    BY <1>4 DEF Outside, NewSession, ChangeSalt, LineDies, StreamBreaks, Serve, Refuse, callVars
  <2>2. QED
    BY <2>1 DEF PendingIsWaiting, MsgId
<1>5. QED
  BY <1>1, <1>2, <1>3, <1>4 DEF RpcNext

\* pending_ holds the requests of the calls that wait and no other, whatever the
\* readers, the other calls and the network do: nothing is left behind for a late
\* answer to find.
THEOREM PendingIsTheWaiting == RpcSpec => []PendingIsWaiting
<1>1. RpcInit => TypeInv /\ PendingIsWaiting
  BY TypeInit, PendingInit
<1>2. TypeInv /\ PendingIsWaiting /\ [RpcNext]_rpcVars => (TypeInv /\ PendingIsWaiting)'
  BY TypeStep, PendingStep
<1>3. QED
  BY <1>1, <1>2, PTL DEF RpcSpec

-----------------------------------------------------------------------------
(* Whose answer a result is *)

\* What the requests and answers that a step leaves under way come from.
FewerMessages == toServer' \subseteq toServer /\ toClient' \subseteq toClient

\* Requests and answers carry message ids, and calls count within bounds.
LEMMA Numbers ==
    ASSUME TypeInv
    PROVE  /\ \A c \in Calls : call[c].tries \in Nat /\ call[c].att \in Nat
           /\ \A m \in toServer \cup toClient : m.id \in Ids
           /\ \A i \in served : i \in Ids
           /\ \A i \in Ids : /\ i = <<i[1], i[2], i[3]>>
                             /\ i[1] \in Calls /\ i[2] \in Nat /\ i[3] \in Nat
<1>1. ASSUME NEW c \in Calls
      PROVE  call[c].tries \in Nat /\ call[c].att \in Nat
  <2>1. call[c] \in CallRec
    BY DEF TypeInv, CallsType
  <2>2. QED
    BY <2>1, RpcAssumption DEF CallRec
<1>2. \A m \in toServer \cup toClient : m.id \in Ids
  BY DEF TypeInv, WiresType, RequestMsg, ReplyMsg
<1>3. \A i \in Ids : i = <<i[1], i[2], i[3]>> /\ i[1] \in Calls /\ i[2] \in Nat /\ i[3] \in Nat
  BY RpcAssumption DEF Ids
<1>4. QED
  BY <1>1, <1>2, <1>3 DEF TypeInv, WiresType

\* A request that was sent stays sent.
LEMMA BehindKept ==
    ASSUME TypeInv, NEW i \in Ids, Behind(i), Stays(i[1]) \/ Moves(i[1])
    PROVE  Behind(i)'
<1> DEFINE x == call[i[1]]
           y == call'[i[1]]
<1>1. i[2] \in Nat /\ i[3] \in Nat /\ x.tries \in Nat /\ x.att \in Nat
  BY Numbers
<1>2. CASE Stays(i[1])
  BY <1>2 DEF Behind, Stays
<1>3. CASE Moves(i[1])
  BY <1>1, <1>3 DEF Behind, Moves, Early
<1>4. QED
  BY <1>2, <1>3

\* Without a new message, what is said of the messages still holds.
LEMMA OrderKept ==
    ASSUME TypeInv, AnswerInv, FewerMessages, UNCHANGED served,
           \A c \in Calls : Stays(c) \/ Moves(c)
    PROVE  OnlySent' /\ OnTheWayOnce' /\ AnswersTrue' /\ OneCounts'
<1>1. OnlySent'
  <2>1. \A i \in Ids : Behind(i) => Behind(i)'
    BY BehindKept, Numbers
  <2>2. QED
    BY <2>1, Numbers DEF AnswerInv, OnlySent, FewerMessages
<1>2. OnTheWayOnce'
  BY DEF AnswerInv, OnTheWayOnce, FewerMessages
<1>3. AnswersTrue'
  BY DEF AnswerInv, AnswersTrue, FewerMessages
<1>4. \A i \in Ids : MayCount(i)' => MayCount(i)
  BY DEF MayCount, FewerMessages
<1>5. OneCounts'
  BY <1>4 DEF AnswerInv, OneCounts
<1>6. QED
  BY <1>1, <1>2, <1>3, <1>5

\* What counts for a call was sent.
LEMMA CountedBehind ==
    ASSUME TypeInv, OnlySent, NEW i \in Ids, MayCount(i)
    PROVE  Behind(i)
BY DEF OnlySent, MayCount

\* A call on its way keeps to one request that counts.
LEMMA LatestKept ==
    ASSUME TypeInv, AnswerInv, NEW c \in Calls, Same(c) \/ Moves(c), UNCHANGED found,
           NEW i \in Ids, MayCount(i), OfCall(i) = InvokeOf(c)',
           call'[c].pc \in {"register", "send", "sent", "wait"}
    PROVE  /\ i = MsgId(c)' /\ call'[c].pc \in {"sent", "wait"}
           /\ ~call'[c].resend /\ found' # InvokeOf(c)'
<1> DEFINE x == call[c]
           y == call'[c]
<1>1. /\ i[2] \in Nat /\ i[3] \in Nat /\ x.tries \in Nat /\ x.att \in Nat
      /\ i[1] = c /\ i[2] = y.tries
  BY Numbers DEF OfCall, InvokeOf
<1>2. Behind(i)
  BY CountedBehind DEF AnswerInv
<1>3. LatestCounts
  BY DEF AnswerInv
<1>4. CASE Same(c)
  BY <1>3, <1>4 DEF LatestCounts, Same, Stays, InvokeOf, MsgId
<1>5. CASE Moves(c)
  <2>1. ~(x.pc \in Early /\ y.tries = x.tries)
    BY <1>1, <1>2 DEF Behind, Early
  <2>2. y.tries = x.tries => OfCall(i) = InvokeOf(c)
    BY <1>1 DEF OfCall, InvokeOf
  <2>3. ~(x.pc = "register" /\ y.tries = x.tries)
    BY <1>3, <2>2 DEF LatestCounts
  <2>4. ~(x.pc = "wait" /\ x.resend /\ y.tries = x.tries)
    BY <1>3, <2>2 DEF LatestCounts
  <2>5. /\ x.pc = "sent" /\ y.pc = "wait" /\ y.tries = x.tries /\ y.att = x.att
        /\ y.resend = x.resend
    BY <1>5, <2>1, <2>3, <2>4 DEF Moves
  <2>6. QED
    BY <1>3, <2>2, <2>5 DEF LatestCounts, InvokeOf, MsgId
<1>6. QED
  BY <1>4, <1>5

\* And is looked up only where it has sent one.
LEMMA FoundKept ==
    ASSUME TypeInv, AnswerInv, \A c \in Calls : Same(c) \/ Moves(c), UNCHANGED found,
           toClient' \subseteq toClient
    PROVE  FoundCalls'
<1>1. ASSUME NEW c \in Calls
      PROVE  /\ call'[c].pc = "send" => ~call'[c].resend
             /\ \A t \in Nat : found = <<c, t>> => t <= call'[c].tries
             /\ found = InvokeOf(c)' => call'[c].pc \in {"sent", "wait", "leave", "over"}
             /\ found = InvokeOf(c)' => ~(call'[c].pc \in {"sent", "wait"} /\ call'[c].resend)
             /\ call'[c].pc \in {"sent", "wait"} /\ (found = InvokeOf(c)' \/ call'[c].resend)
                   => \A m \in toClient : m.id # MsgId(c)'
  <2> DEFINE x == call[c]
             y == call'[c]
  <2>1. /\ x.pc = "send" => ~x.resend
        /\ \A t \in Nat : found = <<c, t>> => t <= x.tries
        /\ found = InvokeOf(c) => x.pc \in {"sent", "wait", "leave", "over"}
        /\ found = InvokeOf(c) => ~(x.pc \in {"sent", "wait"} /\ x.resend)
        /\ x.pc \in {"sent", "wait"} /\ (found = InvokeOf(c) \/ x.resend)
              => \A m \in toClient : m.id # MsgId(c)
    BY DEF AnswerInv, FoundCalls
  <2>2. x.tries \in Nat
    BY Numbers
  <2>3. CASE Same(c)
    BY <2>1, <2>3 DEF Same, Stays, InvokeOf, MsgId
  <2>4. CASE Moves(c)
    <3>1. y.pc = "send" => ~y.resend
      BY <2>4 DEF Moves, Early
    <3>2. y.tries = x.tries \/ y.tries = x.tries + 1
      BY <2>4 DEF Moves
    <3>3. \A t \in Nat : found = <<c, t>> => t <= y.tries
      BY <2>1, <2>2, <3>2
    <3>4. ASSUME found = InvokeOf(c)'
          PROVE  y.pc \in {"wait", "leave", "over"} /\ (y.pc = "wait" => ~y.resend /\ x.pc = "sent")
                 /\ y.tries = x.tries
      <4>1. x.tries + 1 \in Nat /\ ~(x.tries + 1 <= x.tries)
        BY <2>2
      <4>2. y.tries = x.tries
        BY <2>1, <3>2, <3>4, <4>1 DEF InvokeOf
      <4>3. found = InvokeOf(c)
        BY <3>4, <4>2 DEF InvokeOf
      <4>4. x.pc \in {"sent", "wait", "leave", "over"} /\ ~(x.pc \in {"sent", "wait"} /\ x.resend)
        BY <2>1, <4>3
      <4>5. y.tries # x.tries + 1
        BY <2>2, <4>2
      <4>6. QED
        BY <2>4, <4>2, <4>4, <4>5 DEF Moves, Early
    <3>5. ASSUME y.pc \in {"sent", "wait"}
          PROVE  x.pc = "sent" /\ y.tries = x.tries /\ y.att = x.att /\ y.resend = x.resend
      BY <2>4, <3>5 DEF Moves, Early
    <3>6. ASSUME y.pc \in {"sent", "wait"}, found = InvokeOf(c)' \/ y.resend
          PROVE  \A m \in toClient : m.id # MsgId(c)'
      BY <2>1, <3>5, <3>6 DEF InvokeOf, MsgId
    <3>7. QED
      BY <3>1, <3>3, <3>4, <3>5, <3>6
  <2>5. QED
    BY <2>3, <2>4
<1>2. QED
  BY <1>1 DEF FoundCalls

\* The results there are stay right when nobody is given one.
LEMMA ResultsKept ==
    ASSUME AnswerInv, \A c \in Calls : NoResult(c), served \subseteq served'
    PROVE  ResultsOwn'
BY DEF AnswerInv, ResultsOwn, NoResult, OfCall, InvokeOf

\* Every step that sends nothing, serves nothing and looks nothing up.
LEMMA AnswersKept ==
    ASSUME TypeInv, AnswerInv, FewerMessages, UNCHANGED <<served, found>>,
           \A c \in Calls : Same(c) \/ Moves(c), \A c \in Calls : NoResult(c)
    PROVE  AnswerInv'
<1>1. OnlySent' /\ OnTheWayOnce' /\ AnswersTrue' /\ OneCounts'
  BY OrderKept DEF Same
<1>2. LatestCounts'
  <2>1. \A i \in Ids : MayCount(i)' => MayCount(i)
    BY DEF MayCount, FewerMessages
  <2>2. QED
    BY <2>1, LatestKept DEF LatestCounts, OfCall
<1>3. FoundCalls' /\ ResultsOwn'
  BY FoundKept, ResultsKept DEF FewerMessages
<1>4. QED
  BY <1>1, <1>2, <1>3 DEF AnswerInv

\* found is empty or names a call and its try.
LEMMA NotFound ==
    \A c \in Calls : <<>> # InvokeOf(c)
BY DEF InvokeOf

\* Sending makes the request the one that counts.
LEMMA SendAnswers ==
    ASSUME TypeInv, AnswerInv, NEW c \in Calls, SendRequest(c), \A d \in Calls \ {c} : Same(d),
           \A d \in Calls \ {c} : NoResult(d)
    PROVE  AnswerInv'
<1> DEFINE id == MsgId(c)
           m == [gen |-> line.gen, id |-> id, salt |-> salt.client]
<1>0. /\ OnlySent /\ OnTheWayOnce /\ AnswersTrue /\ OneCounts /\ LatestCounts /\ FoundCalls
      /\ ResultsOwn
  BY DEF AnswerInv
<1>1. /\ call[c].pc = "send" /\ call'[c].pc \in {"sent", "wait"}
      /\ call'[c].tries = call[c].tries /\ call'[c].att = call[c].att
      /\ call'[c].resend = call[c].resend
      /\ call'[c].res = call[c].res /\ call'[c].of = call[c].of
  BY SendMoves
<1>2. call[c].tries \in Nat /\ call[c].att \in Nat
  BY Numbers
<1>3. id \in Ids /\ id[1] = c /\ id[2] = call[c].tries /\ id[3] = call[c].att
  BY <1>1, MsgIdType DEF MsgId, TypeInv
<1>4. UNCHANGED <<toClient, served, found>>
  BY DEF SendRequest
<1>5. toServer' = toServer \/ toServer' = toServer \cup {m}
  BY DEF SendRequest
<1>6. /\ ~call[c].resend /\ found # InvokeOf(c)
      /\ id = MsgId(c)' /\ InvokeOf(c) = InvokeOf(c)' /\ OfCall(id) = InvokeOf(c)
  BY <1>0, <1>1 DEF FoundCalls, MsgId, InvokeOf, OfCall
<1>7. ASSUME NEW i \in Ids, i = id
      PROVE  ~Behind(i) /\ Behind(i)'
  BY <1>1, <1>2, <1>3, <1>7 DEF Behind
<1>8. ASSUME NEW i \in Ids, MayCount(i)
      PROVE  OfCall(i) # InvokeOf(c)
  BY <1>0, <1>1, <1>8 DEF LatestCounts
<1>9. ASSUME NEW i \in Ids, Behind(i)
      PROVE  Behind(i)'
  <2>1. i[1] \in Calls /\ i[2] \in Nat /\ i[3] \in Nat
    BY Numbers
  <2>2. CASE i[1] = c
    BY <1>1, <1>2, <1>9, <2>1, <2>2 DEF Behind
  <2>3. CASE i[1] # c
    BY <1>9, <2>1, <2>3, BehindKept DEF Same
  <2>4. QED
    BY <2>2, <2>3
<1>10. \A i \in Ids : MayCount(i)' => MayCount(i) \/ i = id
  BY <1>4, <1>5 DEF MayCount
<1>11. OnlySent'
  <2>1. \A n \in toServer' \cup toClient' : n \in toServer \cup toClient \/ n.id = id
    BY <1>4, <1>5
  <2>0. /\ \A i \in Ids : Behind(i) \/ i = id => Behind(i)'
        /\ \A n \in toServer \cup toClient : n.id \in Ids
    BY <1>7, <1>9, Numbers
  <2> HIDE DEF id
  <2>2. \A n \in toServer' \cup toClient' : Behind(n.id)'
    BY <1>0, <1>3, <2>0, <2>1 DEF OnlySent
  <2>3. \A i \in served' : Behind(i)'
    BY <1>0, <1>4, <1>9, Numbers DEF OnlySent
  <2>4. QED
    BY <2>2, <2>3 DEF OnlySent
<1>12. OnTheWayOnce'
  <2>1. id \notin served /\ (\A n \in toServer \cup toClient : n.id # id)
    BY <1>0, <1>3, <1>7 DEF OnlySent
  <2>2. m.id = id
    OBVIOUS
  <2> HIDE DEF m, id
  <2>3. QED
    BY <1>0, <1>4, <1>5, <2>1, <2>2 DEF OnTheWayOnce
<1>13. AnswersTrue'
  BY <1>0, <1>4 DEF AnswersTrue
<1>14. OneCounts'
  <2> HIDE DEF id
  <2>1. QED
    BY <1>0, <1>6, <1>8, <1>10 DEF OneCounts
<1>15. LatestCounts'
  <2>1. ASSUME NEW d \in Calls, NEW i \in Ids, MayCount(i)', OfCall(i) = InvokeOf(d)',
               call'[d].pc \in {"register", "send", "sent", "wait"}
        PROVE  /\ i = MsgId(d)' /\ call'[d].pc \in {"sent", "wait"}
               /\ ~call'[d].resend /\ found' # InvokeOf(d)'
    <3>1. CASE d = c
      <4>1. i = id
        BY <1>6, <1>8, <1>10, <2>1, <3>1
      <4>2. QED
        BY <1>1, <1>4, <1>6, <3>1, <4>1
    <3>2. CASE d # c
      <4>1. i # id
        BY <1>6, <2>1, <3>2 DEF OfCall, InvokeOf, MsgId
      <4>2. QED
        BY <1>4, <1>10, <2>1, <3>2, <4>1, LatestKept
    <3>3. QED
      BY <3>1, <3>2
  <2>2. QED
    BY <2>1 DEF LatestCounts, OfCall
<1>16. FoundCalls'
  <2>1. ASSUME NEW d \in Calls
        PROVE  /\ call'[d].pc = "send" => ~call'[d].resend
               /\ \A t \in Nat : found' = <<d, t>> => t <= call'[d].tries
               /\ found' = InvokeOf(d)' => call'[d].pc \in {"sent", "wait", "leave", "over"}
               /\ found' = InvokeOf(d)' => ~(call'[d].pc \in {"sent", "wait"} /\ call'[d].resend)
               /\ call'[d].pc \in {"sent", "wait"} /\ (found' = InvokeOf(d)' \/ call'[d].resend)
                     => \A n \in toClient' : n.id # MsgId(d)'
    <3>1. CASE d = c
      BY <1>0, <1>1, <1>4, <1>6, <3>1 DEF FoundCalls
    <3>2. CASE d # c
      BY <1>0, <1>4, <3>2 DEF FoundCalls, Same, Stays, InvokeOf, MsgId
    <3>3. QED
      BY <3>1, <3>2
  <2>2. QED
    BY <2>1 DEF FoundCalls
<1>17. ResultsOwn'
  <2>1. NoResult(c)
    BY <1>1 DEF NoResult
  <2>2. QED
    BY <1>4, <2>1, ResultsKept
<1>18. QED
  BY <1>11, <1>12, <1>13, <1>14, <1>15, <1>16, <1>17 DEF AnswerInv

\* Marking the call that was looked up.
LEMMA MarkAnswers ==
    ASSUME TypeInv, AnswerInv, MarkResend
    PROVE  AnswerInv'
<1>0. LatestCounts /\ FoundCalls /\ UNCHANGED <<toServer, toClient, served>>
  BY DEF AnswerInv, MarkResend, wires, world
<1>1. ASSUME NEW c \in Calls
      PROVE  /\ Stays(c) /\ call'[c].res = call[c].res /\ call'[c].of = call[c].of
             /\ Same(c) \/ found = InvokeOf(c)
             /\ InvokeOf(c)' = InvokeOf(c) /\ MsgId(c)' = MsgId(c)
  <2>1. call[c] \in CallRec /\ c \in DOMAIN call
    BY DEF TypeInv, CallsType
  <2>2. \/ call'[c] = call[c]
        \/ found = InvokeOf(c) /\ call'[c] = [call[c] EXCEPT !.resend = TRUE]
    BY <2>1 DEF MarkResend, Become, InvokeOf
  <2>3. QED
    BY <2>1, <2>2 DEF Same, Stays, CallRec, InvokeOf, MsgId
<1>2. OnlySent' /\ OnTheWayOnce' /\ AnswersTrue' /\ OneCounts'
  BY <1>0, <1>1, OrderKept DEF FewerMessages
<1>3. found' = <<>> /\ \A c \in Calls : found' # InvokeOf(c)'
  BY <1>1, NotFound DEF MarkResend
<1>4. \A i \in Ids : MayCount(i)' <=> MayCount(i)
  BY <1>0 DEF MayCount
<1>5. LatestCounts'
  BY <1>0, <1>1, <1>3, <1>4 DEF LatestCounts, Same, Stays, OfCall
<1>6. FoundCalls'
  <2>1. \A c \in Calls : \A t \in Nat : found' # <<c, t>>
    BY <1>3
  <2>2. QED
    BY <1>0, <1>1, <1>3, <2>1 DEF FoundCalls, Same, Stays
<1>7. ResultsOwn'
  BY <1>0, <1>1, ResultsKept DEF NoResult, Stays
<1>8. QED
  BY <1>2, <1>5, <1>6, <1>7 DEF AnswerInv

\* A result ends the call that waits for it.
LEMMA ResultAnswers ==
    ASSUME TypeInv, AnswerInv, PendingIsWaiting, NEW m \in toClient, ReadResult(m)
    PROVE  AnswerInv'
<1>1. /\ FewerMessages /\ UNCHANGED <<served, found>> /\ m.kind = "result"
      /\ CompletePending(m.id, "ok") /\ m.id \in Ids
  BY Numbers DEF ReadResult, Incoming, FewerMessages, world
<1>2. \A c \in Calls : Same(c)
  BY <1>1, CompleteSame
<1>3. OnlySent' /\ OnTheWayOnce' /\ AnswersTrue' /\ OneCounts'
  BY <1>1, <1>2, OrderKept DEF Same
<1>4. LatestCounts'
  <2>1. \A i \in Ids : MayCount(i)' => MayCount(i)
    BY <1>1 DEF MayCount, FewerMessages
  <2>2. QED
    BY <1>1, <1>2, <2>1, LatestKept DEF LatestCounts, OfCall
<1>5. FoundCalls'
  BY <1>1, <1>2, FoundKept DEF FewerMessages
<1>6. ResultsOwn'
  <2>1. ASSUME NEW c \in Calls, call'[c].res = "ok"
        PROVE  OfCall(call'[c].of) = InvokeOf(c)' /\ call'[c].of \in served'
    <3>1. call[c] \in CallRec /\ c \in DOMAIN call
      BY DEF TypeInv, CallsType
    <3>2. InvokeOf(c)' = InvokeOf(c)
      BY <1>2 DEF Same, Stays, InvokeOf
    <3>3. CASE call'[c] = call[c]
      BY <1>1, <2>1, <3>2, <3>3 DEF AnswerInv, ResultsOwn
    <3>4. CASE /\ m.id \in DOMAIN pending /\ pending[m.id] = c
               /\ call'[c] = [call[c] EXCEPT !.done = TRUE, !.res = "ok", !.of = m.id]
      <4>1. m.id[1] = c /\ MsgId(c) = m.id
        BY <3>4 DEF TypeInv, LineType, PendingIsWaiting
      <4>2. OfCall(m.id) = InvokeOf(c)
        BY <4>1 DEF OfCall, InvokeOf, MsgId
      <4>3. m.id \in served
        BY <1>1 DEF AnswerInv, AnswersTrue
      <4>4. call'[c].of = m.id
        BY <3>1, <3>4 DEF CallRec
      <4>5. QED
        BY <1>1, <3>2, <4>2, <4>3, <4>4
    <3>5. QED
      BY <1>1, <3>1, <3>3, <3>4 DEF CompletePending, Become
  <2>2. QED
    BY <2>1 DEF ResultsOwn, OfCall
<1>7. QED
  BY <1>3, <1>4, <1>5, <1>6 DEF AnswerInv

\* A refusal of the salt names the call that waits for the message refused.
LEMMA SaltAnswers ==
    ASSUME TypeInv, AnswerInv, PendingIsWaiting, NEW m \in toClient, ReadBadSalt(m)
    PROVE  AnswerInv'
<1>0. OnlySent /\ OnTheWayOnce /\ AnswersTrue /\ LatestCounts /\ FoundCalls
  BY DEF AnswerInv
<1>1. /\ toServer' = toServer /\ toClient' = toClient \ {m} /\ m.kind = "badSalt"
      /\ UNCHANGED <<call, pending, served>> /\ m.id \in Ids
  BY Numbers DEF ReadBadSalt, Incoming, world, callVars
<1>2. \A c \in Calls : Same(c) /\ InvokeOf(c)' = InvokeOf(c) /\ MsgId(c)' = MsgId(c)
  BY <1>1 DEF Same, Stays, InvokeOf, MsgId
<1>3. OnlySent' /\ OnTheWayOnce' /\ AnswersTrue' /\ OneCounts'
  BY <1>1, <1>2, OrderKept DEF Same, FewerMessages
<1>4. m.id \notin served /\ ~MayCount(m.id) /\ Behind(m.id)
  BY <1>0, <1>1 DEF AnswersTrue, OnTheWayOnce, OnlySent, MayCount
<1>5. ASSUME NEW c \in Calls, NEW t \in Nat, found' = <<c, t>>
      PROVE  m.id = MsgId(c) /\ t = call[c].tries /\ call[c].pc \in {"sent", "wait"}
  <2>1. m.id \in DOMAIN pending /\ found' = InvokeOf(pending[m.id])
    <3>1. <<c, t>> # <<>>
      OBVIOUS
    <3>2. QED
      BY <1>5, <3>1 DEF ReadBadSalt
  <2>2. pending[m.id] = m.id[1]
    BY <2>1 DEF TypeInv, LineType
  <2>3. c = m.id[1] /\ t = call[c].tries
    BY <1>5, <2>1, <2>2 DEF InvokeOf
  <2>4. MsgId(c) = m.id /\ call[c].pc \in Waiting
    BY <2>1, <2>3 DEF PendingIsWaiting
  <2>5. call[c].pc # "send"
    <3>1. m.id[1] = c /\ m.id[2] = call[c].tries /\ m.id[3] = call[c].att
      BY <2>4 DEF MsgId
    <3>2. call[c].tries \in Nat /\ call[c].att \in Nat
      BY Numbers
    <3>3. QED
      BY <1>4, <3>1, <3>2 DEF Behind
  <2>6. QED
    BY <2>3, <2>4, <2>5 DEF Waiting
<1>6. ASSUME NEW c \in Calls, found' = InvokeOf(c)
      PROVE  m.id = MsgId(c) /\ call[c].pc \in {"sent", "wait"}
  <2>1. call[c].tries \in Nat
    BY Numbers
  <2>2. QED
    BY <1>5, <1>6, <2>1 DEF InvokeOf
<1>7. \A i \in Ids : MayCount(i)' <=> MayCount(i)
  BY <1>1 DEF MayCount
<1>8. LatestCounts'
  <2>1. ASSUME NEW c \in Calls, NEW i \in Ids, MayCount(i), i = MsgId(c)
        PROVE  found' # InvokeOf(c)
    BY <1>4, <1>6, <2>1
  <2>2. QED
    BY <1>0, <1>1, <1>2, <1>7, <2>1 DEF LatestCounts, OfCall
<1>9. FoundCalls'
  <2>1. ASSUME NEW c \in Calls
        PROVE  /\ call[c].pc = "send" => ~call[c].resend
               /\ \A t \in Nat : found' = <<c, t>> => t <= call[c].tries
               /\ found' = InvokeOf(c) => call[c].pc \in {"sent", "wait", "leave", "over"}
               /\ found' = InvokeOf(c) => ~(call[c].pc \in {"sent", "wait"} /\ call[c].resend)
               /\ call[c].pc \in {"sent", "wait"} /\ (found' = InvokeOf(c) \/ call[c].resend)
                     => \A n \in toClient \ {m} : n.id # MsgId(c)
    <3>1. call[c].tries \in Nat
      BY Numbers
    <3>2. call[c].pc = "send" => ~call[c].resend
      BY <1>0 DEF FoundCalls
    <3>3. \A t \in Nat : found' = <<c, t>> => t <= call[c].tries
      BY <1>5, <3>1
    <3>4. found' = InvokeOf(c) => ~call[c].resend
      BY <1>0, <1>6 DEF FoundCalls
    <3>5. found' = InvokeOf(c) => \A n \in toClient \ {m} : n.id # MsgId(c)
      BY <1>0, <1>6 DEF OnTheWayOnce
    <3>6. call[c].pc \in {"sent", "wait"} /\ call[c].resend => \A n \in toClient : n.id # MsgId(c)
      BY <1>0 DEF FoundCalls
    <3>7. QED
      BY <1>6, <3>2, <3>3, <3>4, <3>5, <3>6
  <2>2. QED
    BY <1>1, <1>2, <2>1 DEF FoundCalls
<1>10. ResultsOwn'
  BY <1>1, ResultsKept DEF NoResult
<1>11. QED
  BY <1>3, <1>8, <1>9, <1>10 DEF AnswerInv

\* The server's answer says what it has done with the request.
LEMMA ReplyAnswers ==
    ASSUME TypeInv, AnswerInv, NEW m \in toServer, NEW kind \in {"result", "badMsg", "badSalt"},
           Reply(m, kind), UNCHANGED <<call, found>>,
           served' = IF kind = "result" THEN served \cup {m.id} ELSE served
    PROVE  AnswerInv'
<1> DEFINE r == [gen |-> m.gen, id |-> m.id, kind |-> kind, salt |-> salt.server]
<1>0. /\ OnlySent /\ OnTheWayOnce /\ AnswersTrue /\ OneCounts /\ LatestCounts /\ FoundCalls
      /\ ResultsOwn
  BY DEF AnswerInv
<1>1. toServer' = toServer \ {m} /\ toClient' = toClient \cup {r} /\ m.id \in Ids
  BY Numbers DEF Reply
<1>2. r.id = m.id /\ r.kind = kind
  OBVIOUS
<1> HIDE DEF r
<1>3. \A c \in Calls : InvokeOf(c)' = InvokeOf(c) /\ MsgId(c)' = MsgId(c)
  BY DEF InvokeOf, MsgId
<1>4. \A i \in Ids : MayCount(i)' => MayCount(i)
  BY <1>1 DEF MayCount
<1>5. OnlySent'
  <2>1. \A i \in Ids : Behind(i)' <=> Behind(i)
    BY DEF Behind
  <2>2. QED
    BY <1>0, <1>1, <1>2, <2>1, Numbers DEF OnlySent
<1>6. OnTheWayOnce'
  BY <1>0, <1>1, <1>2 DEF OnTheWayOnce
<1>7. AnswersTrue'
  BY <1>0, <1>1, <1>2 DEF AnswersTrue, OnTheWayOnce
<1>8. OneCounts'
  BY <1>0, <1>4 DEF OneCounts
<1>9. LatestCounts'
  BY <1>0, <1>3, <1>4 DEF LatestCounts, OfCall
<1>10. FoundCalls'
  <2>1. ASSUME NEW c \in Calls, call[c].pc \in {"sent", "wait"},
               found = InvokeOf(c) \/ call[c].resend
        PROVE  m.id # MsgId(c)
    <3>1. MayCount(m.id)
      BY DEF MayCount
    <3>2. OfCall(MsgId(c)) = InvokeOf(c)
      BY DEF OfCall, MsgId, InvokeOf
    <3>3. QED
      BY <1>0, <1>1, <2>1, <3>1, <3>2 DEF LatestCounts
  <2>2. QED
    BY <1>0, <1>1, <1>2, <1>3, <2>1 DEF FoundCalls
<1>11. ResultsOwn'
  BY <1>0, ResultsKept DEF NoResult
<1>12. QED
  BY <1>5, <1>6, <1>7, <1>8, <1>9, <1>10, <1>11 DEF AnswerInv

\* Nothing was asked or answered at the start.
LEMMA AnswerInit ==
    ASSUME RpcInit
    PROVE  AnswerInv
<1>1. ASSUME NEW c \in Calls
      PROVE  call[c].pc \in {"idle", "over"} /\ ~call[c].resend /\ call[c].res = "none"
  BY DEF RpcInit, FreshCall
<1>2. toServer = {} /\ toClient = {} /\ served = {} /\ found = <<>>
  BY DEF RpcInit
<1>3. \A c \in Calls : found # InvokeOf(c) /\ \A t \in Nat : found # <<c, t>>
  BY <1>2 DEF InvokeOf
<1>4. LatestCounts /\ OneCounts /\ OnlySent /\ OnTheWayOnce /\ AnswersTrue
  BY <1>2 DEF LatestCounts, OneCounts, OnlySent, OnTheWayOnce, AnswersTrue, MayCount
<1>5. FoundCalls
  BY <1>1, <1>2, <1>3 DEF FoundCalls
<1>6. ResultsOwn
  BY <1>1 DEF ResultsOwn
<1>7. QED
  BY <1>4, <1>5, <1>6 DEF AnswerInv

\* Whatever a step does, what is said of the answers holds after it.
LEMMA AnswerStep ==
    ASSUME TypeInv, PendingIsWaiting, AnswerInv, [RpcNext]_rpcVars
    PROVE  AnswerInv'
<1>0. UNCHANGED call => \A c \in Calls : Same(c) /\ NoResult(c)
  BY DEF Same, Stays, NoResult
<1>1. CASE UNCHANGED rpcVars
  BY <1>0, <1>1, AnswersKept DEF rpcVars, FewerMessages
<1>2. ASSUME NEW c \in Calls, CallStep(c)
      PROVE  AnswerInv'
  <2>1. \A d \in Calls \ {c} : Same(d) /\ NoResult(d)
    BY <1>2, CallStepMoves
  <2>2. CASE SendRequest(c)
    BY <2>1, <2>2, SendAnswers
  <2>3. CASE ~SendRequest(c)
    <3>1. Moves(c) /\ NoResult(c) /\ FewerMessages /\ UNCHANGED <<served, found>>
      BY <1>2, <2>3, CallMoves DEF FewerMessages
    <3>2. QED
      BY <2>1, <3>1, AnswersKept
  <2>4. QED
    BY <2>2, <2>3
<1>3. CASE ReaderStep
  <2>1. CASE ReaderStops
    BY <1>0, <2>1, AnswersKept DEF ReaderStops, callVars, wires, world, FewerMessages
  <2>2. CASE ReaderLoses
    <3>1. \A c \in Calls : Same(c) /\ NoResult(c)
      BY <2>2, FailSame DEF ReaderLoses
    <3>2. QED
      BY <2>2, <3>1, AnswersKept DEF ReaderLoses, wires, world, FewerMessages
  <2>3. ASSUME NEW m \in toClient, ReadBadMsg(m)
        PROVE  AnswerInv'
    <3>1. CompletePending(m.id, "refused") /\ m.id \in Ids
          /\ FewerMessages /\ UNCHANGED <<served, found>>
      BY <2>3, Numbers DEF ReadBadMsg, Incoming, FewerMessages, world
    <3>2. \A c \in Calls : Same(c)
      BY <3>1, CompleteSame
    <3>3. ASSUME NEW c \in Calls
          PROVE  NoResult(c)
      <4>1. call[c] \in CallRec /\ c \in DOMAIN call
        BY DEF TypeInv, CallsType
      <4>2. \/ call'[c] = call[c]
            \/ call'[c] = [call[c] EXCEPT !.done = TRUE, !.res = "refused", !.of = m.id]
        BY <3>1, <4>1 DEF CompletePending, Become
      <4>3. QED
        BY <4>1, <4>2 DEF NoResult, CallRec
    <3>4. QED
      BY <3>1, <3>2, <3>3, AnswersKept
  <2>4. QED
    BY <1>3, <2>1, <2>2, <2>3, MarkAnswers, ResultAnswers, SaltAnswers DEF ReaderStep
<1>4. CASE Outside
  <2>1. CASE NewSession \/ ChangeSalt \/ LineDies \/ StreamBreaks
    BY <1>0, <2>1, AnswersKept
    DEF NewSession, ChangeSalt, LineDies, StreamBreaks, callVars, wires, world, FewerMessages
  <2>2. ASSUME NEW m \in toServer, Serve(m) \/ Refuse(m)
        PROVE  AnswerInv'
    <3>1. UNCHANGED <<call, found>>
      BY <2>2 DEF Serve, Refuse, callVars
    <3>2. \/ Reply(m, "result") /\ served' = served \cup {m.id}
          \/ Reply(m, "badSalt") /\ served' = served
          \/ Reply(m, "badMsg") /\ served' = served
      BY <2>2 DEF Serve, Refuse
    <3>3. QED
      BY <3>1, <3>2, ReplyAnswers
  <2>3. QED
    BY <1>4, <2>1, <2>2 DEF Outside
<1>5. QED
  BY <1>1, <1>2, <1>3, <1>4 DEF RpcNext

\* A call that returns a result returns the server's answer to a request of this very
\* call to invoke(), and the server has executed no two requests of one call, for any
\* number of callers, tries and attempts and whatever is lost, refused or late.
THEOREM AnswersAreOwn == RpcSpec => []AnswerIsOwn
<1>1. RpcInit => TypeInv /\ PendingIsWaiting /\ AnswerInv
  BY TypeInit, PendingInit, AnswerInit
<1>2. TypeInv /\ PendingIsWaiting /\ AnswerInv /\ [RpcNext]_rpcVars
      => (TypeInv /\ PendingIsWaiting /\ AnswerInv)'
  BY TypeStep, PendingStep, AnswerStep
<1>3. TypeInv /\ AnswerInv => AnswerIsOwn
  <2>1. ASSUME TypeInv, AnswerInv, NEW i \in served, NEW j \in served, OfCall(i) = OfCall(j)
        PROVE  i = j
    BY <2>1, Numbers DEF AnswerInv, OneCounts, MayCount
  <2>2. QED
    BY <2>1 DEF AnswerInv, ResultsOwn, AnswerIsOwn
<1>4. QED
  BY <1>1, <1>2, <1>3, PTL DEF RpcSpec

-----------------------------------------------------------------------------
(* The first request of a connection *)

\* Call c goes on without a decision about the introduction.
Onward(c) ==
    LET x == call[c]
        y == call'[c] IN
    /\ y.on \in {x.on, 0, line.gen}
    /\ y.pc \in {"register", "send", "wait"}
          => x.pc \in {"register", "send", "sent", "wait"} /\ y.wrap = x.wrap /\ y.on = x.on
    /\ y.pc = "sent" => x.pc = "sent" /\ y.on = x.on

\* It is the same connection, and no request went out on it.
SameLine == /\ line'.gen = line.gen /\ line'.init = line.init /\ line'.alive = line.alive
            /\ first' = first

\* Then what is said of the introduction still holds.
LEMMA IntroKept ==
    ASSUME TypeInv, IntroInv, SameLine, \A c \in Calls : Onward(c)
    PROVE  IntroInv'
<1>1. line.gen \in Nat
  BY DEF TypeInv, LineType, LineRec
<1>2. Begun' <=> Begun
  BY DEF Begun, SameLine
<1>3. ASSUME NEW c \in Calls
      PROVE  /\ call'[c].on <= line.gen
             /\ call'[c].pc \in {"register", "send", "wait"} /\ ~call'[c].wrap
                /\ call'[c].on = line.gen => Begun
             /\ call'[c].pc = "sent" /\ call'[c].on = line.gen => Begun
  BY <1>1 DEF IntroInv, Onward
<1>4. QED
  BY <1>2, <1>3 DEF IntroInv, FirstRequestWrapped, SameLine

\* What the steps of a call do to it and to the connection.
LEMMA CallOnward ==
    ASSUME TypeInv, NEW c \in Calls, CallStep(c)
    PROVE  /\ \A d \in Calls \ {c} : Onward(d)
           /\ \/ Reconnect(c) \/ PrepareRequest(c) \/ SendRequest(c) \/ MarkInit(c)
              \/ Onward(c) /\ SameLine
<1>0. /\ call[c] \in CallRec /\ c \in DOMAIN call /\ FreshCall \in CallRec /\ line \in LineRec
      /\ FreshCall.pc = "idle" /\ FreshCall.on = 0
  BY FreshCallType DEF TypeInv, CallsType, LineType, FreshCall
<1>1. ASSUME NEW d \in Calls \ {c}
      PROVE  Onward(d)
  <2>1. call[d] \in CallRec /\ d \in DOMAIN call
    BY DEF TypeInv, CallsType
  <2>2. CASE Disconnect(c)
    <3>1. call'[d] = call[d] \/ call'[d] = [call[d] EXCEPT !.done = TRUE, !.res = "lost"]
      BY <2>2 DEF Disconnect
    <3>2. QED
      BY <2>1, <3>1 DEF Onward, CallRec
  <2>3. CASE ~Disconnect(c)
    <3>1. call'[d] = call[d]
      BY <2>1, <2>3
      DEF CallStep, EnsureConnected, Reconnect, AskPq, AskDh, AgreeKey, Exchange,
                        StartReader, PrepareRequest, Register, SendRequest, SendFails, MarkInit,
                        Answered, Resend, TimesOut, Closed, Over, Turn, Become, Return
    <3>2. QED
      BY <3>1 DEF Onward
  <2>4. QED
    BY <2>2, <2>3
<1> DEFINE x == call[c]
<1>2. CASE EnsureConnected(c)
  <2>1. \/ call'[c] = [x EXCEPT !.pc = "prepare"]
        \/ call'[c] = [x EXCEPT !.pc = "join"]
    BY <1>2, <1>0 DEF EnsureConnected, Turn, Become, Return, Over
  <2>3. Onward(c)
    BY <1>0, <2>1 DEF Onward, CallRec
  <2>4. SameLine
    BY <1>2, <1>0 DEF EnsureConnected, SameLine, LineRec, world
  <2>5. QED
    BY <1>1, <2>3, <2>4
<1>3. CASE AskPq(c)
  <2>1. \/ call'[c] = [x EXCEPT !.pc = "dh"]
        \/ call'[c] = [x EXCEPT !.pc = "leave", !.res = "lost"]
    BY <1>3, <1>0 DEF AskPq, Exchange, Turn, Become, Return, Over
  <2>3. Onward(c)
    BY <1>0, <2>1 DEF Onward, CallRec
  <2>4. SameLine
    BY <1>3, <1>0 DEF AskPq, Exchange, SameLine, LineRec, world
  <2>5. QED
    BY <1>1, <2>3, <2>4
<1>4. CASE AskDh(c)
  <2>1. \/ call'[c] = [x EXCEPT !.pc = "gen"]
        \/ call'[c] = [x EXCEPT !.pc = "leave", !.res = "lost"]
    BY <1>4, <1>0 DEF AskDh, Exchange, Turn, Become, Return, Over
  <2>3. Onward(c)
    BY <1>0, <2>1 DEF Onward, CallRec
  <2>4. SameLine
    BY <1>4, <1>0 DEF AskDh, Exchange, SameLine, LineRec, world
  <2>5. QED
    BY <1>1, <2>3, <2>4
<1>5. CASE AgreeKey(c)
  <2>1. \/ call'[c] = [x EXCEPT !.pc = "ready"]
        \/ call'[c] = [x EXCEPT !.pc = "leave", !.res = "lost"]
    BY <1>5, <1>0 DEF AgreeKey, Exchange, Turn, Become, Return, Over
  <2>3. Onward(c)
    BY <1>0, <2>1 DEF Onward, CallRec
  <2>4. SameLine
    BY <1>5, <1>0 DEF AgreeKey, Exchange, SameLine, LineRec, world
  <2>5. QED
    BY <1>1, <2>3, <2>4
<1>6. CASE StartReader(c)
  <2>1. call'[c] = [x EXCEPT !.pc = "prepare"]
    BY <1>6, <1>0 DEF StartReader, Turn, Become, Return, Over
  <2>3. Onward(c)
    BY <1>0, <2>1 DEF Onward, CallRec
  <2>4. SameLine
    BY <1>6, <1>0 DEF StartReader, SameLine, LineRec, world
  <2>5. QED
    BY <1>1, <2>3, <2>4
<1>7. CASE Register(c)
  <2>1. call'[c] = [x EXCEPT !.pc = "send", !.done = FALSE, !.resend = FALSE, !.res = "none"]
    BY <1>7, <1>0 DEF Register, Turn, Become, Return, Over
  <2>2. x.pc = "register"
    BY <1>7 DEF Register, On
  <2>3. Onward(c)
    BY <1>0, <2>1, <2>2 DEF Onward, CallRec
  <2>4. SameLine
    BY <1>7, <1>0 DEF Register, SameLine, LineRec, world
  <2>5. QED
    BY <1>1, <2>3, <2>4
<1>8. CASE SendFails(c)
  <2>1. call'[c] = [x EXCEPT !.pc = "leave", !.res = "lost"]
    BY <1>8, <1>0 DEF SendFails, Turn, Become, Return, Over
  <2>3. Onward(c)
    BY <1>0, <2>1 DEF Onward, CallRec
  <2>4. SameLine
    BY <1>8, <1>0 DEF SendFails, SameLine, LineRec, world
  <2>5. QED
    BY <1>1, <2>3, <2>4
<1>9. CASE Answered(c)
  <2>1. \/ call'[c] = [FreshCall EXCEPT !.pc = "over", !.res = x.res, !.of = x.of, !.tries = x.tries]
        \/ call'[c] = [x EXCEPT !.pc = "leave"]
    BY <1>9, <1>0 DEF Answered, Turn, Become, Return, Over
  <2>3. Onward(c)
    BY <1>0, <2>1 DEF Onward, CallRec
  <2>4. SameLine
    BY <1>9, <1>0 DEF Answered, SameLine, LineRec, world
  <2>5. QED
    BY <1>1, <2>3, <2>4
<1>10. CASE Resend(c)
  <2>1. \/ call'[c] = [x EXCEPT !.pc = "register", !.att = @ + 1]
        \/ call'[c] = [x EXCEPT !.pc = "leave", !.res = "spent"]
    BY <1>10, <1>0 DEF Resend, Turn, Become, Return, Over
  <2>2. x.pc = "wait"
    BY <1>10 DEF Resend, On
  <2>3. Onward(c)
    BY <1>0, <2>1, <2>2 DEF Onward, CallRec
  <2>4. SameLine
    BY <1>10, <1>0 DEF Resend, SameLine, LineRec, world
  <2>5. QED
    BY <1>1, <2>3, <2>4
<1>11. CASE TimesOut(c)
  <2>1. call'[c] = [x EXCEPT !.pc = "leave", !.res = "late"]
    BY <1>11, <1>0 DEF TimesOut, Turn, Become, Return, Over
  <2>3. Onward(c)
    BY <1>0, <2>1 DEF Onward, CallRec
  <2>4. SameLine
    BY <1>11, <1>0 DEF TimesOut, SameLine, LineRec, world
  <2>5. QED
    BY <1>1, <2>3, <2>4
<1>12. CASE Disconnect(c)
  <2>1. call'[c] = [FreshCall EXCEPT !.pc = "close", !.on = line.gen, !.tries = x.tries + 1]
    BY <1>12, <1>0 DEF Disconnect, Turn, Become, Return, Over
  <2>3. Onward(c)
    BY <1>0, <2>1 DEF Onward, CallRec
  <2>4. SameLine
    BY <1>12, <1>0 DEF Disconnect, SameLine, LineRec, world
  <2>5. QED
    BY <1>1, <2>3, <2>4
<1>13. CASE Closed(c)
  <2>1. \/ call'[c] = [FreshCall EXCEPT !.tries = x.tries]
        \/ call'[c] = [FreshCall EXCEPT !.pc = "over", !.res = x.res, !.of = x.of, !.tries = x.tries]
    BY <1>13, <1>0 DEF Closed, Turn, Become, Return, Over
  <2>3. Onward(c)
    BY <1>0, <2>1 DEF Onward, CallRec
  <2>4. SameLine
    BY <1>13, <1>0 DEF Closed, SameLine, LineRec, world
  <2>5. QED
    BY <1>1, <2>3, <2>4
<1>14. QED
  BY <1>1, <1>2, <1>3, <1>4, <1>5, <1>6, <1>7, <1>8, <1>9, <1>10, <1>11, <1>12, <1>13
  DEF CallStep

\* Every step keeps the account of how the connection began.
LEMMA IntroStep ==
    ASSUME TypeInv, IntroInv, [RpcNext]_rpcVars
    PROVE  IntroInv'
<1>0. /\ line \in LineRec /\ line.gen \in Nat /\ line.init \in BOOLEAN
      /\ FirstRequestWrapped /\ (line.init => Begun)
      /\ first \in [asked : BOOLEAN, wrapped : BOOLEAN, crossed : BOOLEAN]
  BY DEF TypeInv, LineType, LineRec, IntroInv
<1>a. ASSUME NEW c \in Calls
      PROVE  /\ call[c] \in CallRec /\ c \in DOMAIN call /\ call[c].on \in Nat
             /\ call[c].wrap \in BOOLEAN
  BY DEF TypeInv, CallsType, CallRec
<1>b. ASSUME NEW c \in Calls
      PROVE  /\ call[c].on <= line.gen
             /\ call[c].pc \in {"register", "send", "wait"} /\ ~call[c].wrap
                /\ call[c].on = line.gen => Begun
             /\ call[c].pc = "sent" /\ call[c].on = line.gen => Begun
  BY DEF IntroInv
<1>c. UNCHANGED call => \A c \in Calls : Onward(c)
  BY DEF Onward
<1>1. CASE UNCHANGED rpcVars
  BY <1>1, <1>c, IntroKept DEF rpcVars, SameLine
<1>2. ASSUME NEW c \in Calls, CallStep(c)
      PROVE  IntroInv'
  <2>0. \A d \in Calls \ {c} : Onward(d)
    BY <1>2, CallOnward
  <2>1. CASE Reconnect(c)
    <3>1. \A d \in Calls : call'[d].on = call[d].on
      <4>1. \A d \in Calls \ {c} : call'[d] = call[d]
        BY <2>1, <1>a DEF Reconnect, Turn, Become, Return
      <4>2. \/ call'[c] = [call[c] EXCEPT !.pc = "ready"]
            \/ call'[c] = [call[c] EXCEPT !.pc = "pq"]
            \/ call'[c] = [call[c] EXCEPT !.pc = "leave", !.res = "lost"]
        BY <2>1, <1>a DEF Reconnect, Turn, Become, Return
      <4>3. call'[c].on = call[c].on
        BY <1>a, <4>2 DEF CallRec
      <4>4. QED
        BY <4>1, <4>3
    <3>2. CASE line' = [line EXCEPT !.open = TRUE, !.alive = TRUE, !.cut = FALSE,
                                     !.gen = @ + 1, !.init = FALSE]
               /\ first' = FreshLine
      <4>1. line'.gen = line.gen + 1 /\ ~line'.init
        BY <1>0, <3>2 DEF LineRec
      <4>2. \A d \in Calls : call'[d].on <= line'.gen /\ call'[d].on # line'.gen
        BY <1>0, <1>a, <1>b, <3>1, <4>1
      <4>3. ~first'.asked
        BY <3>2 DEF FreshLine
      <4>4. QED
        BY <4>1, <4>2, <4>3 DEF IntroInv, FirstRequestWrapped
    <3>3. CASE line' = [line EXCEPT !.open = FALSE, !.alive = FALSE] /\ first' = first
      <4>1. line'.gen = line.gen /\ Begun'
        BY <1>0, <3>3 DEF LineRec, Begun
      <4>2. QED
        BY <1>0, <1>b, <3>1, <3>3, <4>1 DEF IntroInv, FirstRequestWrapped
    <3>4. QED
      BY <2>1, <3>2, <3>3 DEF Reconnect
  <2>2. CASE PrepareRequest(c)
    <3>1. SameLine /\ UNCHANGED <<line, first>>
      BY <2>2 DEF PrepareRequest, SameLine, world
    <3> DEFINE b == ~line.init
    <3>2. call'[c] = [call[c] EXCEPT !.pc = "register", !.wrap = b, !.on = line.gen, !.att = 0]
      BY <2>2, <1>a DEF PrepareRequest, Become
    <3>b. b \in BOOLEAN
      OBVIOUS
    <3>3. ~b => Begun
      BY <1>0
    <3> HIDE DEF b
    <3>4. call'[c].pc = "register" /\ call'[c].on = line.gen /\ call'[c].wrap = b
      BY <1>a, <3>2 DEF CallRec
    <3>5. \A d \in Calls \ {c} : call'[d] = call[d]
      BY <2>2, <1>a DEF PrepareRequest, Become
    <3>6. Begun' <=> Begun
      BY <3>1 DEF Begun
    <3>7. QED
      BY <1>0, <1>b, <3>1, <3>3, <3>4, <3>5, <3>6 DEF IntroInv, FirstRequestWrapped
  <2>3. CASE SendRequest(c)
    <3>1. line' = line /\ call[c].pc = "send" /\ (first' = first \/ line.alive)
      BY <2>3 DEF SendRequest, On
    <3>2. \A d \in Calls \ {c} : call'[d] = call[d]
      BY <2>3, <1>a DEF SendRequest, Turn, Become
    <3>3. call'[c].on = call[c].on /\ call'[c].wrap = call[c].wrap
          /\ call'[c].pc \in {"sent", "wait"} /\ (call'[c].pc = "sent" => call[c].wrap)
      <4>1. \/ call'[c] = [call[c] EXCEPT !.pc = "sent"] /\ call[c].wrap
            \/ call'[c] = [call[c] EXCEPT !.pc = "wait"]
        BY <2>3, <1>a DEF SendRequest, Turn, Become
      <4>2. QED
        BY <1>a, <4>1 DEF CallRec
    <3>4. CASE line.alive
      <4>1. /\ first'.asked
            /\ first.asked => first'.wrapped = first.wrapped
            /\ ~first.asked /\ call[c].wrap => first'.wrapped
            /\ first.crossed \/ call[c].on # line.gen => first'.crossed
        <5> DEFINE w == IF first.asked THEN first.wrapped ELSE call[c].wrap
                   b == first.crossed \/ call[c].on # line.gen
        <5>1. w \in BOOLEAN /\ first' = [asked |-> TRUE, wrapped |-> w, crossed |-> b]
          BY <1>0, <1>a, <2>3, <3>4 DEF SendRequest
        <5>2. /\ first.asked => w = first.wrapped
              /\ ~first.asked => w = call[c].wrap
          OBVIOUS
        <5>3. b \in BOOLEAN /\ (first.crossed \/ call[c].on # line.gen => b)
          BY Zenon
        <5> HIDE DEF w, b
        <5>4. QED
          BY <5>1, <5>2, <5>3
      <4>2. FirstRequestWrapped'
        BY <1>0, <1>b, <3>1, <3>4, <4>1 DEF FirstRequestWrapped, Begun
      <4>3. Begun'
        BY <4>1 DEF Begun
      <4>4. QED
        BY <1>b, <3>1, <3>2, <3>3, <4>2, <4>3 DEF IntroInv
    <3>5. CASE ~line.alive
      <4>1. first' = first /\ Begun'
        BY <3>1, <3>5 DEF Begun
      <4>2. QED
        BY <1>0, <1>b, <3>1, <3>2, <3>3, <4>1 DEF IntroInv, FirstRequestWrapped
    <3>6. QED
      BY <3>4, <3>5
  <2>4. CASE MarkInit(c)
    <3>1. /\ line' = [line EXCEPT !.init = TRUE] /\ call[c].pc = "sent"
          /\ first' = [first EXCEPT !.crossed = @ \/ call[c].on # line.gen]
          /\ call'[c] = [call[c] EXCEPT !.pc = "wait"]
          /\ \A d \in Calls \ {c} : call'[d] = call[d]
      BY <2>4, <1>a DEF MarkInit, On, Turn, Become
    <3>2. line'.gen = line.gen /\ line'.alive = line.alive
      BY <1>0, <3>1 DEF LineRec
    <3>3. /\ first'.asked = first.asked /\ first'.wrapped = first.wrapped
          /\ first'.crossed <=> (first.crossed \/ call[c].on # line.gen)
      BY <1>0, <3>1
    <3>4. Begun'
      BY <1>b, <3>1, <3>2, <3>3 DEF Begun
    <3>5. \A d \in Calls : call'[d].on <= line'.gen
      <4>1. call'[c].on = call[c].on
        BY <1>a, <3>1 DEF CallRec
      <4>2. QED
        BY <1>b, <3>1, <3>2, <4>1
    <3>6. FirstRequestWrapped'
      BY <1>0, <3>3 DEF FirstRequestWrapped
    <3>7. QED
      BY <3>4, <3>5, <3>6 DEF IntroInv
  <2>5. CASE Onward(c) /\ SameLine
    BY <2>0, <2>5, IntroKept
  <2>6. QED
    BY <1>2, <2>1, <2>2, <2>3, <2>4, <2>5, CallOnward
<1>3. CASE ReaderStep
  <2>1. SameLine
    BY <1>3, <1>0
    DEF ReaderStep, ReaderStops, ReaderLoses, MarkResend, ReadResult, ReadBadMsg,
                      ReadBadSalt, SameLine, LineRec, world
  <2>2. ASSUME NEW c \in Calls
        PROVE  Onward(c)
    <3>1. \/ call'[c] = call[c]
          \/ call'[c] = [call[c] EXCEPT !.resend = TRUE]
          \/ call'[c] = [call[c] EXCEPT !.done = TRUE, !.res = "lost"]
          \/ \E r \in {"ok", "refused"}, m \in toClient :
                 call'[c] = [call[c] EXCEPT !.done = TRUE, !.res = r, !.of = m.id]
      BY <1>3, <1>a DEF ReaderStep, ReaderStops, ReaderLoses, FailAllPending, MarkResend,
                        ReadResult, ReadBadMsg, ReadBadSalt, CompletePending, Become, callVars
    <3>2. QED
      BY <1>a, <3>1 DEF Onward, CallRec
  <2>3. QED
    BY <2>1, <2>2, IntroKept
<1>4. CASE Outside
  <2>1. CASE LineDies
    <3>1. /\ \E cut \in BOOLEAN : line' = [line EXCEPT !.alive = FALSE, !.cut = cut]
          /\ UNCHANGED <<call, first>>
      BY <1>0, <2>1 DEF LineDies, LineRec, callVars
    <3>2. line'.gen = line.gen /\ Begun'
      BY <1>0, <3>1 DEF LineRec, Begun
    <3>3. QED
      BY <1>0, <1>b, <3>1, <3>2 DEF IntroInv, FirstRequestWrapped
  <2>2. CASE StreamBreaks
    <3>1. SameLine /\ UNCHANGED call
      BY <1>0, <2>2 DEF StreamBreaks, SameLine, LineRec, callVars
    <3>2. QED
      BY <1>c, <3>1, IntroKept
  <2>3. CASE ~LineDies /\ ~StreamBreaks
    <3>1. UNCHANGED <<line, first, call>>
      BY <1>4, <2>3 DEF Outside, NewSession, ChangeSalt, Serve, Refuse, callVars, world
    <3>2. QED
      BY <1>c, <3>1, IntroKept DEF SameLine
  <2>4. QED
    BY <2>1, <2>2, <2>3
<1>5. QED
  BY <1>1, <1>2, <1>3, <1>4 DEF RpcNext

\* The first request on every connection introduces the client, unless a call that had
\* prepared for an earlier connection sent or marked something on this one: whatever
\* the other callers, the reader and the network do.
THEOREM FirstIntroduces == RpcSpec => []FirstRequestWrapped
<1>1. RpcInit => TypeInv /\ IntroInv
  <2>1. ASSUME RpcInit
        PROVE  IntroInv
    <3>1. \A c \in Calls : call[c].pc \in {"idle", "over"} /\ call[c].on = 0
      BY <2>1 DEF RpcInit, FreshCall
    <3>2. ~line.init /\ line.gen = 0 /\ ~first.asked
      BY <2>1 DEF RpcInit, Offline, FreshLine
    <3>3. QED
      BY <3>1, <3>2 DEF IntroInv, FirstRequestWrapped
  <2>2. QED
    BY <2>1, TypeInit
<1>2. TypeInv /\ IntroInv /\ [RpcNext]_rpcVars => (TypeInv /\ IntroInv)'
  BY TypeStep, IntroStep
<1>3. IntroInv => FirstRequestWrapped
  BY DEF IntroInv
<1>4. QED
  BY <1>1, <1>2, <1>3, PTL DEF RpcSpec

\* The types need no fairness.
LEMMA LineTyped == RpcInit /\ [][RpcNext]_rpcVars => []RpcTypeOK
<1>1. RpcInit => TypeInv
  BY TypeInit
<1>2. TypeInv /\ [RpcNext]_rpcVars => TypeInv'
  BY TypeStep
<1>3. TypeInv => RpcTypeOK
  <2>1. ASSUME TypeInv
        PROVE  RpcTypeOK
    <3>1. /\ line.up \in BOOLEAN /\ line.open \in BOOLEAN /\ line.alive \in BOOLEAN
          /\ line.cut \in BOOLEAN /\ line.init \in BOOLEAN /\ line.gen \in Nat /\ line.reader \in {0, line.gen}
      BY <2>1 DEF TypeInv, LineType, LineRec
    <3>2. key \in BOOLEAN /\ salt.client \in Nat /\ salt.server \in Nat
          /\ connector \in Calls \cup {NoCall}
      BY <2>1 DEF TypeInv, LineType
    <3>3. \A i \in DOMAIN pending : i \in Ids /\ pending[i] = i[1]
      BY <2>1 DEF TypeInv, LineType
    <3>4. ASSUME NEW c \in Calls
          PROVE  /\ call[c].att \in 0..Attempts - 1 /\ call[c].tries \in 0..Tries
                 /\ call[c].res \in Results
      BY <2>1 DEF TypeInv, CallsType, CallRec
    <3>5. \A m \in toServer \cup toClient : m.gen = line.gen /\ m.id \in Ids
      BY <2>1 DEF TypeInv, WiresType, RequestMsg, ReplyMsg
    <3>6. QED
      BY <3>1, <3>2, <3>3, <3>4, <3>5 DEF RpcTypeOK
  <2>2. QED
    BY <2>1
<1>4. QED
  BY <1>1, <1>2, <1>3, PTL

\* The types the run checks, for any number of callers, tries and attempts.
THEOREM RpcTypes == RpcSpec => []RpcTypeOK
BY LineTyped, PTL DEF RpcSpec
=============================================================================
