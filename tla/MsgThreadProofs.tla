-------------------------- MODULE MsgThreadProofs --------------------------
(***************************************************************************)
(* Proofs about MsgThread, for every set of clients, every set of delays,  *)
(* every width of the response id and every bound; in the second part that *)
(* MsgThread implements RequestReply.                                      *)
(***************************************************************************)
EXTENDS MsgThread, SequenceTheorems, TLAPS

(* What InsertAt returns.                                                  *)
LEMMA InsertAtIs ==
    ASSUME NEW S, NEW q \in Seq(S), NEW p \in 1 .. Len(q) + 1, NEW m \in S
    PROVE  /\ InsertAt(q, p, m) \in Seq(S)
           /\ Len(InsertAt(q, p, m)) = Len(q) + 1
           /\ \A i \in 1 .. Len(q) + 1 :
                InsertAt(q, p, m)[i] = IF i < p THEN q[i] ELSE IF i = p THEN m ELSE q[i - 1]
<1> DEFINE a == SubSeq(q, 1, p - 1)
           b == SubSeq(q, p, Len(q))
           c == a \o <<m>>
<1>1. /\ a \in Seq(S) /\ Len(a) = p - 1
      /\ \A i \in 1 .. p - 1 : a[i] = q[i]
  OBVIOUS
<1>2. /\ b \in Seq(S) /\ Len(b) = Len(q) - (p - 1)
      /\ \A i \in 1 .. Len(q) - (p - 1) : b[i] = q[p - 1 + i]
  OBVIOUS
<1>3. /\ c \in Seq(S) /\ Len(c) = p
      /\ \A i \in 1 .. p - 1 : c[i] = a[i]
      /\ c[p] = m
  BY <1>1
<1>4. InsertAt(q, p, m) = c \o b
  BY DEF InsertAt
<1> HIDE DEF a, b, c
<1>5. /\ c \o b \in Seq(S) /\ Len(c \o b) = Len(q) + 1
      /\ \A i \in 1 .. Len(q) + 1 :
           (c \o b)[i] = IF i <= p THEN c[i] ELSE b[i - p]
  <2>1. /\ c \o b \in Seq(S)
        /\ Len(c \o b) = Len(c) + Len(b)
        /\ \A i \in 1 .. Len(c) + Len(b) :
             (c \o b)[i] = IF i <= Len(c) THEN c[i] ELSE b[i - Len(c)]
    BY <1>2, <1>3, ConcatProperties, Zenon
  <2>2. Len(c) + Len(b) = Len(q) + 1
    BY <1>2, <1>3
  <2>. QED  BY <2>1, <2>2, <1>3
<1>6. ASSUME NEW i \in 1 .. Len(q) + 1
      PROVE  (c \o b)[i] = IF i < p THEN q[i] ELSE IF i = p THEN m ELSE q[i - 1]
  <2>1. CASE i < p
    BY <2>1, <1>1, <1>3, <1>5
  <2>2. CASE i = p
    BY <2>2, <1>3, <1>5
  <2>3. CASE i > p
    <3>1. i - p \in 1 .. Len(q) - (p - 1) /\ p - 1 + (i - p) = i - 1
      BY <2>3, SMT
    <3>2. b[i - p] = q[p - 1 + (i - p)]
      BY <3>1, <1>2, Zenon
    <3>. QED  BY <2>3, <3>1, <3>2, <1>5
  <2>4. i < p \/ i = p \/ i > p
    OBVIOUS
  <2>. QED  BY <2>1, <2>2, <2>3, <2>4, Zenon
<1>. QED  BY <1>4, <1>5, <1>6

(* What doPost does to the queue and to the loop thread.                   *)
LEMMA EnqueueIs ==
    ASSUME TypeOK, NEW id \in 0 .. IdSpace - 1, NEW d \in Nat, Enqueue(id, d)
    PROVE  /\ mContinue
           /\ stamp' = stamp + 1
           /\ mMsgQ' \in Seq(Messages)
           /\ Len(mMsgQ') = Len(mMsgQ) + 1
           /\ \E p \in 1 .. Len(mMsgQ) + 1 :
                /\ \A i \in 1 .. p - 1 : mMsgQ[i].when <= now + d
                /\ p <= Len(mMsgQ) => mMsgQ[p].when > now + d
                /\ \A i \in 1 .. Len(mMsgQ) + 1 : mMsgQ'[i] =
                     IF i < p THEN mMsgQ[i]
                     ELSE IF i = p THEN [rspId |-> id, when |-> now + d, stamp |-> stamp + 1]
                     ELSE mMsgQ[i - 1]
                /\ loop' = IF p = 1 /\ Asleep THEN "check" ELSE loop
<1> DEFINE m == [rspId |-> id, when |-> now + d, stamp |-> stamp + 1]
<1>1. mMsgQ \in Seq(Messages) /\ m \in Messages
  BY DEF TypeOK, Messages
<1>2. PICK k \in 0 .. Len(mMsgQ) :
        /\ Ahead(k, now + d)
        /\ mMsgQ' = InsertAt(mMsgQ, k + 1, m)
        /\ IF SignalsLoop(k) THEN SignalLoop ELSE UNCHANGED loop
  BY DEF Enqueue
<1> DEFINE p == k + 1
<1>3. p \in 1 .. Len(mMsgQ) + 1
  BY <1>1
<1> HIDE DEF m
<1>4. /\ mMsgQ' \in Seq(Messages)
      /\ Len(mMsgQ') = Len(mMsgQ) + 1
      /\ \A i \in 1 .. Len(mMsgQ) + 1 :
           mMsgQ'[i] = IF i < p THEN mMsgQ[i] ELSE IF i = p THEN m ELSE mMsgQ[i - 1]
  <2>1. mMsgQ' = InsertAt(mMsgQ, p, m)
    BY <1>2
  <2> HIDE DEF p
  <2>2. /\ InsertAt(mMsgQ, p, m) \in Seq(Messages)
        /\ Len(InsertAt(mMsgQ, p, m)) = Len(mMsgQ) + 1
        /\ \A i \in 1 .. Len(mMsgQ) + 1 : InsertAt(mMsgQ, p, m)[i] =
             IF i < p THEN mMsgQ[i] ELSE IF i = p THEN m ELSE mMsgQ[i - 1]
    BY <1>1, <1>3, InsertAtIs
  <2>. QED  BY <2>1, <2>2
<1>5. /\ \A i \in 1 .. p - 1 : mMsgQ[i].when <= now + d
      /\ p <= Len(mMsgQ) => mMsgQ[p].when > now + d
  BY <1>1, <1>2 DEF Ahead
<1>6. loop' = IF p = 1 /\ Asleep THEN "check" ELSE loop
  BY <1>2 DEF SignalsLoop, SignalLoop
<1>. QED  BY <1>3, <1>4, <1>5, <1>6 DEF Enqueue, m

LEMMA EnqueueType ==
    ASSUME TypeOK, NEW id \in 0 .. IdSpace - 1, NEW d \in Nat, Enqueue(id, d)
    PROVE  /\ mMsgQ' \in Seq(Messages)
           /\ stamp' \in Nat
           /\ loop' \in {"none", "check", "waiting", "timed", "handling", "over"}
<1>1. stamp \in Nat /\ loop \in {"none", "check", "waiting", "timed", "handling", "over"}
  BY DEF TypeOK
<1>2. mMsgQ' \in Seq(Messages) /\ stamp' = stamp + 1
  BY EnqueueIs
<1>3. loop' = loop \/ loop' = "check"
  BY EnqueueIs
<1>. QED  BY <1>1, <1>2, <1>3

LEMMA PostArguments == 0 \in 0 .. IdSpace - 1 /\ Delays \subseteq Nat
BY ConstantsAssumption

-----------------------------------------------------------------------------
(* Type correctness.                                                       *)

LEMMA NextRspIdType ==
    ASSUME NEW i \in 0 .. IdSpace - 1
    PROVE  NextRspId(i) \in RspIds
<1>1. CASE i = IdSpace - 1
  <2>1. (i + 1) % IdSpace = 0
    BY <1>1, ConstantsAssumption
  <2>. QED  BY <2>1, ConstantsAssumption DEF NextRspId, RspIds
<1>2. CASE i < IdSpace - 1
  <2>1. (i + 1) % IdSpace = i + 1
    BY <1>2, ConstantsAssumption
  <2>. QED  BY <2>1, <1>2, ConstantsAssumption DEF NextRspId, RspIds
<1>. QED  BY <1>1, <1>2, ConstantsAssumption

(* A client inside sendMsg holds a real response id, so that what it looks *)
(* up in mRespMap is a stamp.                                              *)
InSend(c) == pc[c] \in {"post", "reply", "blocked"}
HoldsId == \A c \in Clients : InSend(c) => rspId[c] \in RspIds
TypeInv == TypeOK /\ HoldsId

LEMMA TypeInit == Init => TypeInv
<1> SUFFICES ASSUME Init PROVE TypeInv
  OBVIOUS
<1>1. NoMsg \in Messages /\ 0 \in 0 .. IdSpace - 1
  BY PostArguments DEF NoMsg, Messages
<1>2. TypeOK
  <2>1. <<>> \in Seq(Messages)
    OBVIOUS
  <2>2. [i \in RspIds |-> 0] \in [RspIds -> Nat]
    OBVIOUS
  <2>3. /\ pc \in [Clients -> {"idle", "post", "reply", "blocked", "join"}]
        /\ rspId \in [Clients -> 0 .. IdSpace - 1]
        /\ mine \in [Clients -> Nat] /\ answer \in [Clients -> Nat]
        /\ result \in [Clients -> {"none", "ok", "exiting"}]
    BY <1>1 DEF Init
  <2>. QED  BY <1>1, <2>1, <2>2, <2>3 DEF Init, TypeOK
<1>3. HoldsId
  BY DEF Init, HoldsId, InSend
<1>. QED  BY <1>2, <1>3 DEF TypeInv

LEMMA TypeStep == TypeInv /\ [Next]_vars => TypeOK'
<1> SUFFICES ASSUME TypeInv, [Next]_vars PROVE TypeOK'
  OBVIOUS
<1>0. TypeOK /\ HoldsId
  BY DEF TypeInv
<1>1. CASE Run
  BY <1>0, <1>1 DEF TypeOK, Run, queueVars, clientVars
<1>2. CASE \E c \in Clients : PostMsg(c)
  <2>1. PICK c \in Clients, d \in Delays : Enqueue(0, d) /\ PostMsg(c)
    BY <1>2 DEF PostMsg
  <2>2. /\ mMsgQ' \in Seq(Messages) /\ stamp' \in Nat
        /\ loop' \in {"none", "check", "waiting", "timed", "handling", "over"}
    BY <1>0, <2>1, EnqueueType, PostArguments
  <2>. QED  BY <1>0, <2>1, <2>2 DEF TypeOK, PostMsg, clientVars
<1>3. CASE \E c \in Clients : SendMsg(c)
  <2>1. PICK c \in Clients : SendMsg(c)
    BY <1>3
  <2>2. NextRspId(mCurRespId) \in 0 .. IdSpace - 1
    BY <1>0, NextRspIdType DEF TypeOK, RspIds
  <2>. QED  BY <1>0, <2>1, <2>2 DEF TypeOK, SendMsg, queueVars, loopVars
<1>4. CASE \E c \in Clients : SendPosted(c)
  <2>1. PICK c \in Clients : SendPosted(c)
    BY <1>4
  <2>2. Enqueue(rspId[c], 0) /\ rspId[c] \in 0 .. IdSpace - 1
    BY <1>0, <2>1 DEF TypeOK, SendPosted
  <2>3. /\ mMsgQ' \in Seq(Messages) /\ stamp' \in Nat
        /\ loop' \in {"none", "check", "waiting", "timed", "handling", "over"}
    BY <1>0, <2>2, EnqueueType
  <2>. QED  BY <1>0, <2>1, <2>3 DEF TypeOK, SendPosted
<1>5. CASE \E c \in Clients : SendRefused(c) \/ SendAbandoned(c)
  BY <1>0, <1>5 DEF TypeOK, SendRefused, SendAbandoned, queueVars, loopVars
<1>6. CASE \E c \in Clients : SendBlocks(c) \/ SenderSpurious(c) \/ Joined(c)
  BY <1>0, <1>6 DEF TypeOK, SendBlocks, SenderSpurious, Joined, queueVars, loopVars
<1>7. CASE \E c \in Clients : SendAnswered(c)
  <2> PICK c \in Clients : SendAnswered(c)
    BY <1>7
  <2>1. mRespMap' \in [RspIds -> Nat]
    BY <1>0 DEF TypeOK, SendAnswered
  <2>2. answer' \in [Clients -> Nat]
    <3>1. mRespMap[rspId[c]] \in Nat
      BY <1>0 DEF TypeOK, SendAnswered, HoldsId, InSend
    <3>. QED  BY <1>0, <3>1 DEF TypeOK, SendAnswered
  <2>. QED  BY <1>0, <2>1, <2>2 DEF TypeOK, SendAnswered, queueVars, loopVars
<1>8. CASE \E c \in Clients : Exit(c)
  BY <1>0, <1>8 DEF TypeOK, Exit, SignalLoop, WakeSenders, queueVars
<1>9. CASE LoopTakes
  <2>1. mMsgQ[1] \in Messages /\ Tail(mMsgQ) \in Seq(Messages)
    BY <1>0, <1>9 DEF TypeOK, LoopTakes
  <2>. QED  BY <1>0, <1>9, <2>1 DEF TypeOK, LoopTakes, clientVars
<1>10. CASE LoopTimedWait
  <2>1. mMsgQ[1].when \in Nat
    <3>1. mMsgQ[1] \in Messages
      BY <1>0, <1>10 DEF TypeOK, LoopTimedWait
    <3>. QED  BY <3>1 DEF Messages
  <2>. QED  BY <1>0, <1>10, <2>1 DEF TypeOK, LoopTimedWait, queueVars, clientVars
<1>11. CASE LoopOver \/ LoopWaits \/ LoopTimeout \/ HandlerReturns \/ LoopSpurious
  BY <1>0, <1>11 DEF TypeOK, LoopOver, LoopWaits, LoopTimeout, HandlerReturns, LoopSpurious,
     queueVars, clientVars
<1>12. CASE PostReponse
  <2>1. mRespMap' \in [RspIds -> Nat]
    BY <1>0, <1>12 DEF TypeOK, PostReponse, Messages
  <2>2. pc' \in [Clients -> {"idle", "post", "reply", "blocked", "join"}]
    BY <1>0, <1>12 DEF TypeOK, PostReponse, WakeSenders
  <2>. QED  BY <1>0, <1>12, <2>1, <2>2 DEF TypeOK, PostReponse, queueVars
<1>13. CASE HandlerPosts
  <2>1. PICK d \in Delays : Enqueue(0, d)
    BY <1>0, <1>13 DEF TypeOK, HandlerPosts
  <2>2. /\ mMsgQ' \in Seq(Messages) /\ stamp' \in Nat
        /\ loop' \in {"none", "check", "waiting", "timed", "handling", "over"}
    BY <1>0, <2>1, EnqueueType, PostArguments
  <2>. QED  BY <1>0, <1>13, <2>2 DEF TypeOK, HandlerPosts, clientVars
<1>14. CASE Tick
  BY <1>0, <1>14 DEF TypeOK, Tick, queueVars, loopVars, clientVars
<1>15. CASE UNCHANGED vars
  BY <1>0, <1>15 DEF TypeOK, vars
<1>. QED
  BY <1>1, <1>2, <1>3, <1>4, <1>5, <1>6, <1>7, <1>8, <1>9, <1>10, <1>11, <1>12,
     <1>13, <1>14, <1>15 DEF Next, Client, SendStep, Loop

LEMMA HoldsIdStep == TypeInv /\ [Next]_vars => HoldsId'
<1> SUFFICES ASSUME TypeInv, [Next]_vars PROVE HoldsId'
  OBVIOUS
<1> USE DEF TypeInv, TypeOK, HoldsId, InSend
<1>1. CASE UNCHANGED <<pc, rspId>>
  BY <1>1
<1>2. CASE \E c \in Clients : SendMsg(c)
  BY <1>2, NextRspIdType DEF SendMsg
<1>3. CASE \E c \in Clients : SendPosted(c) \/ SendBlocks(c) \/ SenderSpurious(c)
  BY <1>3 DEF SendPosted, SendBlocks, SenderSpurious
<1>4. CASE \E c \in Clients :
        SendRefused(c) \/ SendAbandoned(c) \/ SendAnswered(c) \/ Joined(c)
  BY <1>4 DEF SendRefused, SendAbandoned, SendAnswered, Joined
<1>5. CASE PostReponse \/ \E c \in Clients : Exit(c)
  BY <1>5 DEF PostReponse, Exit, WakeSenders
<1>. QED
  BY <1>1, <1>2, <1>3, <1>4, <1>5
     DEF Next, Client, SendStep, Loop, Run, PostMsg, HandlerPosts, LoopOver, LoopWaits,
         LoopTimedWait, LoopTakes, LoopTimeout, HandlerReturns, Tick, LoopSpurious,
         clientVars, vars

LEMMA TypeInvariant == Spec => []TypeInv
<1>1. TypeInv /\ [Next]_vars => TypeInv'
  BY TypeStep, HoldsIdStep DEF TypeInv
<1>. QED  BY TypeInit, <1>1, PTL DEF Spec

\* Every variable of the message thread keeps its type.
THEOREM TypeCorrect == Spec => []TypeOK
<1>1. TypeInv => TypeOK
  BY DEF TypeInv
<1>. QED  BY TypeInvariant, <1>1, PTL

-----------------------------------------------------------------------------
(* The order of the queue.                                                 *)

(* Only doPost and the loop thread change the queue.                       *)
LEMMA QueueChanges ==
    ASSUME TypeInv, [Next]_vars
    PROVE  \/ \E id \in 0 .. IdSpace - 1, d \in Nat : Enqueue(id, d)
           \/ LoopTakes
           \/ UNCHANGED queueVars
<1>1. CASE \E c \in Clients : PostMsg(c)
  BY <1>1, PostArguments DEF PostMsg
<1>2. CASE \E c \in Clients : SendPosted(c)
  BY <1>2 DEF SendPosted, TypeInv, TypeOK
<1>3. CASE HandlerPosts
  BY <1>3, PostArguments DEF HandlerPosts
<1>. QED
  BY <1>1, <1>2, <1>3
     DEF Next, Client, SendStep, Loop, Run, SendMsg, SendRefused, SendAbandoned,
         SendBlocks, SendAnswered, SenderSpurious, Exit, Joined, LoopOver, LoopWaits,
         LoopTimedWait, LoopTimeout, PostReponse, HandlerReturns, Tick, LoopSpurious,
         queueVars, vars

(* Stamps in the queue are old, so a new message comes after its equals.   *)
StampsOld == \A i \in 1 .. Len(mMsgQ) : mMsgQ[i].stamp <= stamp
QueueInv == QueueOrdered /\ StampsOld

LEMMA QueueStep == TypeInv /\ QueueInv /\ [Next]_vars => QueueInv'
<1> SUFFICES ASSUME TypeInv, QueueInv, [Next]_vars PROVE QueueInv'
  OBVIOUS
<1>0. /\ mMsgQ \in Seq(Messages) /\ stamp \in Nat /\ now \in Nat
      /\ \A i \in 1 .. Len(mMsgQ) : mMsgQ[i].when \in Nat /\ mMsgQ[i].stamp \in Nat
  <2>1. mMsgQ \in Seq(Messages) /\ stamp \in Nat /\ now \in Nat
    BY DEF TypeInv, TypeOK
  <2>2. \A i \in 1 .. Len(mMsgQ) : mMsgQ[i] \in Messages
    BY <2>1
  <2>. QED  BY <2>1, <2>2 DEF Messages
<1>1. ASSUME NEW id \in 0 .. IdSpace - 1, NEW d \in Nat, Enqueue(id, d)
      PROVE  QueueInv'
  <2> DEFINE n == Len(mMsgQ)
             w == now + d
  <2>1. PICK p \in 1 .. n + 1 :
          /\ \A i \in 1 .. p - 1 : mMsgQ[i].when <= w
          /\ p <= n => mMsgQ[p].when > w
          /\ \A i \in 1 .. n + 1 : mMsgQ'[i] =
               IF i < p THEN mMsgQ[i]
               ELSE IF i = p THEN [rspId |-> id, when |-> w, stamp |-> stamp + 1]
               ELSE mMsgQ[i - 1]
    BY <1>1, EnqueueIs DEF TypeInv
  <2>2. n \in Nat /\ w \in Nat /\ Len(mMsgQ') = n + 1 /\ stamp' = stamp + 1
    <3>1. Len(mMsgQ') = n + 1 /\ stamp' = stamp + 1
      BY <1>1, EnqueueIs DEF TypeInv
    <3>2. n \in Nat /\ w \in Nat
      BY <1>0
    <3>. QED  BY <3>1, <3>2
  <2>3. \A i \in 1 .. n : i >= p => mMsgQ[i].when > w
    <3>1. ASSUME NEW i \in 1 .. n, i >= p PROVE mMsgQ[i].when > w
      <4>1. p \in 1 .. n /\ (p < i => Before(mMsgQ[p], mMsgQ[i]))
        BY <2>2, <3>1 DEF QueueInv, QueueOrdered
      <4>2. mMsgQ[p].when > w /\ mMsgQ[p].when \in Nat /\ mMsgQ[i].when \in Nat
        BY <1>0, <2>1, <4>1
      <4>. QED  BY <2>2, <3>1, <4>1, <4>2 DEF Before
    <3>. QED  BY <3>1
  <2>4. /\ \A i \in 1 .. n + 1 : i < p => i \in 1 .. n /\ mMsgQ'[i] = mMsgQ[i]
        /\ mMsgQ'[p].when = w /\ mMsgQ'[p].stamp = stamp + 1
        /\ \A i \in 1 .. n + 1 : i > p => i - 1 \in 1 .. n /\ mMsgQ'[i] = mMsgQ[i - 1]
    <3>1. \A i \in 1 .. n + 1 : (i < p => i \in 1 .. n) /\ (i > p => i - 1 \in 1 .. n /\ i # p /\ ~(i < p))
      BY <2>2
    <3>2. mMsgQ'[p] = [rspId |-> id, when |-> w, stamp |-> stamp + 1]
      BY <2>1, <2>2
    <3> HIDE DEF n, w
    <3>. QED  BY <2>1, <3>1, <3>2
  <2> HIDE DEF n, w
  <2>5. \A i \in 1 .. n + 1 : mMsgQ'[i].stamp <= stamp + 1
    <3>1. \A i \in 1 .. n : mMsgQ[i].stamp \in Nat /\ mMsgQ[i].stamp <= stamp + 1
      BY <1>0 DEF QueueInv, StampsOld, n
    <3>2. ASSUME NEW i \in 1 .. n + 1 PROVE mMsgQ'[i].stamp <= stamp + 1
      <4>1. CASE i < p
        BY <2>4, <3>1, <4>1
      <4>2. CASE i = p
        BY <1>0, <2>4, <4>2
      <4>3. CASE i > p
        BY <2>4, <3>1, <4>3
      <4>. QED  BY <2>2, <4>1, <4>2, <4>3
    <3>. QED  BY <3>2
  <2>6. ASSUME NEW i \in 1 .. n + 1, NEW j \in 1 .. n + 1, i < j
        PROVE  Before(mMsgQ'[i], mMsgQ'[j])
    <3>0. \A a, b \in 1 .. n : a < b => Before(mMsgQ[a], mMsgQ[b])
      BY DEF QueueInv, QueueOrdered, n
    <3>1. CASE j < p
      <4>1. i < p
        BY <2>2, <2>6, <3>1
      <4>. QED  BY <2>4, <2>6, <3>0, <3>1, <4>1
    <3>2. CASE j = p
      <4>1. i \in 1 .. n /\ mMsgQ'[i] = mMsgQ[i] /\ mMsgQ[i].when <= w
        BY <2>1, <2>2, <2>4, <2>6, <3>2
      <4>2. mMsgQ[i].when \in Nat /\ mMsgQ[i].stamp \in Nat /\ mMsgQ[i].stamp <= stamp
        BY <1>0, <4>1 DEF QueueInv, StampsOld, n
      <4>. QED  BY <1>0, <2>2, <2>4, <3>2, <4>1, <4>2 DEF Before
    <3>3. CASE j > p /\ i = p
      <4>1. j - 1 \in 1 .. n /\ mMsgQ'[j] = mMsgQ[j - 1] /\ j - 1 >= p
        BY <2>2, <2>4, <3>3
      <4>. QED  BY <1>0, <2>2, <2>3, <2>4, <3>3, <4>1 DEF Before
    <3>4. CASE j > p /\ i < p
      <4>1. j - 1 \in 1 .. n /\ mMsgQ'[j] = mMsgQ[j - 1] /\ i < j - 1
        BY <2>2, <2>4, <3>4
      <4>. QED  BY <2>4, <3>0, <3>4, <4>1
    <3>5. CASE j > p /\ i > p
      <4>1. /\ j - 1 \in 1 .. n /\ mMsgQ'[j] = mMsgQ[j - 1]
            /\ i - 1 \in 1 .. n /\ mMsgQ'[i] = mMsgQ[i - 1]
            /\ i - 1 < j - 1
        BY <2>2, <2>4, <2>6, <3>5
      <4>. QED  BY <3>0, <4>1
    <3>. QED  BY <2>2, <2>6, <3>1, <3>2, <3>3, <3>4, <3>5
  <2>. QED  BY <2>2, <2>5, <2>6 DEF QueueInv, QueueOrdered, StampsOld
<1>2. CASE LoopTakes
  <2>1. /\ mMsgQ' = Tail(mMsgQ) /\ mMsgQ # <<>> /\ stamp' = stamp
    BY <1>2 DEF LoopTakes
  <2>2. Len(mMsgQ') = Len(mMsgQ) - 1 /\ \A i \in 1 .. Len(mMsgQ) - 1 : mMsgQ'[i] = mMsgQ[i + 1]
    BY <1>0, <2>1
  <2>3. \A i \in 1 .. Len(mMsgQ') : i + 1 \in 1 .. Len(mMsgQ)
    BY <1>0, <2>1, <2>2
  <2>. QED  BY <1>0, <2>1, <2>2, <2>3 DEF QueueInv, QueueOrdered, StampsOld
<1>3. CASE UNCHANGED queueVars
  BY <1>3 DEF queueVars, QueueInv, QueueOrdered, StampsOld
<1>. QED  BY <1>1, <1>2, <1>3, QueueChanges

\* Messages are kept in the order they fall due, and in the order they were
\* posted when they fall due together, for any delays and any number of posts.
THEOREM QueueIsOrdered == Spec => []QueueOrdered
<1>1. Init => QueueInv
  BY DEF Init, QueueInv, QueueOrdered, StampsOld
<1>2. TypeInv /\ QueueInv /\ [Next]_vars => QueueInv'
  BY QueueStep
<1>3. QueueInv => QueueOrdered
  BY DEF QueueInv
<1>. QED  BY TypeInvariant, <1>1, <1>2, <1>3, PTL DEF Spec

-----------------------------------------------------------------------------
(* No sleep is missed.                                                     *)

LEMMA NoMissedReplyStep == TypeInv /\ NoMissedReply /\ [Next]_vars => NoMissedReply'
<1> SUFFICES ASSUME TypeInv, NoMissedReply, [Next]_vars PROVE NoMissedReply'
  OBVIOUS
<1>0. /\ pc \in [Clients -> {"idle", "post", "reply", "blocked", "join"}]
      /\ rspId \in [Clients -> 0 .. IdSpace - 1]
      /\ mRespMap \in [RspIds -> Nat]
      /\ \A c \in Clients : pc[c] = "blocked" => rspId[c] \in RspIds
  BY DEF TypeInv, TypeOK, HoldsId, InSend
<1>1. CASE UNCHANGED <<mContinue, mRespMap, pc, rspId>>
  BY <1>1 DEF NoMissedReply
<1>2. CASE Run
  BY <1>2 DEF NoMissedReply, Run, clientVars
<1>3. CASE \E c \in Clients :
        SendMsg(c) \/ SendPosted(c) \/ SendRefused(c) \/ SendAbandoned(c)
        \/ SendBlocks(c) \/ Joined(c) \/ SenderSpurious(c)
  BY <1>0, <1>3 DEF NoMissedReply, SendMsg, SendPosted, SendRefused, SendAbandoned,
     SendBlocks, Joined, SenderSpurious
<1>4. CASE \E c \in Clients : SendAnswered(c)
  <2>1. PICK c \in Clients : SendAnswered(c)
    BY <1>4
  <2>2. rspId[c] \in RspIds
    BY <2>1 DEF SendAnswered, TypeInv, HoldsId, InSend
  <2>. QED  BY <1>0, <2>1, <2>2 DEF NoMissedReply, SendAnswered
<1>5. CASE \E c \in Clients : Exit(c)
  BY <1>0, <1>5 DEF NoMissedReply, Exit, WakeSenders
<1>6. CASE PostReponse
  BY <1>0, <1>6 DEF NoMissedReply, PostReponse, WakeSenders
<1>. QED
  BY <1>1, <1>2, <1>3, <1>4, <1>5, <1>6
     DEF Next, Client, SendStep, Loop, PostMsg, HandlerPosts, LoopOver, LoopWaits,
         LoopTimedWait, LoopTakes, LoopTimeout, HandlerReturns, Tick, LoopSpurious,
         clientVars, vars

\* A sender never sleeps through its answer or through exit.
THEOREM SendersWakeUp == Spec => []NoMissedReply
<1>1. Init => NoMissedReply
  BY DEF Init, NoMissedReply
<1>. QED  BY TypeInvariant, <1>1, NoMissedReplyStep, PTL DEF Spec

LEMMA NoMissedMessageStep == TypeInv /\ NoMissedMessage /\ [Next]_vars => NoMissedMessage'
<1> SUFFICES ASSUME TypeInv, NoMissedMessage, [Next]_vars PROVE NoMissedMessage'
  OBVIOUS
<1>0. /\ mMsgQ \in Seq(Messages) /\ deadline \in Nat
      /\ loop \in {"none", "check", "waiting", "timed", "handling", "over"}
  BY DEF TypeInv, TypeOK
<1>1. CASE UNCHANGED <<mContinue, mMsgQ, loop, deadline>>
  BY <1>1 DEF NoMissedMessage, Asleep
<1>2. CASE Run
  BY <1>2 DEF NoMissedMessage, Asleep, Run, queueVars
<1>3. ASSUME NEW id \in 0 .. IdSpace - 1, NEW d \in Nat, Enqueue(id, d),
             UNCHANGED <<mContinue, deadline>>
      PROVE  NoMissedMessage'
  <2>1. PICK p \in 1 .. Len(mMsgQ) + 1 :
          /\ \A i \in 1 .. Len(mMsgQ) + 1 : mMsgQ'[i] =
               IF i < p THEN mMsgQ[i]
               ELSE IF i = p THEN [rspId |-> id, when |-> now + d, stamp |-> stamp + 1]
               ELSE mMsgQ[i - 1]
          /\ loop' = IF p = 1 /\ Asleep THEN "check" ELSE loop
    BY <1>3, EnqueueIs DEF TypeInv
  <2>2. mContinue /\ mMsgQ' \in Seq(Messages) /\ Len(mMsgQ') = Len(mMsgQ) + 1
    BY <1>3, EnqueueIs DEF TypeInv
  <2>3. CASE ~Asleep
    BY <2>1, <2>3 DEF NoMissedMessage, Asleep
  <2>4. CASE Asleep /\ p = 1
    BY <2>1, <2>4 DEF NoMissedMessage, Asleep
  <2>5. CASE Asleep /\ p # 1
    <3>1. mMsgQ # <<>> /\ mMsgQ'[1] = mMsgQ[1] /\ mMsgQ' # <<>>
      BY <1>0, <2>1, <2>2, <2>5
    <3>2. loop' = loop /\ loop = "timed"
      BY <2>1, <2>5, <3>1 DEF NoMissedMessage, Asleep
    <3>. QED  BY <1>3, <2>2, <3>1, <3>2 DEF NoMissedMessage, Asleep
  <2>. QED  BY <2>3, <2>4, <2>5
<1>4. CASE \E c \in Clients : PostMsg(c)
  <2>1. PICK c \in Clients, d \in Delays : Enqueue(0, d) /\ PostMsg(c)
    BY <1>4 DEF PostMsg
  <2>. QED  BY <2>1, <1>3, PostArguments DEF PostMsg
<1>5. CASE \E c \in Clients : SendPosted(c)
  <2>1. PICK c \in Clients : SendPosted(c)
    BY <1>5
  <2>2. rspId[c] \in 0 .. IdSpace - 1
    BY DEF TypeInv, TypeOK
  <2>. QED  BY <2>1, <2>2, <1>3 DEF SendPosted
<1>6. CASE HandlerPosts
  <2>1. PICK d \in Delays : Enqueue(0, d)
    BY <1>6 DEF HandlerPosts
  <2>. QED  BY <2>1, <1>3, <1>6, PostArguments DEF HandlerPosts
<1>7. CASE \E c \in Clients : Exit(c)
  BY <1>0, <1>7 DEF NoMissedMessage, Asleep, Exit, SignalLoop, queueVars
<1>8. CASE LoopTimedWait
  <2>1. mMsgQ[1].when \in Nat
    <3>1. mMsgQ[1] \in Messages
      BY <1>0, <1>8 DEF LoopTimedWait
    <3>. QED  BY <3>1 DEF Messages
  <2>. QED  BY <1>8, <2>1 DEF NoMissedMessage, Asleep, LoopTimedWait, queueVars
<1>9. CASE LoopOver \/ LoopWaits \/ LoopTakes \/ LoopTimeout \/ HandlerReturns
           \/ PostReponse \/ LoopSpurious
  BY <1>9 DEF NoMissedMessage, Asleep, LoopOver, LoopWaits, LoopTakes, LoopTimeout,
     HandlerReturns, PostReponse, LoopSpurious, queueVars
<1>. QED
  BY <1>1, <1>2, <1>4, <1>5, <1>6, <1>7, <1>8, <1>9
     DEF Next, Client, SendStep, Loop, SendMsg, SendRefused, SendAbandoned, SendBlocks,
         SendAnswered, Joined, SenderSpurious, Tick, queueVars, loopVars, vars

\* The loop thread never sleeps through a message that is due, nor through exit,
\* although doPost signals it only when a message became the first one.
THEOREM LoopWakesUp == Spec => []NoMissedMessage
<1>1. Init => NoMissedMessage
  BY DEF Init, NoMissedMessage, Asleep
<1>. QED  BY TypeInvariant, <1>1, NoMissedMessageStep, PTL DEF Spec

-----------------------------------------------------------------------------
(* What exit() leaves behind.                                              *)

(* The life of the thread.  While nobody joins, a thread told to exit has  *)
(* ended, and it ends only with an empty queue.                            *)
LifeInv ==
    /\ ~ran => /\ ~mContinue /\ ~mThreadCreated /\ loop = "none" /\ mMsgQ = <<>>
               /\ \A c \in Clients : pc[c] = "idle"
    /\ ran /\ mContinue => mThreadCreated
    /\ ran /\ ~mContinue => loop = "over" \/ \E c \in Clients : pc[c] = "join"
    /\ loop = "over" => ~mContinue /\ mMsgQ = <<>>

LEMMA LifeStep ==
    ASSUME ~CreateMayFail
    PROVE  TypeInv /\ LifeInv /\ [Next]_vars => LifeInv'
<1> SUFFICES ASSUME TypeInv, LifeInv, [Next]_vars PROVE LifeInv'
  OBVIOUS
<1>0. pc \in [Clients -> {"idle", "post", "reply", "blocked", "join"}]
  BY DEF TypeInv, TypeOK
<1>1. CASE Run
  BY <1>1 DEF LifeInv, Run, queueVars, clientVars
<1>2. ASSUME NEW id \in 0 .. IdSpace - 1, NEW d \in Nat, Enqueue(id, d), ran,
             UNCHANGED <<ran, mContinue, mThreadCreated>>
      PROVE  LifeInv'
  <2>1. mContinue /\ (loop' = loop \/ loop' = "check")
    BY <1>2, EnqueueIs DEF TypeInv
  <2>. QED  BY <1>2, <2>1 DEF LifeInv
<1>3. CASE \E c \in Clients : PostMsg(c)
  <2>1. PICK c \in Clients, d \in Delays : Enqueue(0, d) /\ PostMsg(c)
    BY <1>3 DEF PostMsg
  <2>. QED  BY <2>1, <1>2, PostArguments DEF PostMsg
<1>4. CASE \E c \in Clients : SendPosted(c)
  <2>1. PICK c \in Clients : SendPosted(c)
    BY <1>4
  <2>2. rspId[c] \in 0 .. IdSpace - 1 /\ ran
    BY <2>1 DEF SendPosted, LifeInv, TypeInv, TypeOK
  <2>. QED  BY <2>1, <2>2, <1>2 DEF SendPosted
<1>5. CASE HandlerPosts
  <2>1. PICK d \in Delays : Enqueue(0, d)
    BY <1>5 DEF HandlerPosts
  <2>2. ran
    BY <1>5 DEF HandlerPosts, LifeInv
  <2>. QED  BY <2>1, <2>2, <1>2, <1>5, PostArguments DEF HandlerPosts
<1>6. CASE \E c \in Clients :
        SendMsg(c) \/ SendRefused(c) \/ SendAbandoned(c) \/ SendBlocks(c)
        \/ SendAnswered(c) \/ SenderSpurious(c)
  <2>1. PICK c \in Clients :
          SendMsg(c) \/ SendRefused(c) \/ SendAbandoned(c) \/ SendBlocks(c)
          \/ SendAnswered(c) \/ SenderSpurious(c)
    BY <1>6
  <2>2. /\ UNCHANGED <<ran, mContinue, mThreadCreated, loop, mMsgQ>>
        /\ ran
    BY <2>1 DEF SendMsg, SendRefused, SendAbandoned, SendBlocks, SendAnswered,
       SenderSpurious, queueVars, loopVars, LifeInv
  <2>3. \A d \in Clients : pc[d] = "join" => pc'[d] = "join"
    BY <1>0, <2>1 DEF SendMsg, SendRefused, SendAbandoned, SendBlocks, SendAnswered,
       SenderSpurious
  <2>. QED  BY <2>2, <2>3 DEF LifeInv
<1>7. CASE \E c \in Clients : Exit(c)
  <2>1. PICK c \in Clients : Exit(c)
    BY <1>7
  <2>2. ran /\ ran' /\ mContinue /\ ~mContinue' /\ mThreadCreated
    BY <2>1 DEF Exit, LifeInv
  <2>3. pc'[c] = "join"
    BY <1>0, <2>1, <2>2 DEF Exit, WakeSenders
  <2>4. loop' # "over"
    BY <2>1, <2>2 DEF Exit, SignalLoop, Asleep, LifeInv
  <2>. QED  BY <2>2, <2>3, <2>4 DEF LifeInv
<1>8. CASE \E c \in Clients : Joined(c)
  BY <1>8 DEF LifeInv, Joined, queueVars, loopVars
<1>9. CASE Loop
  <2>1. CASE PostReponse
    <3>1. \A c \in Clients : pc[c] = "join" => pc'[c] = "join"
      BY <1>0, <2>1 DEF PostReponse, WakeSenders
    <3>. QED  BY <2>1, <3>1 DEF LifeInv, PostReponse, queueVars
  <2>2. CASE LoopTakes
    BY <2>2 DEF LifeInv, LoopTakes, clientVars
  <2>. QED  BY <1>9, <2>1, <2>2 DEF LifeInv, Loop, LoopOver, LoopWaits, LoopTimedWait,
            LoopTimeout, HandlerReturns, queueVars, clientVars
<1>10. CASE Tick \/ LoopSpurious \/ UNCHANGED vars
  BY <1>10 DEF LifeInv, Tick, LoopSpurious, Asleep, queueVars, loopVars, clientVars, vars
<1>. QED
  BY <1>1, <1>3, <1>4, <1>5, <1>6, <1>7, <1>8, <1>9, <1>10 DEF Next, Client, SendStep

\* Where pthread_create succeeds, the assertion of the destructor holds once
\* exit() has returned: every message that was accepted has been handled.
THEOREM DestructorSafe ==
    ASSUME ~CreateMayFail
    PROVE  Spec => []DestructorAssert
<1>1. Init => LifeInv
  BY DEF Init, LifeInv
<1>2. TypeInv /\ LifeInv /\ [Next]_vars => LifeInv'
  BY LifeStep
<1>3. LifeInv => DestructorAssert
  BY DEF LifeInv, DestructorAssert
<1>. QED  BY TypeInvariant, <1>1, <1>2, <1>3, PTL DEF Spec

-----------------------------------------------------------------------------
(* MsgThread implements RequestReply, for every value of the constants:    *)
(* while the thread is not told to exit, the request of every waiting      *)
(* sender is in exactly one place, and what is queued, handled or answered *)
(* belongs to exactly one waiting sender.                                   *)

(* The queue holds the message with this response id and stamp.            *)
InQ(x, s) == \E i \in 1 .. Len(mMsgQ) : mMsgQ[i].rspId = x /\ mMsgQ[i].stamp = s

(* Stamps identify messages.                                               *)
StampsDiffer ==
    /\ \A i, j \in 1 .. Len(mMsgQ) : i # j => mMsgQ[i].stamp # mMsgQ[j].stamp
    /\ loop = "handling" => \A i \in 1 .. Len(mMsgQ) : mMsgQ[i].stamp # msg.stamp
StampsInRange ==
    /\ \A i \in 1 .. Len(mMsgQ) : mMsgQ[i].stamp \in 1 .. stamp
    /\ loop = "handling" => msg.stamp \in 1 .. stamp
StampInv == StampsDiffer /\ StampsInRange

(* What doPost and the loop's pop do to the set of queued messages.        *)
LEMMA EnqueueInQ ==
    ASSUME TypeInv, NEW id \in 0 .. IdSpace - 1, NEW d \in Nat, Enqueue(id, d),
           NEW x, NEW s
    PROVE  InQ(x, s)' <=> (InQ(x, s) \/ (x = id /\ s = stamp + 1))
<1> DEFINE n == Len(mMsgQ)
<1>1. PICK p \in 1 .. n + 1 :
        \A i \in 1 .. n + 1 : mMsgQ'[i] =
             IF i < p THEN mMsgQ[i]
             ELSE IF i = p THEN [rspId |-> id, when |-> now + d, stamp |-> stamp + 1]
             ELSE mMsgQ[i - 1]
  BY EnqueueIs DEF TypeInv
<1>2. n \in Nat /\ Len(mMsgQ') = n + 1
  <2>1. Len(mMsgQ') = n + 1
    BY EnqueueIs DEF TypeInv
  <2>. QED  BY <2>1 DEF TypeInv, TypeOK
<1>3. /\ \A i \in 1 .. n + 1 : i < p => i \in 1 .. n /\ mMsgQ'[i] = mMsgQ[i]
      /\ mMsgQ'[p].rspId = id /\ mMsgQ'[p].stamp = stamp + 1
      /\ \A i \in 1 .. n + 1 : i > p => i - 1 \in 1 .. n /\ mMsgQ'[i] = mMsgQ[i - 1]
  <2>1. \A i \in 1 .. n + 1 : /\ i < p => i \in 1 .. n
                              /\ i > p => i - 1 \in 1 .. n /\ i # p /\ ~(i < p)
    BY <1>2
  <2>2. mMsgQ'[p] = [rspId |-> id, when |-> now + d, stamp |-> stamp + 1]
    BY <1>1, <1>2
  <2> HIDE DEF n
  <2>. QED  BY <1>1, <2>1, <2>2
<1> HIDE DEF n
<1>4. ASSUME InQ(x, s)' PROVE InQ(x, s) \/ (x = id /\ s = stamp + 1)
  <2>1. PICK i \in 1 .. n + 1 : mMsgQ'[i].rspId = x /\ mMsgQ'[i].stamp = s
    BY <1>2, <1>4 DEF InQ
  <2>2. CASE i < p
    BY <1>3, <2>1, <2>2 DEF InQ, n
  <2>3. CASE i = p
    BY <1>3, <2>1, <2>3
  <2>4. CASE i > p
    BY <1>3, <2>1, <2>4 DEF InQ, n
  <2>. QED  BY <1>2, <2>2, <2>3, <2>4
<1>5. ASSUME InQ(x, s) PROVE InQ(x, s)'
  <2>1. PICK i \in 1 .. n : mMsgQ[i].rspId = x /\ mMsgQ[i].stamp = s
    BY <1>5 DEF InQ, n
  <2>2. CASE i < p
    <3>1. i \in 1 .. n + 1 /\ mMsgQ'[i] = mMsgQ[i]
      BY <1>2, <1>3, <2>2
    <3>. QED  BY <1>2, <2>1, <3>1 DEF InQ
  <2>3. CASE i >= p
    <3>1. i + 1 \in 1 .. n + 1 /\ i + 1 > p /\ i + 1 - 1 = i
      BY <1>2, <2>3
    <3>2. mMsgQ'[i + 1] = mMsgQ[i]
      BY <1>3, <3>1
    <3>. QED  BY <1>2, <2>1, <3>1, <3>2 DEF InQ
  <2>. QED  BY <1>2, <2>2, <2>3
<1>6. (x = id /\ s = stamp + 1) => InQ(x, s)'
  BY <1>2, <1>3 DEF InQ
<1>. QED  BY <1>4, <1>5, <1>6

LEMMA TakeInQ ==
    ASSUME TypeInv, StampsDiffer, LoopTakes, NEW x, NEW s
    PROVE  /\ InQ(msg'.rspId, msg'.stamp)
           /\ InQ(x, s)' <=> InQ(x, s) /\ s # msg'.stamp
           /\ InQ(x, s) /\ s = msg'.stamp => x = msg'.rspId
<1>1. /\ mMsgQ \in Seq(Messages) /\ mMsgQ # <<>>
      /\ mMsgQ' = Tail(mMsgQ) /\ msg' = mMsgQ[1]
  BY DEF TypeInv, TypeOK, LoopTakes
<1>2. /\ Len(mMsgQ) \in Nat /\ Len(mMsgQ) > 0 /\ Len(mMsgQ') = Len(mMsgQ) - 1
      /\ \A i \in 1 .. Len(mMsgQ) - 1 : mMsgQ'[i] = mMsgQ[i + 1]
  BY <1>1
<1>3. InQ(msg'.rspId, msg'.stamp)
  BY <1>1, <1>2 DEF InQ
<1>4. ASSUME InQ(x, s)' PROVE InQ(x, s) /\ s # msg'.stamp
  <2>1. PICK i \in 1 .. Len(mMsgQ) - 1 : mMsgQ'[i].rspId = x /\ mMsgQ'[i].stamp = s
    BY <1>2, <1>4 DEF InQ
  <2>2. i + 1 \in 1 .. Len(mMsgQ) /\ i + 1 # 1 /\ mMsgQ'[i] = mMsgQ[i + 1]
    BY <1>2
  <2>. QED  BY <1>1, <1>2, <2>1, <2>2 DEF InQ, StampsDiffer
<1>5. ASSUME InQ(x, s), s # msg'.stamp PROVE InQ(x, s)'
  <2>1. PICK i \in 1 .. Len(mMsgQ) : mMsgQ[i].rspId = x /\ mMsgQ[i].stamp = s
    BY <1>5 DEF InQ
  <2>2. i # 1
    BY <1>1, <1>5, <2>1
  <2>3. i - 1 \in 1 .. Len(mMsgQ) - 1 /\ i - 1 + 1 = i
    BY <1>2, <2>2
  <2>4. mMsgQ'[i - 1] = mMsgQ[i]
    BY <1>2, <2>3
  <2>. QED  BY <1>2, <2>1, <2>3, <2>4 DEF InQ
<1>6. ASSUME InQ(x, s), s = msg'.stamp PROVE x = msg'.rspId
  <2>1. PICK i \in 1 .. Len(mMsgQ) : mMsgQ[i].rspId = x /\ mMsgQ[i].stamp = s
    BY <1>6 DEF InQ
  <2>2. i = 1
    BY <1>1, <1>2, <1>6, <2>1 DEF StampsDiffer
  <2>. QED  BY <1>1, <2>1, <2>2
<1>. QED  BY <1>3, <1>4, <1>5, <1>6

(* Every step either posts, takes, or leaves queue and handler alone.      *)
LEMMA StepKinds ==
    ASSUME TypeInv, [Next]_vars
    PROVE  \/ /\ \E id \in 0 .. IdSpace - 1, d \in Nat : Enqueue(id, d)
              /\ UNCHANGED msg
           \/ LoopTakes
           \/ /\ UNCHANGED <<mMsgQ, stamp, msg>>
              /\ loop' = "handling" => loop = "handling"
<1>1. CASE \E c \in Clients : PostMsg(c)
  BY <1>1, PostArguments DEF PostMsg
<1>2. CASE \E c \in Clients : SendPosted(c)
  BY <1>2 DEF SendPosted, TypeInv, TypeOK
<1>3. CASE HandlerPosts
  BY <1>3, PostArguments DEF HandlerPosts
<1>4. CASE LoopTakes
  BY <1>4
<1>5. CASE \E c \in Clients :
        SendMsg(c) \/ SendRefused(c) \/ SendAbandoned(c) \/ SendBlocks(c)
        \/ SendAnswered(c) \/ SenderSpurious(c) \/ Joined(c)
  BY <1>5 DEF SendMsg, SendRefused, SendAbandoned, SendBlocks, SendAnswered,
     SenderSpurious, Joined, queueVars, loopVars
<1>6. CASE \E c \in Clients : Exit(c)
  BY <1>6 DEF Exit, SignalLoop, queueVars
<1>7. CASE Run \/ LoopOver \/ LoopWaits \/ LoopTimedWait \/ LoopTimeout \/ PostReponse
           \/ HandlerReturns \/ Tick \/ LoopSpurious \/ UNCHANGED vars
  BY <1>7 DEF Run, LoopOver, LoopWaits, LoopTimedWait, LoopTimeout, PostReponse,
     HandlerReturns, Tick, LoopSpurious, queueVars, loopVars, vars
<1>. QED
  BY <1>1, <1>2, <1>3, <1>4, <1>5, <1>6, <1>7 DEF Next, Client, SendStep, Loop

LEMMA StampStep == TypeInv /\ StampInv /\ [Next]_vars => StampInv'
<1> SUFFICES ASSUME TypeInv, StampInv, [Next]_vars PROVE StampInv'
  OBVIOUS
<1>0. mMsgQ \in Seq(Messages) /\ stamp \in Nat /\ Len(mMsgQ) \in Nat
  BY DEF TypeInv, TypeOK
<1>1. ASSUME NEW id \in 0 .. IdSpace - 1, NEW d \in Nat, Enqueue(id, d), UNCHANGED msg
      PROVE  StampInv'
  <2> DEFINE n == Len(mMsgQ)
             Old(p, i) == IF i < p THEN i ELSE i - 1
  <2>1. PICK p \in 1 .. n + 1 :
          /\ \A i \in 1 .. n + 1 : mMsgQ'[i] =
               IF i < p THEN mMsgQ[i]
               ELSE IF i = p THEN [rspId |-> id, when |-> now + d, stamp |-> stamp + 1]
               ELSE mMsgQ[i - 1]
          /\ loop' = IF p = 1 /\ Asleep THEN "check" ELSE loop
    BY <1>1, EnqueueIs DEF TypeInv
  <2>2. Len(mMsgQ') = n + 1 /\ stamp' = stamp + 1
    BY <1>1, EnqueueIs DEF TypeInv
  <2>3. mMsgQ'[p].stamp = stamp + 1
    <3>1. mMsgQ'[p] = [rspId |-> id, when |-> now + d, stamp |-> stamp + 1]
      BY <1>0, <2>1
    <3>. QED  BY <3>1
  <2>4. \A i \in 1 .. n + 1 : i # p => Old(p, i) \in 1 .. n
    BY <1>0
  <2>5. \A i \in 1 .. n + 1 : i # p => mMsgQ'[i] = mMsgQ[Old(p, i)]
    BY <2>1
  <2>6. \A i, j \in 1 .. n + 1 : i # p /\ j # p /\ i # j => Old(p, i) # Old(p, j)
    BY <1>0
  <2> HIDE DEF n, Old
  <2>7. \A i \in 1 .. n : mMsgQ[i].stamp \in 1 .. stamp
    BY DEF StampInv, StampsInRange, n
  <2>8. \A i \in 1 .. n + 1 : i # p => mMsgQ'[i].stamp \in 1 .. stamp
    BY <2>4, <2>5, <2>7
  <2>9. loop' = "handling" => loop = "handling"
    BY <2>1
  <2>10. StampsInRange'
    <3>1. \A i \in 1 .. n + 1 : mMsgQ'[i].stamp \in 1 .. stamp + 1
      BY <1>0, <2>3, <2>8
    <3>2. loop = "handling" => msg.stamp \in 1 .. stamp + 1
      BY <1>0 DEF StampInv, StampsInRange
    <3>. QED  BY <1>1, <2>2, <2>9, <3>1, <3>2 DEF StampsInRange
  <2>11. \A i, j \in 1 .. n + 1 : i # j => mMsgQ'[i].stamp # mMsgQ'[j].stamp
    <3>1. ASSUME NEW i \in 1 .. n + 1, NEW j \in 1 .. n + 1, i # j
          PROVE  mMsgQ'[i].stamp # mMsgQ'[j].stamp
      <4>1. CASE i = p
        BY <1>0, <2>3, <2>8, <3>1, <4>1
      <4>2. CASE j = p
        BY <1>0, <2>3, <2>8, <3>1, <4>2
      <4>3. CASE i # p /\ j # p
        BY <2>4, <2>5, <2>6, <3>1, <4>3 DEF StampInv, StampsDiffer, n
      <4>. QED  BY <4>1, <4>2, <4>3
    <3>. QED  BY <3>1
  <2>12. loop = "handling" => \A i \in 1 .. n + 1 : mMsgQ'[i].stamp # msg.stamp
    <3>1. ASSUME loop = "handling", NEW i \in 1 .. n + 1
          PROVE  mMsgQ'[i].stamp # msg.stamp
      <4>1. CASE i = p
        BY <1>0, <2>3, <3>1, <4>1 DEF StampInv, StampsInRange
      <4>2. CASE i # p
        BY <2>4, <2>5, <3>1, <4>2 DEF StampInv, StampsDiffer, n
      <4>. QED  BY <4>1, <4>2
    <3>. QED  BY <3>1
  <2>13. StampsDiffer'
    BY <1>1, <2>2, <2>9, <2>11, <2>12 DEF StampsDiffer
  <2>. QED  BY <2>10, <2>13 DEF StampInv
<1>2. CASE LoopTakes
  <2>1. /\ mMsgQ # <<>> /\ mMsgQ' = Tail(mMsgQ) /\ msg' = mMsgQ[1] /\ stamp' = stamp
    BY <1>2 DEF LoopTakes
  <2>2. /\ Len(mMsgQ') = Len(mMsgQ) - 1 /\ 1 \in 1 .. Len(mMsgQ)
        /\ \A i \in 1 .. Len(mMsgQ) - 1 :
             i + 1 \in 1 .. Len(mMsgQ) /\ i + 1 # 1 /\ mMsgQ'[i] = mMsgQ[i + 1]
    BY <1>0, <2>1
  <2>3. \A i, j \in 1 .. Len(mMsgQ) - 1 : i # j => i + 1 # j + 1
    BY <1>0
  <2>. QED  BY <2>1, <2>2, <2>3 DEF StampInv, StampsDiffer, StampsInRange
<1>3. ASSUME UNCHANGED <<mMsgQ, stamp, msg>>, loop' = "handling" => loop = "handling"
      PROVE  StampInv'
  BY <1>3 DEF StampInv, StampsDiffer, StampsInRange
<1>. QED  BY <1>1, <1>2, <1>3, StepKinds

-----------------------------------------------------------------------------
(* Ids and stamps of requests.                                             *)

IdsDistinct ==
    \A c, d \in Clients : InSend(c) /\ InSend(d) /\ c # d => rspId[c] # rspId[d]
MineInRange ==
    \A c \in Clients : mine[c] <= stamp /\ (Waiting(c) => mine[c] > 0)
AnswersInRange == \A i \in RspIds : mRespMap[i] <= stamp
NotYetRun ==
    ~ran => /\ ~mContinue /\ loop = "none" /\ mMsgQ = <<>>
            /\ mRespMap = [i \in RspIds |-> 0]
            /\ \A c \in Clients : pc[c] = "idle"
IdInv == IdsDistinct /\ MineInRange /\ AnswersInRange /\ NotYetRun

LEMMA IdStep == TypeInv /\ StampInv /\ IdInv /\ [Next]_vars => IdInv'
<1> SUFFICES ASSUME TypeInv, StampInv, IdInv, [Next]_vars PROVE IdInv'
  OBVIOUS
<1>0. /\ pc \in [Clients -> {"idle", "post", "reply", "blocked", "join"}]
      /\ rspId \in [Clients -> 0 .. IdSpace - 1] /\ mine \in [Clients -> Nat]
      /\ mRespMap \in [RspIds -> Nat] /\ stamp \in Nat
  BY DEF TypeInv, TypeOK
<1> USE DEF IdInv
<1>1. CASE Run
  BY <1>1 DEF IdsDistinct, MineInRange, AnswersInRange, NotYetRun, InSend, Waiting, Run,
     queueVars, clientVars
<1>2. ASSUME NEW id \in 0 .. IdSpace - 1, NEW d \in Nat, Enqueue(id, d), ran,
             UNCHANGED <<ran, mRespMap, clientVars>>
      PROVE  IdInv'
  <2>1. stamp' = stamp + 1
    BY <1>2, EnqueueIs DEF TypeInv
  <2>. QED  BY <1>0, <1>2, <2>1 DEF IdsDistinct, MineInRange, AnswersInRange, NotYetRun,
            InSend, Waiting, clientVars
<1>3. CASE \E c \in Clients : PostMsg(c)
  <2>1. PICK c \in Clients, d \in Delays : Enqueue(0, d) /\ PostMsg(c)
    BY <1>3 DEF PostMsg
  <2>. QED  BY <2>1, <1>2, PostArguments DEF PostMsg
<1>4. CASE HandlerPosts
  <2>1. PICK d \in Delays : Enqueue(0, d)
    BY <1>4 DEF HandlerPosts
  <2>2. ran
    BY <1>4 DEF HandlerPosts, NotYetRun
  <2>. QED  BY <2>1, <2>2, <1>2, <1>4, PostArguments DEF HandlerPosts
<1>5. CASE \E c \in Clients : SendPosted(c)
  <2>1. PICK c \in Clients : SendPosted(c)
    BY <1>5
  <2>2. /\ rspId[c] \in 0 .. IdSpace - 1 /\ Enqueue(rspId[c], 0)
        /\ ran /\ UNCHANGED <<ran, mRespMap, rspId>>
        /\ mine' = [mine EXCEPT ![c] = stamp + 1]
        /\ pc' = [pc EXCEPT ![c] = "reply"] /\ pc[c] = "post"
    BY <1>0, <2>1 DEF SendPosted, NotYetRun
  <2>3. stamp' = stamp + 1
    BY <2>2, EnqueueIs DEF TypeInv
  <2>4. \A e \in Clients : InSend(e)' <=> InSend(e)
    BY <1>0, <2>2 DEF InSend
  <2>5. IdsDistinct'
    BY <2>2, <2>4 DEF IdsDistinct
  <2>6. MineInRange'
    BY <1>0, <2>2, <2>3 DEF MineInRange, Waiting
  <2>7. AnswersInRange' /\ NotYetRun'
    BY <1>0, <2>2, <2>3 DEF AnswersInRange, NotYetRun
  <2>. QED  BY <2>5, <2>6, <2>7
<1>6. CASE \E c \in Clients : SendMsg(c)
  <2>1. PICK c \in Clients : SendMsg(c)
    BY <1>6
  <2>2. \A d \in Clients : InSend(d) => rspId[d] # NextRspId(mCurRespId)
    BY <2>1 DEF SendMsg, IdFree, InSend
  <2>3. /\ UNCHANGED <<ran, mMsgQ, stamp, mRespMap, mine>> /\ ran
        /\ rspId' = [rspId EXCEPT ![c] = NextRspId(mCurRespId)]
        /\ pc' = [pc EXCEPT ![c] = "post"]
    BY <2>1 DEF SendMsg, queueVars
  <2>4. IdsDistinct'
    BY <1>0, <2>2, <2>3 DEF IdsDistinct, InSend
  <2>5. MineInRange'
    BY <1>0, <2>3 DEF MineInRange, Waiting
  <2>. QED  BY <2>3, <2>4, <2>5 DEF AnswersInRange, NotYetRun
<1>7. CASE \E c \in Clients :
        SendRefused(c) \/ SendAbandoned(c) \/ SendBlocks(c) \/ SenderSpurious(c)
        \/ SendAnswered(c) \/ Joined(c)
  <2>1. PICK c \in Clients :
          SendRefused(c) \/ SendAbandoned(c) \/ SendBlocks(c) \/ SenderSpurious(c)
          \/ SendAnswered(c) \/ Joined(c)
    BY <1>7
  <2>2. /\ UNCHANGED <<ran, mMsgQ, stamp, mine, rspId>> /\ ran
    BY <2>1 DEF SendRefused, SendAbandoned, SendBlocks, SenderSpurious, SendAnswered,
       Joined, queueVars, NotYetRun
  <2>3. \A d \in Clients : (InSend(d)' => InSend(d)) /\ (Waiting(d)' => Waiting(d))
    BY <1>0, <2>1 DEF SendRefused, SendAbandoned, SendBlocks, SenderSpurious,
       SendAnswered, Joined, InSend, Waiting
  <2>4. \A i \in RspIds : mRespMap'[i] = mRespMap[i] \/ mRespMap'[i] = 0
    BY <1>0, <2>1 DEF SendRefused, SendAbandoned, SendBlocks, SenderSpurious,
       SendAnswered, Joined
  <2>5. AnswersInRange'
    BY <1>0, <2>2, <2>4 DEF AnswersInRange
  <2>. QED  BY <2>2, <2>3, <2>5 DEF IdsDistinct, MineInRange, NotYetRun
<1>8. CASE \E c \in Clients : Exit(c)
  <2>1. \A d \in Clients : (InSend(d)' => InSend(d)) /\ (Waiting(d)' => Waiting(d))
    BY <1>0, <1>8 DEF Exit, WakeSenders, InSend, Waiting
  <2>2. UNCHANGED <<ran, mMsgQ, stamp, mRespMap, mine, rspId>> /\ ran
    BY <1>8 DEF Exit, queueVars
  <2>. QED  BY <2>1, <2>2 DEF IdsDistinct, MineInRange, AnswersInRange, NotYetRun
<1>9. CASE PostReponse
  <2>1. \A d \in Clients : (InSend(d)' => InSend(d)) /\ (Waiting(d)' => Waiting(d))
    BY <1>0, <1>9 DEF PostReponse, WakeSenders, InSend, Waiting
  <2>2. UNCHANGED <<ran, mMsgQ, stamp, mine, rspId>> /\ ran
    BY <1>9 DEF PostReponse, queueVars, NotYetRun
  <2>3. msg.stamp <= stamp
    BY <1>0, <1>9 DEF PostReponse, StampInv, StampsInRange
  <2>4. AnswersInRange'
    BY <1>0, <1>9, <2>2, <2>3 DEF PostReponse, AnswersInRange
  <2>. QED  BY <2>1, <2>2, <2>4 DEF IdsDistinct, MineInRange, NotYetRun
<1>10. CASE LoopOver \/ LoopWaits \/ LoopTimedWait \/ LoopTakes \/ LoopTimeout
            \/ HandlerReturns \/ LoopSpurious
  <2>1. ran /\ UNCHANGED <<ran, stamp, mRespMap, clientVars>>
    BY <1>10 DEF LoopOver, LoopWaits, LoopTimedWait, LoopTakes, LoopTimeout,
       HandlerReturns, LoopSpurious, Asleep, queueVars, clientVars, NotYetRun
  <2>. QED  BY <2>1 DEF IdsDistinct, MineInRange, AnswersInRange, NotYetRun, InSend,
            Waiting, clientVars
<1>11. CASE Tick \/ UNCHANGED vars
  BY <1>11 DEF Tick, queueVars, loopVars, clientVars, vars, IdsDistinct, MineInRange,
     AnswersInRange, NotYetRun, InSend, Waiting
<1>. QED
  BY <1>1, <1>3, <1>4, <1>5, <1>6, <1>7, <1>8, <1>9, <1>10, <1>11
     DEF Next, Client, SendStep, Loop

-----------------------------------------------------------------------------
(* Every request of a waiting sender is in exactly one place, and whatever *)
(* carries a response id belongs to a waiting sender.                       *)

Owner(x, s) == \E c \in Clients : Waiting(c) /\ rspId[c] = x /\ mine[c] = s
Handling == loop = "handling" /\ msg.rspId # 0
Owned ==
    mContinue =>
      /\ \A x \in RspIds, s \in Nat : InQ(x, s) => Owner(x, s)
      /\ Handling => Owner(msg.rspId, msg.stamp)
      /\ \A i \in RspIds : mRespMap[i] # 0 => Owner(i, mRespMap[i])
RequestInv == Owned /\ RequestInOnePlace

LEMMA QueuedIs == \A c \in Clients : Queued(c) <=> InQ(rspId[c], mine[c])
BY DEF Queued, InQ

LEMMA InHandlerIs ==
    ASSUME TypeInv, NEW c \in Clients, Waiting(c)
    PROVE  InHandler(c) <=> (Handling /\ msg.rspId = rspId[c] /\ msg.stamp = mine[c])
<1>1. rspId[c] # 0
  BY DEF TypeInv, HoldsId, InSend, Waiting, RspIds
<1>. QED  BY <1>1 DEF InHandler, Handling

(* The types the following proofs use.                                     *)
LEMMA RequestTypes ==
    ASSUME TypeInv
    PROVE  /\ pc \in [Clients -> {"idle", "post", "reply", "blocked", "join"}]
           /\ mRespMap \in [RspIds -> Nat]
           /\ rspId \in [Clients -> 0 .. IdSpace - 1]
           /\ mine \in [Clients -> Nat] /\ stamp \in Nat
           /\ \A c \in Clients : InSend(c) => rspId[c] \in RspIds
           /\ \A c \in Clients : Waiting(c) => InSend(c)
           /\ 0 \notin RspIds
BY DEF TypeInv, TypeOK, HoldsId, Waiting, InSend, RspIds

(* A step that moves no request.                                           *)
LEMMA NothingMoves ==
    ASSUME TypeInv, TypeInv', RequestInv, mContinue,
           \A x \in RspIds, s \in Nat : InQ(x, s)' <=> InQ(x, s),
           UNCHANGED <<mRespMap, msg>>,
           Handling' <=> Handling,
           \A c \in Clients : Waiting(c)' <=> Waiting(c),
           \A c \in Clients : Waiting(c) => rspId'[c] = rspId[c] /\ mine'[c] = mine[c]
    PROVE  RequestInv'
<1>1. \A x, s : Owner(x, s)' <=> Owner(x, s)
  BY DEF Owner
<1>2. Owned'
  BY <1>1 DEF RequestInv, Owned
<1>3. ASSUME NEW c \in Clients, Waiting(c)'
      PROVE  /\ Queued(c)' <=> Queued(c)
             /\ InHandler(c)' <=> InHandler(c)
             /\ Answered(c)' <=> Answered(c)
  <2>1. Waiting(c) /\ rspId'[c] = rspId[c] /\ mine'[c] = mine[c]
    BY <1>3
  <2>2. PICK x \in RspIds, s \in Nat : x = rspId[c] /\ s = mine[c]
    BY <2>1, RequestTypes
  <2>3. (Queued(c)' <=> InQ(x, s)') /\ (Queued(c) <=> InQ(x, s))
    BY <2>1, <2>2 DEF Queued, InQ
  <2>4. InHandler(c) <=> (Handling /\ msg.rspId = x /\ msg.stamp = s)
    BY <2>1, <2>2, InHandlerIs
  <2>5. InHandler(c)' <=> (Handling' /\ msg'.rspId = x /\ msg'.stamp = s)
    BY <2>1, <2>2, RequestTypes DEF InHandler, Handling
  <2>6. Answered(c)' <=> Answered(c)
    BY <2>1 DEF Answered
  <2>. QED  BY <2>3, <2>4, <2>5, <2>6
<1>4. RequestInOnePlace'
  BY <1>3 DEF RequestInv, RequestInOnePlace
<1>. QED  BY <1>2, <1>4 DEF RequestInv

(* sendMsg's doPost puts the request of the new sender into the queue.     *)
LEMMA SendPostedMoves ==
    ASSUME TypeInv, TypeInv', StampInv, IdInv, RequestInv, NEW c \in Clients, SendPosted(c)
    PROVE  RequestInv'
<1>0. /\ Enqueue(rspId[c], 0) /\ rspId[c] \in 0 .. IdSpace - 1 /\ rspId[c] \in RspIds
      /\ mContinue /\ pc[c] = "post"
      /\ pc' = [pc EXCEPT ![c] = "reply"]
      /\ mine' = [mine EXCEPT ![c] = stamp + 1]
      /\ UNCHANGED <<mContinue, mRespMap, msg, rspId>>
  BY RequestTypes DEF SendPosted, Enqueue, InSend
<1>r. PICK r \in RspIds, t \in Nat : r = rspId[c] /\ t = stamp + 1
  BY <1>0, RequestTypes
<1>1. \A x, s : InQ(x, s)' <=> (InQ(x, s) \/ (x = r /\ s = t))
  BY <1>0, <1>r, EnqueueInQ
<1>2. Handling' <=> Handling
  <2>1. loop' = loop \/ (Asleep /\ loop' = "check")
    BY <1>0, EnqueueIs DEF TypeInv
  <2>. QED  BY <1>0, <2>1 DEF Handling, Asleep
<1>3. /\ Waiting(c)' /\ mine'[c] = t /\ rspId'[c] = r /\ ~Waiting(c)
      /\ \A d \in Clients : d # c => (Waiting(d)' <=> Waiting(d)) /\ mine'[d] = mine[d]
  BY <1>0, <1>r, RequestTypes DEF Waiting
<1>4. \A x, s : Owner(x, s) => Owner(x, s)'
  BY <1>0, <1>3 DEF Owner
<1>5. Owner(r, t)'
  BY <1>0, <1>3 DEF Owner
<1>6. Owned'
  BY <1>0, <1>1, <1>2, <1>4, <1>5 DEF RequestInv, Owned
<1>7. Queued(c)' /\ ~InHandler(c)' /\ ~Answered(c)'
  <2>1. Queued(c)'
    <3>1. InQ(r, t)'
      BY <1>1
    <3>. QED  BY <1>3, <3>1 DEF Queued, InQ
  <2>2. ~InHandler(c)'
    <3>1. SUFFICES ASSUME InHandler(c)' PROVE FALSE
      OBVIOUS
    <3>2. Handling' /\ msg'.stamp = t
      BY <1>3, <3>1, RequestTypes DEF InHandler, Handling
    <3>3. Handling /\ msg.stamp = t
      BY <1>0, <1>2, <3>2
    <3>4. msg.stamp \in 1 .. stamp /\ stamp \in Nat
      BY <3>3, RequestTypes DEF Handling, StampInv, StampsInRange
    <3>. QED  BY <1>r, <3>3, <3>4
  <2>3. ~Answered(c)'
    <3>1. mRespMap'[r] = mRespMap[r] /\ mRespMap[r] <= stamp
      BY <1>0 DEF IdInv, AnswersInRange
    <3>. QED  BY <1>r, <1>3, <3>1, RequestTypes DEF Answered
  <2>. QED  BY <2>1, <2>2, <2>3
<1>8. ASSUME NEW d \in Clients, d # c, Waiting(d)'
      PROVE  /\ Queued(d)' <=> Queued(d)
             /\ InHandler(d)' <=> InHandler(d)
             /\ Answered(d)' <=> Answered(d)
  <2>1. PICK x \in RspIds, s \in Nat : x = rspId[d] /\ s = mine[d] /\ x = rspId'[d] /\ s = mine'[d]
    BY <1>0, <1>3, <1>8, RequestTypes
  <2>2. s # t
    <3>1. mine[d] <= stamp /\ stamp \in Nat
      BY RequestTypes DEF IdInv, MineInRange
    <3>. QED  BY <1>r, <2>1, <3>1
  <2>3. Queued(d)' <=> Queued(d)
    <3>1. (Queued(d)' <=> InQ(x, s)') /\ (Queued(d) <=> InQ(x, s))
      BY <2>1 DEF Queued, InQ
    <3>. QED  BY <1>1, <2>2, <3>1
  <2>4. InHandler(d)' <=> InHandler(d)
    <3>1. InHandler(d)' <=> (Handling' /\ msg'.rspId = x /\ msg'.stamp = s)
      BY <2>1, RequestTypes DEF InHandler, Handling
    <3>2. InHandler(d) <=> (Handling /\ msg.rspId = x /\ msg.stamp = s)
      BY <2>1, RequestTypes DEF InHandler, Handling
    <3>3. msg' = msg
      BY <1>0
    <3>. QED  BY <1>2, <3>1, <3>2, <3>3
  <2>5. Answered(d)' <=> Answered(d)
    BY <1>0, <2>1 DEF Answered
  <2>. QED  BY <2>3, <2>4, <2>5
<1>9. RequestInOnePlace'
  BY <1>0, <1>3, <1>7, <1>8 DEF RequestInv, RequestInOnePlace
<1>. QED  BY <1>6, <1>9 DEF RequestInv

(* A sender that finds an entry under its id finds its own answer.         *)
LEMMA FoundIsOwn ==
    ASSUME TypeInv, IdInv, RequestInv, mContinue, NEW c \in Clients, Waiting(c),
           mRespMap[rspId[c]] # 0
    PROVE  Answered(c)
<1>1. rspId[c] \in RspIds
  BY RequestTypes
<1>2. Owner(rspId[c], mRespMap[rspId[c]])
  BY <1>1 DEF RequestInv, Owned
<1>3. PICK d \in Clients : Waiting(d) /\ rspId[d] = rspId[c] /\ mine[d] = mRespMap[rspId[c]]
  BY <1>2 DEF Owner
<1>4. d = c
  BY <1>3, RequestTypes DEF IdInv, IdsDistinct
<1>. QED  BY <1>3, <1>4 DEF Answered

(* The sender takes its answer and leaves.                                 *)
LEMMA SendAnsweredMoves ==
    ASSUME TypeInv, TypeInv', IdInv, RequestInv, NEW c \in Clients, SendAnswered(c)
    PROVE  RequestInv'
<1>0. /\ Waiting(c) /\ mContinue /\ mRespMap[rspId[c]] # 0 /\ rspId[c] \in RspIds
      /\ mRespMap' = [mRespMap EXCEPT ![rspId[c]] = 0]
      /\ pc' = [pc EXCEPT ![c] = "idle"]
      /\ UNCHANGED <<mContinue, mMsgQ, msg, loop, rspId, mine>>
  BY RequestTypes DEF SendAnswered, Waiting, InSend, queueVars, loopVars
<1>1. Answered(c) /\ ~Queued(c) /\ ~InHandler(c)
  BY <1>0, FoundIsOwn DEF RequestInv, RequestInOnePlace
<1>2. \A d \in Clients : Waiting(d)' <=> Waiting(d) /\ d # c
  BY <1>0, RequestTypes DEF Waiting
<1>3. \A d \in Clients : Waiting(d) /\ d # c => rspId[d] # rspId[c]
  BY <1>0, RequestTypes DEF IdInv, IdsDistinct
<1>4. \A x, s : Owner(x, s) /\ ~(x = rspId[c] /\ s = mine[c]) => Owner(x, s)'
  BY <1>0, <1>2 DEF Owner
<1>5. ASSUME NEW x \in RspIds, NEW s \in Nat, InQ(x, s)' PROVE Owner(x, s)'
  <2>1. InQ(x, s)
    BY <1>0, <1>5 DEF InQ
  <2>2. ~(x = rspId[c] /\ s = mine[c])
    BY <1>1, <2>1 DEF Queued, InQ
  <2>. QED  BY <1>0, <1>4, <2>1, <2>2 DEF RequestInv, Owned
<1>6. ASSUME Handling' PROVE Owner(msg.rspId, msg.stamp)'
  <2>1. Handling
    BY <1>0, <1>6 DEF Handling
  <2>2. ~(msg.rspId = rspId[c] /\ msg.stamp = mine[c])
    BY <1>0, <1>1, <2>1, InHandlerIs
  <2>3. Owner(msg.rspId, msg.stamp)
    BY <1>0, <2>1 DEF RequestInv, Owned
  <2>. QED  BY <1>0, <1>2, <2>2, <2>3 DEF Owner
<1>7. ASSUME NEW i \in RspIds, NEW s, s = mRespMap'[i], s # 0 PROVE Owner(i, s)'
  <2>1. i # rspId[c] /\ s = mRespMap[i]
    BY <1>0, <1>7, RequestTypes
  <2>2. Owner(i, s)
    BY <1>0, <1>7, <2>1 DEF RequestInv, Owned
  <2>. QED  BY <1>4, <2>1, <2>2
<1>8. Owned'
  <2>1. ASSUME NEW i \in RspIds, mRespMap'[i] # 0
        PROVE  \E d \in Clients : Waiting(d)' /\ rspId'[d] = i /\ mine'[d] = mRespMap'[i]
    <3>1. PICK s : s = mRespMap'[i]
      OBVIOUS
    <3>. QED  BY <1>7, <2>1, <3>1 DEF Owner
  <2>. QED  BY <1>0, <1>5, <1>6, <2>1 DEF Owned, Owner
<1>9. ASSUME NEW d \in Clients, Waiting(d)'
      PROVE  /\ Queued(d)' <=> Queued(d)
             /\ InHandler(d)' <=> InHandler(d)
             /\ Answered(d)' <=> Answered(d)
  <2>1. Waiting(d) /\ rspId[d] # rspId[c] /\ rspId[d] \in RspIds
    BY <1>2, <1>3, <1>9, RequestTypes
  <2>2. mRespMap'[rspId[d]] = mRespMap[rspId[d]]
    BY <1>0, <2>1, RequestTypes
  <2>. QED  BY <1>0, <2>2 DEF Queued, InHandler, Answered
<1>10. RequestInOnePlace'
  BY <1>0, <1>2, <1>9 DEF RequestInv, RequestInOnePlace
<1>. QED  BY <1>8, <1>10 DEF RequestInv

(* The loop thread takes a request from the queue to the handler.          *)
LEMMA LoopTakesMoves ==
    ASSUME TypeInv, StampInv, RequestInv, mContinue, LoopTakes
    PROVE  RequestInv'
<1>0. /\ UNCHANGED <<mContinue, mRespMap, pc, rspId, mine>>
      /\ ~Handling /\ loop' = "handling"
  BY DEF LoopTakes, clientVars, Handling
<1>r. PICK r, t : r = msg'.rspId /\ t = msg'.stamp
  OBVIOUS
<1>1. /\ InQ(r, t)
      /\ \A x, s : InQ(x, s)' <=> InQ(x, s) /\ s # t
      /\ \A x, s : InQ(x, s) /\ s = t => x = r
  BY <1>r, TakeInQ DEF StampInv
<1>2. r \in 0 .. IdSpace - 1 /\ t \in Nat
  <2>1. msg' \in Messages
    BY DEF LoopTakes, TypeInv, TypeOK
  <2>. QED  BY <1>r, <2>1 DEF Messages
<1>3. /\ \A c \in Clients : Waiting(c)' <=> Waiting(c)
      /\ \A x, s : Owner(x, s)' <=> Owner(x, s)
  BY <1>0 DEF Waiting, Owner
<1>4. Handling' => r # 0
  BY <1>r DEF Handling
<1>5. Handling' => Owner(r, t)
  <2>1. r # 0 => r \in RspIds
    BY <1>2 DEF RspIds
  <2>. QED  BY <1>1, <1>2, <1>4, <2>1 DEF RequestInv, Owned
<1>6. Owned'
  <2>1. \A x \in RspIds, s \in Nat : InQ(x, s)' => Owner(x, s)'
    BY <1>1, <1>3 DEF RequestInv, Owned
  <2>2. Handling' => Owner(msg.rspId, msg.stamp)'
    BY <1>r, <1>3, <1>5 DEF Owner
  <2>3. \A i \in RspIds : mRespMap'[i] # 0 => Owner(i, mRespMap[i])'
    BY <1>0, <1>3 DEF RequestInv, Owned, Owner
  <2>. QED  BY <2>1, <2>2, <2>3 DEF Owned
<1>7. ASSUME NEW c \in Clients, Waiting(c)
      PROVE  /\ (Queued(c) \/ InHandler(c) \/ Answered(c))'
             /\ ~(Queued(c) /\ InHandler(c))'
             /\ ~(Queued(c) /\ Answered(c))'
             /\ ~(InHandler(c) /\ Answered(c))'
  <2>1. PICK x \in RspIds, s \in Nat :
          x = rspId[c] /\ s = mine[c] /\ x = rspId'[c] /\ s = mine'[c]
    BY <1>0, <1>7, RequestTypes
  <2>2. (Queued(c)' <=> InQ(x, s)') /\ (Queued(c) <=> InQ(x, s))
    BY <2>1 DEF Queued, InQ
  <2>3. InHandler(c)' <=> r = x /\ t = s
    BY <1>0, <1>r, <2>1 DEF InHandler
  <2>4. ~InHandler(c)
    <3>1. loop # "handling"
      BY DEF LoopTakes
    <3>. QED  BY <3>1 DEF InHandler
  <2>5. Answered(c)' <=> Answered(c)
    BY <1>0 DEF Answered
  <2>6. (Queued(c) \/ Answered(c)) /\ ~(Queued(c) /\ Answered(c))
    BY <1>7, <2>4 DEF RequestInv, RequestInOnePlace
  <2>. QED  BY <1>1, <2>2, <2>3, <2>5, <2>6
<1>8. RequestInOnePlace'
  BY <1>3, <1>7 DEF RequestInOnePlace
<1>. QED  BY <1>6, <1>8 DEF RequestInv

(* The handler's answer goes to the owner of the request, whose place in   *)
(* mRespMap is free.                                                       *)
LEMMA AnswerFindsOwner ==
    ASSUME TypeInv, StampInv, IdInv, RequestInv, mContinue, PostReponse
    PROVE  \E c \in Clients, r \in RspIds, t \in Nat :
             /\ Waiting(c) /\ rspId[c] = r /\ mine[c] = t /\ t # 0
             /\ InHandler(c) /\ ~Answered(c) /\ ~Queued(c)
             /\ msg.rspId = r /\ msg.stamp = t
             /\ mRespMap[r] = 0
             /\ mRespMap' = [mRespMap EXCEPT ![r] = t]
<1>1. Handling /\ loop = "handling"
  BY DEF PostReponse, Handling
<1>2. PICK r \in RspIds, t \in Nat : r = msg.rspId /\ t = msg.stamp /\ t # 0
  <2>1. msg \in Messages /\ msg.rspId # 0
    BY DEF TypeInv, TypeOK, PostReponse
  <2>2. msg.stamp \in 1 .. stamp
    BY <1>1 DEF StampInv, StampsInRange
  <2>. QED  BY <2>1, <2>2 DEF Messages, RspIds
<1>3. PICK c \in Clients : Waiting(c) /\ rspId[c] = r /\ mine[c] = t
  BY <1>1, <1>2 DEF RequestInv, Owned, Owner
<1>4. InHandler(c) /\ ~Answered(c) /\ ~Queued(c)
  <2>1. InHandler(c)
    BY <1>1, <1>2, <1>3 DEF InHandler
  <2>. QED  BY <1>3, <2>1 DEF RequestInv, RequestInOnePlace
<1>5. mRespMap[r] = 0
  BY <1>3, <1>4, FoundIsOwn
<1>6. mRespMap' = [mRespMap EXCEPT ![r] = t]
  BY <1>2, <1>5 DEF PostReponse
<1>. QED  BY <1>2, <1>3, <1>4, <1>5, <1>6

LEMMA PostReponseMoves ==
    ASSUME TypeInv, StampInv, IdInv, RequestInv, mContinue, PostReponse
    PROVE  RequestInv'
<1>1. PICK c \in Clients, r \in RspIds, t \in Nat :
        /\ Waiting(c) /\ rspId[c] = r /\ mine[c] = t /\ t # 0
        /\ InHandler(c) /\ ~Answered(c) /\ ~Queued(c)
        /\ msg.rspId = r /\ msg.stamp = t
        /\ mRespMap[r] = 0
        /\ mRespMap' = [mRespMap EXCEPT ![r] = t]
  BY AnswerFindsOwner
<1>2. /\ UNCHANGED <<mContinue, mMsgQ, rspId, mine>>
      /\ loop' = "check" /\ pc' = WakeSenders(pc)
  BY DEF PostReponse, queueVars
<1>3. /\ \A d \in Clients : Waiting(d)' <=> Waiting(d)
      /\ \A x, s : Owner(x, s)' <=> Owner(x, s)
  <2>1. \A d \in Clients : Waiting(d)' <=> Waiting(d)
    BY <1>2, RequestTypes DEF WakeSenders, Waiting
  <2>. QED  BY <1>2, <2>1 DEF Owner
<1>4. mRespMap'[r] = t /\ \A i \in RspIds : i # r => mRespMap'[i] = mRespMap[i]
  BY <1>1, RequestTypes
<1>5. Owned'
  <2>1. \A x \in RspIds, s \in Nat : InQ(x, s)' => Owner(x, s)'
    BY <1>2, <1>3 DEF RequestInv, Owned, InQ
  <2>2. ~Handling'
    BY <1>2 DEF Handling
  <2>3. Owner(r, t)'
    BY <1>1, <1>3 DEF Owner
  <2>4. \A i \in RspIds : \A s : s = mRespMap'[i] /\ s # 0 => Owner(i, s)'
    BY <1>3, <1>4, <2>3 DEF RequestInv, Owned
  <2>5. \A i \in RspIds : mRespMap'[i] # 0 => Owner(i, mRespMap[i])'
    BY <2>4 DEF Owner
  <2>. QED  BY <2>1, <2>2, <2>5 DEF Owned
<1>6. ASSUME NEW d \in Clients, Waiting(d)
      PROVE  /\ (Queued(d) \/ InHandler(d) \/ Answered(d))'
             /\ ~(Queued(d) /\ InHandler(d))'
             /\ ~(Queued(d) /\ Answered(d))'
             /\ ~(InHandler(d) /\ Answered(d))'
  <2>1. ~InHandler(d)' /\ (Queued(d)' <=> Queued(d))
    BY <1>2 DEF InHandler, Queued
  <2>2. CASE d = c
    BY <1>1, <1>2, <1>4, <2>1, <2>2 DEF Answered
  <2>3. CASE d # c
    <3>1. rspId[d] # r /\ rspId[d] \in RspIds
      BY <1>1, <1>6, <2>3, RequestTypes DEF IdInv, IdsDistinct
    <3>2. ~InHandler(d)
      BY <1>1, <3>1 DEF InHandler
    <3>3. Answered(d)' <=> Answered(d)
      BY <1>2, <1>4, <3>1 DEF Answered
    <3>. QED  BY <1>6, <2>1, <3>2, <3>3 DEF RequestInv, RequestInOnePlace
  <2>. QED  BY <2>2, <2>3
<1>7. RequestInOnePlace'
  BY <1>3, <1>6 DEF RequestInOnePlace
<1>. QED  BY <1>5, <1>7 DEF RequestInv

(* A message that is no request moves none.                                *)
LEMMA PlainPostMoves ==
    ASSUME TypeInv, TypeInv', RequestInv, NEW d \in Nat, Enqueue(0, d),
           UNCHANGED <<mRespMap, msg, clientVars>>
    PROVE  RequestInv'
<1>1. mContinue /\ \A x \in RspIds, s \in Nat : InQ(x, s)' <=> InQ(x, s)
  <2>1. 0 \notin RspIds
    BY RequestTypes
  <2>2. \A x, s : InQ(x, s)' <=> (InQ(x, s) \/ (x = 0 /\ s = stamp + 1))
    BY EnqueueInQ, PostArguments
  <2>. QED  BY <2>1, <2>2 DEF Enqueue
<1>2. Handling' <=> Handling
  <2>1. loop' = loop \/ (Asleep /\ loop' = "check")
    BY EnqueueIs, PostArguments DEF TypeInv
  <2>. QED  BY <2>1 DEF Handling, Asleep
<1>. QED  BY <1>1, <1>2, NothingMoves DEF Waiting, clientVars

LEMMA RequestStep ==
    TypeInv /\ TypeInv' /\ StampInv /\ IdInv /\ RequestInv /\ [Next]_vars => RequestInv'
<1> SUFFICES ASSUME TypeInv, TypeInv', StampInv, IdInv, RequestInv, [Next]_vars
             PROVE  RequestInv'
  OBVIOUS
<1>1. CASE ~mContinue'
  BY <1>1 DEF RequestInv, Owned, RequestInOnePlace
<1>2. CASE Run
  <2>1. /\ ~\E c \in Clients : Waiting(c)'
        /\ ~Handling' /\ mMsgQ' = <<>> /\ \A i \in RspIds : mRespMap'[i] = 0
    BY <1>2 DEF IdInv, NotYetRun, Run, Waiting, Handling, queueVars, clientVars
  <2>. QED  BY <2>1 DEF RequestInv, Owned, RequestInOnePlace, InQ
<1>3. CASE mContinue
  <2>1. CASE \E c \in Clients : PostMsg(c)
    <3>1. PICK c \in Clients, d \in Delays : Enqueue(0, d) /\ PostMsg(c)
      BY <2>1 DEF PostMsg
    <3>. QED  BY <3>1, PlainPostMoves, PostArguments DEF PostMsg
  <2>2. CASE HandlerPosts
    <3>1. PICK d \in Delays : Enqueue(0, d)
      BY <2>2 DEF HandlerPosts
    <3>. QED  BY <2>2, <3>1, PlainPostMoves, PostArguments DEF HandlerPosts
  <2>3. CASE \E c \in Clients : SendPosted(c)
    BY <2>3, SendPostedMoves
  <2>4. CASE \E c \in Clients : SendAnswered(c)
    BY <2>4, SendAnsweredMoves
  <2>5. CASE LoopTakes
    BY <1>3, <2>5, LoopTakesMoves
  <2>6. CASE PostReponse
    BY <1>3, <2>6, PostReponseMoves
  <2>7. CASE \E c \in Clients : SendMsg(c) \/ SendBlocks(c) \/ SenderSpurious(c) \/ Joined(c)
    <3>1. PICK c \in Clients : SendMsg(c) \/ SendBlocks(c) \/ SenderSpurious(c) \/ Joined(c)
      BY <2>7
    <3>2. UNCHANGED <<mMsgQ, mRespMap, msg, loop, mine>>
      BY <3>1 DEF SendMsg, SendBlocks, SenderSpurious, Joined, queueVars, loopVars
    <3>3. \A d \in Clients : (Waiting(d)' <=> Waiting(d)) /\ (Waiting(d) => rspId'[d] = rspId[d])
      BY <3>1, RequestTypes DEF SendMsg, SendBlocks, SenderSpurious, Joined, Waiting
    <3>. QED  BY <1>3, <3>2, <3>3, NothingMoves DEF InQ, Handling
  <2>8. CASE \E c \in Clients : SendRefused(c) \/ SendAbandoned(c) \/ Exit(c)
    BY <1>1, <1>3, <2>8 DEF SendRefused, SendAbandoned, Exit
  <2>9. CASE LoopOver \/ LoopWaits \/ LoopTimedWait \/ LoopTimeout \/ LoopSpurious
             \/ HandlerReturns \/ Tick \/ UNCHANGED vars
    <3>1. UNCHANGED <<mMsgQ, mRespMap, msg, pc, rspId, mine>> /\ (Handling' <=> Handling)
      BY <2>9 DEF LoopOver, LoopWaits, LoopTimedWait, LoopTimeout, LoopSpurious, Asleep,
         HandlerReturns, Tick, Handling, queueVars, loopVars, clientVars, vars
    <3>. QED  BY <1>3, <3>1, NothingMoves DEF InQ, Waiting
  <2>. QED
    BY <1>2, <2>1, <2>2, <2>3, <2>4, <2>5, <2>6, <2>7, <2>8, <2>9
       DEF Next, Client, SendStep, Loop
<1>4. CASE ~mContinue /\ ~Run
  <2>1. mContinue' = mContinue
    BY <1>4 DEF Next, Client, SendStep, Loop, PostMsg, SendMsg, SendPosted, SendRefused,
       SendAbandoned, SendBlocks, SendAnswered, SenderSpurious, Exit, Joined, HandlerPosts,
       LoopOver, LoopWaits, LoopTimedWait, LoopTakes, LoopTimeout, PostReponse,
       HandlerReturns, Tick, LoopSpurious, vars
  <2>. QED  BY <1>1, <1>4, <2>1
<1>. QED  BY <1>2, <1>3, <1>4

-----------------------------------------------------------------------------
(* The invariant, and what follows from it.                                *)

Inv == TypeInv /\ StampInv /\ IdInv /\ RequestInv

LEMMA InvInit == Init => Inv
<1> SUFFICES ASSUME Init PROVE Inv
  OBVIOUS
<1>1. StampInv
  BY DEF Init, StampInv, StampsDiffer, StampsInRange
<1>2. IdInv
  BY DEF Init, IdInv, IdsDistinct, MineInRange, AnswersInRange, NotYetRun, InSend, Waiting
<1>3. RequestInv
  BY DEF Init, RequestInv, Owned, RequestInOnePlace
<1>. QED  BY <1>1, <1>2, <1>3, TypeInit DEF Inv

LEMMA InvStep == Inv /\ [Next]_vars => Inv'
BY TypeStep, HoldsIdStep, StampStep, IdStep, RequestStep DEF Inv, TypeInv

LEMMA Invariant == Spec => []Inv
BY InvInit, InvStep, PTL DEF Spec

\* The request of a waiting sender is never lost and never handled twice while
\* the thread is not told to exit.
THEOREM RequestsAreKept == Spec => []RequestInOnePlace
<1>1. Inv => RequestInOnePlace
  BY DEF Inv, RequestInv
<1>. QED  BY Invariant, <1>1, PTL

\* No answer is left in mRespMap that nobody waits for.
THEOREM AnswersAreOwned == Spec => []ResponseOwned
<1>1. Inv => ResponseOwned
  BY DEF Inv, RequestInv, Owned, Owner, ResponseOwned
<1>. QED  BY Invariant, <1>1, PTL

LEMMA OwnAnswerStep == Inv /\ OwnAnswer /\ [Next]_vars => OwnAnswer'
<1> SUFFICES ASSUME Inv, OwnAnswer, [Next]_vars PROVE OwnAnswer'
  OBVIOUS
<1>0. /\ pc \in [Clients -> {"idle", "post", "reply", "blocked", "join"}]
      /\ mine \in [Clients -> Nat] /\ answer \in [Clients -> Nat]
      /\ result \in [Clients -> {"none", "ok", "exiting"}]
  BY DEF Inv, TypeInv, TypeOK
<1>1. CASE UNCHANGED clientVars
  BY <1>1 DEF OwnAnswer, Waiting, clientVars
<1>2. CASE \E c \in Clients : SendAnswered(c)
  <2>1. PICK c \in Clients : SendAnswered(c)
    BY <1>2
  <2>2. mRespMap[rspId[c]] = mine[c]
    BY <2>1, FoundIsOwn DEF SendAnswered, Waiting, Inv, Answered
  <2>. QED  BY <1>0, <2>1, <2>2 DEF SendAnswered, OwnAnswer, Waiting
<1>3. CASE \E c \in Clients : SendPosted(c)
  BY <1>0, <1>3 DEF SendPosted, OwnAnswer, Waiting
<1>4. CASE \E c \in Clients : SendRefused(c) \/ SendAbandoned(c)
  BY <1>0, <1>4 DEF SendRefused, SendAbandoned, OwnAnswer, Waiting
<1>5. CASE \E c \in Clients : SendMsg(c) \/ SendBlocks(c) \/ SenderSpurious(c) \/ Joined(c)
  BY <1>0, <1>5 DEF SendMsg, SendBlocks, SenderSpurious, Joined, OwnAnswer, Waiting
<1>6. CASE PostReponse \/ \E c \in Clients : Exit(c)
  BY <1>0, <1>6 DEF PostReponse, Exit, WakeSenders, OwnAnswer, Waiting
<1>. QED
  BY <1>1, <1>2, <1>3, <1>4, <1>5, <1>6
     DEF Next, Client, SendStep, Loop, Run, PostMsg, HandlerPosts, LoopOver, LoopWaits,
         LoopTimedWait, LoopTakes, LoopTimeout, HandlerReturns, Tick, LoopSpurious,
         clientVars, vars

\* A sendMsg that returns 0 returns the answer to its own request.
THEOREM AnswersAreOwn == Spec => []OwnAnswer
<1>1. Init => OwnAnswer
  BY DEF Init, OwnAnswer
<1>. QED  BY Invariant, <1>1, OwnAnswerStep, PTL DEF Spec

-----------------------------------------------------------------------------
(* Every step of MsgThread is a step of RequestReply or none.              *)

Requests == [c \in Clients |-> RequestOf(c)]

(* Steps a caller does not see.                                            *)
LEMMA Stutters ==
    ASSUME UNCHANGED <<ran, mContinue, mRespMap, result>>,
           \A c \in Clients : Waiting(c)' <=> Waiting(c),
           \A c \in Clients : Waiting(c) => rspId'[c] = rspId[c]
    PROVE  UNCHANGED Abstract!rrVars
<1>1. \A c \in Clients : RequestOf(c)' = RequestOf(c)
  BY DEF RequestOf
<1>. QED  BY <1>1 DEF Abstract!rrVars, PhaseOf

(* A step that changes the request of one sender.                          *)
LEMMA OneRequestMoves ==
    ASSUME NEW c \in Clients, NEW v, RequestOf(c)' = v,
           \A d \in Clients : d # c => RequestOf(d)' = RequestOf(d)
    PROVE  Requests' = [Requests EXCEPT ![c] = v]
BY DEF Requests

LEMMA AcceptStep ==
    ASSUME Inv, NEW c \in Clients, SendPosted(c)
    PROVE  Abstract!Accept(c)
<1>0. /\ mContinue /\ ran /\ UNCHANGED <<ran, mContinue, mRespMap, rspId, result>>
      /\ pc[c] = "post" /\ pc' = [pc EXCEPT ![c] = "reply"]
  BY DEF SendPosted, Enqueue, Inv, IdInv, NotYetRun
<1>1. mRespMap[rspId[c]] = 0
  <2>1. rspId[c] \in RspIds /\ InSend(c) /\ ~Waiting(c)
    BY <1>0, RequestTypes DEF Inv, InSend, Waiting
  <2>2. ASSUME mRespMap[rspId[c]] # 0 PROVE FALSE
    <3>1. PICK d \in Clients : Waiting(d) /\ rspId[d] = rspId[c]
      BY <1>0, <2>1, <2>2 DEF Inv, RequestInv, Owned, Owner
    <3>. QED  BY <2>1, <3>1, RequestTypes DEF Inv, IdInv, IdsDistinct
  <2>. QED  BY <2>2
<1>2. /\ Waiting(c)' /\ ~Waiting(c)
      /\ \A d \in Clients : d # c => (Waiting(d)' <=> Waiting(d))
  BY <1>0, RequestTypes DEF Inv, Waiting
<1>3. RequestOf(c) = "none" /\ RequestOf(c)' = "asked"
  BY <1>0, <1>1, <1>2 DEF RequestOf
<1>4. \A d \in Clients : d # c => RequestOf(d)' = RequestOf(d)
  BY <1>0, <1>2 DEF RequestOf
<1>5. Requests' = [Requests EXCEPT ![c] = "asked"]
  BY <1>3, <1>4, OneRequestMoves
<1>. QED  BY <1>0, <1>3, <1>5 DEF Abstract!Accept, PhaseOf, Requests

LEMMA ServeStep ==
    ASSUME Inv, mContinue, PostReponse
    PROVE  \E c \in Clients : Abstract!Serve(c)
<1>1. PICK c \in Clients, r \in RspIds, t \in Nat :
        /\ Waiting(c) /\ rspId[c] = r /\ mine[c] = t /\ t # 0
        /\ mRespMap[r] = 0
        /\ mRespMap' = [mRespMap EXCEPT ![r] = t]
  BY AnswerFindsOwner DEF Inv
<1>2. /\ ran /\ UNCHANGED <<ran, mContinue, rspId, result>> /\ pc' = WakeSenders(pc)
  BY DEF PostReponse, Inv, IdInv, NotYetRun
<1>3. \A d \in Clients : Waiting(d)' <=> Waiting(d)
  BY <1>2, RequestTypes DEF Inv, WakeSenders, Waiting
<1>4. mRespMap'[r] = t /\ \A i \in RspIds : i # r => mRespMap'[i] = mRespMap[i]
  BY <1>1, RequestTypes DEF Inv
<1>5. RequestOf(c) = "asked" /\ RequestOf(c)' = "served"
  BY <1>1, <1>2, <1>3, <1>4 DEF RequestOf
<1>6. ASSUME NEW d \in Clients, d # c PROVE RequestOf(d)' = RequestOf(d)
  <2>1. Waiting(d) => rspId[d] # r /\ rspId[d] \in RspIds
    BY <1>1, <1>6, RequestTypes DEF Inv, IdInv, IdsDistinct
  <2>. QED  BY <1>2, <1>3, <1>4, <2>1 DEF RequestOf
<1>7. Requests' = [Requests EXCEPT ![c] = "served"]
  BY <1>5, <1>6, OneRequestMoves
<1>. QED  BY <1>2, <1>5, <1>7 DEF Abstract!Serve, PhaseOf, Requests

LEMMA ReturnStep ==
    ASSUME Inv, NEW c \in Clients, SendAnswered(c)
    PROVE  Abstract!Return(c)
<1>0. /\ mContinue /\ ran /\ UNCHANGED <<ran, mContinue, rspId>>
      /\ pc[c] = "reply" /\ pc' = [pc EXCEPT ![c] = "idle"]
      /\ mRespMap[rspId[c]] # 0
      /\ mRespMap' = [mRespMap EXCEPT ![rspId[c]] = 0]
      /\ result' = [result EXCEPT ![c] = "ok"]
  BY DEF SendAnswered, Inv, IdInv, NotYetRun
<1>1. /\ Waiting(c) /\ ~Waiting(c)'
      /\ \A d \in Clients : d # c => (Waiting(d)' <=> Waiting(d))
  BY <1>0, RequestTypes DEF Inv, Waiting
<1>2. RequestOf(c) = "served" /\ RequestOf(c)' = "none"
  BY <1>0, <1>1 DEF RequestOf
<1>3. ASSUME NEW d \in Clients, d # c PROVE RequestOf(d)' = RequestOf(d)
  <2>1. Waiting(d) => rspId[d] # rspId[c] /\ rspId[d] \in RspIds
    BY <1>1, <1>3, RequestTypes DEF Inv, IdInv, IdsDistinct
  <2>2. Waiting(d) => mRespMap'[rspId[d]] = mRespMap[rspId[d]]
    BY <1>0, <2>1, RequestTypes DEF Inv
  <2>. QED  BY <1>0, <1>1, <1>3, <2>2 DEF RequestOf
<1>4. Requests' = [Requests EXCEPT ![c] = "none"]
  BY <1>2, <1>3, OneRequestMoves
<1>. QED  BY <1>0, <1>2, <1>4 DEF Abstract!Return, PhaseOf, Requests

LEMMA AbandonStep ==
    ASSUME Inv, NEW c \in Clients, SendRefused(c) \/ SendAbandoned(c)
    PROVE  Abstract!Abandon(c)
<1>0. /\ ~mContinue /\ ran /\ UNCHANGED <<ran, mContinue, mRespMap, rspId>>
      /\ pc' = [pc EXCEPT ![c] = "idle"]
      /\ result' = [result EXCEPT ![c] = "exiting"]
  BY DEF SendRefused, SendAbandoned, Inv, IdInv, NotYetRun
<1>1. /\ ~Waiting(c)'
      /\ \A d \in Clients : d # c => (Waiting(d)' <=> Waiting(d))
  BY <1>0, RequestTypes DEF Inv, Waiting
<1>2. RequestOf(c)' = "none" /\ \A d \in Clients : d # c => RequestOf(d)' = RequestOf(d)
  BY <1>0, <1>1 DEF RequestOf
<1>3. Requests' = [Requests EXCEPT ![c] = "none"]
  BY <1>2, OneRequestMoves
<1>. QED  BY <1>0, <1>3 DEF Abstract!Abandon, PhaseOf, Requests

LEMMA AbstractStep == Inv /\ [Next]_vars => [Abstract!RRNext]_(Abstract!rrVars)
<1> SUFFICES ASSUME Inv, [Next]_vars
             PROVE  Abstract!RRNext \/ UNCHANGED Abstract!rrVars
  OBVIOUS
<1>1. CASE Run
  <2>1. \A c \in Clients : ~Waiting(c) /\ ~Waiting(c)'
    BY <1>1 DEF Run, Inv, IdInv, NotYetRun, Waiting, clientVars
  <2>2. Requests' = Requests
    BY <2>1 DEF Requests, RequestOf
  <2>. QED  BY <1>1, <2>2 DEF Run, clientVars, Abstract!RRNext, Abstract!Open, PhaseOf, Requests
<1>2. CASE \E c \in Clients : Exit(c)
  <2>1. PICK c \in Clients : Exit(c)
    BY <1>2
  <2>2. UNCHANGED <<ran, mRespMap, rspId, result>> /\ ran /\ mContinue /\ ~mContinue'
    BY <2>1 DEF Exit
  <2>3. \A d \in Clients : Waiting(d)' <=> Waiting(d)
    BY <2>1, RequestTypes DEF Inv, Exit, WakeSenders, Waiting
  <2>4. Requests' = Requests
    BY <2>2, <2>3 DEF Requests, RequestOf
  <2>. QED  BY <2>2, <2>4 DEF Abstract!RRNext, Abstract!Close, PhaseOf, Requests
<1>3. CASE \E c \in Clients : SendPosted(c)
  BY <1>3, AcceptStep DEF Abstract!RRNext
<1>4. CASE \E c \in Clients : SendAnswered(c)
  BY <1>4, ReturnStep DEF Abstract!RRNext
<1>5. CASE \E c \in Clients : SendRefused(c) \/ SendAbandoned(c)
  BY <1>5, AbandonStep DEF Abstract!RRNext
<1>6. CASE PostReponse
  <2>1. CASE mContinue
    BY <1>6, <2>1, ServeStep DEF Abstract!RRNext
  <2>2. CASE ~mContinue
    <3>1. UNCHANGED <<ran, mContinue, mRespMap, result, pc, rspId>>
      BY <1>6, <2>2 DEF PostReponse
    <3>. QED  BY <3>1, Stutters DEF Waiting
  <2>. QED  BY <2>1, <2>2
<1>7. CASE \E c \in Clients : SendMsg(c) \/ SendBlocks(c) \/ SenderSpurious(c) \/ Joined(c)
  <2>1. PICK c \in Clients : SendMsg(c) \/ SendBlocks(c) \/ SenderSpurious(c) \/ Joined(c)
    BY <1>7
  <2>2. UNCHANGED <<ran, mContinue, mRespMap, result>>
    BY <2>1 DEF SendMsg, SendBlocks, SenderSpurious, Joined
  <2>3. \A d \in Clients : (Waiting(d)' <=> Waiting(d)) /\ (Waiting(d) => rspId'[d] = rspId[d])
    BY <2>1, RequestTypes DEF Inv, SendMsg, SendBlocks, SenderSpurious, Joined, Waiting
  <2>. QED  BY <2>2, <2>3, Stutters
<1>8. CASE \/ \E c \in Clients : PostMsg(c)
           \/ HandlerPosts \/ LoopOver \/ LoopWaits \/ LoopTimedWait \/ LoopTakes \/ LoopTimeout
           \/ HandlerReturns \/ Tick \/ LoopSpurious \/ UNCHANGED vars
  <2>1. UNCHANGED <<ran, mContinue, mRespMap, result, pc, rspId>>
    BY <1>8 DEF PostMsg, HandlerPosts, LoopOver, LoopWaits, LoopTimedWait, LoopTakes,
       LoopTimeout, HandlerReturns, Tick, LoopSpurious, clientVars, vars
  <2>. QED  BY <2>1, Stutters DEF Waiting
<1>. QED
  BY <1>1, <1>2, <1>3, <1>4, <1>5, <1>6, <1>7, <1>8 DEF Next, Client, SendStep, Loop

\* MMMsgThread implements the rendezvous of RequestReply, for any number of
\* clients and any width of the response id that the requests in flight leave
\* room in.
THEOREM MsgThreadImplements == Spec => ImplementsRequestReply
<1>1. Init => Abstract!RRInit
  BY DEF Init, Abstract!RRInit, PhaseOf, RequestOf, Waiting
<1>. QED  BY <1>1, Invariant, AbstractStep, PTL DEF Spec, ImplementsRequestReply, Abstract!RRSpec

=============================================================================
