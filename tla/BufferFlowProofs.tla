-------------------------- MODULE BufferFlowProofs --------------------------
(***************************************************************************)
(* Proofs about the flow of buffers between threads: TrafficControl, for    *)
(* any threads, any bars and any width of the counters; MediaFission, whose *)
(* queues keep to such bars, for every capacity of the queues and every     *)
(* bound on what comes in.                                                 *)
(***************************************************************************)
EXTENDS MCTrafficControl, MediaFission, FiniteSetTheorems, TLAPS

(***************************************************************************)
(* TrafficControl.                                                         *)
(***************************************************************************)
Places == {"produce", "full", "fullWait", "fullWoken",
           "consume", "empty", "emptyWait", "emptyWoken"}

(* A signal wakes threads and does nothing else.                           *)
LEMMA SignalIs ==
    ASSUME TypeOK, NEW condition, NEW a \in SignalIf(condition)
    PROVE  /\ a \in [Threads -> Places]
           /\ \A t \in Threads : a[t] = at[t] \/ (Asleep(t) /\ a[t] = WokenAt(at[t]))
<1>0. at \in [Threads -> Places]
  BY DEF TypeOK, Places
<1>1. a = at \/ \E t \in Threads : Asleep(t) /\ a = [at EXCEPT ![t] = WokenAt(at[t])]
  BY DEF SignalIf, Signal
<1>2. \A t \in Threads : WokenAt(at[t]) \in Places
  BY <1>0 DEF WokenAt, Places
<1>. QED  BY <1>0, <1>1, <1>2

LEMMA WokenIs == /\ WokenAt("fullWait") = "fullWoken"
                 /\ WokenAt("emptyWait") = "emptyWoken"
                 /\ \A s : s \notin {"fullWait", "emptyWait"} => WokenAt(s) = s
BY DEF WokenAt

(* What a step may do to the places of the threads.                        *)
PlacesOK(a) ==
    /\ a \in [Threads -> Places]
    /\ \A p \in Producers : a[p] \in {"produce", "full", "fullWait", "fullWoken"}
    /\ \A c \in Consumers : a[c] \in {"consume", "empty", "emptyWait", "emptyWoken"}

LEMMA SignalPlaces ==
    ASSUME TypeOK, NEW condition, NEW a \in SignalIf(condition)
    PROVE  PlacesOK(a)
<1>1. \A t \in Threads : a[t] = at[t] \/ (Asleep(t) /\ a[t] = WokenAt(at[t]))
  BY SignalIs
<1>2. a \in [Threads -> Places]
  BY SignalIs
<1>. QED  BY <1>1, <1>2, WokenIs DEF PlacesOK, TypeOK, Threads, Asleep

LEMMA MoveProducer ==
    ASSUME NEW a, PlacesOK(a), NEW p \in Producers,
           NEW place \in {"produce", "full", "fullWait", "fullWoken"}
    PROVE  PlacesOK([a EXCEPT ![p] = place])
BY TrafficAssumption DEF PlacesOK, Threads, Places

LEMMA MoveConsumer ==
    ASSUME NEW a, PlacesOK(a), NEW c \in Consumers,
           NEW place \in {"consume", "empty", "emptyWait", "emptyWoken"}
    PROVE  PlacesOK([a EXCEPT ![c] = place])
BY TrafficAssumption DEF PlacesOK, Threads, Places

LEMMA IncType == ASSUME NEW n \in 0 .. CountSpace - 1 PROVE Inc(n) \in 0 .. CountSpace - 1
BY TrafficAssumption DEF Inc

LEMMA PlacesStep == TypeOK /\ [Next]_vars => PlacesOK(at)'
<1> SUFFICES ASSUME TypeOK, [Next]_vars PROVE PlacesOK(at')
  BY DEF PlacesOK
<1>0. PlacesOK(at)
  BY DEF TypeOK, PlacesOK, Places
<1>1. CASE \E p \in Producers : Produce(p)
  BY <1>1, SignalPlaces, MoveProducer DEF Produce
<1>2. CASE \E p \in Producers : WaitOnFull(p)
  BY <1>2, SignalPlaces, MoveProducer DEF WaitOnFull
<1>3. CASE \E p \in Producers : FullWoken(p)
  <2>1. PICK p \in Producers : FullWoken(p)
    BY <1>3
  <2>2. PICK place \in {"produce", "fullWait"} : at' = [at EXCEPT ![p] = place]
    BY <2>1 DEF FullWoken
  <2>. QED  BY <1>0, <2>2, MoveProducer
<1>4. CASE \E c \in Consumers : Consume(c)
  BY <1>4, SignalPlaces, MoveConsumer DEF Consume
<1>5. CASE \E c \in Consumers : WaitOnEmpty(c)
  BY <1>5, SignalPlaces, MoveConsumer DEF WaitOnEmpty
<1>6. CASE \E c \in Consumers : EmptyWoken(c)
  <2>1. PICK c \in Consumers : EmptyWoken(c)
    BY <1>6
  <2>2. PICK place \in {"consume", "emptyWait"} : at' = [at EXCEPT ![c] = place]
    BY <2>1 DEF EmptyWoken
  <2>. QED  BY <1>0, <2>2, MoveConsumer
<1>7. CASE Release
  BY <1>7, SignalPlaces DEF Release
<1>8. CASE UnblockWait
  BY <1>0, <1>8, WokenIs DEF UnblockWait, PlacesOK, Places, Threads
<1>9. CASE \E t \in Threads : Spurious(t)
  BY <1>0, <1>9, WokenIs DEF Spurious, Asleep, PlacesOK, Places, Threads
<1>10. CASE UNCHANGED vars
  BY <1>0, <1>10 DEF vars
<1>. QED
  BY <1>1, <1>2, <1>3, <1>4, <1>5, <1>6, <1>7, <1>8, <1>9, <1>10
     DEF Next, Producer, Consumer

LEMMA TypeStep == TypeOK /\ [Next]_vars => TypeOK'
<1> SUFFICES ASSUME TypeOK, [Next]_vars PROVE TypeOK'
  OBVIOUS
<1>1. PlacesOK(at')
  BY PlacesStep DEF PlacesOK
<1>2. CASE ReleaseBuffer
  BY <1>1, <1>2, IncType DEF ReleaseBuffer, TypeOK, PlacesOK, Places
<1>3. CASE \E p \in Producers : Produce(p)
  BY <1>1, <1>3, IncType DEF Produce, TypeOK, PlacesOK, Places
<1>4. CASE UNCHANGED <<mProducedCount, mConsumedCount, alive, made>> /\ mEscapeWait' \in BOOLEAN
  BY <1>1, <1>4 DEF TypeOK, PlacesOK, Places
<1>. QED
  BY <1>2, <1>3, <1>4 DEF TypeOK, Next, Producer, Consumer, WaitOnFull, FullWoken, Consume,
     WaitOnEmpty, EmptyWoken, Release, UnblockWait, Spurious, vars

LEMMA TypeInit == Init => TypeOK
<1> SUFFICES ASSUME Init PROVE TypeOK
  OBVIOUS
<1>1. 0 \in 0 .. CountSpace - 1
  BY TrafficAssumption
<1>2. PlacesOK(at)
  BY TrafficAssumption DEF Init, PlacesOK, Places, Threads
<1>. QED  BY <1>1, <1>2 DEF Init, TypeOK, PlacesOK, Places

\* Every variable of a TrafficControl keeps its type; the counters stay within
\* their width.
THEOREM TrafficTypeCorrect == Spec => []TypeOK
BY TypeInit, TypeStep, PTL DEF Spec

-----------------------------------------------------------------------------
(* The counters wrap around.                                               *)

LEMMA PendingIs ==
    ASSUME NEW a \in 0 .. CountSpace - 1, NEW b \in 0 .. CountSpace - 1
    PROVE  PendingOf(a, b) = IF b <= a THEN a - b ELSE a - b + CountSpace
<1>1. CASE b <= a
  BY <1>1, TrafficAssumption DEF PendingOf
<1>2. CASE a < b
  BY <1>2, TrafficAssumption DEF PendingOf
<1>. QED  BY <1>1, <1>2

LEMMA IncIs ==
    ASSUME NEW a \in 0 .. CountSpace - 1
    PROVE  Inc(a) = IF a = CountSpace - 1 THEN 0 ELSE a + 1
<1>1. CASE a = CountSpace - 1
  BY <1>1, TrafficAssumption DEF Inc
<1>2. CASE a < CountSpace - 1
  BY <1>2, TrafficAssumption DEF Inc
<1>. QED  BY <1>1, <1>2, TrafficAssumption

ExactInv == PendingExact /\ alive < CountSpace

LEMMA ExactStep == TypeOK /\ ExactInv /\ [Next]_vars => ExactInv'
<1> SUFFICES ASSUME TypeOK, ExactInv, [Next]_vars PROVE ExactInv'
  OBVIOUS
<1>0. /\ mProducedCount \in 0 .. CountSpace - 1 /\ mConsumedCount \in 0 .. CountSpace - 1
      /\ alive \in Nat /\ CountSpace \in Nat /\ CountSpace > 0
      /\ PendingOf(mProducedCount, mConsumedCount) = alive /\ alive < CountSpace
  BY TrafficAssumption DEF TypeOK, ExactInv, PendingExact, Pending
<1>1. ASSUME mProducedCount' = Inc(mProducedCount), mConsumedCount' = mConsumedCount,
             alive' = alive + 1, alive < CountSpace - 1
      PROVE  ExactInv'
  <2>1. Inc(mProducedCount) \in 0 .. CountSpace - 1
    BY <1>0, IncType
  <2>2. PendingOf(Inc(mProducedCount), mConsumedCount) = alive + 1
    <3>1. CASE mProducedCount = CountSpace - 1
      <4>1. Inc(mProducedCount) = 0
        BY <1>0, <3>1, IncIs
      <4>2. alive = mProducedCount - mConsumedCount
        BY <1>0, <3>1, PendingIs
      <4>3. 0 \in 0 .. CountSpace - 1 /\ mConsumedCount # 0
        BY <1>0, <1>1, <3>1, <4>2
      <4>4. PendingOf(0, mConsumedCount) = 0 - mConsumedCount + CountSpace
        BY <1>0, <4>3, PendingIs
      <4>. QED  BY <1>0, <3>1, <4>1, <4>2, <4>4
    <3>2. CASE mProducedCount # CountSpace - 1
      <4>1. Inc(mProducedCount) = mProducedCount + 1 /\ mProducedCount + 1 # mConsumedCount
        <5>1. Inc(mProducedCount) = mProducedCount + 1
          BY <1>0, <3>2, IncIs
        <5>2. ASSUME mProducedCount + 1 = mConsumedCount PROVE FALSE
          <6>1. alive = mProducedCount - mConsumedCount + CountSpace
            BY <1>0, <5>2, PendingIs
          <6>. QED  BY <1>0, <1>1, <5>2, <6>1
        <5>. QED  BY <5>1, <5>2
      <4>2. PendingOf(mProducedCount + 1, mConsumedCount) =
              IF mConsumedCount <= mProducedCount + 1
              THEN mProducedCount + 1 - mConsumedCount
              ELSE mProducedCount + 1 - mConsumedCount + CountSpace
        BY <1>0, <2>1, <4>1, PendingIs
      <4>3. alive = IF mConsumedCount <= mProducedCount THEN mProducedCount - mConsumedCount
                    ELSE mProducedCount - mConsumedCount + CountSpace
        BY <1>0, PendingIs
      <4>. QED  BY <1>0, <4>1, <4>2, <4>3
    <3>. QED  BY <3>1, <3>2
  <2>. QED  BY <1>0, <1>1, <2>2 DEF ExactInv, PendingExact, Pending
<1>2. ASSUME mConsumedCount' = Inc(mConsumedCount), mProducedCount' = mProducedCount,
             alive' = alive - 1, alive > 0
      PROVE  ExactInv'
  <2>1. Inc(mConsumedCount) \in 0 .. CountSpace - 1
    BY <1>0, IncType
  <2>2. PendingOf(mProducedCount, Inc(mConsumedCount)) = alive - 1
    <3>1. alive = IF mConsumedCount <= mProducedCount THEN mProducedCount - mConsumedCount
                  ELSE mProducedCount - mConsumedCount + CountSpace
      BY <1>0, PendingIs
    <3>2. CASE mConsumedCount = CountSpace - 1
      <4>1. Inc(mConsumedCount) = 0
        BY <1>0, <3>2, IncIs
      <4>2. PendingOf(mProducedCount, 0) = mProducedCount
        <5>1. 0 \in 0 .. CountSpace - 1
          BY <1>0
        <5>. QED  BY <1>0, <5>1, PendingIs
      <4>. QED  BY <1>0, <1>2, <3>1, <3>2, <4>1, <4>2
    <3>3. CASE mConsumedCount # CountSpace - 1
      <4>1. Inc(mConsumedCount) = mConsumedCount + 1
        BY <1>0, <3>3, IncIs
      <4>2. PendingOf(mProducedCount, mConsumedCount + 1) =
              IF mConsumedCount + 1 <= mProducedCount
              THEN mProducedCount - (mConsumedCount + 1)
              ELSE mProducedCount - (mConsumedCount + 1) + CountSpace
        BY <1>0, <2>1, <4>1, PendingIs
      <4>. QED  BY <1>0, <1>2, <3>1, <4>1, <4>2
    <3>. QED  BY <3>2, <3>3
  <2>. QED  BY <1>0, <1>2, <2>2 DEF ExactInv, PendingExact, Pending
<1>3. CASE \E p \in Producers : Produce(p)
  BY <1>1, <1>3 DEF Produce, MayProduce
<1>4. CASE ReleaseBuffer
  BY <1>2, <1>4 DEF ReleaseBuffer
<1>5. CASE UNCHANGED <<mProducedCount, mConsumedCount, alive>>
  BY <1>5 DEF ExactInv, PendingExact, Pending
<1>. QED
  BY <1>3, <1>4, <1>5 DEF Next, Producer, Consumer, WaitOnFull, FullWoken, Consume,
     WaitOnEmpty, EmptyWoken, Release, UnblockWait, Spurious, vars

LEMMA ExactInit == Init => ExactInv
<1>1. PendingOf(0, 0) = 0
  BY PendingIs, TrafficAssumption
<1>. QED  BY <1>1, TrafficAssumption DEF Init, ExactInv, PendingExact, Pending

\* The difference of the two wrapping counters is the number of buffers alive.
THEOREM PendingIsExact == Spec => []PendingExact
<1>1. ExactInv => PendingExact
  BY DEF ExactInv
<1>. QED  BY TrafficTypeCorrect, ExactInit, ExactStep, <1>1, PTL DEF Spec

-----------------------------------------------------------------------------
(* unblockWait.                                                            *)

LEMMA EscapeStep == TypeOK /\ EscapeFrees /\ [Next]_vars => EscapeFrees'
<1> SUFFICES ASSUME TypeOK, EscapeFrees, [Next]_vars, mEscapeWait' PROVE EscapeFrees'
  BY DEF EscapeFrees
<1>0. at \in [Threads -> Places]
  BY DEF TypeOK, Places
<1>1. CASE UnblockWait
  BY <1>0, <1>1, WokenIs DEF UnblockWait, EscapeFrees, Asleep, Places
<1>2. CASE ~UnblockWait
  <2>1. mEscapeWait /\ \A t \in Threads : ~Asleep(t)
    BY <1>2 DEF EscapeFrees, Next, Producer, Consumer, Produce, WaitOnFull, FullWoken,
       Consume, WaitOnEmpty, EmptyWoken, Release, ReleaseBuffer, Spurious, vars
  <2>2. \A condition : SignalIf(condition) = {at}
    BY <2>1 DEF SignalIf, Signal
  <2>. QED
    BY <1>0, <1>2, <2>1, <2>2 DEF EscapeFrees, Asleep, Next, Producer, Consumer, Produce,
       WaitOnFull, FullWoken, Consume, WaitOnEmpty, EmptyWoken, Release, ReleaseBuffer,
       Spurious, vars
<1>. QED  BY <1>1, <1>2

\* After unblockWait no thread waits, and none ever will.
THEOREM EscapeIsFinal == Spec => []EscapeFrees
<1>1. Init => EscapeFrees
  BY DEF Init, EscapeFrees
<1>. QED  BY TrafficTypeCorrect, <1>1, EscapeStep, PTL DEF Spec

-----------------------------------------------------------------------------
(* The bound on the buffers alive.                                         *)

Producing == {p \in Producers : at[p] = "produce"}

(* A producer past its check may still make one buffer.                    *)
BoundInv ==
    ~mEscapeWait => alive + Cardinality(Producing) <= HighBar - 1 + Cardinality(Producers)

LEMMA ProducingFinite ==
    ASSUME NEW S, S \subseteq Producers
    PROVE  /\ IsFiniteSet(S) /\ Cardinality(S) \in Nat
           /\ Cardinality(Producers) \in Nat
           /\ Cardinality(S) <= Cardinality(Producers)
BY TrafficAssumption, FS_Subset, FS_CardinalityType

LEMMA BoundStep == TypeOK /\ ExactInv /\ BoundInv /\ [Next]_vars => BoundInv'
<1> SUFFICES ASSUME TypeOK, ExactInv, BoundInv, [Next]_vars, ~mEscapeWait' PROVE BoundInv'
  BY DEF BoundInv
<1>0. /\ alive \in Nat /\ HighBar \in Nat /\ LowBar \in Nat /\ LowBar < HighBar
      /\ Pending = alive
  BY TrafficAssumption DEF TypeOK, ExactInv, PendingExact
<1>1. ~mEscapeWait
  BY DEF Next, Producer, Consumer, Produce, WaitOnFull, FullWoken, Consume, WaitOnEmpty,
     EmptyWoken, Release, ReleaseBuffer, UnblockWait, Spurious, vars
<1>2. /\ Producing \subseteq Producers /\ Producing' \subseteq Producers
  BY DEF Producing
<1>3. /\ Cardinality(Producing) \in Nat /\ Cardinality(Producing)' \in Nat
      /\ Cardinality(Producers) \in Nat
      /\ Cardinality(Producing)' <= Cardinality(Producers)
      /\ alive + Cardinality(Producing) <= HighBar - 1 + Cardinality(Producers)
  <2>1. /\ Cardinality(Producing) \in Nat /\ Cardinality(Producers) \in Nat
    BY <1>2, ProducingFinite
  <2>2. Cardinality(Producing') \in Nat /\ Cardinality(Producing') <= Cardinality(Producers)
    BY <1>2, ProducingFinite
  <2>. QED  BY <1>1, <2>1, <2>2 DEF BoundInv
<1>4. ASSUME alive' <= HighBar - 1, alive' \in Nat PROVE BoundInv'
  BY <1>0, <1>3, <1>4 DEF BoundInv
<1>5. ASSUME alive' \in Nat, alive' <= alive, Producing' = Producing PROVE BoundInv'
  BY <1>0, <1>3, <1>5 DEF BoundInv
<1>6. \A condition : \A a \in SignalIf(condition) : \A p \in Producers :
        a[p] = "produce" <=> at[p] = "produce"
  BY SignalIs, WokenIs DEF Threads, Asleep
<1>7. \A condition : \A a \in SignalIf(condition) : a \in [Threads -> Places]
  BY SignalIs
<1>8. CASE \E p \in Producers : Produce(p)
  <2>1. PICK p \in Producers : Produce(p)
    BY <1>8
  <2>2. p \in Producing /\ Producing' = Producing \ {p}
    BY <1>6, <1>7, <2>1 DEF Produce, Producing, Threads
  <2>3. Cardinality(Producing') = Cardinality(Producing) - 1
    BY <1>2, <2>2, ProducingFinite, FS_RemoveElement
  <2>. QED  BY <1>0, <1>3, <2>1, <2>3 DEF Produce, BoundInv
<1>9. CASE \E p \in Producers : WaitOnFull(p)
  <2>1. PICK p \in Producers : WaitOnFull(p)
    BY <1>9
  <2>2. CASE Full
    <3>1. PICK a \in SignalIf(Full) : at' = [a EXCEPT ![p] = "fullWait"]
      BY <1>1, <2>1, <2>2 DEF WaitOnFull
    <3>2. a \in [Threads -> Places] /\ \A q \in Producers : a[q] = "produce" <=> at[q] = "produce"
      BY <1>6, <1>7
    <3>3. at[p] # "produce" /\ p \in Threads
      BY <2>1 DEF WaitOnFull, Threads
    <3>4. \A q \in Producers : at'[q] = "produce" <=> at[q] = "produce"
      BY <3>1, <3>2, <3>3 DEF Threads
    <3>5. Producing' = Producing
      BY <3>4 DEF Producing
    <3>. QED  BY <1>0, <1>5, <2>1, <3>5 DEF WaitOnFull
  <2>3. CASE ~Full
    BY <1>0, <1>4, <2>1, <2>3 DEF WaitOnFull, Full
  <2>. QED  BY <2>2, <2>3
<1>10. CASE \E p \in Producers : FullWoken(p)
  <2>1. PICK p \in Producers : FullWoken(p)
    BY <1>10
  <2>2. CASE Pending <= LowBar
    BY <1>0, <1>4, <2>1, <2>2 DEF FullWoken
  <2>3. CASE ~(Pending <= LowBar)
    <3>1. Producing' = Producing
      BY <1>1, <2>1, <2>3 DEF FullWoken, Producing, TypeOK, Threads
    <3>. QED  BY <1>0, <1>5, <2>1, <3>1 DEF FullWoken
  <2>. QED  BY <2>2, <2>3
<1>11. CASE Release \/ \E c \in Consumers : Consume(c) \/ WaitOnEmpty(c) \/ EmptyWoken(c)
  <2>1. alive' \in Nat /\ alive' <= alive
    BY <1>0, <1>11 DEF Release, Consume, WaitOnEmpty, EmptyWoken, ReleaseBuffer
  <2>2. \A p \in Producers : at'[p] = "produce" <=> at[p] = "produce"
    <3>1. CASE Release
      BY <1>6, <3>1 DEF Release
    <3>2. CASE \E c \in Consumers : Consume(c) \/ WaitOnEmpty(c) \/ EmptyWoken(c)
      <4>1. PICK c \in Consumers : Consume(c) \/ WaitOnEmpty(c) \/ EmptyWoken(c)
        BY <3>2
      <4>2. \A p \in Producers : p # c
        BY TrafficAssumption
      <4>3. PICK a, place : at' = [a EXCEPT ![c] = place] /\ (a = at \/ \E x : a \in SignalIf(x))
        <5>1. CASE Consume(c)
          BY <5>1 DEF Consume
        <5>2. CASE WaitOnEmpty(c)
          BY <5>2 DEF WaitOnEmpty
        <5>3. CASE EmptyWoken(c)
          BY <5>3 DEF EmptyWoken
        <5>. QED  BY <4>1, <5>1, <5>2, <5>3
      <4>4. a \in [Threads -> Places]
        BY <1>7, <4>3 DEF TypeOK, Places
      <4>. QED  BY <1>6, <4>2, <4>3, <4>4 DEF Threads
    <3>. QED  BY <1>11, <3>1, <3>2
  <2>3. Producing' = Producing
    BY <2>2 DEF Producing
  <2>. QED  BY <1>5, <2>1, <2>3
<1>12. CASE (\E t \in Threads : Spurious(t)) \/ UNCHANGED vars
  <2>1. Producing' = Producing
    BY <1>12, WokenIs DEF Spurious, Asleep, Producing, TypeOK, Threads, vars
  <2>. QED  BY <1>0, <1>5, <1>12, <2>1 DEF Spurious, vars
<1>13. CASE UnblockWait
  BY <1>13 DEF UnblockWait
<1>. QED
  BY <1>8, <1>9, <1>10, <1>11, <1>12, <1>13 DEF Next, Producer, Consumer

\* Until unblockWait, no more buffers are alive than HighBar and one for each
\* further producer: none is made without a check, and the check is exact
\* although the counters wrap around.
THEOREM AliveIsBounded == Spec => []BoundedAlive
<1>1. Init => BoundInv
  <2> SUFFICES ASSUME Init PROVE BoundInv
    OBVIOUS
  <2>1. Cardinality(Producing) <= Cardinality(Producers) /\ Cardinality(Producing) \in Nat
        /\ Cardinality(Producers) \in Nat
    BY ProducingFinite DEF Producing
  <2>. QED  BY <2>1, TrafficAssumption DEF Init, BoundInv
<1>2. TypeOK /\ BoundInv => BoundedAlive
  <2> SUFFICES ASSUME TypeOK, BoundInv PROVE BoundedAlive
    OBVIOUS
  <2>1. Cardinality(Producing) \in Nat /\ Cardinality(Producers) \in Nat
    BY ProducingFinite DEF Producing
  <2>. QED  BY <2>1, TrafficAssumption DEF BoundInv, BoundedAlive, TypeOK
<1>. QED  BY TrafficTypeCorrect, ExactInit, ExactStep, <1>1, BoundStep, <1>2, PTL DEF Spec

-----------------------------------------------------------------------------
(* A producer and a consumer that move, and others that do not.            *)

PairMoves(p, c) == Producer(p) \/ Consumer(c) \/ UnblockWait \/ Spurious(p) \/ Spurious(c)

(* Nobody else has come to a wait.                                         *)
OthersAway(p, c) == \A t \in Threads \ {p, c} : at[t] \in {"produce", "consume"}

(* A signal wakes whoever sleeps, when only one does.                       *)
LEMMA SignalReaches ==
    ASSUME TypeOK, NEW t \in Threads, Asleep(t), \A u \in Threads : Asleep(u) => u = t
    PROVE  Signal = {[at EXCEPT ![t] = WokenAt(at[t])]}
BY DEF Signal

LEMMA PairStep ==
    ASSUME NEW p \in Producers, NEW c \in Consumers, OthersAway(p, c), OthersAway(p, c)',
           TypeOK, ExactInv, ExactInv', NobodyForgotten, PairMoves(p, c) \/ UNCHANGED vars
    PROVE  NobodyForgotten'
<1>0. /\ at \in [Threads -> Places] /\ p # c /\ p \in Threads /\ c \in Threads
      /\ at[p] \in {"produce", "full", "fullWait", "fullWoken"}
      /\ at[c] \in {"consume", "empty", "emptyWait", "emptyWoken"}
  BY TrafficAssumption DEF TypeOK, Places, Threads
<1>away. \A t \in Threads : Asleep(t) => t = p \/ t = c
  BY DEF OthersAway, Asleep
<1>1. /\ Pending = alive /\ Pending' = alive' /\ alive \in Nat
      /\ LowBar \in Nat /\ HighBar \in Nat /\ LowBar < HighBar
  BY TrafficAssumption DEF ExactInv, PendingExact, TypeOK
<1>2. /\ at[p] = "fullWait" => alive > LowBar
      /\ at[c] = "emptyWait" => alive < HighBar
  BY <1>1 DEF NobodyForgotten
<1>3. SUFFICES /\ at'[p] = "fullWait" => alive' > LowBar
               /\ at'[c] = "emptyWait" => alive' < HighBar
  <2>1. \A t \in Threads : t = p \/ t = c \/ at'[t] \in {"produce", "consume"}
    BY DEF OthersAway
  <2>2. /\ \A t \in Producers : t # c /\ (t = p \/ at'[t] # "fullWait")
        /\ \A t \in Consumers : t # p /\ (t = c \/ at'[t] # "emptyWait")
    BY <2>1, TrafficAssumption DEF Threads
  <2>. QED  BY <1>1, <2>2 DEF NobodyForgotten
<1>4. CASE Produce(p)
  <2>1. alive' = alive + 1 /\ PendingOf(mProducedCount', mConsumedCount) = alive'
    BY <1>1, <1>4 DEF Produce, Pending
  <2>2. PICK a \in SignalIf(alive' >= HighBar) : at' = [a EXCEPT ![p] = "full"]
    BY <1>4, <2>1 DEF Produce
  <2>3. at'[p] = "full"
    BY <1>0, <2>2, SignalIs
  <2>4. ASSUME at'[c] = "emptyWait" PROVE alive' < HighBar
    <3>1. a[c] = "emptyWait" /\ at[c] = "emptyWait"
      BY <1>0, <2>2, <2>4, SignalIs, WokenIs DEF Asleep, Places
    <3>2. SUFFICES ASSUME alive' >= HighBar PROVE FALSE
      BY <1>1, <2>1
    <3>3. \A u \in Threads : Asleep(u) => u = c
      BY <1>0, <1>away, <1>4 DEF Produce, Asleep
    <3>4. a = [at EXCEPT ![c] = WokenAt(at[c])]
      BY <1>0, <2>2, <3>1, <3>2, <3>3, SignalReaches DEF SignalIf, Asleep
    <3>. QED  BY <1>0, <3>1, <3>4, WokenIs
  <2>. QED  BY <2>3, <2>4
<1>5. CASE Consume(c)
  <2>1. /\ alive' = alive - 1 /\ PendingOf(mProducedCount, mConsumedCount') = alive'
        /\ at[c] = "consume"
    BY <1>1, <1>5 DEF Consume, ReleaseBuffer, Pending
  <2>2. PICK a \in SignalIf(LowReached(alive')) : at' = [a EXCEPT ![c] = "empty"]
    BY <1>5, <2>1 DEF Consume
  <2>3. at'[c] = "empty"
    BY <1>0, <2>2, SignalIs
  <2>4. ASSUME at'[p] = "fullWait" PROVE alive' > LowBar
    <3>1. a[p] = "fullWait" /\ at[p] = "fullWait"
      BY <1>0, <2>2, <2>4, SignalIs, WokenIs DEF Asleep, Places
    <3>2. SUFFICES ASSUME alive' <= LowBar PROVE FALSE
      BY <1>1, <2>1
    <3>3. \A u \in Threads : Asleep(u) => u = p
      BY <1>0, <1>away, <2>1 DEF Asleep
    <3>4. a = [at EXCEPT ![p] = WokenAt(at[p])]
      BY <1>0, <2>2, <3>1, <3>2, <3>3, SignalReaches DEF SignalIf, LowReached, Asleep
    <3>. QED  BY <1>0, <3>1, <3>4, WokenIs
  <2>. QED  BY <2>3, <2>4
<1>6. CASE WaitOnFull(p)
  <2>1. PICK a \in SignalIf(Full) :
          at' = [a EXCEPT ![p] = IF Full /\ ~mEscapeWait THEN "fullWait" ELSE "produce"]
    BY <1>6 DEF WaitOnFull
  <2>2. at'[c] = "emptyWait" => at[c] = "emptyWait"
    BY <1>0, <2>1, SignalIs, WokenIs DEF Asleep, Places
  <2>3. at'[p] = "fullWait" => Full
    BY <1>0, <2>1, SignalIs
  <2>. QED  BY <1>1, <1>2, <1>6, <2>2, <2>3 DEF WaitOnFull, Full
<1>7. CASE WaitOnEmpty(c)
  <2>1. PICK a \in SignalIf(Pending <= LowBar) :
          at' = [a EXCEPT ![c] = IF Pending = 0 /\ ~mEscapeWait THEN "emptyWait" ELSE "consume"]
    BY <1>7 DEF WaitOnEmpty
  <2>2. at'[p] = "fullWait" => at[p] = "fullWait"
    BY <1>0, <2>1, SignalIs, WokenIs DEF Asleep, Places
  <2>3. at'[c] = "emptyWait" => Pending = 0
    BY <1>0, <2>1, SignalIs
  <2>. QED  BY <1>1, <1>2, <1>7, <2>2, <2>3 DEF WaitOnEmpty
<1>8. CASE FullWoken(p)
  BY <1>0, <1>1, <1>2, <1>8 DEF FullWoken
<1>9. CASE EmptyWoken(c)
  BY <1>0, <1>1, <1>2, <1>9 DEF EmptyWoken
<1>10. CASE UnblockWait \/ Spurious(p) \/ Spurious(c)
  BY <1>0, <1>1, <1>2, <1>10, WokenIs DEF UnblockWait, Spurious, Asleep, Places
<1>11. CASE UNCHANGED vars
  BY <1>2, <1>11 DEF vars
<1>. QED
  BY <1>4, <1>5, <1>6, <1>7, <1>8, <1>9, <1>10, <1>11
     DEF PairMoves, Producer, Consumer

LEMMA OthersStep ==
    ASSUME NEW p \in Producers, NEW c \in Consumers, OthersAway(p, c), TypeOK,
           PairMoves(p, c) \/ UNCHANGED vars
    PROVE  OthersAway(p, c)'
<1>1. p \in Threads /\ c \in Threads /\ at \in [Threads -> Places]
  BY DEF Threads, TypeOK, Places
<1>2. ASSUME NEW t \in Threads \ {p, c}
      PROVE  at'[t] = at[t]
  <2>1. at[t] \in {"produce", "consume"} /\ WokenAt(at[t]) = at[t]
    BY DEF OthersAway, WokenAt
  <2>2. CASE UNCHANGED vars
    BY <2>2 DEF vars
  <2>3. CASE UnblockWait
    BY <2>1, <2>3 DEF UnblockWait
  <2>4. CASE Spurious(p) \/ Spurious(c) \/ FullWoken(p) \/ EmptyWoken(c)
    BY <1>1, <2>4 DEF Spurious, FullWoken, EmptyWoken
  <2>5. CASE Produce(p) \/ WaitOnFull(p) \/ Consume(c) \/ WaitOnEmpty(c)
    <3>1. PICK a, u, place : u \in {p, c} /\ at' = [a EXCEPT ![u] = place] /\ \E x : a \in SignalIf(x)
      BY <2>5 DEF Produce, WaitOnFull, Consume, WaitOnEmpty
    <3>2. a \in [Threads -> Places] /\ (a[t] = at[t] \/ a[t] = WokenAt(at[t]))
      BY <1>1, <3>1, SignalIs
    <3>. QED  BY <2>1, <3>1, <3>2
  <2>. QED  BY <2>2, <2>3, <2>4, <2>5 DEF PairMoves, Producer, Consumer
<1>. QED  BY <1>2 DEF OthersAway

PairOnly(p, c) == Producers = {p} /\ Consumers = {c} /\ Sinks = FALSE

\* With one producer and one consumer, and buffers released by the consumer,
\* the signal on the shared condition variable reaches the one that can go on:
\* the producer does not sleep at LowBar nor the consumer at HighBar.
THEOREM SignalFindsTheOther ==
    ASSUME NEW p, NEW c, PairOnly(p, c)
    PROVE  Spec => []NobodyForgotten
<1>1. Init => NobodyForgotten
  BY TrafficAssumption DEF Init, NobodyForgotten, Threads
<1>2. TypeOK /\ ExactInv /\ ExactInv' /\ NobodyForgotten /\ [Next]_vars => NobodyForgotten'
  <2>. SUFFICES ASSUME TypeOK, ExactInv, ExactInv', NobodyForgotten, [Next]_vars PROVE NobodyForgotten'
    OBVIOUS
  <2>1. p \in Producers /\ c \in Consumers /\ Threads = {p, c}
    BY DEF PairOnly, Threads
  <2>2. OthersAway(p, c) /\ OthersAway(p, c)'
    BY <2>1 DEF OthersAway, Threads
  <2>3. PairMoves(p, c) \/ UNCHANGED vars
    BY <2>1 DEF PairOnly, Next, PairMoves, Release
  <2>. QED  BY <2>1, <2>2, <2>3, PairStep
<1>. QED  BY TrafficTypeCorrect, ExactInit, ExactStep, <1>1, <1>2, PTL DEF Spec

\* The same of a producer and a consumer that move while any others are still
\* away: what the run checks of its pair.
THEOREM PairIsNotForgotten ==
    ASSUME p1 \in Producers, k1 \in Consumers
    PROVE  MCSpec => []PairNotForgotten
<1>. DEFINE Away == pair => OthersAway(p1, k1) /\ NobodyForgotten
<1>1. MCInit => TypeOK /\ ExactInv /\ Away
  <2>1. Init => OthersAway(p1, k1) /\ NobodyForgotten
    BY TrafficAssumption DEF Init, OthersAway, NobodyForgotten, Threads
  <2>2. Init => TypeOK
    BY TypeInit
  <2>. QED  BY <2>1, <2>2, ExactInit DEF MCInit
<1>2. TypeOK /\ ExactInv /\ Away /\ [MCNext]_MCVars => (TypeOK /\ ExactInv /\ Away)'
  <2>. SUFFICES ASSUME TypeOK, ExactInv, Away, [MCNext]_MCVars PROVE (TypeOK /\ ExactInv /\ Away)'
    OBVIOUS
  <2>1. pair' = pair /\ (pair => PairMoves(p1, k1) \/ UNCHANGED vars)
    BY DEF MCNext, MCVars, MCPair, PairMoves
  <2>2. [Next]_vars
    BY DEF MCNext, MCVars, MCPair, Next, Threads
  <2>3. TypeOK' /\ ExactInv'
    BY <2>2, TypeStep, ExactStep
  <2>4. ASSUME pair PROVE OthersAway(p1, k1)' /\ NobodyForgotten'
    <3>1. OthersAway(p1, k1)'
      BY <2>1, <2>4, OthersStep
    <3>. QED  BY <2>1, <2>3, <2>4, <3>1, PairStep
  <2>. QED  BY <2>1, <2>3, <2>4
<1>3. Away => PairNotForgotten
  BY DEF PairNotForgotten
<1>. QED  BY <1>1, <1>2, <1>3, PTL DEF MCSpec

(***************************************************************************)
(* MediaFission.                                                           *)
(***************************************************************************)
-----------------------------------------------------------------------------
(* Sequences.                                                              *)

LEMMA AppendIs ==
    ASSUME NEW S, NEW s \in Seq(S), NEW x \in S
    PROVE  /\ Append(s, x) \in Seq(S) /\ Len(Append(s, x)) = Len(s) + 1
           /\ \A i \in 1 .. Len(s) : Append(s, x)[i] = s[i]
           /\ Append(s, x)[Len(s) + 1] = x
  OBVIOUS

LEMMA TailIs ==
    ASSUME NEW S, NEW s \in Seq(S), s # <<>>
    PROVE  /\ Tail(s) \in Seq(S) /\ Len(s) > 0 /\ Len(Tail(s)) = Len(s) - 1
           /\ Head(s) = s[1] /\ Head(s) \in S
           /\ \A i \in 1 .. Len(s) - 1 : Tail(s)[i] = s[i + 1]
  OBVIOUS

LEMMA ShortSequences ==
    ASSUME NEW x, NEW y
    PROVE  /\ Append(<<>>, x) = <<x>> /\ Append(<<x>>, y) = <<x, y>>
           /\ Tail(<<x>>) = <<>> /\ Tail(<<x, y>>) = <<y>>
           /\ Head(<<x>>) = x /\ Head(<<x, y>>) = x
<1>1. Append(<<>>, x) = <<x>>
  OBVIOUS
<1>2. Append(<<x>>, y) = <<x, y>>
  <2>. DEFINE s == <<x>>
  <2>1. s \in Seq({x, y}) /\ Len(s) = 1 /\ s[1] = x
    OBVIOUS
  <2>2. /\ Append(s, y) \in Seq({x, y}) /\ Len(Append(s, y)) = 2
        /\ Append(s, y)[1] = x /\ Append(s, y)[2] = y
    BY <2>1
  <2>. HIDE DEF s
  <2>3. \A t \in Seq({x, y}) : Len(t) = 2 /\ t[1] = x /\ t[2] = y => t = <<x, y>>
    OBVIOUS
  <2>. QED  BY <2>2, <2>3 DEF s
<1>3. Tail(<<x>>) = <<>> /\ Head(<<x>>) = x
  <2>1. Tail(<<x>>) = <<>>
    OBVIOUS
  <2>2. Head(<<x>>) = x
    OBVIOUS
  <2>. QED  BY <2>1, <2>2
<1>4. Tail(<<x, y>>) = <<y>>
  OBVIOUS
<1>5. Head(<<x, y>>) = x
  OBVIOUS
<1>. QED  BY <1>1, <1>2, <1>3, <1>4, <1>5

-----------------------------------------------------------------------------
(* The records.                                                            *)

Bufs == 1 .. MaxFissionInput
MaybeBufs == 0 .. MaxFissionInput
MaybeOps == FissionOps \cup {"none"}
FissionStates == {"null", "prepared", "paused", "playing", "stopping", "stopped"}
HandlerPlaces == {"idle", "push", "full", "join", "clear"}
PushPlaces == {"top", "state", "sem", "front", "write", "pop", "over"}
EncoderPlaces == {"out", "front", "pop"}

FissionRecord == [state : FissionStates, master : BOOLEAN, thread : BOOLEAN, continue : BOOLEAN,
                  sem : Nat, queues : BOOLEAN]
QueueRecord == [list : Seq(Bufs), escape : BOOLEAN]
MsgsRecord == [commands : Seq(FissionOps), inputs : Nat]
HandlerRecord == [at : HandlerPlaces, op : MaybeOps, buf : MaybeBufs, queue : OutQueues]
PushRecord == [at : PushPlaces, buf : MaybeBufs]
EncoderRecord == [at : EncoderPlaces, buf : MaybeBufs]
SeenRecord == [asked : MaybeOps, last : MaybeOps, commands : Nat, inputs : MaybeBufs,
               got : [OutQueues -> Seq(Bufs)], undefined : BOOLEAN]

Records ==
    /\ fission \in FissionRecord
    /\ outQueues \in [OutQueues -> QueueRecord]
    /\ fissionMsgs \in MsgsRecord
    /\ fissionHandler \in HandlerRecord
    /\ fissionHandler.at \in {"push", "full"} => fissionHandler.buf \in Bufs
    /\ pushThread \in PushRecord
    /\ pushThread.at = "write" => pushThread.buf \in Bufs
    /\ encoder \in EncoderRecord
    /\ encoder.at = "pop" => encoder.buf \in Bufs
    /\ fissionSeen \in SeenRecord

LEMMA RecordsAreTypes == Records => FissionTypeOK
BY DEF Records, FissionTypeOK, FissionRecord, QueueRecord, MsgsRecord, HandlerRecord, PushRecord,
       EncoderRecord, Bufs, MaybeBufs, FissionStates, HandlerPlaces, PushPlaces, EncoderPlaces

LEMMA SetsAre ==
    /\ OutQueues = {1, 2} /\ EncoderQueue = 1 /\ PreviewQueue = 2
    /\ Bufs \subseteq MaybeBufs /\ Bufs \subseteq Nat /\ NoBuf \in MaybeBufs
    /\ MaybeBufs \subseteq Nat
    /\ FissionOps \subseteq MaybeOps /\ "none" \in MaybeOps
BY FissionAssumption DEF OutQueues, EncoderQueue, PreviewQueue, Bufs, MaybeBufs, NoBuf, FissionOps,
                         MaybeOps

LEMMA IdleIs == IdleFission \in HandlerRecord /\ IdleFission.at = "idle"
<1>1. "idle" \in HandlerPlaces
  BY DEF HandlerPlaces
<1>. QED  BY <1>1, SetsAre DEF IdleFission, HandlerRecord

LEMMA NextBuf ==
    ASSUME fissionSeen \in SeenRecord, fissionSeen.inputs < MaxFissionInput
    PROVE  fissionSeen.inputs + 1 \in Bufs
BY FissionAssumption DEF SeenRecord, MaybeBufs, Bufs

LEMMA FissionKept ==
    FissionNext => \/ fission' = fission \/ FissionThread \/ PushSemWait
BY DEF FissionNext, FissionCommand, FissionStop, HandleInput, FissionWrite, PushThread, PushTop,
       PushState, PushFront, PushWrite, PushPop, EncoderReads, EncoderFront, EncoderPop

LEMMA FissionType == Records /\ FissionNext => fission' \in FissionRecord
<1>. SUFFICES ASSUME Records, FissionNext PROVE fission' \in FissionRecord
  OBVIOUS
<1>. fission \in FissionRecord /\ {"prepared", "playing", "paused", "stopping", "stopped"} \subseteq FissionStates
  BY DEF Records, FissionStates
<1>. fission.sem \in Nat /\ fission.sem + 1 \in Nat
  BY DEF FissionRecord
<1>1. CASE OnFissionPrepare \/ OnFissionPause
  BY <1>1 DEF OnFissionPrepare, OnFissionPause, FissionRecord
<1>2. CASE OnFissionStart \/ OnFissionResume
  <2>1. fission' = [fission EXCEPT !.state = "playing", !.sem = fission.sem + 1]
    BY <1>2 DEF OnFissionStart, OnFissionResume
  <2>. QED  BY <2>1 DEF FissionRecord
<1>6. CASE \E op \in {"stop", "reset"} : OnFissionStop(op)
  <2>1. \/ fission' = fission
        \/ fission' = [fission EXCEPT !.state = "stopping", !.continue = FALSE, !.sem = fission.sem + 1]
    BY <1>6 DEF OnFissionStop
  <2>. QED  BY <2>1 DEF FissionRecord
<1>3. CASE FissionJoined \/ FissionCleared
  BY <1>3 DEF FissionJoined, FissionCleared, FissionRecord
<1>4. CASE PushBuffer \/ PushWoken
  BY <1>4 DEF PushBuffer, PushWoken
<1>5. CASE PushSemWait
  BY <1>5 DEF PushSemWait, FissionRecord
<1>. QED  BY <1>1, <1>2, <1>3, <1>4, <1>5, <1>6, FissionKept DEF FissionThread

LEMMA QueueSet ==
    ASSUME outQueues \in [OutQueues -> QueueRecord], NEW q \in OutQueues, NEW list \in Seq(Bufs),
           outQueues' = [outQueues EXCEPT ![q].list = list]
    PROVE  /\ outQueues' \in [OutQueues -> QueueRecord]
           /\ outQueues'[q].list = list
           /\ \A r \in OutQueues \ {q} : outQueues'[r] = outQueues[r]
<1>1. outQueues'[q] = [outQueues[q] EXCEPT !.list = list]
  OBVIOUS
<1>2. outQueues'[q] \in QueueRecord /\ outQueues'[q].list = list
  BY <1>1 DEF QueueRecord
<1>. QED  BY <1>2

LEMMA ListsAre ==
    ASSUME outQueues \in [OutQueues -> QueueRecord], NEW q \in OutQueues
    PROVE  outQueues[q].list \in Seq(Bufs) /\ Len(outQueues[q].list) \in Nat
BY DEF QueueRecord

LEMMA QueuesKept ==
    FissionNext => \/ outQueues' = outQueues
                   \/ FissionStop \/ FissionCleared \/ PushBuffer \/ PushWoken \/ FissionWrite
                   \/ PushPop \/ EncoderPop
BY DEF FissionNext, FissionCommand, FissionThread, OnFissionPrepare, OnFissionStart,
       OnFissionPause, OnFissionResume, OnFissionStop, FissionJoined, HandleInput, PushThread,
       PushTop, PushState, PushSemWait, PushFront, PushWrite, EncoderReads, EncoderFront

(* pushBuffer: a queue gets the buffer, or nothing changes.                *)
LEMMA PushedIs ==
    ASSUME Records, PushBuffer \/ PushWoken
    PROVE  LET q == fissionHandler.queue
           IN \/ /\ outQueues' = outQueues /\ fissionHandler' = [fissionHandler EXCEPT !.at = "full"]
                 /\ fissionMsgs' = fissionMsgs
              \/ /\ outQueues' = [outQueues EXCEPT ![q].list = Append(outQueues[q].list, fissionHandler.buf)]
                 /\ \/ q = 2 /\ fissionHandler' = IdleFission
                    \/ q = 1 /\ fissionHandler' = [fissionHandler EXCEPT !.at = "push", !.queue = 2]
                 /\ fissionMsgs' \in {fissionMsgs, [fissionMsgs EXCEPT !.inputs = @ + 1]}
<1>. fissionHandler.queue \in {1, 2}
  BY SetsAre DEF Records, HandlerRecord
<1>. DEFINE q == fissionHandler.queue
<1>1. ASSUME PushedTo(q)
      PROVE  /\ outQueues' = [outQueues EXCEPT ![q].list = Append(outQueues[q].list, fissionHandler.buf)]
             /\ \/ q = 2 /\ fissionHandler' = IdleFission
                \/ q = 1 /\ fissionHandler' = [fissionHandler EXCEPT !.at = "push", !.queue = 2]
             /\ fissionMsgs' \in {fissionMsgs, [fissionMsgs EXCEPT !.inputs = @ + 1]}
  <2>1. outQueues' = [outQueues EXCEPT ![q].list = Append(outQueues[q].list, fissionHandler.buf)]
    BY <1>1 DEF PushedTo, Pushed
  <2>2. CASE q = 1
    <3>1. fissionHandler' = [fissionHandler EXCEPT !.at = "push", !.queue = 1 + 1] /\ fissionMsgs' = fissionMsgs
      BY <1>1, <2>2, SetsAre DEF PushedTo
    <3>. QED  BY <2>1, <2>2, <3>1
  <2>3. CASE q = 2
    <3>1. fissionHandler' = IdleFission /\ fissionMsgs' = [fissionMsgs EXCEPT !.inputs = @ + 1]
      BY <1>1, <2>3, SetsAre DEF PushedTo
    <3>. QED  BY <2>1, <2>3, <3>1
  <2>. QED  BY <2>2, <2>3
<1>2. CASE PushBuffer
  <2>1. \/ PushedTo(q)
        \/ /\ outQueues' = outQueues /\ fissionHandler' = [fissionHandler EXCEPT !.at = "full"]
           /\ fissionMsgs' = fissionMsgs
    BY <1>2 DEF PushBuffer
  <2>. QED  BY <1>1, <2>1
<1>3. CASE PushWoken
  BY <1>1, <1>3 DEF PushWoken
<1>. QED  BY <1>2, <1>3

(* What the push thread offers to the preview is still in the queue.       *)
PreviewHeld == pushThread.at \in {"write", "pop"} => outQueues[PreviewQueue].list # <<>>

LEMMA QueuesType == Records /\ PreviewHeld /\ FissionNext => outQueues' \in [OutQueues -> QueueRecord]
<1>. SUFFICES ASSUME Records, PreviewHeld, FissionNext PROVE outQueues' \in [OutQueues -> QueueRecord]
  OBVIOUS
<1>. outQueues \in [OutQueues -> QueueRecord] /\ <<>> \in Seq(Bufs)
  BY DEF Records
<1>1. CASE FissionStop
  BY <1>1 DEF FissionStop, QueueRecord
<1>2. CASE FissionCleared
  BY <1>2 DEF FissionCleared, QueueRecord
<1>3. CASE PushBuffer \/ PushWoken
  <2>1. fissionHandler.queue \in OutQueues /\ fissionHandler.buf \in Bufs
    BY <1>3 DEF Records, HandlerRecord, PushBuffer, PushWoken
  <2>. DEFINE q == fissionHandler.queue
  <2>2. outQueues' \in {outQueues, [outQueues EXCEPT ![q].list = Append(outQueues[q].list, fissionHandler.buf)]}
    BY <1>3, PushedIs
  <2>3. Append(outQueues[q].list, fissionHandler.buf) \in Seq(Bufs)
    BY <2>1, ListsAre, AppendIs
  <2>. QED  BY <2>1, <2>2, <2>3, QueueSet
<1>4. CASE FissionWrite
  <2>. DEFINE buf == fissionSeen.inputs + 1
  <2>1. buf \in Bufs
    BY <1>4, NextBuf DEF FissionWrite, Records
  <2>2. outQueues' = [q \in OutQueues |-> [outQueues[q] EXCEPT !.list = Append(@, buf)]]
    BY <1>4 DEF FissionWrite
  <2>3. \A q \in OutQueues : Append(outQueues[q].list, buf) \in Seq(Bufs)
    BY <2>1, ListsAre, AppendIs
  <2>4. \A q \in OutQueues : [outQueues[q] EXCEPT !.list = Append(@, buf)] \in QueueRecord
    BY <2>3 DEF QueueRecord
  <2>. QED  BY <2>2, <2>4
<1>5. ASSUME NEW q \in OutQueues, outQueues' = [outQueues EXCEPT ![q].list = Tail(@)],
             outQueues[q].list # <<>>
      PROVE  outQueues' \in [OutQueues -> QueueRecord]
  <2>1. Tail(outQueues[q].list) \in Seq(Bufs)
    BY <1>5, ListsAre, TailIs
  <2>. QED  BY <1>5, <2>1, QueueSet
<1>6. CASE PushPop
  BY <1>5, <1>6, SetsAre DEF PushPop, PreviewHeld
<1>7. CASE EncoderPop
  BY <1>5, <1>7, SetsAre DEF EncoderPop
<1>. QED  BY <1>1, <1>2, <1>3, <1>4, <1>6, <1>7, QueuesKept

LEMMA MsgsKept ==
    FissionNext => \/ fissionMsgs' = fissionMsgs
                   \/ FissionStop \/ FissionThread \/ HandleInput
                   \/ \E op \in FissionOps : FissionCommand(op)
BY DEF FissionNext, FissionWrite, PushThread, PushTop, PushState, PushSemWait, PushFront, PushWrite,
       PushPop, EncoderReads, EncoderFront, EncoderPop

LEMMA MsgsType == Records /\ FissionNext => fissionMsgs' \in MsgsRecord
<1>. SUFFICES ASSUME Records, FissionNext PROVE fissionMsgs' \in MsgsRecord
  OBVIOUS
<1>. fissionMsgs \in MsgsRecord /\ fissionMsgs.commands \in Seq(FissionOps) /\ fissionMsgs.inputs \in Nat
  BY DEF Records, MsgsRecord
<1>1. ASSUME fissionMsgs.commands # <<>> PROVE Tail(fissionMsgs.commands) \in Seq(FissionOps)
  BY <1>1, TailIs
<1>2. ASSUME NEW op \in FissionOps, fissionMsgs' = [fissionMsgs EXCEPT !.commands = Append(@, op)]
      PROVE  fissionMsgs' \in MsgsRecord
  <2>1. Append(fissionMsgs.commands, op) \in Seq(FissionOps)
    BY <1>2, AppendIs
  <2>. QED  BY <1>2, <2>1 DEF MsgsRecord
<1>3. CASE FissionStop \/ \E op \in FissionOps : FissionCommand(op)
  BY <1>2, <1>3 DEF FissionStop, FissionCommand, FissionOps
<1>4. CASE OnFissionPrepare \/ OnFissionPause \/ OnFissionResume \/ \E op \in {"stop", "reset"} : OnFissionStop(op)
  <2>1. fissionMsgs' = [fissionMsgs EXCEPT !.commands = Tail(fissionMsgs.commands)]
        /\ fissionMsgs.commands # <<>>
    BY <1>4 DEF OnFissionPrepare, OnFissionPause, OnFissionResume, OnFissionStop, TakesFission
  <2>. QED  BY <1>1, <2>1 DEF MsgsRecord
<1>5. CASE OnFissionStart
  <2>1. PICK n \in Nat : fissionMsgs' = [commands |-> Tail(fissionMsgs.commands), inputs |-> n]
    <3>1. fissionMsgs.inputs + (IF fission.master THEN 1 ELSE 0) \in Nat
      OBVIOUS
    <3>. QED  BY <1>5, <3>1 DEF OnFissionStart
  <2>2. fissionMsgs.commands # <<>>
    BY <1>5 DEF OnFissionStart, TakesFission
  <2>. QED  BY <1>1, <2>1, <2>2 DEF MsgsRecord
<1>6. CASE PushBuffer \/ PushWoken
  <2>1. fissionMsgs' \in {fissionMsgs, [fissionMsgs EXCEPT !.inputs = @ + 1]}
    BY <1>6, PushedIs
  <2>. QED  BY <2>1 DEF MsgsRecord
<1>7. CASE HandleInput
  <2>1. fissionMsgs' = [fissionMsgs EXCEPT !.inputs = fissionMsgs.inputs - 1] /\ fissionMsgs.inputs > 0
    BY <1>7 DEF HandleInput
  <2>. QED  BY <2>1 DEF MsgsRecord
<1>8. CASE FissionJoined \/ FissionCleared
  BY <1>8 DEF FissionJoined, FissionCleared
<1>. QED  BY <1>3, <1>4, <1>5, <1>6, <1>7, <1>8, MsgsKept DEF FissionThread

HandlerOK == fissionHandler \in HandlerRecord
             /\ (fissionHandler.at \in {"push", "full"} => fissionHandler.buf \in Bufs)

LEMMA HandlerKept ==
    FissionNext => \/ fissionHandler' = fissionHandler
                   \/ \E op \in {"stop", "reset"} : OnFissionStop(op)
                   \/ FissionJoined \/ FissionCleared \/ PushBuffer \/ PushWoken \/ HandleInput
BY DEF FissionNext, FissionThread, FissionStop, FissionCommand, OnFissionPrepare, OnFissionStart,
       OnFissionPause, OnFissionResume, FissionWrite, PushThread, PushTop, PushState, PushSemWait,
       PushFront, PushWrite, PushPop, EncoderReads, EncoderFront, EncoderPop

LEMMA HandlerType == Records /\ FissionNext => HandlerOK'
<1>. SUFFICES ASSUME Records, FissionNext PROVE HandlerOK'
  OBVIOUS
<1>. /\ fissionHandler \in HandlerRecord /\ HandlerPlaces = {"idle", "push", "full", "join", "clear"}
     /\ {"stop", "reset"} \subseteq MaybeOps
     /\ fissionHandler.at \in {"push", "full"} => fissionHandler.buf \in Bufs
  BY DEF Records, HandlerPlaces, MaybeOps, FissionOps
<1>1. CASE \E op \in {"stop", "reset"} : OnFissionStop(op)
  <2>1. \/ fissionHandler' = fissionHandler
        \/ \E op \in {"stop", "reset"} : fissionHandler' = [fissionHandler EXCEPT !.at = "join", !.op = op]
    BY <1>1 DEF OnFissionStop
  <2>2. CASE fissionHandler' = fissionHandler
    BY <2>2 DEF HandlerOK
  <2>3. CASE \E op \in {"stop", "reset"} : fissionHandler' = [fissionHandler EXCEPT !.at = "join", !.op = op]
    <3>1. PICK op \in MaybeOps : fissionHandler' = [fissionHandler EXCEPT !.at = "join", !.op = op]
      BY <2>3
    <3>2. fissionHandler' \in HandlerRecord /\ fissionHandler'.at = "join"
      BY <3>1 DEF HandlerRecord
    <3>. QED  BY <3>2 DEF HandlerOK
  <2>. QED  BY <2>1, <2>2, <2>3, Zenon
<1>2. CASE FissionJoined
  BY <1>2 DEF FissionJoined, HandlerRecord, HandlerOK
<1>3. CASE FissionCleared
  BY <1>3, IdleIs DEF FissionCleared, HandlerOK
<1>4. CASE PushBuffer \/ PushWoken
  <2>1. \/ fissionHandler' = [fissionHandler EXCEPT !.at = "full"]
        \/ fissionHandler' = IdleFission
        \/ fissionHandler' = [fissionHandler EXCEPT !.at = "push", !.queue = 2]
    BY <1>4, PushedIs
  <2>2. fissionHandler.buf \in Bufs
    BY <1>4 DEF PushBuffer, PushWoken
  <2>. QED  BY <2>1, <2>2, IdleIs, SetsAre DEF HandlerRecord, HandlerOK
<1>5. CASE HandleInput
  <2>1. CASE fissionHandler' = fissionHandler
    BY <2>1 DEF HandlerOK
  <2>2. CASE /\ fissionSeen.inputs < MaxFissionInput
             /\ fissionHandler' = [at |-> "push", op |-> "none", buf |-> fissionSeen.inputs + 1,
                                   queue |-> EncoderQueue]
    <3>1. fissionSeen.inputs + 1 \in Bufs
      BY <2>2, NextBuf DEF Records
    <3>. QED  BY <2>2, <3>1, SetsAre DEF HandlerRecord, HandlerOK
  <2>. QED  BY <1>5, <2>1, <2>2 DEF HandleInput
<1>. QED  BY <1>1, <1>2, <1>3, <1>4, <1>5, HandlerKept DEF HandlerOK

ThreadsOK ==
    /\ pushThread \in PushRecord /\ (pushThread.at = "write" => pushThread.buf \in Bufs)
    /\ encoder \in EncoderRecord /\ (encoder.at = "pop" => encoder.buf \in Bufs)

LEMMA ThreadsKept ==
    FissionNext => \/ UNCHANGED <<pushThread, encoder>>
                   \/ PushThread \/ EncoderReads \/ EncoderFront \/ EncoderPop
BY DEF FissionNext, FissionThread, FissionStop, FissionCommand, OnFissionPrepare, OnFissionStart,
       OnFissionPause, OnFissionResume, OnFissionStop, FissionJoined, FissionCleared, PushBuffer,
       PushWoken, HandleInput, FissionWrite

LEMMA ThreadsType == Records /\ FissionNext => ThreadsOK'
<1>. SUFFICES ASSUME Records, FissionNext PROVE ThreadsOK'
  OBVIOUS
<1>. /\ ThreadsOK
     /\ PushPlaces = {"top", "state", "sem", "front", "write", "pop", "over"}
     /\ EncoderPlaces = {"out", "front", "pop"}
  BY DEF Records, ThreadsOK, PushPlaces, EncoderPlaces
<1>1. ASSUME NEW q \in OutQueues, outQueues[q].list # <<>>
      PROVE  Head(outQueues[q].list) \in Bufs
  BY <1>1, ListsAre, TailIs DEF Records
<1>2. CASE PushTop \/ PushState \/ PushSemWait \/ PushWrite \/ PushPop
  <2>1. PICK place \in {"top", "state", "over", "front", "sem", "pop"} : pushThread' = [pushThread EXCEPT !.at = place]
    BY <1>2 DEF PushTop, PushState, PushSemWait, PushWrite, PushPop, PushGoesTo
  <2>2. encoder' = encoder
    BY <1>2 DEF PushTop, PushState, PushSemWait, PushWrite, PushPop
  <2>. QED  BY <2>1, <2>2 DEF ThreadsOK, PushRecord
<1>3. CASE PushFront
  <2>1. \/ pushThread' = [pushThread EXCEPT !.at = "top"]
        \/ \E b \in Bufs : pushThread' = [at |-> "write", buf |-> b]
    BY <1>1, <1>3, SetsAre DEF PushFront
  <2>2. encoder' = encoder
    BY <1>3 DEF PushFront
  <2>. QED  BY <2>1, <2>2, SetsAre DEF ThreadsOK, PushRecord
<1>4. CASE EncoderReads \/ EncoderFront \/ EncoderPop
  <2>1. \/ \E place \in {"front", "out"} : encoder' = [encoder EXCEPT !.at = place]
        \/ \E b \in Bufs : encoder' = [at |-> "pop", buf |-> b]
    BY <1>1, <1>4, SetsAre DEF EncoderReads, EncoderFront, EncoderPop
  <2>2. pushThread' = pushThread
    BY <1>4 DEF EncoderReads, EncoderFront, EncoderPop
  <2>. QED  BY <2>1, <2>2, SetsAre DEF ThreadsOK, EncoderRecord
<1>5. CASE UNCHANGED <<pushThread, encoder>>
  BY <1>5 DEF ThreadsOK
<1>. QED  BY <1>2, <1>3, <1>4, <1>5, ThreadsKept DEF PushThread

LEMMA SeenKept ==
    FissionNext => \/ fissionSeen' = fissionSeen
                   \/ \E op \in FissionOps : FissionCommand(op)
                   \/ FissionStop \/ FissionThread \/ HandleInput \/ FissionWrite
                   \/ PushWrite \/ EncoderFront \/ EncoderPop
BY DEF FissionNext, PushThread, PushTop, PushState, PushSemWait, PushFront, PushPop, EncoderReads

LEMMA GotIs ==
    ASSUME fissionSeen \in SeenRecord, NEW q \in OutQueues, NEW buf \in Bufs, NEW u \in BOOLEAN,
           \/ fissionSeen' = [fissionSeen EXCEPT !.got[q] = Append(@, buf), !.undefined = u]
           \/ fissionSeen' = [fissionSeen EXCEPT !.got[q] = Append(@, buf)]
    PROVE  /\ fissionSeen' \in SeenRecord
           /\ fissionSeen'.got = [fissionSeen.got EXCEPT ![q] = Append(fissionSeen.got[q], buf)]
           /\ fissionSeen'.inputs = fissionSeen.inputs
           /\ fissionSeen'.asked = fissionSeen.asked /\ fissionSeen'.last = fissionSeen.last
<1>. DEFINE got == [fissionSeen.got EXCEPT ![q] = Append(fissionSeen.got[q], buf)]
<1>1. got \in [OutQueues -> Seq(Bufs)]
  <2>1. fissionSeen.got \in [OutQueues -> Seq(Bufs)]
    BY DEF SeenRecord
  <2>2. Append(fissionSeen.got[q], buf) \in Seq(Bufs)
    BY <2>1, AppendIs
  <2>. QED  BY <2>1, <2>2
<1>2. \/ fissionSeen' = [fissionSeen EXCEPT !.got = got, !.undefined = u]
      \/ fissionSeen' = [fissionSeen EXCEPT !.got = got]
  OBVIOUS
<1>. HIDE DEF got
<1>3. /\ fissionSeen' \in SeenRecord /\ fissionSeen'.got = got
      /\ fissionSeen'.inputs = fissionSeen.inputs
      /\ fissionSeen'.asked = fissionSeen.asked /\ fissionSeen'.last = fissionSeen.last
  BY <1>1, <1>2 DEF SeenRecord
<1>. QED  BY <1>3 DEF got

LEMMA SeenType == Records /\ FissionNext => fissionSeen' \in SeenRecord
<1>. SUFFICES ASSUME Records, FissionNext PROVE fissionSeen' \in SeenRecord
  OBVIOUS
<1>. /\ fissionSeen \in SeenRecord /\ fissionHandler.op \in MaybeOps
     /\ fissionSeen.commands \in Nat /\ fissionSeen.commands + 1 \in Nat
  BY DEF Records, SeenRecord, HandlerRecord
<1>1. ASSUME NEW op \in FissionOps, FissionCommand(op)
      PROVE  fissionSeen' \in SeenRecord
  <2>1. fissionSeen' = [fissionSeen EXCEPT !.asked = op, !.commands = fissionSeen.commands + 1]
    BY <1>1 DEF FissionCommand
  <2>. QED  BY <2>1, SetsAre DEF SeenRecord
<1>2. CASE FissionStop
  <2>1. "stop" \in MaybeOps
    BY DEF MaybeOps, FissionOps
  <2>. QED  BY <1>2, <2>1 DEF FissionStop, SeenRecord
<1>3. CASE FissionThread
  <2>1. fissionSeen' = fissionSeen \/ \E op \in MaybeOps : fissionSeen' = AnsweredFission(op)
    BY <1>3 DEF FissionThread, OnFissionPrepare, OnFissionStart, OnFissionPause, OnFissionResume,
                OnFissionStop, FissionJoined, FissionCleared, PushBuffer, PushWoken, MaybeOps, FissionOps
  <2>. QED  BY <2>1, SetsAre DEF AnsweredFission, SeenRecord
<1>4. CASE HandleInput \/ FissionWrite
  <2>1. \/ fissionSeen' = fissionSeen
        \/ /\ fissionSeen.inputs < MaxFissionInput
           /\ fissionSeen' = [fissionSeen EXCEPT !.inputs = fissionSeen.inputs + 1]
    BY <1>4 DEF HandleInput, FissionWrite
  <2>. QED  BY <2>1, NextBuf, SetsAre DEF SeenRecord
<1>5. CASE PushWrite
  <2>1. pushThread.buf \in Bufs
    BY <1>5 DEF PushWrite, Records
  <2>. QED  BY <1>5, <2>1, GotIs, SetsAre DEF PushWrite
<1>6. CASE EncoderFront
  <2>1. (~fission.queues) \in BOOLEAN
    BY DEF Records, FissionRecord
  <2>. QED  BY <1>6, <2>1 DEF EncoderFront, SeenRecord
<1>7. CASE EncoderPop
  <2>1. encoder.buf \in Bufs
    BY <1>7 DEF EncoderPop, Records
  <2>. QED  BY <1>7, <2>1, GotIs, SetsAre DEF EncoderPop
<1>. QED  BY <1>1, <1>2, <1>3, <1>4, <1>5, <1>6, <1>7, SeenKept

LEMMA RecordsStep == Records /\ PreviewHeld /\ FissionNext => Records'
BY FissionType, QueuesType, MsgsType, HandlerType, ThreadsType, SeenType
   DEF Records, HandlerOK, ThreadsOK

-----------------------------------------------------------------------------
(* The commands on their way, of which there are two only when a stop       *)
(* follows a pause or a resume; and what is handled.                       *)
Busy == fissionHandler.at \in {"join", "clear"}

CommandsKnown ==
    LET asked == fissionSeen.asked
        queue == fissionMsgs.commands
    IN /\ asked = "none" => queue = <<>> /\ ~Busy
       /\ Busy => queue = <<>> /\ fissionHandler.op = asked /\ asked \in {"stop", "reset"}
       /\ asked # "none" /\ ~Busy =>
            \/ queue = <<asked>>
            \/ asked = "stop" /\ queue \in {<<"pause", "stop">>, <<"resume", "stop">>}

(* Once the queues are cleared nothing but a reset is to come, the handler  *)
(* is idle and the push thread over.                                       *)
ClearedForGood ==
    /\ fissionHandler.at = "clear" => pushThread.at = "over"
    /\ ~fission.queues =>
         /\ fission.state = "stopped" /\ fissionHandler.at = "idle" /\ pushThread.at = "over"
         /\ fissionSeen.last \in {"stop", "reset"}
         /\ fissionSeen.asked \in {"none", "reset"}

(* Only what is the master of its input pulls, and then nobody writes.     *)
PullsOrIsWritten ==
    ~fission.master => fissionMsgs.inputs = 0 /\ fissionHandler.at \notin {"push", "full"}

ClearedAreEmpty == ~fission.queues => \A q \in OutQueues : outQueues[q].list = <<>>

(* What has been pushed into a queue: the input, but for the buffer that the*)
(* handler has still to push.                                              *)
PushedInto(q) ==
    IF fissionHandler.at \in {"push", "full"} /\ fissionHandler.queue <= q
    THEN fissionSeen.inputs - 1 ELSE fissionSeen.inputs

(* What has been removed from it: what was given out, but for a buffer that *)
(* was given to the preview and not yet popped.                            *)
Removed(q) ==
    IF q = PreviewQueue /\ pushThread.at = "pop" THEN Len(fissionSeen.got[q]) - 1
    ELSE Len(fissionSeen.got[q])

(* A queue holds the numbers from the first that was not removed to the     *)
(* last that was pushed.                                                   *)
QueueOK(q) ==
    /\ Removed(q) + Len(outQueues[q].list) = PushedInto(q)
    /\ \A i \in 1 .. Len(outQueues[q].list) : outQueues[q].list[i] = Removed(q) + i

QueuesInOrder ==
    fission.queues /\ ~fissionSeen.undefined => QueueOK(EncoderQueue) /\ QueueOK(PreviewQueue)

(* What a thread holds is the next of its queue.                           *)
HeldIsNext ==
    /\ fissionHandler.at \in {"push", "full"} => fissionHandler.buf = fissionSeen.inputs
    /\ PreviewHeld
    /\ pushThread.at = "write" => pushThread.buf = Len(fissionSeen.got[PreviewQueue]) + 1
    /\ encoder.at = "pop" => fissionSeen.undefined \/ encoder.buf = Len(fissionSeen.got[EncoderQueue]) + 1

FissionInv ==
    /\ Records
    /\ CommandsKnown
    /\ ClearedForGood
    /\ PullsOrIsWritten
    /\ ClearedAreEmpty
    /\ QueuesInOrder
    /\ HeldIsNext
    /\ FissionInOrder

LEMMA FissionInitInv == FissionInit => FissionInv
<1>. SUFFICES ASSUME FissionInit PROVE FissionInv
  OBVIOUS
<1>1. Records
  <2>1. fission \in FissionRecord
    BY DEF FissionInit, FissionRecord, FissionStates
  <2>2. outQueues \in [OutQueues -> QueueRecord]
    BY DEF FissionInit, QueueRecord
  <2>3. fissionMsgs \in MsgsRecord
    BY DEF FissionInit, MsgsRecord
  <2>4. fissionHandler \in HandlerRecord /\ fissionHandler.at = "idle"
    BY IdleIs DEF FissionInit, IdleFission
  <2>5. pushThread \in PushRecord /\ pushThread.at = "top"
    BY SetsAre DEF FissionInit, PushRecord, PushPlaces
  <2>6. encoder \in EncoderRecord /\ encoder.at = "out"
    BY SetsAre DEF FissionInit, EncoderRecord, EncoderPlaces
  <2>7. fissionSeen \in SeenRecord
    BY SetsAre, FissionAssumption DEF FissionInit, SeenRecord, MaybeBufs
  <2>. QED  BY <2>1, <2>2, <2>3, <2>4, <2>5, <2>6, <2>7 DEF Records
<1>2. CommandsKnown /\ ClearedForGood /\ PullsOrIsWritten /\ ClearedAreEmpty /\ HeldIsNext
  BY DEF FissionInit, CommandsKnown, Busy, ClearedForGood, PullsOrIsWritten, ClearedAreEmpty, HeldIsNext, PreviewHeld
<1>3. QueuesInOrder /\ FissionInOrder
  BY SetsAre DEF FissionInit, QueuesInOrder, QueueOK, Removed, PushedInto, FissionInOrder
<1>. QED  BY <1>1, <1>2, <1>3 DEF FissionInv

LEMMA CommandsKept ==
    FissionNext => \/ UNCHANGED <<fissionMsgs, fissionSeen, fissionHandler>>
                   \/ \E op \in FissionOps : FissionCommand(op)
                   \/ FissionStop \/ FissionThread \/ HandleInput \/ FissionWrite
                   \/ PushWrite \/ EncoderFront \/ EncoderPop
BY DEF FissionNext, PushThread, PushTop, PushState, PushSemWait, PushFront, PushPop, EncoderReads

LEMMA CommandsStep == Records /\ CommandsKnown /\ FissionNext => CommandsKnown'
<1>. SUFFICES ASSUME Records, CommandsKnown, FissionNext PROVE CommandsKnown'
  OBVIOUS
<1>. DEFINE asked == fissionSeen.asked
            queue == fissionMsgs.commands
            place == fissionHandler.at
<1>. /\ fissionMsgs \in MsgsRecord /\ fissionSeen \in SeenRecord /\ fissionHandler \in HandlerRecord
     /\ queue \in Seq(FissionOps)
  BY DEF Records, MsgsRecord
<1>1. ASSUME NEW op \in FissionOps, FissionCommand(op) PROVE CommandsKnown'
  <2>1. queue = <<>> /\ ~Busy /\ op # "none"
    BY <1>1 DEF FissionCommand, CommandsKnown, FissionOps
  <2>2. queue' = <<op>> /\ asked' = op /\ fissionHandler' = fissionHandler
    BY <1>1, <2>1 DEF FissionCommand, MsgsRecord, SeenRecord
  <2>. QED  BY <2>1, <2>2 DEF CommandsKnown, Busy
<1>2. CASE FissionStop
  <2>1. ~Busy /\ (queue = <<>> \/ queue = <<"pause">> \/ queue = <<"resume">>)
    BY <1>2 DEF FissionStop, CommandsKnown
  <2>2. queue' = Append(queue, "stop") /\ asked' = "stop" /\ fissionHandler' = fissionHandler
    BY <1>2 DEF FissionStop, MsgsRecord, SeenRecord
  <2>3. queue' \in {<<"stop">>, <<"pause", "stop">>, <<"resume", "stop">>} /\ ~Busy'
    <3>. HIDE DEF queue
    <3>1. CASE queue = <<>>
      <4>1. Append(queue, "stop") = <<"stop">>
        BY <3>1, ShortSequences
      <4>. QED  BY <2>1, <2>2, <4>1 DEF Busy
    <3>2. ASSUME NEW first \in {"pause", "resume"}, queue = <<first>>
          PROVE  queue' = <<first, "stop">>
      BY <2>2, <3>2, ShortSequences
    <3>. QED  BY <2>1, <2>2, <3>1, <3>2 DEF Busy
  <2>. QED  BY <2>2, <2>3 DEF CommandsKnown
<1>3. ASSUME NEW op \in FissionOps, TakesFission(op), queue' = Tail(queue)
      PROVE  \/ op = asked /\ queue' = <<>>
             \/ asked = "stop" /\ op \in {"pause", "resume"} /\ queue' = <<"stop">>
  <2>1. \/ queue = <<asked>>
        \/ asked = "stop" /\ queue \in {<<"pause", "stop">>, <<"resume", "stop">>}
    BY <1>3 DEF TakesFission, CommandsKnown, Busy
  <2>2. Head(queue) = op /\ queue' = Tail(queue)
    BY <1>3 DEF TakesFission
  <2>. HIDE DEF asked, queue
  <2>3. CASE queue = <<asked>>
    BY <2>2, <2>3, ShortSequences
  <2>4. ASSUME NEW first \in {"pause", "resume"}, asked = "stop", queue = <<first, "stop">>
        PROVE  op = first /\ queue' = <<"stop">>
    <3>1. Head(queue) = first /\ Tail(queue) = <<"stop">>
      BY <2>4, ShortSequences
    <3>. QED  BY <2>2, <3>1
  <2>. QED  BY <2>1, <2>3, <2>4
<1>4. ASSUME NEW op \in FissionOps, TakesFission(op), queue' = Tail(queue), op \notin {"pause", "resume"},
             fissionSeen' = AnsweredFission(op), fissionHandler' = fissionHandler
      PROVE  CommandsKnown'
  <2>1. asked' = "none"
    BY <1>4 DEF AnsweredFission, SeenRecord
  <2>. QED  BY <1>3, <1>4, <2>1 DEF CommandsKnown, Busy, TakesFission
<1>5. CASE OnFissionPrepare \/ OnFissionStart
  <2>1. queue' = Tail(queue)
    BY <1>5 DEF OnFissionPrepare, OnFissionStart, MsgsRecord
  <2>. QED  BY <1>4, <1>5, <2>1 DEF OnFissionPrepare, OnFissionStart, FissionOps
<1>6. ASSUME NEW op \in {"pause", "resume"}, TakesFission(op), queue' = Tail(queue),
             fissionSeen' = IF asked = op THEN AnsweredFission(op) ELSE fissionSeen,
             fissionHandler' = fissionHandler
      PROVE  CommandsKnown'
  <2>1. asked' = IF asked = op THEN "none" ELSE asked
    BY <1>6 DEF AnsweredFission, SeenRecord
  <2>. QED  BY <1>3, <1>6, <2>1 DEF CommandsKnown, Busy, TakesFission, FissionOps
<1>7. CASE OnFissionPause \/ OnFissionResume
  <2>1. queue' = Tail(queue)
    BY <1>7 DEF OnFissionPause, OnFissionResume, MsgsRecord
  <2>. QED  BY <1>6, <1>7, <2>1 DEF OnFissionPause, OnFissionResume
<1>8. ASSUME NEW op \in {"stop", "reset"}, OnFissionStop(op) PROVE CommandsKnown'
  <2>1. queue' = Tail(queue) /\ TakesFission(op) /\ op \in FissionOps
    BY <1>8 DEF OnFissionStop, MsgsRecord, FissionOps
  <2>2. CASE fission.state = "stopped"
    BY <1>4, <1>8, <2>1, <2>2 DEF OnFissionStop
  <2>3. CASE fission.state # "stopped"
    <3>1. fissionHandler'.at = "join" /\ fissionHandler'.op = op /\ asked' = asked
      BY <1>8, <2>3 DEF OnFissionStop, HandlerRecord
    <3>. QED  BY <1>3, <2>1, <3>1 DEF CommandsKnown, Busy
  <2>. QED  BY <2>2, <2>3
<1>9. CASE FissionJoined
  <2>1. fissionHandler'.at = "clear" /\ fissionHandler'.op = fissionHandler.op /\ place = "join"
        /\ asked' = asked /\ queue' = queue
    BY <1>9 DEF FissionJoined, HandlerRecord
  <2>. QED  BY <2>1 DEF CommandsKnown, Busy
<1>10. CASE FissionCleared
  <2>1. fissionHandler'.at = "idle" /\ place = "clear" /\ asked' = "none" /\ queue' = queue
    BY <1>10, IdleIs DEF FissionCleared, AnsweredFission, SeenRecord
  <2>. QED  BY <2>1 DEF CommandsKnown, Busy
<1>11. ASSUME ~Busy, ~Busy', asked' = asked, queue' = queue PROVE CommandsKnown'
  BY <1>11 DEF CommandsKnown
<1>12. CASE PushBuffer \/ PushWoken
  <2>1. queue' = queue /\ fissionHandler'.at \in {"full", "idle", "push"}
    BY <1>12, PushedIs, IdleIs DEF MsgsRecord, HandlerRecord
  <2>2. place \in {"push", "full"} /\ asked' = asked
    BY <1>12 DEF PushBuffer, PushWoken
  <2>. QED  BY <1>11, <2>1, <2>2 DEF Busy
<1>13. CASE HandleInput
  <2>1. queue' = queue /\ fissionHandler'.at \in {"idle", "push"} /\ place = "idle" /\ asked' = asked
    BY <1>13 DEF HandleInput, MsgsRecord, HandlerRecord, SeenRecord
  <2>. QED  BY <1>11, <2>1 DEF Busy
<1>14. CASE FissionWrite \/ PushWrite \/ EncoderFront \/ EncoderPop
  <2>1. asked' = asked /\ fissionMsgs' = fissionMsgs /\ fissionHandler' = fissionHandler
    BY <1>14 DEF FissionWrite, PushWrite, EncoderFront, EncoderPop, SeenRecord
  <2>. QED  BY <2>1 DEF CommandsKnown, Busy
<1>15. CASE UNCHANGED <<fissionMsgs, fissionSeen, fissionHandler>>
  BY <1>15 DEF CommandsKnown, Busy
<1>. QED  BY <1>1, <1>2, <1>5, <1>7, <1>8, <1>9, <1>10, <1>12, <1>13, <1>14, <1>15, CommandsKept DEF FissionThread

LEMMA ClearedStep ==
    Records /\ CommandsKnown /\ ClearedForGood /\ FissionNext => ClearedForGood'
<1>. SUFFICES ASSUME Records, CommandsKnown, ClearedForGood, FissionNext PROVE ClearedForGood'
  OBVIOUS
<1>. DEFINE asked == fissionSeen.asked
            queue == fissionMsgs.commands
            place == fissionHandler.at
<1>. /\ fission \in FissionRecord /\ fissionSeen \in SeenRecord /\ fissionHandler \in HandlerRecord
     /\ pushThread \in PushRecord
  BY DEF Records
(* The push thread, once over, stays so. *)
<1>1. pushThread.at = "over" => pushThread'.at = "over"
  <2>1. CASE PushThread
    BY <2>1 DEF PushThread, PushTop, PushState, PushSemWait, PushFront, PushWrite, PushPop
  <2>2. CASE pushThread' = pushThread
    BY <2>2
  <2>. QED  BY <2>1, <2>2, ThreadsKept DEF EncoderReads, EncoderFront, EncoderPop
<1>2. fissionHandler'.at = "clear" => pushThread'.at = "over"
  <2>1. fissionHandler'.at = "clear" => place = "clear" \/ FissionJoined
    <3>1. CASE \E op \in {"stop", "reset"} : OnFissionStop(op)
      <4>1. fissionHandler' = fissionHandler \/ fissionHandler'.at = "join"
        BY <3>1 DEF OnFissionStop, HandlerRecord
      <4>. QED  BY <4>1
    <3>2. CASE PushBuffer \/ PushWoken
      <4>1. fissionHandler'.at \in {"full", "idle", "push"}
        BY <3>2, PushedIs, IdleIs DEF HandlerRecord
      <4>. QED  BY <4>1
    <3>3. CASE FissionCleared \/ HandleInput
      BY <3>3, IdleIs DEF FissionCleared, HandleInput
    <3>. QED  BY <3>1, <3>2, <3>3, HandlerKept
  <2>. QED  BY <1>1, <2>1 DEF FissionJoined, ClearedForGood
<1>3. ASSUME ~fission.queues
      PROVE  /\ fission' = fission /\ fissionHandler' = fissionHandler
             /\ fissionSeen'.asked \in {"none", "reset"} /\ fissionSeen'.last \in {"stop", "reset"}
  <2>1. /\ fission.state = "stopped" /\ place = "idle" /\ pushThread.at = "over"
        /\ fissionSeen.last \in {"stop", "reset"} /\ asked \in {"none", "reset"}
    BY <1>3 DEF ClearedForGood
  <2>2. queue = <<>> \/ queue = <<"reset">>
    BY <2>1 DEF CommandsKnown, Busy
  <2>3. ASSUME NEW op, TakesFission(op) PROVE op = "reset"
    BY <2>2, <2>3 DEF TakesFission
  <2>4. ~OnFissionPrepare /\ ~OnFissionStart /\ ~OnFissionPause /\ ~OnFissionResume /\ ~OnFissionStop("stop")
    BY <2>3 DEF OnFissionPrepare, OnFissionStart, OnFissionPause, OnFissionResume, OnFissionStop
  <2>5. ~FissionJoined /\ ~FissionCleared /\ ~PushBuffer /\ ~PushWoken /\ ~PushSemWait /\ ~PushWrite
        /\ ~FissionWrite /\ ~FissionStop
    BY <1>3, <2>1 DEF FissionJoined, FissionCleared, PushBuffer, PushWoken, PushSemWait, PushWrite,
                      FissionWrite, FissionStop, NextOps
  <2>6. ASSUME OnFissionStop("reset")
        PROVE  /\ fission' = fission /\ fissionHandler' = fissionHandler
               /\ fissionSeen'.asked = "none" /\ fissionSeen'.last = "reset"
    BY <2>1, <2>6 DEF OnFissionStop, AnsweredFission, SeenRecord
  <2>7. ASSUME HandleInput
        PROVE  UNCHANGED <<fission, fissionHandler, fissionSeen>>
    BY <2>1, <2>7 DEF HandleInput, IsRunning
  <2>8. ASSUME NEW op \in FissionOps, FissionCommand(op)
        PROVE  /\ fission' = fission /\ fissionHandler' = fissionHandler
               /\ fissionSeen'.asked = "reset" /\ fissionSeen'.last = fissionSeen.last
    <3>1. op = "reset"
      BY <2>1, <2>8 DEF FissionCommand, NextOps
    <3>. QED  BY <2>8, <3>1 DEF FissionCommand, SeenRecord
  <2>9. CASE EncoderFront \/ EncoderPop
    BY <2>1, <2>9 DEF EncoderFront, EncoderPop, SeenRecord
  <2>10. CASE UNCHANGED <<fission, fissionHandler, fissionSeen>>
    BY <2>1, <2>10
  <2>11. \/ UNCHANGED <<fission, fissionHandler, fissionSeen>>
         \/ OnFissionStop("reset") \/ HandleInput \/ EncoderFront \/ EncoderPop
         \/ \E op \in FissionOps : FissionCommand(op)
    BY <2>4, <2>5 DEF FissionNext, FissionThread, PushThread, PushTop, PushState, PushFront, PushPop, EncoderReads
  <2>. QED  BY <2>1, <2>6, <2>7, <2>8, <2>9, <2>10, <2>11
<1>4. ASSUME fission.queues, ~fission'.queues PROVE ClearedForGood'
  <2>1. FissionCleared
    <3>1. ~fission'.queues => FissionCleared
      BY <1>4, FissionKept DEF FissionThread, OnFissionPrepare, OnFissionStart, OnFissionPause, OnFissionResume,
            OnFissionStop, FissionJoined, PushBuffer, PushWoken, PushSemWait, FissionRecord
    <3>. QED  BY <1>4, <3>1
  <2>2. fission'.state = "stopped" /\ fissionHandler'.at = "idle" /\ pushThread'.at = "over"
    BY <2>1, <1>1, IdleIs DEF FissionCleared, FissionRecord, ClearedForGood
  <2>3. fissionSeen'.asked = "none" /\ fissionSeen'.last \in {"stop", "reset"}
    <3>1. fissionHandler.op \in {"stop", "reset"}
      BY <2>1 DEF FissionCleared, CommandsKnown, Busy
    <3>. QED  BY <2>1, <3>1 DEF FissionCleared, AnsweredFission, SeenRecord
  <2>. QED  BY <2>2, <2>3 DEF ClearedForGood
<1>. QED  BY <1>1, <1>2, <1>3, <1>4 DEF ClearedForGood

LEMMA PullsStep == Records /\ PullsOrIsWritten /\ FissionNext => PullsOrIsWritten'
<1>. SUFFICES ASSUME Records, PullsOrIsWritten, FissionNext PROVE PullsOrIsWritten'
  OBVIOUS
<1>. /\ fission \in FissionRecord /\ fissionMsgs \in MsgsRecord /\ fissionHandler \in HandlerRecord
     /\ fission' \in FissionRecord
  BY FissionType, RecordsStep DEF Records
<1>1. fission'.master = fission.master
  BY FissionKept DEF FissionThread, OnFissionPrepare, OnFissionStart, OnFissionPause, OnFissionResume,
     OnFissionStop, FissionJoined, FissionCleared, PushBuffer, PushWoken, PushSemWait, FissionRecord
<1>. SUFFICES ASSUME ~fission.master
              PROVE  fissionMsgs'.inputs = 0 /\ fissionHandler'.at \notin {"push", "full"}
  BY <1>1 DEF PullsOrIsWritten
<1>2. fissionMsgs.inputs = 0 /\ fissionHandler.at \notin {"push", "full"}
  BY DEF PullsOrIsWritten
<1>3. ~PushBuffer /\ ~PushWoken /\ ~HandleInput
  BY <1>2 DEF PushBuffer, PushWoken, HandleInput
<1>4. fissionMsgs'.inputs = 0
  <2>1. CASE OnFissionStart
    BY <1>2, <2>1 DEF OnFissionStart
  <2>2. CASE \/ FissionStop \/ OnFissionPrepare \/ OnFissionPause \/ OnFissionResume
             \/ \E op \in {"stop", "reset"} : OnFissionStop(op)
             \/ \E op \in FissionOps : FissionCommand(op)
    <3>1. \E c : fissionMsgs' = [fissionMsgs EXCEPT !.commands = c]
      BY <2>2 DEF FissionStop, FissionCommand, OnFissionPrepare, OnFissionPause, OnFissionResume, OnFissionStop
    <3>. QED  BY <1>2, <3>1 DEF MsgsRecord
  <2>3. CASE FissionJoined \/ FissionCleared
    BY <1>2, <2>3 DEF FissionJoined, FissionCleared
  <2>. QED  BY <1>2, <1>3, <2>1, <2>2, <2>3, MsgsKept DEF FissionThread
<1>5. fissionHandler'.at \notin {"push", "full"}
  <2>1. CASE \E op \in {"stop", "reset"} : OnFissionStop(op)
    <3>1. fissionHandler' = fissionHandler \/ fissionHandler'.at = "join"
      BY <2>1 DEF OnFissionStop, HandlerRecord
    <3>. QED  BY <1>2, <3>1
  <2>2. CASE FissionJoined \/ FissionCleared
    BY <2>2, IdleIs DEF FissionJoined, FissionCleared, HandlerRecord
  <2>. QED  BY <1>2, <1>3, <2>1, <2>2, HandlerKept
<1>. QED  BY <1>4, <1>5

-----------------------------------------------------------------------------
(* Who changes what the queues' invariant speaks of.                       *)

LEMMA GotKept ==
    Records /\ FissionNext => fissionSeen'.got = fissionSeen.got \/ PushWrite \/ EncoderPop
<1>. SUFFICES ASSUME Records, FissionNext, ~PushWrite, ~EncoderPop
              PROVE  fissionSeen'.got = fissionSeen.got
  OBVIOUS
<1>. fissionSeen \in SeenRecord
  BY DEF Records
<1>1. CASE FissionThread
  <2>1. fissionSeen' = fissionSeen \/ \E op : fissionSeen' = AnsweredFission(op)
    BY <1>1 DEF FissionThread, OnFissionPrepare, OnFissionStart, OnFissionPause, OnFissionResume,
                OnFissionStop, FissionJoined, FissionCleared, PushBuffer, PushWoken
  <2>. QED  BY <2>1 DEF AnsweredFission, SeenRecord
<1>. QED  BY <1>1, SeenKept DEF FissionCommand, FissionStop, HandleInput, FissionWrite, EncoderFront, SeenRecord

LEMMA InputsKept ==
    Records /\ FissionNext => fissionSeen'.inputs = fissionSeen.inputs \/ HandleInput \/ FissionWrite
<1>. SUFFICES ASSUME Records, FissionNext, ~HandleInput, ~FissionWrite
              PROVE  fissionSeen'.inputs = fissionSeen.inputs
  OBVIOUS
<1>. fissionSeen \in SeenRecord
  BY DEF Records
<1>1. CASE FissionThread
  <2>1. fissionSeen' = fissionSeen \/ \E op : fissionSeen' = AnsweredFission(op)
    BY <1>1 DEF FissionThread, OnFissionPrepare, OnFissionStart, OnFissionPause, OnFissionResume,
                OnFissionStop, FissionJoined, FissionCleared, PushBuffer, PushWoken
  <2>. QED  BY <2>1 DEF AnsweredFission, SeenRecord
<1>. QED  BY <1>1, SeenKept DEF FissionCommand, FissionStop, PushWrite, EncoderFront, EncoderPop, SeenRecord

LEMMA NotPushing ==
    Records /\ FissionNext /\ ~PushBuffer /\ ~PushWoken /\ ~HandleInput =>
        \/ fissionHandler' = fissionHandler
        \/ fissionHandler.at \notin {"push", "full"} /\ fissionHandler'.at \notin {"push", "full"}
<1>. SUFFICES ASSUME Records, FissionNext, ~PushBuffer, ~PushWoken, ~HandleInput
              PROVE  \/ fissionHandler' = fissionHandler
                     \/ fissionHandler.at \notin {"push", "full"} /\ fissionHandler'.at \notin {"push", "full"}
  OBVIOUS
<1>. fissionHandler \in HandlerRecord
  BY DEF Records
<1>1. ASSUME NEW op \in {"stop", "reset"}, OnFissionStop(op)
      PROVE  \/ fissionHandler' = fissionHandler
             \/ fissionHandler'.at = "join" /\ fissionHandler.at = "idle"
  BY <1>1 DEF OnFissionStop, TakesFission, HandlerRecord
<1>2. ASSUME FissionJoined PROVE fissionHandler'.at = "clear" /\ fissionHandler.at = "join"
  BY <1>2 DEF FissionJoined, HandlerRecord
<1>3. ASSUME FissionCleared PROVE fissionHandler'.at = "idle" /\ fissionHandler.at = "clear"
  BY <1>3, IdleIs DEF FissionCleared
<1>. QED  BY <1>1, <1>2, <1>3, HandlerKept

LEMMA NeverThereAgain ==
    Records /\ FissionNext /\ fission'.queues => fission.queues /\ ~FissionCleared
<1>. SUFFICES ASSUME Records, FissionNext PROVE fission'.queues => fission.queues /\ ~FissionCleared
  OBVIOUS
<1>. fission \in FissionRecord
  BY DEF Records
<1>. QED  BY FissionKept DEF FissionThread, OnFissionPrepare, OnFissionStart, OnFissionPause, OnFissionResume,
     OnFissionStop, FissionJoined, FissionCleared, PushBuffer, PushWoken, PushSemWait, FissionRecord

(* A list is left alone, emptied, or gets a buffer, or loses its first.    *)
LEMMA ListsKept ==
    Records /\ FissionNext /\ ~FissionCleared /\ ~PushBuffer /\ ~PushWoken /\ ~FissionWrite
    /\ ~PushPop /\ ~EncoderPop => \A q \in OutQueues : outQueues'[q].list = outQueues[q].list
<1>. SUFFICES ASSUME Records, FissionNext, ~FissionCleared, ~PushBuffer, ~PushWoken, ~FissionWrite,
                     ~PushPop, ~EncoderPop, NEW q \in OutQueues
              PROVE  outQueues'[q].list = outQueues[q].list
  OBVIOUS
<1>1. CASE FissionStop
  <2>1. outQueues'[q] = [outQueues[q] EXCEPT !.escape = TRUE]
    BY <1>1 DEF FissionStop
  <2>. QED  BY <2>1 DEF Records, QueueRecord
<1>. QED  BY <1>1, QueuesKept

LEMMA WrittenIs ==
    ASSUME Records, FissionWrite, NEW q \in OutQueues
    PROVE  outQueues'[q].list = Append(outQueues[q].list, fissionSeen.inputs + 1)
<1>1. outQueues'[q] = [outQueues[q] EXCEPT !.list = Append(@, fissionSeen.inputs + 1)]
  BY DEF FissionWrite
<1>. QED  BY <1>1 DEF Records, QueueRecord

LEMMA SomeQueueSet ==
    ASSUME Records, NEW q \in OutQueues, NEW list \in Seq(Bufs),
           outQueues' = [outQueues EXCEPT ![q].list = list]
    PROVE  /\ outQueues'[q].list = list
           /\ \A r \in OutQueues \ {q} : outQueues'[r].list = outQueues[r].list
BY QueueSet DEF Records

-----------------------------------------------------------------------------
LEMMA EmptyStep ==
    /\ Records /\ ClearedForGood /\ ClearedAreEmpty /\ PreviewHeld /\ FissionNext
    => ClearedAreEmpty'
<1>. SUFFICES ASSUME Records, ClearedForGood, ClearedAreEmpty, FissionNext, ~fission'.queues,
                     NEW q \in OutQueues
              PROVE  outQueues'[q].list = <<>>
  BY DEF ClearedAreEmpty
<1>1. CASE FissionCleared
  <2>1. outQueues'[q] = [outQueues[q] EXCEPT !.list = <<>>]
    BY <1>1 DEF FissionCleared
  <2>. QED  BY <2>1 DEF Records, QueueRecord
<1>2. CASE ~FissionCleared
  <2>1. ~fission.queues
    BY <1>2, FissionKept DEF FissionThread, OnFissionPrepare, OnFissionStart, OnFissionPause, OnFissionResume,
       OnFissionStop, FissionJoined, PushBuffer, PushWoken, PushSemWait, FissionRecord, Records
  <2>2. ~PushBuffer /\ ~PushWoken /\ ~FissionWrite /\ ~PushPop
    BY <2>1 DEF ClearedForGood, PushBuffer, PushWoken, FissionWrite, PushPop
  <2>3. outQueues[q].list = <<>> /\ outQueues[EncoderQueue].list = <<>>
    BY <2>1, SetsAre DEF ClearedAreEmpty
  <2>4. CASE EncoderPop
    BY <2>3, <2>4 DEF EncoderPop
  <2>. QED  BY <1>2, <2>2, <2>3, <2>4, ListsKept
<1>. QED  BY <1>1, <1>2

LEMMA HeldStep ==
    /\ Records /\ ClearedForGood /\ PullsOrIsWritten /\ QueuesInOrder /\ HeldIsNext /\ FissionNext
    => HeldIsNext'
<1>. SUFFICES ASSUME Records, ClearedForGood, PullsOrIsWritten, QueuesInOrder, HeldIsNext, FissionNext
              PROVE  HeldIsNext'
  OBVIOUS
<1>. DEFINE place == fissionHandler.at
            got == fissionSeen.got
<1>. /\ fissionHandler \in HandlerRecord /\ fissionSeen \in SeenRecord /\ pushThread \in PushRecord
     /\ encoder \in EncoderRecord /\ got \in [OutQueues -> Seq(Bufs)]
     /\ ~fissionSeen.undefined
  BY DEF Records, SeenRecord, FissionNext
<1>1. place' \in {"push", "full"} => fissionHandler'.buf = fissionSeen'.inputs
  <2>1. CASE HandleInput
    BY <2>1 DEF HandleInput, SeenRecord, HeldIsNext
  <2>2. CASE FissionWrite
    BY <2>2 DEF FissionWrite, PullsOrIsWritten
  <2>3. CASE PushBuffer \/ PushWoken
    <3>1. place \in {"push", "full"} /\ fissionSeen'.inputs = fissionSeen.inputs
      BY <2>3 DEF PushBuffer, PushWoken
    <3>2. place' = "idle" \/ fissionHandler'.buf = fissionHandler.buf
      BY <2>3, PushedIs, IdleIs DEF HandlerRecord
    <3>. QED  BY <3>1, <3>2 DEF HeldIsNext
  <2>4. CASE ~HandleInput /\ ~FissionWrite /\ ~PushBuffer /\ ~PushWoken
    <3>1. place' \notin {"push", "full"} \/ fissionHandler' = fissionHandler
      BY <2>4, NotPushing
    <3>. QED  BY <2>4, <3>1, InputsKept DEF HeldIsNext
  <2>. QED  BY <2>1, <2>2, <2>3, <2>4
<1>2. PreviewHeld'
  <2>. SUFFICES ASSUME pushThread'.at \in {"write", "pop"}
                PROVE  outQueues'[PreviewQueue].list # <<>>
    BY DEF PreviewHeld
  <2>1. ~PushPop /\ ~FissionCleared
    BY DEF PushPop, PushGoesTo, PushRecord, FissionCleared, ClearedForGood
  <2>2. outQueues[PreviewQueue].list # <<>>
    <3>1. CASE PushFront
      BY <3>1 DEF PushFront, PushRecord
    <3>2. CASE PushTop \/ PushState \/ PushSemWait
      BY <3>2 DEF PushTop, PushState, PushSemWait, PushGoesTo, PushRecord
    <3>3. CASE PushWrite
      BY <3>3 DEF PushWrite, HeldIsNext, PreviewHeld
    <3>4. CASE pushThread' = pushThread
      BY <3>4 DEF HeldIsNext, PreviewHeld
    <3>. QED  BY <2>1, <3>1, <3>2, <3>3, <3>4, ThreadsKept DEF PushThread, EncoderReads, EncoderFront, EncoderPop
  <2>3. outQueues[PreviewQueue].list \in Seq(Bufs)
    BY SetsAre, ListsAre DEF Records
  <2>4. ASSUME NEW b \in Bufs, outQueues'[PreviewQueue].list = Append(outQueues[PreviewQueue].list, b)
        PROVE  outQueues'[PreviewQueue].list # <<>>
    BY <2>3, <2>4, AppendIs
  <2>5. CASE PushBuffer \/ PushWoken
    <3>1. fissionHandler.queue \in OutQueues /\ fissionHandler.buf \in Bufs
      BY <2>5 DEF Records, HandlerRecord, PushBuffer, PushWoken
    <3>. DEFINE q == fissionHandler.queue
                list == Append(outQueues[q].list, fissionHandler.buf)
    <3>2. list \in Seq(Bufs)
      BY <3>1, ListsAre, AppendIs DEF Records
    <3>3. outQueues' = outQueues \/ outQueues' = [outQueues EXCEPT ![q].list = list]
      BY <2>5, PushedIs
    <3>. HIDE DEF list
    <3>4. outQueues'[PreviewQueue].list \in {outQueues[PreviewQueue].list, list}
          /\ (q # PreviewQueue => outQueues'[PreviewQueue].list = outQueues[PreviewQueue].list)
      BY <3>1, <3>2, <3>3, SomeQueueSet, SetsAre
    <3>. QED  BY <2>2, <2>4, <3>1, <3>4 DEF list
  <2>6. CASE FissionWrite
    <3>1. fissionSeen.inputs + 1 \in Bufs
      BY <2>6, NextBuf DEF FissionWrite
    <3>. QED  BY <2>4, <2>6, <3>1, WrittenIs, SetsAre
  <2>7. CASE EncoderPop
    <3>1. CASE outQueues' = outQueues
      BY <2>2, <3>1
    <3>2. CASE /\ outQueues[EncoderQueue].list # <<>>
               /\ outQueues' = [outQueues EXCEPT ![EncoderQueue].list = Tail(@)]
      <4>1. Tail(outQueues[EncoderQueue].list) \in Seq(Bufs)
        BY <3>2, SetsAre, ListsAre, TailIs DEF Records
      <4>2. outQueues'[PreviewQueue].list = outQueues[PreviewQueue].list
        BY <3>2, <4>1, SomeQueueSet, SetsAre
      <4>. QED  BY <2>2, <4>2
    <3>. QED  BY <2>7, <3>1, <3>2 DEF EncoderPop
  <2>. QED  BY <2>1, <2>2, <2>5, <2>6, <2>7, ListsKept, SetsAre
<1>3. pushThread'.at = "write" => pushThread'.buf = Len(got'[PreviewQueue]) + 1
  <2>1. CASE PushFront
    <3>. SUFFICES ASSUME outQueues[PreviewQueue].list # <<>>
                  PROVE  pushThread'.buf = Len(got'[PreviewQueue]) + 1
      BY <2>1 DEF PushFront, PushRecord
    <3>1. fission.queues /\ pushThread.at = "front"
      BY <2>1 DEF PushFront, ClearedForGood
    <3>2. QueueOK(PreviewQueue) /\ Removed(PreviewQueue) = Len(got[PreviewQueue])
      BY <3>1 DEF QueuesInOrder, Removed
    <3>3. /\ Len(outQueues[PreviewQueue].list) > 0 /\ Len(outQueues[PreviewQueue].list) \in Nat
          /\ Head(outQueues[PreviewQueue].list) = outQueues[PreviewQueue].list[1]
      BY SetsAre, ListsAre, TailIs DEF Records
    <3>4. outQueues[PreviewQueue].list[1] = Len(got[PreviewQueue]) + 1
      BY <3>2, <3>3 DEF QueueOK
    <3>. QED  BY <2>1, <3>3, <3>4 DEF PushFront
  <2>2. CASE PushThread /\ ~PushFront
    BY <2>2 DEF PushThread, PushTop, PushState, PushSemWait, PushWrite, PushPop, PushGoesTo, PushRecord
  <2>3. CASE pushThread' = pushThread
    <3>1. CASE got'[PreviewQueue] = got[PreviewQueue]
      BY <2>3, <3>1 DEF HeldIsNext
    <3>2. CASE EncoderPop
      <4>1. encoder.buf \in Bufs
        BY <3>2 DEF EncoderPop, Records
      <4>2. got' = [got EXCEPT ![EncoderQueue] = Append(got[EncoderQueue], encoder.buf)]
        BY <3>2, <4>1, GotIs, SetsAre DEF EncoderPop
      <4>. QED  BY <3>1, <4>2, SetsAre
    <3>3. CASE PushWrite
      BY <2>3, <3>3 DEF PushWrite, PushGoesTo, PushRecord
    <3>. QED  BY <3>1, <3>2, <3>3, GotKept
  <2>. QED  BY <2>1, <2>2, <2>3, ThreadsKept DEF EncoderReads, EncoderFront, EncoderPop
<1>4. encoder'.at = "pop" => fissionSeen'.undefined \/ encoder'.buf = Len(got'[EncoderQueue]) + 1
  <2>1. CASE EncoderFront
    <3>. SUFFICES ASSUME outQueues[EncoderQueue].list # <<>>, fission.queues
                  PROVE  encoder'.buf = Len(got'[EncoderQueue]) + 1
      BY <2>1 DEF EncoderFront, EncoderRecord, SeenRecord, Records, FissionRecord
    <3>2. QueueOK(EncoderQueue) /\ Removed(EncoderQueue) = Len(got[EncoderQueue])
      BY SetsAre DEF QueuesInOrder, Removed
    <3>3. /\ Len(outQueues[EncoderQueue].list) > 0 /\ Len(outQueues[EncoderQueue].list) \in Nat
          /\ Head(outQueues[EncoderQueue].list) = outQueues[EncoderQueue].list[1]
      BY SetsAre, ListsAre, TailIs DEF Records
    <3>4. outQueues[EncoderQueue].list[1] = Len(got[EncoderQueue]) + 1
      BY <3>2, <3>3 DEF QueueOK
    <3>5. got' = got
      BY <2>1 DEF EncoderFront, SeenRecord
    <3>6. encoder'.buf = Head(outQueues[EncoderQueue].list)
      BY <2>1 DEF EncoderFront
    <3>. QED  BY <3>3, <3>4, <3>5, <3>6
  <2>2. CASE EncoderReads \/ EncoderPop
    BY <2>2 DEF EncoderReads, EncoderPop, EncoderRecord
  <2>3. CASE encoder' = encoder /\ ~EncoderPop
    <3>1. got'[EncoderQueue] = got[EncoderQueue]
      <4>1. CASE PushWrite
        <5>1. pushThread.buf \in Bufs
          BY <4>1 DEF PushWrite, Records
        <5>2. got' = got \/ got' = [got EXCEPT ![PreviewQueue] = Append(got[PreviewQueue], pushThread.buf)]
          BY <4>1, <5>1, GotIs, SetsAre DEF PushWrite
        <5>. QED  BY <5>2, SetsAre
      <4>. QED  BY <2>3, <4>1, GotKept
    <3>. QED  BY <2>3, <3>1 DEF HeldIsNext
  <2>4. encoder' = encoder \/ EncoderReads \/ EncoderFront \/ EncoderPop
    BY ThreadsKept DEF PushThread, PushTop, PushState, PushSemWait, PushFront, PushWrite, PushPop
  <2>. QED  BY <2>1, <2>2, <2>3, <2>4
<1>. QED  BY <1>1, <1>2, <1>3, <1>4 DEF HeldIsNext

-----------------------------------------------------------------------------
(* A queue stays in order: with nothing new; with the next buffer; without  *)
(* its first.                                                              *)

LEMMA QueueSame ==
    ASSUME NEW q \in OutQueues, QueueOK(q), outQueues'[q].list = outQueues[q].list,
           Removed(q)' = Removed(q), PushedInto(q)' = PushedInto(q)
    PROVE  QueueOK(q)'
BY DEF QueueOK

LEMMA QueueAppended ==
    ASSUME Records, NEW q \in OutQueues, QueueOK(q), PushedInto(q) \in Nat, Removed(q) \in Int,
           NEW buf \in Bufs, buf = PushedInto(q) + 1,
           outQueues'[q].list = Append(outQueues[q].list, buf),
           Removed(q)' = Removed(q), PushedInto(q)' = PushedInto(q) + 1
    PROVE  QueueOK(q)'
<1>. DEFINE list == outQueues[q].list
<1>1. list \in Seq(Bufs) /\ Len(list) \in Nat
  BY ListsAre DEF Records
<1>2. /\ Len(list') = Len(list) + 1
      /\ \A i \in 1 .. Len(list) : list'[i] = list[i]
      /\ list'[Len(list) + 1] = buf
  BY <1>1, AppendIs
<1>3. Removed(q) + Len(list) = PushedInto(q) /\ \A i \in 1 .. Len(list) : list[i] = Removed(q) + i
  BY DEF QueueOK
<1>4. Removed(q)' + Len(list') = PushedInto(q)'
  BY <1>1, <1>2, <1>3
<1>5. ASSUME NEW i \in 1 .. Len(list') PROVE list'[i] = Removed(q)' + i
  <2>1. i \in 1 .. Len(list) \/ i = Len(list) + 1
    BY <1>1, <1>2
  <2>2. CASE i \in 1 .. Len(list)
    BY <1>2, <1>3, <2>2
  <2>3. CASE i = Len(list) + 1
    <3>1. list'[i] = buf /\ Removed(q) + Len(list) = PushedInto(q)
      BY <1>2, <1>3, <2>3
    <3>. QED  BY <1>1, <2>3, <3>1
  <2>. QED  BY <2>1, <2>2, <2>3
<1>. QED  BY <1>4, <1>5 DEF QueueOK

LEMMA QueueTailed ==
    ASSUME Records, NEW q \in OutQueues, QueueOK(q), Removed(q) \in Int,
           outQueues[q].list # <<>>, outQueues'[q].list = Tail(outQueues[q].list),
           Removed(q)' = Removed(q) + 1, PushedInto(q)' = PushedInto(q)
    PROVE  QueueOK(q)'
<1>. DEFINE list == outQueues[q].list
<1>1. list \in Seq(Bufs) /\ Len(list) \in Nat
  BY ListsAre DEF Records
<1>2. /\ Len(list') = Len(list) - 1
      /\ \A i \in 1 .. Len(list) - 1 : list'[i] = list[i + 1]
  BY <1>1, TailIs
<1>3. Removed(q) + Len(list) = PushedInto(q) /\ \A i \in 1 .. Len(list) : list[i] = Removed(q) + i
  BY DEF QueueOK
<1>4. Removed(q)' + Len(list') = PushedInto(q)'
  BY <1>1, <1>2, <1>3
<1>5. ASSUME NEW i \in 1 .. Len(list') PROVE list'[i] = Removed(q)' + i
  <2>1. i \in 1 .. Len(list) - 1 /\ i + 1 \in 1 .. Len(list)
    BY <1>1, <1>2
  <2>2. list'[i] = Removed(q) + (i + 1)
    BY <1>2, <1>3, <2>1
  <2>. QED  BY <2>1, <2>2
<1>. QED  BY <1>4, <1>5 DEF QueueOK

LEMMA CountsAre ==
    ASSUME Records, HeldIsNext, NEW q \in OutQueues
    PROVE  PushedInto(q) \in Nat /\ Removed(q) \in Int /\ Len(fissionSeen.got[q]) \in Nat
<1>1. Len(fissionSeen.got[q]) \in Nat
  BY DEF Records, SeenRecord
<1>2. fissionSeen.inputs \in Nat /\ (fissionHandler.at \in {"push", "full"} => fissionSeen.inputs > 0)
  BY FissionAssumption DEF Records, SeenRecord, MaybeBufs, Bufs, HeldIsNext
<1>. QED  BY <1>1, <1>2 DEF PushedInto, Removed

LEMMA QueuesStep ==
    /\ Records /\ ClearedForGood /\ PullsOrIsWritten /\ QueuesInOrder /\ HeldIsNext /\ FissionNext
    => QueuesInOrder'
<1>. SUFFICES ASSUME Records, ClearedForGood, PullsOrIsWritten, QueuesInOrder, HeldIsNext, FissionNext,
                     fission'.queues, ~fissionSeen'.undefined, NEW q \in OutQueues
              PROVE  QueueOK(q)'
  BY SetsAre DEF QueuesInOrder
<1>. DEFINE place == fissionHandler.at
            got == fissionSeen.got
<1>. /\ fissionHandler \in HandlerRecord /\ fissionSeen \in SeenRecord /\ pushThread \in PushRecord
     /\ got \in [OutQueues -> Seq(Bufs)] /\ ~fissionSeen.undefined /\ q \in {1, 2}
  BY SetsAre DEF Records, SeenRecord, FissionNext
<1>1. fission.queues /\ ~FissionCleared /\ QueueOK(q)
  BY NeverThereAgain, SetsAre DEF QueuesInOrder
<1>2. PushedInto(q) \in Nat /\ Removed(q) \in Int /\ Len(got[q]) \in Nat
  BY CountsAre
<1>3. CASE PushBuffer \/ PushWoken
  <2>. DEFINE p == fissionHandler.queue
              buf == fissionHandler.buf
  <2>1. /\ p \in {1, 2} /\ p \in OutQueues /\ buf \in Bufs /\ place \in {"push", "full"}
        /\ UNCHANGED <<pushThread, fissionSeen>>
    BY <1>3, SetsAre DEF Records, HandlerRecord, PushBuffer, PushWoken
  <2>2. Removed(q)' = Removed(q) /\ buf = fissionSeen.inputs
    BY <2>1 DEF Removed, HeldIsNext
  <2>3. CASE outQueues' = outQueues /\ fissionHandler' = [fissionHandler EXCEPT !.at = "full"]
    <3>1. place' = "full" /\ fissionHandler'.queue = p
      BY <2>3 DEF HandlerRecord
    <3>2. PushedInto(q)' = PushedInto(q)
      BY <2>1, <3>1 DEF PushedInto
    <3>. QED  BY <1>1, <2>2, <2>3, <3>2, QueueSame
  <2>4. CASE outQueues' = [outQueues EXCEPT ![p].list = Append(outQueues[p].list, buf)]
             /\ \/ p = 2 /\ fissionHandler' = IdleFission
                \/ p = 1 /\ fissionHandler' = [fissionHandler EXCEPT !.at = "push", !.queue = 2]
    <3>1. \/ p = 2 /\ place' = "idle"
          \/ p = 1 /\ place' = "push" /\ fissionHandler'.queue = 2
      BY <2>4, IdleIs DEF HandlerRecord
    <3>2. Append(outQueues[p].list, buf) \in Seq(Bufs)
      BY <2>1, ListsAre, AppendIs DEF Records
    <3>3. outQueues'[p].list = Append(outQueues[p].list, buf)
          /\ (q # p => outQueues'[q].list = outQueues[q].list)
      <4>. DEFINE list == Append(outQueues[p].list, buf)
      <4>1. outQueues' = [outQueues EXCEPT ![p].list = list] /\ list \in Seq(Bufs)
        BY <2>4, <3>2
      <4>. HIDE DEF list
      <4>2. outQueues'[p].list = list /\ \A r \in OutQueues \ {p} : outQueues'[r].list = outQueues[r].list
        BY <2>1, <4>1, SomeQueueSet
      <4>. QED  BY <4>2 DEF list
    <3>4. fissionSeen'.inputs = fissionSeen.inputs /\ fissionSeen.inputs \in Int
      BY <2>1 DEF SeenRecord, MaybeBufs
    <3>5. CASE q = p
      <4>1. PushedInto(q) = fissionSeen.inputs - 1 /\ PushedInto(q)' = fissionSeen.inputs
        BY <2>1, <3>1, <3>4, <3>5 DEF PushedInto
      <4>2. buf = PushedInto(q) + 1 /\ PushedInto(q)' = PushedInto(q) + 1
        BY <1>2, <2>2, <3>4, <4>1
      <4>3. outQueues'[q].list = Append(outQueues[q].list, buf)
        BY <3>3, <3>5
      <4>. HIDE DEF buf
      <4>. QED  BY <1>1, <1>2, <2>1, <2>2, <4>2, <4>3, QueueAppended
    <3>6. CASE q # p
      <4>1. PushedInto(q)' = PushedInto(q)
        BY <2>1, <3>1, <3>4, <3>6 DEF PushedInto
      <4>. QED  BY <1>1, <2>2, <3>3, <3>6, <4>1, QueueSame
    <3>. QED  BY <3>5, <3>6
  <2>. QED  BY <1>3, <2>3, <2>4, PushedIs
<1>4. CASE FissionWrite
  <2>1. place \notin {"push", "full"} /\ fissionSeen.inputs + 1 \in Bufs
    BY <1>4, NextBuf DEF FissionWrite, PullsOrIsWritten
  <2>2. UNCHANGED <<pushThread, fissionHandler>> /\ got' = got /\ fissionSeen'.inputs = fissionSeen.inputs + 1
    BY <1>4 DEF FissionWrite, SeenRecord
  <2>3. /\ PushedInto(q) = fissionSeen.inputs /\ PushedInto(q)' = fissionSeen.inputs + 1
        /\ Removed(q)' = Removed(q)
    BY <2>1, <2>2 DEF PushedInto, Removed
  <2>. QED  BY <1>1, <1>2, <1>4, <2>1, <2>3, WrittenIs, QueueAppended
<1>5. ASSUME UNCHANGED <<fissionHandler, fissionSeen>> PROVE PushedInto(q)' = PushedInto(q)
  BY <1>5 DEF PushedInto
<1>6. CASE PushPop
  <2>1. /\ pushThread.at = "pop" /\ pushThread'.at = "top" /\ UNCHANGED <<fissionHandler, fissionSeen>>
        /\ outQueues[PreviewQueue].list # <<>>
        /\ outQueues' = [outQueues EXCEPT ![PreviewQueue].list = Tail(@)]
    BY <1>6 DEF PushPop, PushGoesTo, PushRecord, HeldIsNext, PreviewHeld
  <2>2. Tail(outQueues[PreviewQueue].list) \in Seq(Bufs)
    BY <2>1, SetsAre, ListsAre, TailIs DEF Records
  <2>3. /\ outQueues'[PreviewQueue].list = Tail(outQueues[PreviewQueue].list)
        /\ (q # PreviewQueue => outQueues'[q].list = outQueues[q].list)
    <3>. DEFINE list == Tail(outQueues[PreviewQueue].list)
    <3>1. outQueues' = [outQueues EXCEPT ![PreviewQueue].list = list] /\ list \in Seq(Bufs)
      BY <2>1, <2>2
    <3>. HIDE DEF list
    <3>2. /\ outQueues'[PreviewQueue].list = list
          /\ \A r \in OutQueues \ {PreviewQueue} : outQueues'[r].list = outQueues[r].list
      <4>1. PreviewQueue \in OutQueues
        BY SetsAre
      <4>. HIDE DEF place, got
      <4>. QED  BY <3>1, <4>1, SomeQueueSet
    <3>. QED  BY <3>2 DEF list
  <2>4. CASE q = PreviewQueue
    <3>1. Removed(q) = Len(got[q]) - 1 /\ Removed(q)' = Len(got[q])
      BY <2>1, <2>4 DEF Removed
    <3>. QED  BY <1>1, <1>2, <1>5, <2>1, <2>3, <2>4, <3>1, QueueTailed
  <2>5. CASE q # PreviewQueue
    <3>1. Removed(q)' = Removed(q)
      BY <2>1, <2>5 DEF Removed
    <3>. QED  BY <1>1, <1>5, <2>1, <2>3, <2>5, <3>1, QueueSame
  <2>. QED  BY <2>4, <2>5
<1>7. CASE EncoderPop
  <2>1. /\ encoder.buf \in Bufs /\ UNCHANGED <<fissionHandler, pushThread>>
        /\ outQueues[EncoderQueue].list # <<>>
        /\ outQueues' = [outQueues EXCEPT ![EncoderQueue].list = Tail(@)]
    BY <1>7 DEF EncoderPop, Records, SeenRecord
  <2>2. got' = [got EXCEPT ![EncoderQueue] = Append(got[EncoderQueue], encoder.buf)]
        /\ fissionSeen'.inputs = fissionSeen.inputs
    <3>1. \E u \in BOOLEAN :
            fissionSeen' = [fissionSeen EXCEPT !.got[EncoderQueue] = Append(@, encoder.buf), !.undefined = u]
      BY <1>7 DEF EncoderPop
    <3>2. encoder.buf \in Bufs
      BY <2>1
    <3>. QED  BY <3>1, <3>2, GotIs, SetsAre
  <2>3. Tail(outQueues[EncoderQueue].list) \in Seq(Bufs)
    BY <2>1, SetsAre, ListsAre, TailIs DEF Records
  <2>4. /\ outQueues'[EncoderQueue].list = Tail(outQueues[EncoderQueue].list)
        /\ (q # EncoderQueue => outQueues'[q].list = outQueues[q].list)
    <3>. DEFINE list == Tail(outQueues[EncoderQueue].list)
    <3>1. outQueues' = [outQueues EXCEPT ![EncoderQueue].list = list] /\ list \in Seq(Bufs)
      BY <2>1, <2>3
    <3>. HIDE DEF list
    <3>2. /\ outQueues'[EncoderQueue].list = list
          /\ \A r \in OutQueues \ {EncoderQueue} : outQueues'[r].list = outQueues[r].list
      <4>1. EncoderQueue \in OutQueues
        BY SetsAre
      <4>. HIDE DEF place, got
      <4>. QED  BY <3>1, <4>1, SomeQueueSet
    <3>. QED  BY <3>2 DEF list
  <2>5. PushedInto(q)' = PushedInto(q)
    BY <2>1, <2>2 DEF PushedInto
  <2>6. CASE q = EncoderQueue
    <3>1. Len(got'[q]) = Len(got[q]) + 1
      BY <2>1, <2>2, <2>6, AppendIs
    <3>2. Removed(q) = Len(got[q]) /\ Removed(q)' = Len(got[q]) + 1
      BY <2>6, <3>1, SetsAre DEF Removed
    <3>. QED  BY <1>1, <1>2, <2>1, <2>4, <2>5, <2>6, <3>2, QueueTailed
  <2>7. CASE q # EncoderQueue
    <3>1. got'[q] = got[q]
      BY <2>2, <2>7
    <3>2. Removed(q)' = Removed(q)
      BY <2>1, <3>1 DEF Removed
    <3>. QED  BY <1>1, <2>4, <2>5, <2>7, <3>2, QueueSame
  <2>. QED  BY <2>6, <2>7
<1>8. CASE PushWrite
  <2>1. /\ pushThread.at = "write" /\ pushThread.buf \in Bufs
        /\ UNCHANGED <<outQueues, fissionHandler>> /\ fissionSeen'.inputs = fissionSeen.inputs
    BY <1>8, InputsKept DEF PushWrite, Records, SeenRecord
  <2>2. \/ pushThread'.at = "top" /\ got' = got
        \/ /\ pushThread'.at = "pop"
           /\ got' = [got EXCEPT ![PreviewQueue] = Append(got[PreviewQueue], pushThread.buf)]
    BY <1>8, <2>1, GotIs, SetsAre DEF PushWrite, PushGoesTo, PushRecord
  <2>3. Removed(q)' = Removed(q)
    <3>1. CASE got' = got /\ pushThread'.at = "top"
      BY <2>1, <3>1 DEF Removed
    <3>2. CASE /\ pushThread'.at = "pop"
               /\ got' = [got EXCEPT ![PreviewQueue] = Append(got[PreviewQueue], pushThread.buf)]
      <4>1. q # PreviewQueue => got'[q] = got[q]
        BY <3>2
      <4>2. q = PreviewQueue => Len(got'[q]) = Len(got[q]) + 1
        BY <2>1, <3>2, AppendIs
      <4>. QED  BY <1>2, <2>1, <3>2, <4>1, <4>2 DEF Removed
    <3>. QED  BY <2>2, <3>1, <3>2
  <2>4. PushedInto(q)' = PushedInto(q)
    BY <2>1 DEF PushedInto
  <2>. QED  BY <1>1, <2>1, <2>3, <2>4, QueueSame
<1>9. CASE HandleInput
  <2>1. UNCHANGED <<outQueues, pushThread>> /\ got' = got /\ place = "idle"
    BY <1>9 DEF HandleInput, SeenRecord
  <2>2. \/ fissionHandler' = fissionHandler /\ fissionSeen'.inputs = fissionSeen.inputs
        \/ /\ place' = "push" /\ fissionHandler'.queue = 1 /\ fissionSeen'.inputs = fissionSeen.inputs + 1
    BY <1>9, SetsAre DEF HandleInput, SeenRecord
  <2>3. PushedInto(q)' = PushedInto(q)
    BY <2>1, <2>2 DEF PushedInto, SeenRecord, MaybeBufs
  <2>4. Removed(q)' = Removed(q)
    BY <2>1 DEF Removed
  <2>. QED  BY <1>1, <2>1, <2>3, <2>4, QueueSame
<1>10. CASE ~PushBuffer /\ ~PushWoken /\ ~FissionWrite /\ ~PushPop /\ ~EncoderPop /\ ~PushWrite /\ ~HandleInput
  <2>1. outQueues'[q].list = outQueues[q].list /\ got' = got /\ fissionSeen'.inputs = fissionSeen.inputs
    BY <1>1, <1>10, ListsKept, GotKept, InputsKept
  <2>2. \/ fissionHandler' = fissionHandler
        \/ place \notin {"push", "full"} /\ place' \notin {"push", "full"}
    BY <1>10, NotPushing
  <2>3. \/ pushThread' = pushThread
        \/ pushThread.at # "pop" /\ pushThread'.at # "pop"
    BY <1>10, ThreadsKept DEF PushThread, PushTop, PushState, PushSemWait, PushFront, PushGoesTo, PushRecord,
       EncoderReads, EncoderFront
  <2>4. PushedInto(q)' = PushedInto(q) /\ Removed(q)' = Removed(q)
    BY <2>1, <2>2, <2>3 DEF PushedInto, Removed
  <2>. QED  BY <1>1, <2>1, <2>4, QueueSame
<1>. QED  BY <1>3, <1>4, <1>6, <1>7, <1>8, <1>9, <1>10

LEMMA InOrderStep ==
    Records /\ HeldIsNext /\ FissionInOrder /\ FissionNext => FissionInOrder'
<1>. SUFFICES ASSUME Records, HeldIsNext, FissionInOrder, FissionNext PROVE FissionInOrder'
  OBVIOUS
<1>. DEFINE got == fissionSeen.got
<1>. fissionSeen \in SeenRecord /\ got \in [OutQueues -> Seq(Bufs)] /\ ~fissionSeen.undefined
  BY DEF Records, SeenRecord, FissionNext
<1>1. ASSUME NEW q \in OutQueues, NEW buf \in Bufs, buf = Len(got[q]) + 1,
             got' = [got EXCEPT ![q] = Append(got[q], buf)]
      PROVE  FissionInOrder'
  <2>. SUFFICES ASSUME NEW r \in OutQueues, NEW i \in DOMAIN got'[r] PROVE got'[r][i] = i
    BY DEF FissionInOrder
  <2>1. CASE r # q
    BY <1>1, <2>1 DEF FissionInOrder
  <2>2. CASE r = q
    <3>1. /\ got'[q] = Append(got[q], buf) /\ Len(got'[q]) = Len(got[q]) + 1
          /\ \A j \in 1 .. Len(got[q]) : got'[q][j] = got[q][j] /\ got'[q][Len(got[q]) + 1] = buf
          /\ got'[q] \in Seq(Bufs) /\ Len(got[q]) \in Nat /\ got'[q][Len(got[q]) + 1] = buf
      BY <1>1, AppendIs
    <3>2. i \in 1 .. Len(got[q]) \/ i = Len(got[q]) + 1
      BY <2>2, <3>1
    <3>. QED  BY <1>1, <2>2, <3>1, <3>2 DEF FissionInOrder
  <2>. QED  BY <2>1, <2>2
<1>2. CASE got' = got
  BY <1>2 DEF FissionInOrder
<1>3. CASE PushWrite
  <2>1. pushThread.buf \in Bufs /\ pushThread.buf = Len(got[PreviewQueue]) + 1
    BY <1>3 DEF PushWrite, Records, HeldIsNext
  <2>2. got' = got \/ got' = [got EXCEPT ![PreviewQueue] = Append(got[PreviewQueue], pushThread.buf)]
    BY <1>3, <2>1, GotIs, SetsAre DEF PushWrite
  <2>. QED  BY <1>1, <1>2, <2>1, <2>2, SetsAre
<1>4. CASE EncoderPop
  <2>1. encoder.buf \in Bufs /\ encoder.buf = Len(got[EncoderQueue]) + 1
    BY <1>4 DEF EncoderPop, Records, HeldIsNext
  <2>2. got' = [got EXCEPT ![EncoderQueue] = Append(got[EncoderQueue], encoder.buf)]
    BY <1>4, <2>1, GotIs, SetsAre DEF EncoderPop
  <2>. QED  BY <1>1, <2>1, <2>2, SetsAre
<1>. QED  BY <1>2, <1>3, <1>4, GotKept

-----------------------------------------------------------------------------
LEMMA FissionInvariant == FissionSpec => []FissionInv
<1>1. FissionInv /\ [FissionNext]_fissionVars => FissionInv'
  <2>. SUFFICES ASSUME FissionInv, [FissionNext]_fissionVars PROVE FissionInv'
    OBVIOUS
  <2>1. CASE UNCHANGED fissionVars
    <3>. USE <2>1 DEF fissionVars
    <3>1. Records' /\ CommandsKnown' /\ ClearedForGood'
      BY DEF FissionInv, Records, CommandsKnown, Busy, ClearedForGood
    <3>2. PullsOrIsWritten' /\ ClearedAreEmpty' /\ HeldIsNext' /\ FissionInOrder'
      BY DEF FissionInv, PullsOrIsWritten, ClearedAreEmpty, HeldIsNext, PreviewHeld, FissionInOrder
    <3>3. QueuesInOrder'
      BY DEF FissionInv, QueuesInOrder, QueueOK, Removed, PushedInto
    <3>. QED  BY <3>1, <3>2, <3>3 DEF FissionInv
  <2>2. CASE FissionNext
    <3>1. PreviewHeld
      BY DEF FissionInv, HeldIsNext
    <3>2. Records' /\ CommandsKnown'
      BY <2>2, <3>1, RecordsStep, CommandsStep DEF FissionInv
    <3>3. ClearedForGood' /\ PullsOrIsWritten' /\ ClearedAreEmpty'
      BY <2>2, <3>1, ClearedStep, PullsStep, EmptyStep DEF FissionInv
    <3>4. QueuesInOrder' /\ HeldIsNext' /\ FissionInOrder'
      BY <2>2, QueuesStep, HeldStep, InOrderStep DEF FissionInv
    <3>. QED  BY <3>2, <3>3, <3>4 DEF FissionInv
  <2>. QED  BY <2>1, <2>2
<1>. QED  BY <1>1, FissionInitInv, PTL DEF FissionSpec

(* Type correctness of MediaFission.                                       *)
THEOREM FissionTypeCorrect == FissionSpec => []FissionTypeOK
<1>1. FissionInv => FissionTypeOK
  BY RecordsAreTypes DEF FissionInv
<1>. QED  BY <1>1, FissionInvariant, PTL

(* Each consumer gets what came in, in order, nothing twice and nothing     *)
(* left out: a queue holds the numbers between what was removed from it and *)
(* what was pushed into it, and what a thread holds outside of the queue's  *)
(* calls is the next of them.                                              *)
THEOREM EachGetsAllInOrder == FissionSpec => []FissionInOrder
<1>1. FissionInv => FissionInOrder
  BY DEF FissionInv
<1>. QED  BY <1>1, FissionInvariant, PTL

=============================================================================
