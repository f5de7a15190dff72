--------------------------- MODULE TrafficControl ---------------------------
(***************************************************************************)
(* TrafficControl: the flow control between a component that produces      *)
(* buffers and those that consume them (base/src/src/media_monitor.cc).     *)
(*                                                                         *)
(* A producer makes a buffer, whose Tracker counts it, and calls           *)
(* waitOnFull, as the decode threads do.  A buffer is counted out by the    *)
(* destructor of its Tracker: on the sink's thread (Release), or on that   *)
(* of a consumer that goes on to call waitOnEmpty, as monitor-test does.    *)
(* unblockWait lets every thread go, for good: no caller ever revokes it.   *)
(*                                                                         *)
(* Producers and consumers wait on one condition variable, and signal      *)
(* wakes any one of them.  One action is one critical section of mLock.     *)
(***************************************************************************)
EXTENDS Integers, FiniteSets

CONSTANTS
    Producers,      \* the threads that call waitOnFull
    Consumers,      \* the threads that call waitOnEmpty
    LowBar, HighBar,
    CountSpace,     \* the number of values of the counters: 2^32 in the code
    MaxItems,       \* bound: how many buffers are made in a behaviour
    Sinks           \* do other threads release buffers too?

ASSUME TrafficAssumption ==
    /\ Producers \cap Consumers = {}
    /\ IsFiniteSet(Producers)
    /\ LowBar \in Nat /\ HighBar \in Nat /\ LowBar < HighBar
    /\ CountSpace \in Nat /\ HighBar < CountSpace
    /\ MaxItems \in Nat
    /\ Sinks \in BOOLEAN

VARIABLES
    mProducedCount,
    mConsumedCount,
    mEscapeWait,
    at,             \* where each thread is
    alive,          \* history: the buffers made and not released
    made            \* history: the buffers made

vars == <<mProducedCount, mConsumedCount, mEscapeWait, at, alive, made>>

Threads == Producers \cup Consumers

TypeOK ==
    /\ mProducedCount \in 0 .. CountSpace - 1
    /\ mConsumedCount \in 0 .. CountSpace - 1
    /\ mEscapeWait \in BOOLEAN
    /\ at \in [Threads -> {"produce", "full", "fullWait", "fullWoken",
                           "consume", "empty", "emptyWait", "emptyWoken"}]
    /\ \A p \in Producers : at[p] \in {"produce", "full", "fullWait", "fullWoken"}
    /\ \A c \in Consumers : at[c] \in {"consume", "empty", "emptyWait", "emptyWoken"}
    /\ alive \in Nat
    /\ made \in Nat

Init ==
    /\ mProducedCount = 0
    /\ mConsumedCount = 0
    /\ mEscapeWait = FALSE
    /\ at = [t \in Threads |-> IF t \in Producers THEN "produce" ELSE "consume"]
    /\ alive = 0
    /\ made = 0

-----------------------------------------------------------------------------
PendingOf_NoWrap(produced, consumed) == produced - consumed

(* uint32_t arithmetic.                                                    *)
PendingOf(produced, consumed) == (produced - consumed) % CountSpace

Inc(count) == (count + 1) % CountSpace

Pending == PendingOf(mProducedCount, mConsumedCount)

Asleep(t) == at[t] \in {"fullWait", "emptyWait"}
WokenAt(place) ==
    CASE place = "fullWait"  -> "fullWoken"
      [] place = "emptyWait" -> "emptyWoken"
      [] OTHER               -> place

(* mCondition.signal(): where the threads may be after it.                 *)
Signal ==
    IF \E t \in Threads : Asleep(t)
    THEN {[at EXCEPT ![t] = WokenAt(at[t])] : t \in {u \in Threads : Asleep(u)}}
    ELSE {at}

SignalIf(condition) == IF condition THEN Signal ELSE {at}

-----------------------------------------------------------------------------
(* Bounds: MaxItems buffers are made, and fewer than CountSpace - 1 (2^32   *)
(* - 1) of them are alive at any time.                                      *)
MayProduce == made < MaxItems /\ alive < CountSpace - 1

(* Tracker::create: Monitor::produceOne and onProducedOne_l.               *)
Produce(p) ==
    /\ at[p] = "produce"
    /\ MayProduce
    /\ mProducedCount' = Inc(mProducedCount)
    /\ \E a \in SignalIf(PendingOf(mProducedCount', mConsumedCount) >= HighBar) :
         at' = [a EXCEPT ![p] = "full"]
    /\ alive' = alive + 1
    /\ made' = made + 1
    /\ UNCHANGED <<mConsumedCount, mEscapeWait>>

Full_Greater == Pending > HighBar

Full == Pending >= HighBar

(* waitOnFull, up to its wait.                                             *)
WaitOnFull(p) ==
    /\ at[p] = "full"
    /\ \E a \in SignalIf(Full) :
         at' = [a EXCEPT ![p] = IF Full /\ ~mEscapeWait THEN "fullWait" ELSE "produce"]
    /\ UNCHANGED <<mProducedCount, mConsumedCount, mEscapeWait, alive, made>>

(* waitOnFull, after a wait.                                               *)
FullWoken(p) ==
    /\ at[p] = "fullWoken"
    /\ at' = [at EXCEPT ![p] =
                 IF Pending <= LowBar \/ mEscapeWait THEN "produce" ELSE "fullWait"]
    /\ UNCHANGED <<mProducedCount, mConsumedCount, mEscapeWait, alive, made>>

LowReached_Below(pending) == pending < LowBar

(* onConsumedOne_l signals the producer.                                   *)
LowReached(pending) == pending <= LowBar

(* Tracker::~Tracker: Monitor::consumeOne and onConsumedOne_l.             *)
ReleaseBuffer ==
    /\ alive > 0
    /\ mConsumedCount' = Inc(mConsumedCount)
    /\ alive' = alive - 1
    /\ UNCHANGED <<mProducedCount, mEscapeWait, made>>

(* A thread of the sink drops the last reference to a buffer...            *)
Release ==
    /\ Sinks
    /\ ReleaseBuffer
    /\ at' \in SignalIf(LowReached(PendingOf(mProducedCount, mConsumedCount')))

(* ... or a consumer does.                                                 *)
Consume(c) ==
    /\ at[c] = "consume"
    /\ ReleaseBuffer
    /\ \E a \in SignalIf(LowReached(PendingOf(mProducedCount, mConsumedCount'))) :
         at' = [a EXCEPT ![c] = "empty"]

(* waitOnEmpty, up to its wait.                                            *)
WaitOnEmpty(c) ==
    /\ at[c] = "empty"
    /\ \E a \in SignalIf(Pending <= LowBar) :
         at' = [a EXCEPT ![c] = IF Pending = 0 /\ ~mEscapeWait THEN "emptyWait" ELSE "consume"]
    /\ UNCHANGED <<mProducedCount, mConsumedCount, mEscapeWait, alive, made>>

(* waitOnEmpty, after a wait: it holds out for HighBar buffers.            *)
EmptyWoken(c) ==
    /\ at[c] = "emptyWoken"
    /\ at' = [at EXCEPT ![c] =
                 IF Pending >= HighBar \/ mEscapeWait THEN "consume" ELSE "emptyWait"]
    /\ UNCHANGED <<mProducedCount, mConsumedCount, mEscapeWait, alive, made>>

(* unblockWait(): the flag, and a broadcast.                               *)
UnblockWait ==
    /\ ~mEscapeWait
    /\ mEscapeWait' = TRUE
    /\ at' = [t \in Threads |-> WokenAt(at[t])]
    /\ UNCHANGED <<mProducedCount, mConsumedCount, alive, made>>

(* A condition wait returns without a signal.                              *)
Spurious(t) ==
    /\ Asleep(t)
    /\ at' = [at EXCEPT ![t] = WokenAt(at[t])]
    /\ UNCHANGED <<mProducedCount, mConsumedCount, mEscapeWait, alive, made>>

-----------------------------------------------------------------------------
Producer(p) == Produce(p) \/ WaitOnFull(p) \/ FullWoken(p)
Consumer(c) == Consume(c) \/ WaitOnEmpty(c) \/ EmptyWoken(c)

Next ==
    \/ \E p \in Producers : Producer(p)
    \/ \E c \in Consumers : Consumer(c)
    \/ Release
    \/ UnblockWait
    \/ \E t \in Threads : Spurious(t)

Spec == Init /\ [][Next]_vars

(* Threads that can run do run, and a sink lets its buffers go.  Nobody    *)
(* has to call unblockWait.                                                 *)
FairSpec ==
    /\ Spec
    /\ \A p \in Producers : WF_vars(Producer(p))
    /\ \A c \in Consumers : WF_vars(Consumer(c))
    /\ WF_vars(Release)

-----------------------------------------------------------------------------
\* The counters wrap around, and their difference is still the number of
\* buffers alive.
PendingExact == Pending = alive

\* Flow control holds: until unblockWait, no more buffers are alive than
\* HighBar and one for each further producer that was past its check.
BoundedAlive == ~mEscapeWait => alive <= HighBar + Cardinality(Producers) - 1

\* After unblockWait nobody waits, nor ever will again: stop() relies on it to
\* join the thread.
EscapeFrees == mEscapeWait => \A t \in Threads : ~Asleep(t)

\* The producer does not sleep once the buffers are down to LowBar, nor the
\* consumer once they are up to HighBar: with one of each, the signal on the
\* shared condition variable reaches the one that can go on.
NobodyForgotten ==
    /\ \A p \in Producers : at[p] = "fullWait" => Pending > LowBar
    /\ \A c \in Consumers : at[c] = "emptyWait" => Pending < HighBar

\* When the last buffer has been made, the consumer gets all of them.
LastBuffersConsumed == (made = MaxItems) ~> (alive = 0)

=============================================================================
