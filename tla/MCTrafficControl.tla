-------------------------- MODULE MCTrafficControl --------------------------
(* Instances of TrafficControl for TLC: two producers, a consumer and a     *)
(* sink; and, in the same run, a producer and a consumer by themselves.     *)
EXTENDS TrafficControl

CONSTANTS p1, p2, k1

TwoProducers == {p1, p2}
OneConsumer  == {k1}

VARIABLE pair           \* do only p1 and k1 move?

MCVars == <<vars, pair>>

MCPair ==
    \/ Producer(p1) \/ Consumer(k1) \/ UnblockWait
    \/ Spurious(p1) \/ Spurious(k1)

MCInit == Init /\ pair \in BOOLEAN

MCNext == (IF pair THEN MCPair ELSE Next) /\ UNCHANGED pair

MCSpec == MCInit /\ [][MCNext]_MCVars

(* The producer does not sleep once the buffers are down to LowBar, nor the *)
(* consumer once they are up to HighBar: with one of each, the signal on    *)
(* the shared condition variable reaches the one that can go on.  (With     *)
(* more of them it may go to one that cannot.)                             *)
PairNotForgotten == pair => NobodyForgotten

=============================================================================
