---------------------------- MODULE RequestReply ----------------------------
(***************************************************************************)
(* What MMMsgThread::sendMsg promises a caller, without queue, ids, locks  *)
(* or condition variables.  A request is accepted while the thread is      *)
(* open, served at most once, and returns "ok" exactly when it was served  *)
(* and the thread was still open when its sender looked; otherwise it      *)
(* returns "exiting", and only because the thread was closed.              *)
(***************************************************************************)
CONSTANT Clients

VARIABLES phase, request, outcome

rrVars == <<phase, request, outcome>>

RRTypeOK ==
    /\ phase \in {"new", "open", "closed"}
    /\ request \in [Clients -> {"none", "asked", "served"}]
    /\ outcome \in [Clients -> {"none", "ok", "exiting"}]

RRInit ==
    /\ phase = "new"
    /\ request = [c \in Clients |-> "none"]
    /\ outcome = [c \in Clients |-> "none"]

Open  == phase = "new" /\ phase' = "open" /\ UNCHANGED <<request, outcome>>
Close == phase = "open" /\ phase' = "closed" /\ UNCHANGED <<request, outcome>>

Accept(c) ==
    /\ phase = "open" /\ request[c] = "none"
    /\ request' = [request EXCEPT ![c] = "asked"]
    /\ UNCHANGED <<phase, outcome>>

Serve(c) ==
    /\ phase = "open" /\ request[c] = "asked"
    /\ request' = [request EXCEPT ![c] = "served"]
    /\ UNCHANGED <<phase, outcome>>

Return(c) ==
    /\ phase = "open" /\ request[c] = "served"
    /\ request' = [request EXCEPT ![c] = "none"]
    /\ outcome' = [outcome EXCEPT ![c] = "ok"]
    /\ UNCHANGED phase

Abandon(c) ==
    /\ phase = "closed"
    /\ request' = [request EXCEPT ![c] = "none"]
    /\ outcome' = [outcome EXCEPT ![c] = "exiting"]
    /\ UNCHANGED phase

RRNext ==
    \/ Open \/ Close
    \/ \E c \in Clients : Accept(c) \/ Serve(c) \/ Return(c) \/ Abandon(c)

RRSpec == RRInit /\ [][RRNext]_rrVars

(* An accepted request is served and returned, or abandoned on closing.    *)
RRFairSpec ==
    RRSpec /\ \A c \in Clients :
        /\ WF_rrVars(Serve(c))
        /\ WF_rrVars(Return(c))
        /\ WF_rrVars(request[c] # "none" /\ Abandon(c))

=============================================================================
