----------------------------- MODULE MsgThread -----------------------------
(***************************************************************************)
(* MMMsgThread: the message loop every thread of the framework is built    *)
(* from (base/src/src/mmmsgthread.cc, BEGIN_MSG_LOOP in mmmsgthread.h).     *)
(*                                                                         *)
(* Clients call postMsg (asynchronous, possibly delayed), sendMsg (waits   *)
(* for the handler's answer) and exit.  The loop thread takes the messages *)
(* in the order they fall due, runs the handler outside the lock, and the  *)
(* handler may post again and answers requests with postReponse.           *)
(*                                                                         *)
(* One action is one critical section of mMsgThrdLock, which is what makes *)
(* the section atomic.  A thread in Condition::wait has given the lock up: *)
(* it is at "waiting" or "blocked" until a signal, a timeout or a spurious *)
(* wakeup sends it back to compete for the lock and test again.            *)
(*                                                                         *)
(* A definition D_Mistake before a definition D is D with a mistake such   *)
(* code could have.  Nothing uses it: put in the place of D it shows which *)
(* property notices the mistake.                                           *)
(***************************************************************************)
EXTENDS Integers, FiniteSets, SequencesExt

CONSTANTS
    Clients,        \* the threads that call into the object
    Delays,         \* the delays, in clock ticks, that messages are posted with
    IdSpace,        \* the number of values of mCurRespId: 2^32 in the code
    MaxTime,        \* bound: the clock stops here
    MaxMsgs,        \* bound: how many messages are accepted in a behaviour
    CreateMayFail   \* may pthread_create fail in run()?

ASSUME ConstantsAssumption ==
    /\ Delays \subseteq Nat
    /\ 0 \in Delays
    /\ IdSpace \in Nat /\ IdSpace > 1
    /\ MaxTime \in Nat
    /\ MaxMsgs \in Nat
    /\ CreateMayFail \in BOOLEAN

VARIABLES
    ran,            \* has the owner called run()?
    mContinue,
    mThreadCreated,
    mMsgQ,
    mRespMap,       \* per response id the stamp of the request answered, 0: no entry
    mCurRespId,
    now,            \* CLOCK_MONOTONIC
    loop,           \* where the loop thread is
    deadline,       \* when the timedWait it is in ends
    msg,            \* the message it took last
    pc,             \* where each client is
    rspId,          \* sendMsg's local rspId
    stamp,          \* history: the number of messages accepted so far
    mine,           \* history: the stamp of the client's last request
    result,         \* what the client's last sendMsg returned
    answer          \* history: the stamp of the request its answer was for

queueVars  == <<mMsgQ, stamp>>
loopVars   == <<loop, deadline, msg>>
clientVars == <<pc, rspId, mine, result, answer>>
vars == <<ran, mContinue, mThreadCreated, mMsgQ, mRespMap, mCurRespId, now,
          loop, deadline, msg, pc, rspId, stamp, mine, result, answer>>

RspIds   == 1 .. IdSpace - 1
Messages == [rspId : 0 .. IdSpace - 1, when : Nat, stamp : Nat]
NoMsg    == [rspId |-> 0, when |-> 0, stamp |-> 0]

TypeOK ==
    /\ ran \in BOOLEAN
    /\ mContinue \in BOOLEAN
    /\ mThreadCreated \in BOOLEAN
    /\ mMsgQ \in Seq(Messages)
    /\ mRespMap \in [RspIds -> Nat]
    /\ mCurRespId \in 0 .. IdSpace - 1
    /\ now \in Nat
    /\ loop \in {"none", "check", "waiting", "timed", "handling", "over"}
    /\ deadline \in Nat
    /\ msg \in Messages
    /\ pc \in [Clients -> {"idle", "post", "reply", "blocked", "join"}]
    /\ rspId \in [Clients -> 0 .. IdSpace - 1]
    /\ stamp \in Nat
    /\ mine \in [Clients -> Nat]
    /\ result \in [Clients -> {"none", "ok", "exiting"}]
    /\ answer \in [Clients -> Nat]

Init ==
    /\ ran = FALSE
    /\ mContinue = FALSE
    /\ mThreadCreated = FALSE
    /\ mMsgQ = <<>>
    /\ mRespMap = [i \in RspIds |-> 0]
    /\ mCurRespId = 0
    /\ now = 0
    /\ loop = "none"
    /\ deadline = 0
    /\ msg = NoMsg
    /\ pc = [c \in Clients |-> "idle"]
    /\ rspId = [c \in Clients |-> 0]
    /\ stamp = 0
    /\ mine = [c \in Clients |-> 0]
    /\ result = [c \in Clients |-> "none"]
    /\ answer = [c \in Clients |-> 0]

-----------------------------------------------------------------------------
(* What Condition::signal and broadcast do to the threads that wait.  The  *)
(* loop thread is the only one that waits on mMsgCond.                     *)

Asleep == loop \in {"waiting", "timed"}

SignalLoop_Lost == UNCHANGED loop

SignalLoop == loop' = IF Asleep THEN "check" ELSE loop

WakeSenders_One(p) ==
    IF \E c \in Clients : p[c] = "blocked"
    THEN [p EXCEPT ![CHOOSE c \in Clients : p[c] = "blocked"] = "reply"]
    ELSE p

WakeSenders(p) == [c \in Clients |-> IF p[c] = "blocked" THEN "reply" ELSE p[c]]

Ahead_Lifo(k, when) ==
    /\ \A i \in 1 .. k : mMsgQ[i].when < when
    /\ k < Len(mMsgQ) => mMsgQ[k + 1].when >= when

(* The number of queued messages that stay ahead of one due at `when`: the *)
(* loop of doPost walks past every message due no later, so messages due   *)
(* at the same time keep the order they were posted in.                    *)
Ahead(k, when) ==
    /\ \A i \in 1 .. k : mMsgQ[i].when <= when
    /\ k < Len(mMsgQ) => mMsgQ[k + 1].when > when

SignalsLoop_IfEmpty(k) == mMsgQ = <<>>

(* The signal is sent only when the new message became the first one.      *)
SignalsLoop(k) == k = 0

(* doPost on a thread that has not been told to exit.                      *)
Enqueue(id, delay) ==
    /\ mContinue
    /\ \E k \in 0 .. Len(mMsgQ) :
         /\ Ahead(k, now + delay)
         /\ mMsgQ' = InsertAt(mMsgQ, k + 1,
                        [rspId |-> id, when |-> now + delay, stamp |-> stamp + 1])
         /\ IF SignalsLoop(k) THEN SignalLoop ELSE UNCHANGED loop
    /\ stamp' = stamp + 1

-----------------------------------------------------------------------------
(* The owner.                                                              *)

(* run(): mContinue is set whether or not the thread could be created.  No  *)
(* other thread holds the object yet.                                       *)
Run ==
    /\ ~ran
    /\ ran' = TRUE
    /\ mContinue' = TRUE
    /\ \/ mThreadCreated' = TRUE /\ loop' = "check"
       \/ CreateMayFail /\ UNCHANGED <<mThreadCreated, loop>>
    /\ UNCHANGED <<queueVars, mRespMap, mCurRespId, now, deadline, msg, clientVars>>

-----------------------------------------------------------------------------
(* The clients.                                                            *)

(* Bounds: a post is made only while the messages accepted and those the   *)
(* senders at "post" will add stay within MaxMsgs, and when it falls due    *)
(* before the clock stops.                                                 *)
Room == stamp + Cardinality({c \in Clients : pc[c] = "post"}) < MaxMsgs
InTime(delay) == now + delay <= MaxTime

(* postMsg, accepted.  Refused, it returns 1 and changes nothing.          *)
PostMsg(c) ==
    /\ ran /\ pc[c] = "idle"
    /\ Room
    /\ \E d \in Delays : InTime(d) /\ Enqueue(0, d)
    /\ UNCHANGED <<ran, mContinue, mThreadCreated, mRespMap, mCurRespId, now,
                   deadline, msg, clientVars>>

NextRspId(id) == IF (id + 1) % IdSpace = 0 THEN 1 ELSE (id + 1) % IdSpace

(* Bound: no request stays open while IdSpace - 1 (2^32 - 1) others are    *)
(* made, so the next id is never one that a sender still waits with.        *)
IdFree(id) == \A d \in Clients : pc[d] \in {"post", "reply", "blocked"} => rspId[d] # id

(* sendMsg, first critical section: take a response id.                    *)
SendMsg(c) ==
    /\ ran /\ pc[c] = "idle"
    /\ Room
    /\ IdFree(NextRspId(mCurRespId))
    /\ mCurRespId' = NextRspId(mCurRespId)
    /\ rspId' = [rspId EXCEPT ![c] = NextRspId(mCurRespId)]
    /\ pc' = [pc EXCEPT ![c] = "post"]
    /\ UNCHANGED <<ran, mContinue, mThreadCreated, queueVars, mRespMap, now,
                   loopVars, mine, result, answer>>

(* sendMsg, second critical section: doPost with no delay...               *)
SendPosted(c) ==
    /\ pc[c] = "post"
    /\ Enqueue(rspId[c], 0)
    /\ mine' = [mine EXCEPT ![c] = stamp + 1]
    /\ pc' = [pc EXCEPT ![c] = "reply"]
    /\ UNCHANGED <<ran, mContinue, mThreadCreated, mRespMap, mCurRespId, now,
                   deadline, msg, rspId, result, answer>>

(* ... or its refusal, which sendMsg returns.                              *)
SendRefused(c) ==
    /\ pc[c] = "post"
    /\ ~mContinue
    /\ pc' = [pc EXCEPT ![c] = "idle"]
    /\ result' = [result EXCEPT ![c] = "exiting"]
    /\ UNCHANGED <<ran, mContinue, mThreadCreated, queueVars, mRespMap, mCurRespId,
                   now, loopVars, rspId, mine, answer>>

(* sendMsg, one round of its wait loop.  An exiting thread is noticed      *)
(* before an answer that has already come.                                  *)
SendAbandoned(c) ==
    /\ pc[c] = "reply"
    /\ ~mContinue
    /\ pc' = [pc EXCEPT ![c] = "idle"]
    /\ result' = [result EXCEPT ![c] = "exiting"]
    /\ UNCHANGED <<ran, mContinue, mThreadCreated, queueVars, mRespMap, mCurRespId,
                   now, loopVars, rspId, mine, answer>>

SendBlocks(c) ==
    /\ pc[c] = "reply"
    /\ mContinue
    /\ mRespMap[rspId[c]] = 0
    /\ pc' = [pc EXCEPT ![c] = "blocked"]
    /\ UNCHANGED <<ran, mContinue, mThreadCreated, queueVars, mRespMap, mCurRespId,
                   now, loopVars, rspId, mine, result, answer>>

SendAnswered_First(c) ==
    /\ pc[c] = "reply"
    /\ mContinue
    /\ \E i \in RspIds :
         /\ mRespMap[i] # 0
         /\ answer' = [answer EXCEPT ![c] = mRespMap[i]]
         /\ mRespMap' = [mRespMap EXCEPT ![i] = 0]
    /\ pc' = [pc EXCEPT ![c] = "idle"]
    /\ result' = [result EXCEPT ![c] = "ok"]
    /\ UNCHANGED <<ran, mContinue, mThreadCreated, queueVars, mCurRespId, now,
                   loopVars, rspId, mine>>

SendAnswered_NoRecheck(c) ==
    /\ pc[c] = "reply"
    /\ mContinue
    /\ answer' = [answer EXCEPT ![c] = mRespMap[rspId[c]]]
    /\ mRespMap' = [mRespMap EXCEPT ![rspId[c]] = 0]
    /\ pc' = [pc EXCEPT ![c] = "idle"]
    /\ result' = [result EXCEPT ![c] = "ok"]
    /\ UNCHANGED <<ran, mContinue, mThreadCreated, queueVars, mCurRespId, now,
                   loopVars, rspId, mine>>

SendAnswered(c) ==
    /\ pc[c] = "reply"
    /\ mContinue
    /\ mRespMap[rspId[c]] # 0
    /\ answer' = [answer EXCEPT ![c] = mRespMap[rspId[c]]]
    /\ mRespMap' = [mRespMap EXCEPT ![rspId[c]] = 0]
    /\ pc' = [pc EXCEPT ![c] = "idle"]
    /\ result' = [result EXCEPT ![c] = "ok"]
    /\ UNCHANGED <<ran, mContinue, mThreadCreated, queueVars, mCurRespId, now,
                   loopVars, rspId, mine>>

(* exit(): the flag and both broadcasts in one critical section, then the  *)
(* first caller joins the thread; a later caller returns at once.          *)
Exit(c) ==
    /\ ran /\ pc[c] = "idle"
    /\ mContinue
    /\ mContinue' = FALSE
    /\ SignalLoop
    /\ pc' = [WakeSenders(pc) EXCEPT ![c] = IF mThreadCreated THEN "join" ELSE "idle"]
    /\ mThreadCreated' = FALSE
    /\ UNCHANGED <<ran, queueVars, mRespMap, mCurRespId, now, deadline, msg,
                   rspId, mine, result, answer>>

(* pthread_join returns.                                                   *)
Joined(c) ==
    /\ pc[c] = "join"
    /\ loop = "over"
    /\ pc' = [pc EXCEPT ![c] = "idle"]
    /\ UNCHANGED <<ran, mContinue, mThreadCreated, queueVars, mRespMap, mCurRespId,
                   now, loopVars, rspId, mine, result, answer>>

-----------------------------------------------------------------------------
(* The loop thread: the four outcomes of the section that takes a message. *)

LoopOver_LeavesQueue ==
    /\ loop = "check"
    /\ ~mContinue
    /\ loop' = "over"
    /\ UNCHANGED <<ran, mContinue, mThreadCreated, queueVars, mRespMap, mCurRespId,
                   now, deadline, msg, clientVars>>

LoopOver ==
    /\ loop = "check"
    /\ ~mContinue /\ mMsgQ = <<>>
    /\ loop' = "over"
    /\ UNCHANGED <<ran, mContinue, mThreadCreated, queueVars, mRespMap, mCurRespId,
                   now, deadline, msg, clientVars>>

LoopWaits ==
    /\ loop = "check"
    /\ mContinue /\ mMsgQ = <<>>
    /\ loop' = "waiting"
    /\ UNCHANGED <<ran, mContinue, mThreadCreated, queueVars, mRespMap, mCurRespId,
                   now, deadline, msg, clientVars>>

LoopTimedWait ==
    /\ loop = "check"
    /\ mMsgQ # <<>>
    /\ mContinue /\ mMsgQ[1].when > now
    /\ loop' = "timed"
    /\ deadline' = mMsgQ[1].when
    /\ UNCHANGED <<ran, mContinue, mThreadCreated, queueVars, mRespMap, mCurRespId,
                   now, msg, clientVars>>

(* Once the thread exits, what is queued is handled without its delay.     *)
Due(m) == ~mContinue \/ m.when <= now

LoopTakes ==
    /\ loop = "check"
    /\ mMsgQ # <<>>
    /\ Due(mMsgQ[1])
    /\ msg' = mMsgQ[1]
    /\ mMsgQ' = Tail(mMsgQ)
    /\ loop' = "handling"
    /\ UNCHANGED <<ran, mContinue, mThreadCreated, stamp, mRespMap, mCurRespId,
                   now, deadline, clientVars>>

LoopTimeout ==
    /\ loop = "timed"
    /\ deadline <= now
    /\ loop' = "check"
    /\ UNCHANGED <<ran, mContinue, mThreadCreated, queueVars, mRespMap, mCurRespId,
                   now, deadline, msg, clientVars>>

-----------------------------------------------------------------------------
(* The handlers, which run on the loop thread without the lock.            *)

(* A handler posts to its own thread (retries and periodic work do).       *)
HandlerPosts ==
    /\ loop = "handling"
    /\ Room
    /\ \E d \in Delays : InTime(d) /\ Enqueue(0, d)
    /\ UNCHANGED <<ran, mContinue, mThreadCreated, mRespMap, mCurRespId, now,
                   deadline, msg, clientVars>>

(* postReponse: dropped by an exiting thread.  std::map::insert keeps an   *)
(* entry that is already there.                                            *)
PostReponse ==
    /\ loop = "handling"
    /\ msg.rspId # 0
    /\ IF mContinue
       THEN /\ mRespMap' = [mRespMap EXCEPT ![msg.rspId] = IF @ = 0 THEN msg.stamp ELSE @]
            /\ pc' = WakeSenders(pc)
       ELSE UNCHANGED <<mRespMap, pc>>
    /\ loop' = "check"
    /\ UNCHANGED <<ran, mContinue, mThreadCreated, queueVars, mCurRespId, now,
                   deadline, msg, rspId, mine, result, answer>>

HandlerReturns ==
    /\ loop = "handling"
    /\ msg.rspId = 0
    /\ loop' = "check"
    /\ UNCHANGED <<ran, mContinue, mThreadCreated, queueVars, mRespMap, mCurRespId,
                   now, deadline, msg, clientVars>>

-----------------------------------------------------------------------------
(* The environment: time passes, and condition waits return without reason.*)

Tick ==
    /\ now < MaxTime
    /\ now' = now + 1
    /\ UNCHANGED <<ran, mContinue, mThreadCreated, queueVars, mRespMap, mCurRespId,
                   loopVars, clientVars>>

LoopSpurious ==
    /\ Asleep
    /\ loop' = "check"
    /\ UNCHANGED <<ran, mContinue, mThreadCreated, queueVars, mRespMap, mCurRespId,
                   now, deadline, msg, clientVars>>

SenderSpurious(c) ==
    /\ pc[c] = "blocked"
    /\ pc' = [pc EXCEPT ![c] = "reply"]
    /\ UNCHANGED <<ran, mContinue, mThreadCreated, queueVars, mRespMap, mCurRespId,
                   now, loopVars, rspId, mine, result, answer>>

-----------------------------------------------------------------------------
Loop ==
    \/ LoopOver \/ LoopWaits \/ LoopTimedWait \/ LoopTakes \/ LoopTimeout
    \/ PostReponse \/ HandlerReturns

SendStep(c) ==
    \/ SendPosted(c) \/ SendRefused(c)
    \/ SendAbandoned(c) \/ SendBlocks(c) \/ SendAnswered(c)

Client(c) ==
    \/ PostMsg(c) \/ SendMsg(c) \/ SendStep(c) \/ Exit(c) \/ Joined(c)

Next ==
    \/ Run
    \/ \E c \in Clients : Client(c) \/ SenderSpurious(c)
    \/ Loop \/ HandlerPosts \/ Tick \/ LoopSpurious

Spec == Init /\ [][Next]_vars

(* Threads that can run do run, handlers return, and the clock advances.   *)
(* Nothing obliges a client to call, a handler to post, or a condition     *)
(* wait to return without a signal.                                        *)
Fairness ==
    /\ WF_vars(Loop)
    /\ WF_vars(Tick)
    /\ \A c \in Clients : WF_vars(SendStep(c)) /\ WF_vars(Joined(c))

FairSpec == Spec /\ Fairness

-----------------------------------------------------------------------------
(* Safety.                                                                 *)

Before(a, b) == a.when < b.when \/ (a.when = b.when /\ a.stamp < b.stamp)

\* The queue is in the order messages fall due, and messages due at the same
\* time are in the order they were posted (doPost walks with <=, and inserts
\* before the first later message).
QueueOrdered == \A i, j \in 1 .. Len(mMsgQ) : i < j => Before(mMsgQ[i], mMsgQ[j])

\* The loop thread never sleeps through a message or through exit: without a
\* timeout it sleeps only on an empty queue, and with one it wakes no later
\* than the first message falls due.  doPost signals only for a new front.
NoMissedMessage ==
    /\ Asleep => mContinue
    /\ loop = "waiting" => mMsgQ = <<>>
    /\ loop = "timed" => mMsgQ # <<>> /\ deadline <= mMsgQ[1].when

\* No sender sleeps on mReplyCond when its answer is there, or when the thread
\* has been told to exit.
NoMissedReply ==
    \A c \in Clients : pc[c] = "blocked" => mContinue /\ mRespMap[rspId[c]] = 0

Waiting(c) == pc[c] \in {"reply", "blocked"}

Queued(c) == \E i \in 1 .. Len(mMsgQ) : mMsgQ[i].rspId = rspId[c] /\ mMsgQ[i].stamp = mine[c]
InHandler(c) == loop = "handling" /\ msg.rspId = rspId[c] /\ msg.stamp = mine[c]
Answered(c) == mRespMap[rspId[c]] = mine[c]

\* Until the thread exits, the request of a waiting sender is in exactly one
\* place: in the queue, with the handler, or answered in mRespMap.  It is never
\* lost and never handled twice.
RequestInOnePlace ==
    mContinue => \A c \in Clients : Waiting(c) =>
        /\ Queued(c) \/ InHandler(c) \/ Answered(c)
        /\ ~(Queued(c) /\ InHandler(c))
        /\ ~(Queued(c) /\ Answered(c))
        /\ ~(InHandler(c) /\ Answered(c))

\* Until the thread exits, mRespMap holds answers of senders that still wait for
\* them and nothing else (the destructor's check of mRespMap is commented out
\* because exit breaks this).
ResponseOwned ==
    mContinue => \A i \in RspIds : mRespMap[i] # 0 =>
        \E c \in Clients : Waiting(c) /\ rspId[c] = i /\ mine[c] = mRespMap[i]

\* A sendMsg that returned 0 returned the answer to its own request.
OwnAnswer ==
    \A c \in Clients : ~Waiting(c) /\ result[c] = "ok" => answer[c] = mine[c]

\* The assertion of ~MMMsgThread: once exit() has returned and nobody is inside
\* the object, the queue is empty.  A message accepted is a message handled.
DestructorAssert ==
    (ran /\ ~mContinue /\ \A c \in Clients : pc[c] = "idle") => mMsgQ = <<>>

-----------------------------------------------------------------------------
(* The detailed specification implements RequestReply.                     *)

PhaseOf == IF ~ran THEN "new" ELSE IF mContinue THEN "open" ELSE "closed"
RequestOf(c) ==
    IF ~Waiting(c) THEN "none" ELSE IF mRespMap[rspId[c]] = 0 THEN "asked" ELSE "served"

Abstract == INSTANCE RequestReply WITH
    phase   <- PhaseOf,
    request <- [c \in Clients |-> RequestOf(c)],
    outcome <- result

\* A caller of sendMsg sees nothing but the rendezvous of RequestReply: it gets
\* 0 only after its request was handled, and a failure only from an exiting
\* thread.
ImplementsRequestReply == Abstract!RRSpec

\* ... and is never left waiting in between.
ImplementsFairRequestReply == Abstract!RRFairSpec

-----------------------------------------------------------------------------
(* Liveness.                                                               *)

\* exit() returns: the loop notices the flag, drains the queue and ends.
ExitReturns == \A c \in Clients : pc[c] = "join" ~> pc[c] = "idle"

\* Every message accepted is handled, whatever its delay, whether or not the
\* thread is told to exit meanwhile.
MessageHandled ==
    \A s \in 1 .. MaxMsgs :
        (\E i \in 1 .. Len(mMsgQ) : mMsgQ[i].stamp = s)
            ~> (\A i \in 1 .. Len(mMsgQ) : mMsgQ[i].stamp # s)

=============================================================================
