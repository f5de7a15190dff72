---------------------------- MODULE MediaFission ----------------------------
(***************************************************************************)
(* MediaFission (cow/src/components/media_fission.cc) as the recorders use  *)
(* it (recorder/pipeline_videorecorder.cc, pipeline_rtsprecorder.cc): what  *)
(* comes in is put into two queues; the downstream component of one (the    *)
(* encoder) reads for itself, to that of the other (the preview) a push     *)
(* thread writes.  What comes in is pulled by the message thread (master)   *)
(* or written by the source's thread.                                       *)
(*                                                                         *)
(* The message thread blocks in pushBuffer while a queue is full, with the  *)
(* commands behind it.  mState and the queues are used without a lock: an   *)
(* action is one operation on them.                                         *)
(*                                                                         *)
(* Source, encoder and preview are external: they deliver, read and accept  *)
(* when they like.  pending buffers of a queue's TrafficControl (low bar 1) *)
(* are the buffers in it.                                                   *)
(***************************************************************************)
EXTENDS Integers, Sequences, SequencesExt

CONSTANTS
    Capacity,           \* mBufferCapacity
    MaxFissionInput,    \* bounds
    MaxFissionCommands

ASSUME FissionAssumption ==
    Capacity \in Nat \ {0, 1} /\ MaxFissionInput \in Nat /\ MaxFissionCommands \in Nat

VARIABLES
    fission,        \* mState, mInputMaster, mPushThread, its mContinue and mSem; are mBufferQueues there?
    outQueues,      \* mBufferQueues: what is in them, may pushBuffer wait?
    fissionMsgs,    \* commands posted, and handleInputBuffer messages posted
    fissionHandler, \* the message thread: its place, the buffer it distributes and to which queue
    pushThread,     \* the push thread: its place and its buffer
    encoder,        \* the encoder's FissionReader::read: the same
    fissionSeen     \* history and bounds

fissionVars == <<fission, outQueues, fissionMsgs, fissionHandler, pushThread, encoder, fissionSeen>>

EncoderQueue == 1
PreviewQueue == 2
OutQueues == {EncoderQueue, PreviewQueue}

FissionOps == {"prepare", "start", "pause", "resume", "stop", "reset"}

NoBuf == 0

FissionTypeOK ==
    /\ fission \in [state : {"null", "prepared", "paused", "playing", "stopping", "stopped"},
                    master : BOOLEAN, thread : BOOLEAN, continue : BOOLEAN, sem : Nat, queues : BOOLEAN]
    /\ \A q \in OutQueues : outQueues[q] \in [list : Seq(1 .. MaxFissionInput), escape : BOOLEAN]
    /\ fissionMsgs.commands \in Seq(FissionOps) /\ fissionMsgs.inputs \in Nat
    /\ fissionHandler.at \in {"idle", "push", "full", "join", "clear"}
    /\ fissionHandler.buf \in 0 .. MaxFissionInput /\ fissionHandler.queue \in OutQueues
    /\ pushThread.at \in {"top", "state", "sem", "front", "write", "pop", "over"}
    /\ encoder.at \in {"out", "front", "pop"}

(* The pipeline has been built: addSource, addSink, getReader.             *)
FissionInit ==
    /\ \E master \in BOOLEAN :
         fission = [state |-> "null", master |-> master, thread |-> TRUE, continue |-> TRUE,
                    sem |-> 0, queues |-> TRUE]
    /\ outQueues = [q \in OutQueues |-> [list |-> <<>>, escape |-> FALSE]]
    /\ fissionMsgs = [commands |-> <<>>, inputs |-> 0]
    /\ fissionHandler = [at |-> "idle", op |-> "none", buf |-> NoBuf, queue |-> EncoderQueue]
    /\ pushThread = [at |-> "top", buf |-> NoBuf]
    /\ encoder = [at |-> "out", buf |-> NoBuf]
    /\ fissionSeen = [asked |-> "none", last |-> "none", commands |-> 0, inputs |-> 0,
                      got |-> [q \in OutQueues |-> <<>>], undefined |-> FALSE]

-----------------------------------------------------------------------------
IsFull(q) == Len(outQueues[q].list) >= Capacity

Pushed(q, buf) == [outQueues EXCEPT ![q].list = Append(@, buf)]

IsRunning == fission.state \in {"prepared", "playing"}

AnsweredFission(op) == [fissionSeen EXCEPT !.asked = "none", !.last = op]

IdleFission == [at |-> "idle", op |-> "none", buf |-> NoBuf, queue |-> EncoderQueue]

-----------------------------------------------------------------------------
(* The recorder's commands, one at a time: the pipeline waits for the       *)
(* answer of each, except that a stop may follow a pause or a resume that    *)
(* nobody has answered.                                                     *)
NextOps(last) ==
    CASE last = "none"    -> {"prepare"}
      [] last = "prepare" -> {"start", "stop"}
      [] last \in {"start", "resume"} -> {"pause", "stop"}
      [] last = "pause"   -> {"resume", "stop"}
      [] last = "stop"    -> {"reset"}
      [] OTHER            -> {}

FissionCommand(op) ==
    /\ op # "stop"
    /\ fissionSeen.asked = "none" /\ op \in NextOps(fissionSeen.last)
    /\ fissionSeen.commands < MaxFissionCommands
    /\ fissionMsgs' = [fissionMsgs EXCEPT !.commands = Append(@, op)]
    /\ fissionSeen' = [fissionSeen EXCEPT !.asked = op, !.commands = @ + 1]
    /\ UNCHANGED <<fission, outQueues, fissionHandler, pushThread, encoder>>

(* stop() posts, and then lets pushBuffer go on for good.                  *)
FissionStop ==
    /\ \/ fissionSeen.asked = "none" /\ "stop" \in NextOps(fissionSeen.last)
       \/ fissionSeen.asked \in {"pause", "resume"}
    /\ fissionMsgs' = [fissionMsgs EXCEPT !.commands = Append(@, "stop")]
    /\ outQueues' = [q \in OutQueues |-> [outQueues[q] EXCEPT !.escape = TRUE]]
    /\ fissionSeen' = [fissionSeen EXCEPT !.asked = "stop"]
    /\ UNCHANGED <<fission, fissionHandler, pushThread, encoder>>

TakesFission(op) ==
    /\ fissionHandler.at = "idle" /\ fissionMsgs.commands # <<>> /\ Head(fissionMsgs.commands) = op

OnFissionPrepare ==
    /\ TakesFission("prepare")
    /\ fission' = [fission EXCEPT !.state = "prepared"]
    /\ fissionMsgs' = [fissionMsgs EXCEPT !.commands = Tail(@)]
    /\ fissionSeen' = AnsweredFission("prepare")
    /\ UNCHANGED <<outQueues, fissionHandler, pushThread, encoder>>

OnFissionStart ==
    /\ TakesFission("start")
    /\ fission' = [fission EXCEPT !.state = "playing", !.sem = @ + 1]
    /\ fissionMsgs' = [commands |-> Tail(fissionMsgs.commands),
                       inputs |-> fissionMsgs.inputs + (IF fission.master THEN 1 ELSE 0)]
    /\ fissionSeen' = AnsweredFission("start")
    /\ UNCHANGED <<outQueues, fissionHandler, pushThread, encoder>>

(* onPause answers twice, with an error first, when it is not playing.     *)
OnFissionPause ==
    /\ TakesFission("pause")
    /\ fission' = [fission EXCEPT !.state = "paused"]
    /\ fissionMsgs' = [fissionMsgs EXCEPT !.commands = Tail(@)]
    /\ fissionSeen' = IF fissionSeen.asked = "pause" THEN AnsweredFission("pause") ELSE fissionSeen
    /\ UNCHANGED <<outQueues, fissionHandler, pushThread, encoder>>

(* onResume does not post handleInputBuffer.                               *)
OnFissionResume ==
    /\ TakesFission("resume")
    /\ fission' = [fission EXCEPT !.state = "playing", !.sem = @ + 1]
    /\ fissionMsgs' = [fissionMsgs EXCEPT !.commands = Tail(@)]
    /\ fissionSeen' = IF fissionSeen.asked = "resume" THEN AnsweredFission("resume") ELSE fissionSeen
    /\ UNCHANGED <<outQueues, fissionHandler, pushThread, encoder>>

(* onStop, and onReset, which is onStop and another event.                 *)
OnFissionStop(op) ==
    /\ op \in {"stop", "reset"}
    /\ TakesFission(op)
    /\ fissionMsgs' = [fissionMsgs EXCEPT !.commands = Tail(@)]
    /\ IF fission.state = "stopped"
       THEN /\ fissionSeen' = AnsweredFission(op)
            /\ UNCHANGED <<fission, fissionHandler>>
       ELSE /\ fission' = [fission EXCEPT !.state = "stopping", !.continue = FALSE, !.sem = @ + 1]
            /\ fissionHandler' = [fissionHandler EXCEPT !.at = "join", !.op = op]
            /\ UNCHANGED fissionSeen
    /\ UNCHANGED <<outQueues, pushThread, encoder>>

FissionJoined ==
    /\ fissionHandler.at = "join" /\ pushThread.at = "over"
    /\ fission' = [fission EXCEPT !.thread = FALSE]
    /\ fissionHandler' = [fissionHandler EXCEPT !.at = "clear"]
    /\ UNCHANGED <<outQueues, fissionMsgs, pushThread, encoder, fissionSeen>>

(* clearInternalBuffers, mBufferQueues.clear() and the rest.               *)
FissionCleared ==
    /\ fissionHandler.at = "clear"
    /\ outQueues' = [q \in OutQueues |-> [outQueues[q] EXCEPT !.list = <<>>]]
    /\ fission' = [fission EXCEPT !.queues = FALSE, !.state = "stopped"]
    /\ fissionSeen' = AnsweredFission(fissionHandler.op)
    /\ fissionHandler' = IdleFission
    /\ UNCHANGED <<fissionMsgs, pushThread, encoder>>

-----------------------------------------------------------------------------
(* onHandleInputBuffer.  The messages carry a delay: commands overtake them.*)
HandleInput ==
    /\ fissionHandler.at = "idle" /\ fissionMsgs.inputs > 0
    /\ \/ /\ ~IsRunning
          /\ fissionMsgs' = [fissionMsgs EXCEPT !.inputs = @ - 1]
          /\ UNCHANGED <<fissionHandler, fissionSeen>>
       \/ /\ IsRunning /\ fissionSeen.inputs < MaxFissionInput
          /\ fissionMsgs' = [fissionMsgs EXCEPT !.inputs = @ - 1]
          /\ fissionSeen' = [fissionSeen EXCEPT !.inputs = @ + 1]
          /\ fissionHandler' = [at |-> "push", op |-> "none", buf |-> fissionSeen.inputs + 1,
                                queue |-> EncoderQueue]
    /\ UNCHANGED <<fission, outQueues, pushThread, encoder>>

(* After the last queue the next message is posted.                        *)
PushedTo(q) ==
    /\ outQueues' = Pushed(q, fissionHandler.buf)
    /\ IF q = PreviewQueue
       THEN /\ fissionHandler' = IdleFission
            /\ fissionMsgs' = [fissionMsgs EXCEPT !.inputs = @ + 1]
       ELSE /\ fissionHandler' = [fissionHandler EXCEPT !.at = "push", !.queue = q + 1]
            /\ UNCHANGED fissionMsgs

(* pushBuffer: waitOnFull, up to its wait, and the push.                   *)
PushBuffer ==
    /\ fissionHandler.at = "push"
    /\ LET q == fissionHandler.queue
       IN IF IsFull(q) /\ ~outQueues[q].escape
          THEN /\ fissionHandler' = [fissionHandler EXCEPT !.at = "full"]
               /\ UNCHANGED <<outQueues, fissionMsgs>>
          ELSE PushedTo(q)
    /\ UNCHANGED <<fission, pushThread, encoder, fissionSeen>>

PushWoken ==
    /\ fissionHandler.at = "full"
    /\ Len(outQueues[fissionHandler.queue].list) <= 1 \/ outQueues[fissionHandler.queue].escape
    /\ PushedTo(fissionHandler.queue)
    /\ UNCHANGED <<fission, pushThread, encoder, fissionSeen>>

(* FissionWriter::write, by the source; refused while a queue is full.     *)
FissionWrite ==
    /\ ~fission.master /\ fission.queues
    /\ fission.state # "null" /\ fissionSeen.inputs < MaxFissionInput
    /\ \A q \in OutQueues : ~IsFull(q)
    /\ LET buf == fissionSeen.inputs + 1
       IN outQueues' = [q \in OutQueues |-> [outQueues[q] EXCEPT !.list = Append(@, buf)]]
    /\ fissionSeen' = [fissionSeen EXCEPT !.inputs = @ + 1]
    /\ UNCHANGED <<fission, fissionMsgs, fissionHandler, pushThread, encoder>>

-----------------------------------------------------------------------------
(* The push thread.                                                        *)
PushGoesTo(at) == pushThread' = [pushThread EXCEPT !.at = at]

PushTop ==
    /\ pushThread.at = "top"
    /\ PushGoesTo(IF fission.continue THEN "state" ELSE "over")
    /\ UNCHANGED <<fission, outQueues, fissionMsgs, fissionHandler, encoder, fissionSeen>>

PushState ==
    /\ pushThread.at = "state"
    /\ PushGoesTo(IF fission.state = "playing" THEN "front" ELSE "sem")
    /\ UNCHANGED <<fission, outQueues, fissionMsgs, fissionHandler, encoder, fissionSeen>>

PushSemWait ==
    /\ pushThread.at = "sem" /\ fission.sem > 0
    /\ fission' = [fission EXCEPT !.sem = @ - 1]
    /\ PushGoesTo("top")
    /\ UNCHANGED <<outQueues, fissionMsgs, fissionHandler, encoder, fissionSeen>>

PushFront ==
    /\ pushThread.at = "front"
    /\ LET list == outQueues[PreviewQueue].list
       IN pushThread' = IF list = <<>> THEN [pushThread EXCEPT !.at = "top"]
                        ELSE [at |-> "write", buf |-> Head(list)]
    /\ UNCHANGED <<fission, outQueues, fissionMsgs, fissionHandler, encoder, fissionSeen>>

PushWrite_AlwaysPops ==
    /\ pushThread.at = "write"
    /\ PushGoesTo("pop")
    /\ \/ fissionSeen' = [fissionSeen EXCEPT !.got[PreviewQueue] = Append(@, pushThread.buf)]
       \/ UNCHANGED fissionSeen
    /\ UNCHANGED <<fission, outQueues, fissionMsgs, fissionHandler, encoder>>

(* The preview takes the buffer, or not: then it is offered again.         *)
PushWrite ==
    /\ pushThread.at = "write"
    /\ \/ /\ PushGoesTo("pop")
          /\ fissionSeen' = [fissionSeen EXCEPT !.got[PreviewQueue] = Append(@, pushThread.buf)]
       \/ /\ PushGoesTo("top")
          /\ UNCHANGED fissionSeen
    /\ UNCHANGED <<fission, outQueues, fissionMsgs, fissionHandler, encoder>>

PushPop ==
    /\ pushThread.at = "pop"
    /\ outQueues' = [outQueues EXCEPT ![PreviewQueue].list = Tail(@)]
    /\ PushGoesTo("top")
    /\ UNCHANGED <<fission, fissionMsgs, fissionHandler, encoder, fissionSeen>>

(* The encoder's read: isRunning, frontBuffer, popBuffer.  Once onStop has  *)
(* cleared what it holds, it is undefined, and the model ends there.        *)
EncoderReads ==
    /\ encoder.at = "out" /\ IsRunning
    /\ encoder' = [encoder EXCEPT !.at = "front"]
    /\ UNCHANGED <<fission, outQueues, fissionMsgs, fissionHandler, pushThread, fissionSeen>>

EncoderFront ==
    /\ encoder.at = "front"
    /\ LET list == outQueues[EncoderQueue].list
       IN encoder' = IF list = <<>> THEN [encoder EXCEPT !.at = "out"]
                     ELSE [at |-> "pop", buf |-> Head(list)]
    /\ fissionSeen' = [fissionSeen EXCEPT !.undefined = ~fission.queues]
    /\ UNCHANGED <<fission, outQueues, fissionMsgs, fissionHandler, pushThread>>

EncoderPop ==
    /\ encoder.at = "pop"
    /\ encoder' = [encoder EXCEPT !.at = "out"]
    /\ LET lost == outQueues[EncoderQueue].list = <<>>
       IN /\ outQueues' = IF lost THEN outQueues ELSE [outQueues EXCEPT ![EncoderQueue].list = Tail(@)]
          /\ fissionSeen' = [fissionSeen EXCEPT !.got[EncoderQueue] = Append(@, encoder.buf),
                                                !.undefined = lost]
    /\ UNCHANGED <<fission, fissionMsgs, fissionHandler, pushThread>>

-----------------------------------------------------------------------------
FissionThread ==
    \/ OnFissionPrepare \/ OnFissionStart \/ OnFissionPause \/ OnFissionResume
    \/ \E op \in {"stop", "reset"} : OnFissionStop(op)
    \/ FissionJoined \/ FissionCleared
    \/ PushBuffer \/ PushWoken

PushThread == PushTop \/ PushState \/ PushSemWait \/ PushFront \/ PushWrite \/ PushPop

FissionNext ==
    /\ ~fissionSeen.undefined
    /\ \/ \E op \in FissionOps : FissionCommand(op)
       \/ FissionStop \/ FissionThread \/ HandleInput \/ FissionWrite
       \/ PushThread \/ EncoderReads \/ EncoderFront \/ EncoderPop

FissionSpec == FissionInit /\ [][FissionNext]_fissionVars

(* Its own threads run; commands overtake the delayed input messages.      *)
FissionFairSpec ==
    /\ FissionSpec
    /\ WF_fissionVars(FissionNext /\ FissionThread)
    /\ WF_fissionVars(FissionNext /\ PushThread)

-----------------------------------------------------------------------------
(* Each consumer gets what came in: in order, nothing twice and nothing     *)
(* left out, however often the preview refuses a buffer, and whatever is    *)
(* pushed while it is written and only then removed.                        *)
FissionInOrder ==
    \A q \in OutQueues : \A i \in DOMAIN fissionSeen.got[q] : fissionSeen.got[q][i] = i

(* The push thread looks at mState without a lock and then sleeps: no       *)
(* start, resume or exit is slept through.                                  *)
PushThreadWakes ==
    pushThread.at = "sem" /\ fission.sem = 0 => fission.state # "playing" /\ fission.continue

(* Every stop and every reset is answered, although the message thread may  *)
(* be waiting for a consumer that has stopped reading, or the push thread   *)
(* be asleep.                                                               *)
FissionStopAnswered ==
    fissionSeen.asked \in {"stop", "reset"} ~>
        fissionSeen.asked \notin {"stop", "reset"} \/ fissionSeen.undefined

(* component.h says of resume: "symmetrical to pause, usually update the    *)
(* status and uncork the data flow".  Violated: see README.                 *)
ResumeUncorksInput ==
    fissionSeen.asked = "none" /\ fissionSeen.last = "resume" /\ fission.master =>
        fissionMsgs.inputs > 0 \/ fissionHandler.buf # NoBuf

=============================================================================
