----------------------------- MODULE AudioSink -----------------------------
(***************************************************************************)
(* AudioSinkPulse (cow/src/components/audio_sink_pulse.cc): a message      *)
(* thread that executes the pipeline's commands and queues the buffers of   *)
(* the decoder, and an output thread that writes them to PulseAudio.        *)
(*                                                                         *)
(* Three locks' worth of sections: those under the lock of PulseAudio's     *)
(* main loop, which pa_threaded_mainloop_wait gives up while an operation   *)
(* (cork, flush, drain) runs; those under mLock; and accesses to mIsPaused  *)
(* and a signal under neither.  The output thread looks at mIsPaused and    *)
(* goes to sleep in two steps: "toWait" is the moment in between, in which  *)
(* it holds mLock.                                                          *)
(*                                                                         *)
(* PulseAudio is external: a stream of Room units that plays what is        *)
(* written unless corked, whose drain ends when nothing is left to play.    *)
(***************************************************************************)
EXTENDS Clock, Sequences, SequencesExt

CONSTANTS
    Room,           \* units the stream takes: mPAWriteableSize when empty
    Size,           \* units of a buffer
    PAMayFail,      \* may PulseAudio's operations fail?
    MaxSinkCommands, MaxSinkWrites      \* bounds

ASSUME SinkAssumption ==
    /\ Room \in Nat \ {0} /\ Size \in Nat \ {0}
    /\ PAMayFail \in BOOLEAN
    /\ MaxSinkCommands \in Nat /\ MaxSinkWrites \in Nat

VARIABLES
    sink,           \* mIsPaused, mState, mIsDraining, mOutputThread, mContinue, mScaledPlayRate
    sinkMsgs,       \* the queue of the message thread
    handler,        \* the handler it runs and the section it has reached
    sourceBufs,     \* mAvailableSourceBuffers
    out,            \* the output thread
    stream,         \* PulseAudio's stream
    sinkSeen        \* history: what the application and the device have seen

sinkVars == <<sink, sinkMsgs, handler, sourceBufs, out, stream, sinkSeen, clock, now>>

SinkOps == {"prepare", "start", "resume", "pause", "stop", "flush", "seek", "reset"}

NoBuffer == [id |-> 0, size |-> 0, eos |-> FALSE]

Buffers == [id : 1 .. MaxSinkWrites, size : {0, Size}, eos : BOOLEAN]

Idle == [op |-> "none", step |-> "none"]

SinkTypeOK ==
    /\ sink \in [paused : BOOLEAN, state : {"idle", "prepared", "started", "paused", "stopped"},
                 draining : BOOLEAN, thread : BOOLEAN, continue : BOOLEAN]
    /\ \A i \in DOMAIN sinkMsgs : sinkMsgs[i] \in [op : SinkOps \cup {"write"}, buf : Buffers \cup {NoBuffer}]
    /\ handler.op \in SinkOps \cup {"none"}
    /\ handler.step \in {"none", "join", "joined", "uncork", "cork", "flush", "clear"}
    /\ \A i \in DOMAIN sourceBufs : sourceBufs[i] \in Buffers
    /\ out.at \in {"over", "top", "toWait", "asleep", "took", "write",
                   "full", "fullWoken", "eos", "drain", "pop"}
    /\ out.cur \in Buffers \cup {NoBuffer}
    /\ out.left \in 0 .. Size
    /\ out.room \in 0 .. Room
    /\ stream \in [filled : 0 .. Room, corked : BOOLEAN, callbacks : BOOLEAN]
    /\ clock \in ClockStates

SinkInit ==
    /\ sink = [paused |-> TRUE, state |-> "idle", draining |-> FALSE,
               thread |-> FALSE, continue |-> FALSE]
    /\ sinkMsgs = <<>>
    /\ handler = Idle
    /\ sourceBufs = <<>>
    /\ out = [at |-> "over", cur |-> NoBuffer, left |-> 0, room |-> 0]
    /\ stream = [filled |-> 0, corked |-> FALSE, callbacks |-> FALSE]
    /\ sinkSeen = [asked |-> "none", last |-> "none", commands |-> 0, writes |-> 0,
                   played |-> <<>>, flushes |-> 0, wrongPops |-> 0, stale |-> 0, poppedEmpty |-> FALSE,
                   flushedUpTo |-> 0]
    /\ clock = NewClock
    /\ now = 0

-----------------------------------------------------------------------------
(* mLock is free for everyone but an output thread about to wait.          *)
LockFree == out.at # "toWait"

(* mCondition.signal(): only the output thread waits on it.                *)
Signalled(o) ==
    CASE o.at = "asleep" -> [o EXCEPT !.at = "top"]
      [] o.at = "full"   -> [o EXCEPT !.at = "fullWoken"]
      [] OTHER           -> o

(* The end of a handler: its event (or kEventError) is sent.               *)
Answered(result) ==
    /\ handler' = Idle
    /\ sinkSeen' = [sinkSeen EXCEPT !.asked = "none", !.last = result]

Continues(step) == handler' = [handler EXCEPT !.step = step]

OpFails == PAMayFail /\ Answered("error")

-----------------------------------------------------------------------------
(* The pipeline: a command when the former one is answered; every order it  *)
(* may use (start after stop, a flush or a seek in any state), but no       *)
(* command before prepare; it pauses and resumes what was started.          *)
Legal(op) ==
    CASE op = "prepare" -> sink.state \in {"idle", "stopped"}
      [] op = "reset"   -> sink.state # "idle"
      [] op \in {"pause", "resume"} ->
            sink.state \in {"prepared", "started", "paused"} /\ sink.thread
      [] OTHER -> sink.state # "idle"

SinkCommand(op) ==
    /\ sinkSeen.asked = "none"
    /\ sinkSeen.last # "error"
    /\ sinkSeen.commands < MaxSinkCommands
    /\ Legal(op)
    /\ sinkMsgs' = Append(sinkMsgs, [op |-> op, buf |-> NoBuffer])
    /\ sinkSeen' = [sinkSeen EXCEPT !.asked = op, !.commands = @ + 1]
    /\ UNCHANGED <<sink, handler, sourceBufs, out, stream, clockVars>>

(* AudioSinkWriter::write, on the decoder's thread.                        *)
SinkWrite(size, eos) ==
    /\ sinkSeen.writes < MaxSinkWrites
    /\ sink.state # "idle"
    /\ LET buf == [id |-> sinkSeen.writes + 1, size |-> size, eos |-> eos]
       IN sinkMsgs' = Append(sinkMsgs, [op |-> "write", buf |-> buf])
    /\ sinkSeen' = [sinkSeen EXCEPT !.writes = @ + 1]
    /\ UNCHANGED <<sink, handler, sourceBufs, out, stream, clockVars>>

Takes(op) == handler = Idle /\ sinkMsgs # <<>> /\ Head(sinkMsgs).op = op

(* onWrite.                                                                *)
OnWrite ==
    /\ Takes("write")
    /\ LockFree
    /\ sourceBufs' = Append(sourceBufs, Head(sinkMsgs).buf)
    /\ out' = Signalled(out)
    /\ sinkMsgs' = Tail(sinkMsgs)
    /\ UNCHANGED <<sink, handler, stream, sinkSeen, clockVars>>

(* onPrepare: a new context and a new stream, which plays (it is not        *)
(* created corked).                                                         *)
OnPrepare ==
    /\ Takes("prepare")
    /\ sinkMsgs' = Tail(sinkMsgs)
    /\ \/ /\ sink' = [sink EXCEPT !.state = "prepared"]
          /\ stream' = [filled |-> 0, corked |-> FALSE, callbacks |-> TRUE]
          /\ Answered("prepare")
       \/ OpFails /\ UNCHANGED <<sink, stream>>
    /\ out' = [out EXCEPT !.room = 0]
    /\ UNCHANGED <<sourceBufs, clockVars>>

(* onStart and onResume, up to the wait for the cork operation.            *)
OnStart(op) ==
    /\ op \in {"start", "resume"}
    /\ Takes(op)
    /\ sinkMsgs' = Tail(sinkMsgs)
    /\ LET create == op = "start" /\ ~sink.thread
       IN /\ sink' = IF create THEN [sink EXCEPT !.thread = TRUE, !.continue = TRUE] ELSE sink
          /\ out' = IF create THEN [out EXCEPT !.at = "top", !.cur = NoBuffer] ELSE out
    /\ IF ~sink.paused \/ sink.draining
       THEN Answered(op)
       ELSE handler' = [op |-> op, step |-> "uncork"] /\ UNCHANGED sinkSeen
    /\ UNCHANGED <<sourceBufs, stream, clockVars>>

(* The rest of resumeInternal; signalContinue signals without mLock.       *)
Uncorked ==
    /\ handler.step = "uncork"
    /\ \/ /\ stream' = [stream EXCEPT !.corked = FALSE]
          /\ clock' = ClockResumed(clock, now)
          /\ sink' = [sink EXCEPT !.paused = FALSE, !.state = "started"]
          /\ out' = Signalled(out)
          /\ Answered(handler.op)
       \/ OpFails /\ UNCHANGED <<stream, clock, sink, out>>
    /\ UNCHANGED <<sinkMsgs, sourceBufs, now>>

OnPause ==
    /\ Takes("pause")
    /\ sinkMsgs' = Tail(sinkMsgs)
    /\ sink' = [sink EXCEPT !.paused = TRUE]
    /\ IF sink.state = "paused" \/ sink.draining
       THEN Answered("pause")
       ELSE handler' = [op |-> "pause", step |-> "cork"] /\ UNCHANGED sinkSeen
    /\ UNCHANGED <<sourceBufs, out, stream, clockVars>>

Corked_ClockRuns ==
    /\ handler = [op |-> "pause", step |-> "cork"]
    /\ \/ /\ stream' = [stream EXCEPT !.corked = TRUE]
          /\ sink' = [sink EXCEPT !.state = "paused"]
          /\ Answered("pause")
       \/ OpFails /\ UNCHANGED <<stream, sink>>
    /\ UNCHANGED <<sinkMsgs, sourceBufs, out, clockVars>>

Corked ==
    /\ handler = [op |-> "pause", step |-> "cork"]
    /\ \/ /\ stream' = [stream EXCEPT !.corked = TRUE]
          /\ clock' = ClockPaused(clock, now)
          /\ sink' = [sink EXCEPT !.state = "paused"]
          /\ Answered("pause")
       \/ OpFails /\ UNCHANGED <<stream, clock, sink>>
    /\ UNCHANGED <<sinkMsgs, sourceBufs, out, now>>

(* onFlush and onSeek: the stream, then the clock, then, under the other    *)
(* lock, the queue.                                                         *)
OnFlush(op) ==
    /\ op \in {"flush", "seek"}
    /\ Takes(op)
    /\ sinkMsgs' = Tail(sinkMsgs)
    /\ handler' = [op |-> op, step |-> "flush"]
    /\ UNCHANGED <<sink, sourceBufs, out, stream, sinkSeen, clockVars>>

Flushed ==
    /\ handler.op \in {"flush", "seek"} /\ handler.step = "flush"
    /\ \/ /\ stream' = [stream EXCEPT !.filled = 0]
          /\ clock' = ClockFlushed(clock)
          /\ Continues("clear")
          /\ UNCHANGED sinkSeen
       \/ OpFails /\ UNCHANGED <<stream, clock>>
    /\ UNCHANGED <<sink, sinkMsgs, sourceBufs, out, now>>

(* clearSourceBuffers and the event.                                       *)
Cleared ==
    /\ handler.op \in {"flush", "seek"} /\ handler.step = "clear"
    /\ LockFree
    /\ sourceBufs' = <<>>
    /\ handler' = Idle
    /\ sinkSeen' = [sinkSeen EXCEPT !.asked = "none", !.last = handler.op, !.flushes = @ + 1,
                                    !.flushedUpTo = sinkSeen.writes - Len(sinkMsgs)]
    /\ UNCHANGED <<sink, sinkMsgs, out, stream, clockVars>>

OnStop_NoSignal(op) ==
    /\ op \in {"stop", "reset"}
    /\ Takes(op)
    /\ LockFree
    /\ sinkMsgs' = Tail(sinkMsgs)
    /\ handler' = [op |-> op, step |-> IF sink.thread THEN "join" ELSE "joined"]
    /\ sink' = [sink EXCEPT !.paused = TRUE, !.continue = FALSE]
    /\ UNCHANGED <<sourceBufs, out, stream, sinkSeen, clockVars>>

(* onStop and onReset: signalExit, and the join of the output thread.      *)
OnStop(op) ==
    /\ op \in {"stop", "reset"}
    /\ Takes(op)
    /\ LockFree
    /\ sinkMsgs' = Tail(sinkMsgs)
    /\ handler' = [op |-> op, step |-> IF sink.thread THEN "join" ELSE "joined"]
    /\ sink' = [sink EXCEPT !.paused = TRUE, !.continue = FALSE]
    /\ out' = IF sink.thread THEN Signalled(out) ELSE out
    /\ UNCHANGED <<sourceBufs, stream, sinkSeen, clockVars>>

SinkJoined ==
    /\ handler.step = "join"
    /\ out.at = "over"
    /\ sink' = [sink EXCEPT !.thread = FALSE]
    /\ Continues("joined")
    /\ UNCHANGED <<sinkMsgs, sourceBufs, out, stream, sinkSeen, clockVars>>

(* Then, when it was started, the stream is flushed and corked ...         *)
StopFlushed ==
    /\ handler.step = "joined" /\ sink.state = "started" /\ ~sink.draining
    /\ \/ /\ stream' = [stream EXCEPT !.filled = 0]
          /\ clock' = IF handler.op = "reset" THEN ClockFlushed(clock) ELSE clock
          /\ Continues("cork")
          /\ UNCHANGED sinkSeen
       \/ OpFails /\ UNCHANGED <<stream, clock>>
    /\ UNCHANGED <<sink, sinkMsgs, sourceBufs, out, now>>

(* ... and the callbacks are cleared; reset also clears the queue and       *)
(* releases the stream.  A cork that fails leaves all this undone.          *)
StopEnds ==
    /\ \/ handler.op = "stop" /\ handler.step = "cork"
       \/ handler.op = "stop" /\ handler.step = "joined" /\ sink.state # "started"
       \/ handler.op = "reset" /\ handler.step = "cork"
       \/ handler.op = "reset" /\ handler.step = "joined" /\ sink.state # "started"
    /\ LET off == [stream EXCEPT !.corked = @ \/ handler.step = "cork", !.callbacks = FALSE]
       IN \/ /\ handler.op = "stop"
             /\ sink' = [sink EXCEPT !.state = IF @ = "idle" THEN @ ELSE "stopped"]
             /\ stream' = IF sink.state \in {"idle", "stopped"} THEN stream ELSE off
             /\ UNCHANGED sourceBufs
             /\ Answered("stop")
          \/ /\ handler.op = "reset"
             /\ sink' = [sink EXCEPT !.state = "idle"]
             /\ stream' = [off EXCEPT !.filled = 0]
             /\ sourceBufs' = <<>>
             /\ Answered("reset")
          \/ handler.step = "cork" /\ OpFails /\ UNCHANGED <<sink, stream, sourceBufs>>
    /\ UNCHANGED <<sinkMsgs, out, clockVars>>

-----------------------------------------------------------------------------
(* The output thread: the top of its loop.                                 *)
OutTop ==
    /\ out.at = "top"
    /\ out' =
         IF ~sink.continue THEN [out EXCEPT !.at = "over"]
         ELSE IF sink.paused \/ sourceBufs = <<>>
              THEN [out EXCEPT !.at = "toWait", !.room = Room - stream.filled]
         ELSE [at |-> "took", cur |-> Head(sourceBufs), left |-> Head(sourceBufs).size,
               room |-> Room - stream.filled]
    /\ UNCHANGED <<sink, sinkMsgs, handler, sourceBufs, stream, sinkSeen, clockVars>>

OutWaits ==
    /\ out.at = "toWait"
    /\ out' = [out EXCEPT !.at = "asleep"]
    /\ UNCHANGED <<sink, sinkMsgs, handler, sourceBufs, stream, sinkSeen, clockVars>>

OutTook ==
    /\ out.at = "took"
    /\ out' = [out EXCEPT !.at = IF out.cur.size > 0 THEN "write"
                                ELSE IF out.cur.eos THEN "eos" ELSE "pop"]
    /\ UNCHANGED <<sink, sinkMsgs, handler, sourceBufs, stream, sinkSeen, clockVars>>

(* pa_stream_write of what fits, under the lock of the main loop.          *)
OutWrites ==
    /\ out.at = "write" /\ out.room > 0
    /\ LET n    == IF out.room < out.left THEN out.room ELSE out.left
           left == out.left - n
       IN /\ stream' = [stream EXCEPT !.filled = @ + n]
          /\ clock' = IF out.cur.eos THEN clock
                      ELSE Anchored(clock, out.cur.id, now + stream.filled, out.cur.id + n)
          /\ out' = [out EXCEPT !.left = left,
                                !.room = IF left > 0 THEN 0 ELSE @,
                                !.at = IF left > 0 THEN "write" ELSE IF out.cur.eos THEN "eos" ELSE "pop"]
          /\ sinkSeen' = IF left > 0 THEN sinkSeen
                         ELSE [sinkSeen EXCEPT
                                 !.played = Append(@, out.cur.id),
                                 !.stale = @ + (IF out.cur.id <= sinkSeen.flushedUpTo THEN 1 ELSE 0)]
    /\ UNCHANGED <<sink, sinkMsgs, handler, sourceBufs, now>>

(* No room: a wait without a look at anything before it.                   *)
OutWaitsForRoom ==
    /\ out.at = "write" /\ out.room = 0
    /\ out' = [out EXCEPT !.at = "full"]
    /\ UNCHANGED <<sink, sinkMsgs, handler, sourceBufs, stream, sinkSeen, clockVars>>

OutHasRoom_All ==
    /\ out.at = "fullWoken"
    /\ out' = IF ~sink.continue \/ sourceBufs = <<>> THEN [out EXCEPT !.at = "top"]
              ELSE [out EXCEPT !.at = "write", !.room = Room]
    /\ UNCHANGED <<sink, sinkMsgs, handler, sourceBufs, stream, sinkSeen, clockVars>>

OutHasRoom ==
    /\ out.at = "fullWoken"
    /\ out' = IF ~sink.continue \/ sourceBufs = <<>> THEN [out EXCEPT !.at = "top"]
              ELSE [out EXCEPT !.at = "write",
                               !.room = IF sink.paused THEN @ ELSE Room - stream.filled]
    /\ UNCHANGED <<sink, sinkMsgs, handler, sourceBufs, stream, sinkSeen, clockVars>>

(* streamDrain, up to its wait.                                            *)
OutDrains ==
    /\ out.at = "eos"
    /\ sink' = [sink EXCEPT !.draining = TRUE]
    /\ out' = [out EXCEPT !.at = "drain"]
    /\ UNCHANGED <<sinkMsgs, handler, sourceBufs, stream, sinkSeen, clockVars>>

(* The drain has ended (or is refused): the end of the stream is told.     *)
OutDrained ==
    /\ out.at = "drain"
    /\ stream.filled = 0 \/ PAMayFail
    /\ sink' = [sink EXCEPT !.draining = FALSE]
    /\ out' = [out EXCEPT !.at = "pop"]
    /\ UNCHANGED <<sinkMsgs, handler, sourceBufs, stream, sinkSeen, clockVars>>

OutPops_Not ==
    /\ out.at = "pop"
    /\ sourceBufs' = sourceBufs
    /\ out' = [out EXCEPT !.at = "top", !.cur = NoBuffer]
    /\ UNCHANGED <<sink, sinkMsgs, handler, stream, sinkSeen, clockVars>>

(* mAvailableSourceBuffers.pop(): whatever is at the front by now.  Of an   *)
(* empty queue it is undefined, and the model ends there (poppedEmpty).     *)
OutPops ==
    /\ out.at = "pop"
    /\ sourceBufs' = IF sourceBufs = <<>> THEN <<>> ELSE Tail(sourceBufs)
    /\ out' = [out EXCEPT !.at = "top", !.cur = NoBuffer]
    /\ sinkSeen' = [sinkSeen EXCEPT
                      !.wrongPops = @ + (IF sourceBufs # <<>> /\ Head(sourceBufs) # out.cur THEN 1 ELSE 0),
                      !.poppedEmpty = sourceBufs = <<>>]
    /\ UNCHANGED <<sink, sinkMsgs, handler, stream, clockVars>>

(* POSIX lets a wait end without a signal.                                 *)
OutSpurious ==
    /\ out.at \in {"asleep", "full"}
    /\ out' = Signalled(out)
    /\ UNCHANGED <<sink, sinkMsgs, handler, sourceBufs, stream, sinkSeen, clockVars>>

(* The device plays a unit and asks for more (streamWriteCallback).        *)
DevicePlays ==
    /\ ~stream.corked /\ stream.filled > 0
    /\ LockFree
    /\ stream' = [stream EXCEPT !.filled = @ - 1]
    /\ out' = IF stream.callbacks /\ ~sink.paused /\ sourceBufs # <<>> THEN Signalled(out) ELSE out
    /\ UNCHANGED <<sink, sinkMsgs, handler, sourceBufs, sinkSeen, clockVars>>

-----------------------------------------------------------------------------
MessageThread ==
    \/ OnWrite \/ OnPrepare
    \/ \E op \in SinkOps : OnStart(op) \/ OnFlush(op) \/ OnStop(op)
    \/ Uncorked \/ OnPause \/ Corked \/ Flushed \/ Cleared
    \/ SinkJoined \/ StopFlushed \/ StopEnds

OutputThread ==
    \/ OutTop \/ OutWaits \/ OutTook \/ OutWrites \/ OutWaitsForRoom \/ OutHasRoom
    \/ OutDrains \/ OutDrained \/ OutPops

SinkNext ==
    /\ ~sinkSeen.poppedEmpty
    /\ \/ \E op \in SinkOps : SinkCommand(op)
       \/ \E size \in {0, Size}, eos \in BOOLEAN : SinkWrite(size, eos)
       \/ MessageThread \/ OutputThread \/ OutSpurious \/ DevicePlays

SinkSpec == SinkInit /\ [][SinkNext]_sinkVars

SinkFairSpec ==
    /\ SinkSpec
    /\ SF_sinkVars(SinkNext /\ MessageThread)
    /\ WF_sinkVars(SinkNext /\ OutputThread)
    /\ WF_sinkVars(SinkNext /\ DevicePlays)

-----------------------------------------------------------------------------
(* What the device is given are the buffers the decoder wrote, in their     *)
(* order, none of them twice, although the front of the queue is written    *)
(* without the lock and removed later, with flushes, stops and restarts in  *)
(* between: a flush may leave the rest of one old buffer to be written, and *)
(* make one new buffer be removed in its place, but never more.             *)
OutputIntact ==
    /\ \A i, j \in DOMAIN sinkSeen.played : i < j => sinkSeen.played[i] < sinkSeen.played[j]
    /\ sinkSeen.stale <= sinkSeen.flushes
    /\ sinkSeen.wrongPops <= sinkSeen.flushes

(* Between commands the state that the sink believes in, PulseAudio's cork  *)
(* and the clock agree.                                                     *)
SinkClockStreamAgree ==
    handler = Idle /\ sinkSeen.last # "error" =>
        /\ sink.state = "started" => ~stream.corked /\ ~clock.paused
        /\ sink.state = "paused" => stream.corked /\ clock.paused /\ sink.paused
        /\ sink.state \in {"idle", "stopped"} => out.at = "over" /\ ~sink.thread

(* The two ways in which the output thread gets stuck for good: the drain   *)
(* of a stream that was corked after the thread had taken the last buffer,  *)
(* and the wait for room, begun just after the exit was signalled.          *)
DrainsCorked == out.at = "drain" /\ stream.corked /\ stream.filled > 0
MissedExit == out.at = "full" /\ ~sink.continue

(* Every command is answered, the join of the output thread in stop and     *)
(* reset included, unless the thread is stuck in one of these two ways.     *)
SinkAnswers ==
    sinkSeen.asked # "none" ~>
        (sinkSeen.asked = "none" \/ DrainsCorked \/ MissedExit \/ sinkSeen.poppedEmpty)

(* component.h says of stop that it "will done by send event                *)
(* kEventStopped".  Violated: see README.                                   *)
StopAnswered ==
    sinkSeen.asked = "stop" ~> (sinkSeen.asked # "stop" \/ sinkSeen.poppedEmpty)

(* component.h says of resume: "symmetrical to pause, usually update the    *)
(* status and uncork the data flow".  Violated: see README.                 *)
ResumeUncorks ==
    handler = Idle /\ sinkSeen.last = "resume" /\ sinkSeen.asked = "none" =>
        ~sink.paused /\ ~stream.corked

=============================================================================
