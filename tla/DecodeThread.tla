---------------------------- MODULE DecodeThread ----------------------------
(***************************************************************************)
(* The FFmpeg decoders (cow/src/components/video_decode_ffmpeg.cc and       *)
(* audio_decode_ffmpeg.cc): a message thread that executes the pipeline's   *)
(* commands, and a decode thread that holds mLock while it reads, decodes,  *)
(* writes to the sink and even while it waits until the sink has given      *)
(* buffers back.                                                            *)
(*                                                                         *)
(* That wait is TrafficControl's waitOnFull: its rules are those of the     *)
(* module TrafficControl, of one producer without a consumer's wait.  Every *)
(* start and resume makes a new monitor; buffers keep theirs.               *)
(*                                                                         *)
(* The source, the codec and the sink are external: the source returns a    *)
(* packet, the end of the stream or nothing; a packet gives up to MaxOfOne  *)
(* frames, and so does the drain at the end.  The sink takes what is        *)
(* written, or refuses it: for good, or with MM_ERROR_AGAIN as long as it   *)
(* likes (a refusal that ends is a write that comes later).                 *)
(***************************************************************************)
EXTENDS Integers, Sequences, SequencesExt

CONSTANTS
    DecodeLowBar, DecodeHighBar,        \* TrafficControlLowBar, TrafficControlHighBar
    MaxOfOne,                           \* frames of one packet
    SinkMayRefuse,                      \* may the sink's write fail?
    MaxDecodeCommands, MaxPackets       \* bounds

ASSUME DecodeAssumption ==
    /\ DecodeLowBar \in Nat /\ DecodeHighBar \in Nat \ {0} /\ DecodeLowBar < DecodeHighBar
    /\ MaxOfOne \in Nat /\ SinkMayRefuse \in BOOLEAN
    /\ MaxDecodeCommands \in Nat /\ MaxPackets \in Nat

VARIABLES
    decoder,        \* mIsPaused, mNeedFlush, mState, mAVCodec, mDecodeThread, mContinue; is it the audio decoder?
    decodeLoop,     \* the decode thread: its place, the frames still to come, at the end of the stream?
    monitors,       \* the TrafficControls made; the last one is mMonitorWrite
    codecHolds,     \* what the codec has been fed since it was last flushed: the number of the flush before it
    decodeMsgs,     \* the message thread's queue
    decodeHandler,  \* the command it executes, and is that waiting for the decode thread?
    decodeSeen      \* history and bounds

decodeVars == <<decoder, decodeLoop, monitors, codecHolds, decodeMsgs, decodeHandler, decodeSeen>>

DecodeOps == {"prepare", "start", "resume", "pause", "stop", "flush", "reset"}

Empty == -1

DecodeTypeOK ==
    /\ decoder \in [audio : BOOLEAN, paused : BOOLEAN, needFlush : BOOLEAN, codec : BOOLEAN,
                    thread : BOOLEAN, continue : BOOLEAN, monitor : BOOLEAN,
                    state : {"initialized", "prepared", "started", "stopped"}]
    /\ decodeLoop.at \in {"over", "top", "asleep", "decode", "full", "refused"}
    /\ decodeLoop.frames \in 0 .. MaxOfOne /\ decodeLoop.eos \in BOOLEAN
    /\ monitors \in Seq([pending : Nat, escape : BOOLEAN])
    /\ codecHolds \in {Empty} \cup 0 .. MaxDecodeCommands
    /\ decodeMsgs \in Seq(DecodeOps)
    /\ decodeHandler \in [op : DecodeOps \cup {"none"}, step : {"none", "lock", "join"}]

DecodeInit ==
    /\ \E audio \in BOOLEAN :
         decoder = [audio |-> audio, paused |-> TRUE, needFlush |-> FALSE, codec |-> FALSE,
                    thread |-> FALSE, continue |-> FALSE, monitor |-> FALSE, state |-> "initialized"]
    /\ decodeLoop = [at |-> "over", frames |-> 0, eos |-> FALSE]
    /\ monitors = <<>>
    /\ codecHolds = Empty
    /\ decodeMsgs = <<>>
    /\ decodeHandler = [op |-> "none", step |-> "none"]
    /\ decodeSeen = [asked |-> {}, last |-> "none", commands |-> 0, packets |-> 0, flushes |-> 0]

-----------------------------------------------------------------------------
(* Who holds mLock: the decode thread, from the top of its loop to the end  *)
(* of a packet, except in mCondition.wait().                                *)
DecodeLockFree == decodeLoop.at \in {"over", "top", "asleep"}

(* mCondition.signal(): only the decode thread waits.                      *)
SignalDecode(l) == IF l.at = "asleep" THEN [l EXCEPT !.at = "top"] ELSE l

(* mMonitorWrite->unblockWait(): sticky.                                   *)
Unblocked ==
    IF decoder.monitor THEN [monitors EXCEPT ![Len(monitors)].escape = TRUE] ELSE monitors

AnsweredDecode(op) ==
    /\ decodeSeen' = [decodeSeen EXCEPT !.asked = @ \ {op},
                                        !.last = IF op = "flush" THEN @ ELSE op,
                                        !.flushes = @ + (IF op = "flush" THEN 1 ELSE 0)]
    /\ decodeHandler' = [op |-> "none", step |-> "none"]

-----------------------------------------------------------------------------
(* The pipeline: one command at a time, in an order it may use; reset may   *)
(* also come before the last command was answered, when another component   *)
(* has failed it.  A flush comes in any state (a seek, or the return to the *)
(* normal rate) and leaves it; a seek while playing pauses and starts again.*)
Order(last) ==
    CASE last = "none"    -> {"prepare"}
      [] last = "prepare" -> {"start", "flush", "stop"}
      [] last \in {"start", "resume"} -> {"pause", "flush", "stop"}
      [] last = "pause"   -> {"resume", "start", "flush", "stop"}
      [] last = "stop"    -> {"start", "flush"}
      [] OTHER            -> {}

DecodeCommand(op) ==
    /\ decodeSeen.commands < MaxDecodeCommands
    /\ op # "reset"
    /\ decodeSeen.asked = {} /\ op \in Order(decodeSeen.last)
    /\ decodeMsgs' = Append(decodeMsgs, op)
    /\ decodeSeen' = [decodeSeen EXCEPT !.asked = {op}, !.commands = @ + 1]
    /\ UNCHANGED <<decoder, decodeLoop, monitors, codecHolds, decodeHandler>>

(* reset() pauses and unblocks on the caller's thread before it posts.     *)
DecodeReset ==
    /\ "reset" \notin decodeSeen.asked /\ decodeSeen.last \notin {"none", "reset"}
    /\ decoder' = [decoder EXCEPT !.paused = TRUE]
    /\ monitors' = Unblocked
    /\ decodeMsgs' = Append(decodeMsgs, "reset")
    /\ decodeSeen' = [decodeSeen EXCEPT !.asked = @ \cup {"reset"}]
    /\ UNCHANGED <<decodeLoop, codecHolds, decodeHandler>>

-----------------------------------------------------------------------------
TakesDecode(op) ==
    /\ decodeHandler.op = "none" /\ decodeMsgs # <<>> /\ Head(decodeMsgs) = op
    /\ decodeMsgs' = Tail(decodeMsgs)

(* onPrepare, onStart, onResume and onFlush take the lock at once.         *)
OnDecodePrepare ==
    /\ TakesDecode("prepare")
    /\ DecodeLockFree
    /\ decoder' = [decoder EXCEPT !.state = "prepared"]
    /\ AnsweredDecode("prepare")
    /\ UNCHANGED <<decodeLoop, monitors, codecHolds>>

OnDecodeStart ==
    /\ TakesDecode("start")
    /\ DecodeLockFree
    /\ decoder' = [decoder EXCEPT !.codec = TRUE, !.thread = TRUE, !.paused = FALSE, !.monitor = TRUE,
                                  !.continue = IF decoder.thread THEN @ ELSE TRUE, !.state = "started"]
    /\ decodeLoop' = IF decoder.thread THEN SignalDecode(decodeLoop) ELSE [decodeLoop EXCEPT !.at = "top"]
    /\ monitors' = Append(monitors, [pending |-> 0, escape |-> FALSE])
    /\ AnsweredDecode("start")
    /\ UNCHANGED codecHolds

OnDecodeResume ==
    /\ TakesDecode("resume")
    /\ DecodeLockFree
    /\ IF decoder.audio /\ decoder.state # "started"
       THEN UNCHANGED <<decoder, decodeLoop, monitors>>
       ELSE /\ decoder' = [decoder EXCEPT !.paused = FALSE]
            /\ decodeLoop' = SignalDecode(decodeLoop)
            /\ monitors' = Append(monitors, [pending |-> 0, escape |-> FALSE])
    /\ AnsweredDecode("resume")
    /\ UNCHANGED codecHolds

OnDecodeFlush_Lazy ==
    /\ TakesDecode("flush")
    /\ DecodeLockFree
    /\ AnsweredDecode("flush")
    /\ UNCHANGED <<decoder, decodeLoop, monitors, codecHolds>>

OnDecodeFlush ==
    /\ TakesDecode("flush")
    /\ DecodeLockFree
    /\ decoder' = [decoder EXCEPT !.needFlush = @ \/ ~decoder.audio \/ decoder.state = "started"]
    /\ AnsweredDecode("flush")
    /\ UNCHANGED <<decodeLoop, monitors, codecHolds>>

(* onPause, onStop and onReset first make the decode thread let go of the   *)
(* lock (onReset only when there is a thread) ...                           *)
Unblocks(op) ==
    /\ TakesDecode(op)
    /\ decoder' = [decoder EXCEPT !.paused = TRUE]
    /\ monitors' = IF op = "reset" /\ ~decoder.thread THEN monitors ELSE Unblocked
    /\ decodeHandler' = [op |-> op, step |-> "lock"]
    /\ UNCHANGED <<decodeLoop, codecHolds, decodeSeen>>

(* ... and then take it.                                                   *)
OnDecodePause ==
    /\ decodeHandler = [op |-> "pause", step |-> "lock"]
    /\ DecodeLockFree
    /\ AnsweredDecode("pause")
    /\ UNCHANGED <<decoder, decodeLoop, monitors, codecHolds, decodeMsgs>>

OnDecodeStop ==
    /\ decodeHandler = [op |-> "stop", step |-> "lock"]
    /\ DecodeLockFree
    /\ decoder' = [decoder EXCEPT !.needFlush = TRUE, !.codec = FALSE, !.state = "stopped"]
    /\ codecHolds' = Empty
    /\ AnsweredDecode("stop")
    /\ UNCHANGED <<decodeLoop, monitors, decodeMsgs>>

(* signalExit, and the join in the thread's destructor.                    *)
DecodeSignalExit ==
    /\ decodeHandler = [op |-> "reset", step |-> "lock"]
    /\ DecodeLockFree
    /\ decoder' = [decoder EXCEPT !.continue = FALSE]
    /\ decodeLoop' = SignalDecode(decodeLoop)
    /\ decodeHandler' = [decodeHandler EXCEPT !.step = "join"]
    /\ UNCHANGED <<monitors, codecHolds, decodeMsgs, decodeSeen>>

DecodeJoined ==
    /\ decodeHandler = [op |-> "reset", step |-> "join"]
    /\ decodeLoop.at = "over"
    /\ decoder' = [decoder EXCEPT !.thread = FALSE, !.monitor = FALSE]
    /\ AnsweredDecode("reset")
    /\ UNCHANGED <<decodeLoop, monitors, codecHolds, decodeMsgs>>

-----------------------------------------------------------------------------
(* The decode thread: the top of its loop, and the read: nothing, the end   *)
(* of the stream (the audio decoder pauses and passes that on at once, and  *)
(* its thread returns when the sink refuses it), or a packet, for which the *)
(* codec is flushed when that was asked.                                    *)
DecodeStops ==
    /\ decodeLoop.at = "top"
    /\ ~decoder.continue \/ decoder.paused
    /\ decodeLoop' = [decodeLoop EXCEPT !.at = IF decoder.continue THEN "asleep" ELSE "over"]
    /\ UNCHANGED <<decoder, monitors, codecHolds, decodeMsgs, decodeHandler, decodeSeen>>

MayRead == decodeLoop.at = "top" /\ decoder.continue /\ ~decoder.paused

ReadsEndOfAudio(refused) ==
    /\ MayRead /\ decoder.audio
    /\ refused => SinkMayRefuse
    /\ decodeSeen.packets < MaxPackets
    /\ decoder' = [decoder EXCEPT !.paused = TRUE]
    /\ decodeLoop' = IF refused THEN [decodeLoop EXCEPT !.at = "over"] ELSE decodeLoop
    /\ decodeSeen' = [decodeSeen EXCEPT !.packets = @ + 1]
    /\ UNCHANGED <<monitors, codecHolds, decodeMsgs, decodeHandler>>

ReadsPacket(frames, eos) ==
    /\ MayRead /\ ~(decoder.audio /\ eos)
    /\ decodeSeen.packets < MaxPackets
    /\ decodeLoop' = [at |-> "decode", frames |-> frames, eos |-> eos]
    /\ decoder' = [decoder EXCEPT !.needFlush = FALSE]
    /\ codecHolds' = IF eos THEN IF decoder.needFlush THEN Empty ELSE codecHolds
                     ELSE IF decoder.needFlush \/ codecHolds = Empty THEN decodeSeen.flushes ELSE codecHolds
    /\ decodeSeen' = [decodeSeen EXCEPT !.packets = @ + 1]
    /\ UNCHANGED <<monitors, decodeMsgs, decodeHandler>>

HasFrame == decodeLoop.at = "decode" /\ decodeLoop.frames > 0 /\ codecHolds # Empty

(* A frame: it is made, written to the sink, and waitOnFull called.        *)
WritesFrame ==
    /\ HasFrame
    /\ LET m     == [Last(monitors) EXCEPT !.pending = @ + 1]
           waits == m.pending >= DecodeHighBar /\ ~m.escape
       IN /\ monitors' = [monitors EXCEPT ![Len(monitors)] = m]
          /\ decodeLoop' = [decodeLoop EXCEPT !.frames = @ - 1, !.at = IF waits THEN "full" ELSE @]
    /\ UNCHANGED <<decoder, codecHolds, decodeMsgs, decodeHandler, decodeSeen>>

DecodeWoken ==
    /\ decodeLoop.at = "full"
    /\ Last(monitors).pending <= DecodeLowBar \/ Last(monitors).escape
    /\ decodeLoop' = [decodeLoop EXCEPT !.at = "decode"]
    /\ UNCHANGED <<decoder, monitors, codecHolds, decodeMsgs, decodeHandler, decodeSeen>>

(* The packet is used up; after the drain the video decoder pauses.        *)
PacketDone ==
    /\ decodeLoop.at = "decode"
    /\ decodeLoop.frames = 0 \/ codecHolds = Empty
    /\ decoder' = IF decodeLoop.eos THEN [decoder EXCEPT !.paused = TRUE] ELSE decoder
    /\ decodeLoop' = [at |-> "top", frames |-> 0, eos |-> FALSE]
    /\ UNCHANGED <<monitors, codecHolds, decodeMsgs, decodeHandler, decodeSeen>>

(* The sink refuses a frame: the thread returns, but mDecodeThread stays.   *)
WriteRefused ==
    /\ SinkMayRefuse
    /\ HasFrame
    /\ decodeLoop' = [at |-> "over", frames |-> 0, eos |-> FALSE]
    /\ UNCHANGED <<decoder, monitors, codecHolds, decodeMsgs, decodeHandler, decodeSeen>>

(* The video decoder writes again a frame that the sink refuses with       *)
(* MM_ERROR_AGAIN, and an end of stream that it refuses in any way, keeping*)
(* mLock: only the sink ends that loop, and here it does not.  (When it    *)
(* takes the buffer after all, that is WritesFrame or PacketDone, later.)  *)
WriteRepeats ==
    /\ SinkMayRefuse /\ ~decoder.audio
    /\ HasFrame \/ (decodeLoop.at = "decode" /\ decodeLoop.eos)
    /\ decodeLoop' = [decodeLoop EXCEPT !.at = "refused"]
    /\ UNCHANGED <<decoder, monitors, codecHolds, decodeMsgs, decodeHandler, decodeSeen>>

(* The sink gives a buffer back, of any monitor.                           *)
SinkReleases ==
    \E i \in DOMAIN monitors :
        /\ monitors[i].pending > 0
        /\ monitors' = [monitors EXCEPT ![i].pending = @ - 1]
        /\ UNCHANGED <<decoder, decodeLoop, codecHolds, decodeMsgs, decodeHandler, decodeSeen>>

DecodeSpurious ==
    /\ decodeLoop.at = "asleep"
    /\ decodeLoop' = SignalDecode(decodeLoop)
    /\ UNCHANGED <<decoder, monitors, codecHolds, decodeMsgs, decodeHandler, decodeSeen>>

-----------------------------------------------------------------------------
DecodeHandlers ==
    \/ OnDecodePrepare \/ OnDecodeStart \/ OnDecodeResume \/ OnDecodeFlush
    \/ \E op \in {"pause", "stop", "reset"} : Unblocks(op)
    \/ OnDecodePause \/ OnDecodeStop \/ DecodeSignalExit \/ DecodeJoined

DecodeLoop == DecodeStops \/ WritesFrame \/ DecodeWoken \/ PacketDone

DecodeReads ==
    \/ \E refused \in BOOLEAN : ReadsEndOfAudio(refused)
    \/ \E frames \in 0 .. MaxOfOne, eos \in BOOLEAN : ReadsPacket(frames, eos)

DecodeNext ==
    \/ \E op \in DecodeOps : DecodeCommand(op)
    \/ DecodeReset
    \/ DecodeHandlers \/ DecodeLoop \/ DecodeReads
    \/ WriteRefused \/ WriteRepeats \/ SinkReleases \/ DecodeSpurious

(* The pipeline asks a flush of every component: the sink, which drops its  *)
(* queue then, gives buffers back as long as the decoder's is not answered. *)
SinkFlushed == "flush" \in decodeSeen.asked /\ SinkReleases

(* The threads run; neither the source nor, but for a flush, the sink need  *)
(* do anything.                                                            *)
DecodeSpec == DecodeInit /\ [][DecodeNext]_decodeVars

DecodeFairSpec ==
    /\ DecodeSpec
    /\ WF_decodeVars(DecodeHandlers)
    /\ WF_decodeVars(DecodeLoop)
    /\ WF_decodeVars(SinkFlushed)

-----------------------------------------------------------------------------
(* Every command is answered, although the decode thread keeps the lock     *)
(* while it waits for the sink, and although the sink may never give a      *)
(* buffer back: pause, stop and reset end that wait, for good, before they  *)
(* ask for the lock; a flush, which comes while the thread runs, does not,  *)
(* and relies on the sink's own.  None of them ends the loop in which the   *)
(* video decoder writes again what the sink refuses, nor is answered while  *)
(* the sink goes on refusing.                                               *)
DecoderAnswers ==
    \A op \in DecodeOps :
        op \in decodeSeen.asked ~> (op \notin decodeSeen.asked \/ decodeLoop.at = "refused")

(* What may be in flight: up to the high bar of the current monitor, and,   *)
(* once a pause has opened that, the rest of one packet.  A resume starts   *)
(* from zero, whatever of the former monitors the sink still keeps.         *)
InFlightBounded ==
    \A i \in DOMAIN monitors :
        monitors[i].pending <= DecodeHighBar + (IF monitors[i].escape THEN MaxOfOne ELSE 0)

(* No frame of what was fed before a flush is shown after the flush was     *)
(* answered: the flag is left by the handler, and the codec flushed by the  *)
(* other thread with the next packet, the end of the stream included.       *)
NothingOldAfterFlush ==
    [][WritesFrame => codecHolds = decodeSeen.flushes]_decodeVars

=============================================================================
