----------------------------- MODULE VideoSink -----------------------------
(***************************************************************************)
(* VideoSink (cow/src/components/video_sink.cc): one message thread that    *)
(* queues the decoder's frames and shows each when the clock says so, by a  *)
(* render message posted to itself with a delay.                            *)
(*                                                                         *)
(* A chain of render messages keeps it going: scheduleRenderFrame_l posts   *)
(* one for the frame in front, its handler shows the frame and schedules    *)
(* the next.  Pause and flush break the chain by a new generation           *)
(* (mVideoDrainGeneration); a resume, or the first frame in an empty queue, *)
(* starts it again.                                                         *)
(*                                                                         *)
(* The clock is shared with an audio sink, whose thread sets its anchor and *)
(* which pauses, resumes and flushes it; without one the video sink does.   *)
(* The message queue is that of MsgThread: by due time, first in first out  *)
(* among equals.                                                            *)
(***************************************************************************)
EXTENDS Clock, Sequences, SequencesExt, FiniteSets

CONSTANTS
    Slack,              \* 10 ms: a frame may be so much early
    FarAhead,           \* 1000 ms: a frame earlier than that is shown at once
    TooLate,            \* 150 ms: a frame later than that is dropped
    SkipFrames,         \* SKIP_AV_SYNC_FRM_COUNT_AT_BEGINING
    FrameGap,           \* time between two frames of the stream
    VideoRates,         \* the play rates an application sets
    MaxFrames, MaxVideoCommands, MaxNow     \* bounds

ASSUME VideoAssumption ==
    /\ Slack \in Nat /\ FarAhead \in Nat /\ TooLate \in Nat /\ SkipFrames \in Nat
    /\ VideoRates \subseteq Nat \ {0} /\ FrameGap \in Nat /\ MaxFrames \in Nat /\ MaxVideoCommands \in Nat
    /\ MaxNow \in Nat \ {0}      \* the time starts at 1

VARIABLES
    video,          \* mPaused, mVideoDrainGeneration, mRenderMode, mSegmentFrameCount (up to SkipFrames + 1),
                    \* mEosSent, mLastRenderUs, mScaledPlayRate; the wrapper's mScaledPlayRate and mIsClockOwner
    videoQueue,     \* mVideoQueue
    videoMsgs,      \* the queue of the message thread
    videoStep,      \* the section the running handler has reached
    videoSeen       \* history and bounds

videoVars == <<video, videoQueue, videoMsgs, videoStep, videoSeen, clock, now>>

VideoOps == {"start", "pause", "resume", "flush", "stop"}

(* The entry with a NULL buffer that follows a frame with the EOS flag; a   *)
(* late one comes from before a flush or stop that has been asked since.    *)
NullEntry(late) == [pts |-> Unset, eos |-> FALSE, null |-> TRUE, late |-> late]

Frames == [pts : Nat, eos : BOOLEAN, null : {FALSE}]

Nulls == {NullEntry(late) : late \in BOOLEAN}

VideoTypeOK ==
    /\ video \in [paused : BOOLEAN, gen : Nat, mode : {"normal", "preview", "previewDone"},
                  count : Nat, eosSent : BOOLEAN, last : Times, rate : VideoRates \cup {NormalRate},
                  clockRate : VideoRates \cup {NormalRate}, owner : BOOLEAN]
    /\ \A i \in DOMAIN videoQueue : videoQueue[i] \in Frames \cup Nulls
    /\ \A i \in DOMAIN videoMsgs :
         /\ videoMsgs[i].op \in VideoOps \cup {"write", "render"}
         /\ videoMsgs[i].due \in Nat
    /\ videoStep \in {"none", "schedule", "anchor", "post"}
    /\ clock \in ClockStates
    /\ now \in 0 .. MaxNow

VideoInit ==
    /\ \E owner \in BOOLEAN :     \* setClock, when the pipeline has an audio sink too
         video = [paused |-> TRUE, gen |-> 0, mode |-> "normal", count |-> 0,
                  eosSent |-> FALSE, last |-> Unset, rate |-> NormalRate,
                  clockRate |-> NormalRate, owner |-> owner]
    /\ videoQueue = <<>>
    /\ videoMsgs = <<>>
    /\ videoStep = "none"
    /\ videoSeen = [asked |-> "none", commands |-> 0, frames |-> 0, ended |-> FALSE,
                    half |-> FALSE, old |-> FALSE, cut |-> FALSE, stopped |-> FALSE]
    /\ clock = NewClock
    /\ now = 1

-----------------------------------------------------------------------------
(* postMsg: behind all messages due no later.                              *)
Posted(q, msg) ==
    InsertAt(q, Cardinality({i \in DOMAIN q : q[i].due <= msg.due}) + 1, msg)

Message(op, arg, delay) == [op |-> op, arg |-> arg, due |-> now + delay]

Render(gen, delay) == Message("render", gen, delay)

(* The first message is handled when it is due and no handler runs.        *)
VideoTakes(op) ==
    /\ videoStep = "none" /\ videoMsgs # <<>>
    /\ Head(videoMsgs).op = op /\ Head(videoMsgs).due <= now
    /\ videoMsgs' = Tail(videoMsgs)

(* The command is answered; does the chain begin again?                    *)
Told(again) == videoSeen' = [videoSeen EXCEPT !.asked = "none", !.cut = @ /\ ~again]

VideoDrives == Drives(TRUE, video.owner, video.clockRate)

(* The sink's calls of its clock wrapper.                                  *)
ClockCall(c) == clock' = IF VideoDrives THEN c ELSE clock

-----------------------------------------------------------------------------
(* The decoder's thread: VideoSinkWriter::write, which posts the frame and, *)
(* at the end of the stream, a NULL in a second message.                   *)
VideoWrite(eos) ==
    /\ ~videoSeen.half /\ ~videoSeen.ended /\ videoSeen.frames < MaxFrames
    /\ videoMsgs' = Posted(videoMsgs, Message("write",
                        [pts |-> FrameGap * videoSeen.frames, eos |-> eos, null |-> FALSE], 0))
    /\ videoSeen' = [videoSeen EXCEPT !.frames = @ + 1, !.ended = eos, !.half = eos]
    /\ UNCHANGED <<video, videoQueue, videoStep, clockVars>>

VideoWriteNull ==
    /\ videoSeen.half
    /\ videoMsgs' = Posted(videoMsgs, Message("write", NullEntry(videoSeen.old), 0))
    /\ videoSeen' = [videoSeen EXCEPT !.half = FALSE]
    /\ UNCHANGED <<video, videoQueue, videoStep, clockVars>>

(* The decoder carries out the flush or the stop as well, some time after   *)
(* it was asked: until then it writes what is old, after an end nothing.    *)
DecoderAnew ==
    /\ videoSeen.old /\ ~videoSeen.half
    /\ videoSeen' = [videoSeen EXCEPT !.old = FALSE, !.ended = FALSE]
    /\ UNCHANGED <<video, videoQueue, videoMsgs, videoStep, clockVars>>

(* The pipeline's commands, one at a time, and seek's setParameter.        *)
VideoCommand(op) ==
    /\ videoSeen.asked = "none" /\ videoSeen.commands < MaxVideoCommands
    /\ videoMsgs' = Posted(videoMsgs, Message(op, 0, 0))
    /\ videoSeen' = [videoSeen EXCEPT !.asked = op, !.commands = @ + 1,
                                      !.old = @ \/ op \in {"flush", "stop"}]
    /\ video' = IF op \in {"start", "flush"} THEN [video EXCEPT !.last = Unset] ELSE video
    /\ UNCHANGED <<videoQueue, videoStep, clockVars>>

SetPreview ==
    /\ videoSeen.asked = "none" /\ video.paused /\ videoQueue = <<>>
    /\ video.mode = "normal"
    /\ video' = [video EXCEPT !.mode = "preview"]
    /\ UNCHANGED <<videoQueue, videoMsgs, videoStep, videoSeen, clockVars>>

(* setParameter's play rate, for the sink, the wrapper and the clock, each  *)
(* of which ignores the rate it believes in.                                *)
VideoRate(rate) ==
    /\ rate # video.rate /\ videoSeen.commands < MaxVideoCommands
    /\ video' = [video EXCEPT !.rate = rate, !.clockRate = rate]
    /\ clock' = IF rate = video.clockRate THEN clock ELSE RateSet(clock, rate)
    /\ videoSeen' = [videoSeen EXCEPT !.commands = @ + 1]
    /\ UNCHANGED <<videoQueue, videoMsgs, videoStep, now>>

-----------------------------------------------------------------------------
OnVideoWrite_Second ==
    /\ VideoTakes("write")
    /\ videoQueue' = Append(videoQueue, Head(videoMsgs).arg)
    /\ videoStep' = IF Len(videoQueue) = 2 THEN "schedule" ELSE "none"
    /\ UNCHANGED <<video, videoSeen, clockVars>>

OnVideoWrite ==
    /\ VideoTakes("write")
    /\ videoQueue' = Append(videoQueue, Head(videoMsgs).arg)
    /\ videoStep' = IF videoQueue = <<>> THEN "schedule" ELSE "none"
    /\ UNCHANGED <<video, videoSeen, clockVars>>

(* onStart is onResume.                                                    *)
OnVideoResume(op) ==
    /\ op \in {"start", "resume"}
    /\ VideoTakes(op)
    /\ IF video.paused
       THEN /\ video' = [video EXCEPT !.paused = FALSE, !.eosSent = FALSE, !.count = 0]
            /\ ClockCall(ClockResumed(clock, now))
            /\ videoStep' = "schedule"
       ELSE UNCHANGED <<video, clock, videoStep>>
    /\ Told(video.paused)
    /\ UNCHANGED <<videoQueue, now>>

OnVideoPause_SameGeneration ==
    /\ VideoTakes("pause")
    /\ video' = [video EXCEPT !.paused = TRUE, !.mode = "normal"]
    /\ ClockCall(IF video.paused THEN clock ELSE ClockPaused(clock, now))
    /\ Told(FALSE)
    /\ UNCHANGED <<videoQueue, videoStep, now>>

OnVideoPause ==
    /\ VideoTakes("pause")
    /\ IF video.paused
       THEN UNCHANGED <<video, clock>>
       ELSE /\ video' = [video EXCEPT !.paused = TRUE, !.mode = "normal", !.gen = @ + 1]
            /\ ClockCall(ClockPaused(clock, now))
    /\ Told(FALSE)
    /\ UNCHANGED <<videoQueue, videoStep, now>>

(* flushBufferQueue; onStop also pauses and starts with generation 0 again. *)
OnVideoFlush(op) ==
    /\ op \in {"flush", "stop"}
    /\ VideoTakes(op)
    /\ videoQueue' = <<>>
    /\ ClockCall(ClockFlushed(clock))
    /\ video' = IF op = "stop"
                THEN [video EXCEPT !.mode = "normal", !.rate = NormalRate, !.gen = 0, !.paused = TRUE]
                ELSE [video EXCEPT !.mode = "normal", !.rate = NormalRate, !.gen = @ + 1]
    /\ videoSeen' = [videoSeen EXCEPT !.asked = "none", !.cut = FALSE, !.stopped = @ \/ op = "stop"]
    /\ UNCHANGED <<videoStep, now>>

-----------------------------------------------------------------------------
(* scheduleRenderFrame_l: nothing to schedule.                             *)
ScheduleNot ==
    /\ videoStep = "schedule"
    /\ video.paused \/ videoQueue = <<>> \/ video.mode = "previewDone"
    /\ videoStep' = "none"
    /\ UNCHANGED <<video, videoQueue, videoMsgs, videoSeen, clockVars>>

ScheduleNull ==
    /\ videoStep = "schedule"
    /\ ~video.paused /\ videoQueue # <<>> /\ video.mode # "previewDone"
    /\ Head(videoQueue).null
    /\ videoMsgs' = Posted(videoMsgs, Render(video.gen, 0))
    /\ videoStep' = "none"
    /\ UNCHANGED <<video, videoQueue, videoSeen, clockVars>>

(* ClockWrapper::setAnchorTime looks at the anchor without the clock's lock *)
(* and sets it after that: audio's may come in between.                     *)
ScheduleFrame ==
    /\ videoStep = "schedule"
    /\ ~video.paused /\ videoQueue # <<>> /\ video.mode # "previewDone"
    /\ ~Head(videoQueue).null
    /\ videoStep' = IF ~Head(videoQueue).eos /\ ~HasAnchor(clock) THEN "anchor" ELSE "post"
    /\ UNCHANGED <<video, videoQueue, videoMsgs, videoSeen, clockVars>>

VideoAnchors ==
    /\ videoStep = "anchor"
    /\ clock' = Anchored(clock, Head(videoQueue).pts, now, Unset)
    /\ videoStep' = "post"
    /\ UNCHANGED <<video, videoQueue, videoMsgs, videoSeen, now>>

(* updateMaxAnchorTime, and the render message: early frames wait.         *)
SchedulePosts ==
    /\ videoStep = "post"
    /\ LET frame == Head(videoQueue)
           late  == MediaLate(clock, frame.pts, now)
           delay == IF -FarAhead <= late /\ late <= -Slack THEN -(late + Slack) ELSE 0
       IN /\ clock' = IF video.owner /\ ~frame.eos THEN WithMax(clock, frame.pts + FarAhead) ELSE clock
          /\ videoMsgs' = Posted(videoMsgs, Render(video.gen, delay))
    /\ videoStep' = "none"
    /\ UNCHANGED <<video, videoQueue, videoSeen, now>>

-----------------------------------------------------------------------------
(* onRenderFrame: obsolete, or nothing left.                               *)
RenderObsolete ==
    /\ VideoTakes("render")
    /\ Head(videoMsgs).arg # video.gen \/ videoQueue = <<>>
    /\ UNCHANGED <<video, videoQueue, videoStep, videoSeen, clockVars>>

PreviewShown(v) == IF v.mode = "preview" THEN [v EXCEPT !.mode = "previewDone"] ELSE v

(* The end of the stream: nothing is scheduled after it.                   *)
RenderNull ==
    /\ VideoTakes("render")
    /\ Head(videoMsgs).arg = video.gen /\ videoQueue # <<>> /\ Head(videoQueue).null
    /\ videoQueue' = Tail(videoQueue)
    /\ video' = [PreviewShown(video) EXCEPT !.eosSent = TRUE]
    /\ videoSeen' = [videoSeen EXCEPT !.cut = @ \/ (Head(videoQueue).late /\ Len(videoQueue) > 1)]
    /\ UNCHANGED <<videoStep, clockVars>>

(* mSegmentFrameCount: the first frames after a resume are never too late.  *)
InSync(frame) ==
    video.rate <= NormalRate /\ video.count > SkipFrames => MediaLate(clock, frame.pts, now) < TooLate

Counted == IF video.rate <= NormalRate /\ video.count <= SkipFrames THEN video.count + 1 ELSE video.count

(* A frame is shown, or dropped when it is too late.                       *)
RenderFrame ==
    /\ VideoTakes("render")
    /\ Head(videoMsgs).arg = video.gen /\ videoQueue # <<>> /\ ~Head(videoQueue).null
    /\ LET frame == Head(videoQueue) IN
         /\ InSync(frame) => video.last # now
         /\ video' = [(IF InSync(frame) THEN PreviewShown(video) ELSE video) EXCEPT
                         !.count = Counted, !.last = now, !.eosSent = @ \/ frame.eos]
    /\ videoQueue' = Tail(videoQueue)
    /\ videoStep' = "schedule"
    /\ UNCHANGED <<videoSeen, clockVars>>

(* One to be shown in the instant of the last (in the code: within 16 ms)   *)
(* is posted again.                                                         *)
RenderTooSoon ==
    /\ videoStep = "none" /\ videoMsgs # <<>>
    /\ Head(videoMsgs).op = "render" /\ Head(videoMsgs).due <= now
    /\ Head(videoMsgs).arg = video.gen /\ videoQueue # <<>> /\ ~Head(videoQueue).null
    /\ InSync(Head(videoQueue)) /\ video.last = now
    /\ videoMsgs' = Posted(Tail(videoMsgs), Render(video.gen, 0))
    /\ video' = [video EXCEPT !.count = Counted]
    /\ UNCHANGED <<videoQueue, videoStep, videoSeen, clockVars>>

-----------------------------------------------------------------------------
(* The audio sink, on its own threads: a buffer's anchor, a command's       *)
(* effect on the clock.                                                     *)
AudioMoves ==
    /\ ~video.owner
    /\ \/ /\ clock' = Anchored(clock, now, now, now + FrameGap)
          /\ UNCHANGED videoSeen
       \/ /\ videoSeen.commands < MaxVideoCommands
          /\ clock' \in {ClockPaused(clock, now), ClockResumed(clock, now), ClockFlushed(clock)}
          /\ videoSeen' = [videoSeen EXCEPT !.commands = @ + 1]
    /\ UNCHANGED <<video, videoQueue, videoMsgs, videoStep, now>>

Tick ==
    /\ now < MaxNow
    /\ now' = now + 1
    /\ UNCHANGED <<video, videoQueue, videoMsgs, videoStep, videoSeen, clock>>

VideoThread ==
    \/ OnVideoWrite \/ OnVideoPause
    \/ \E op \in VideoOps : OnVideoResume(op) \/ OnVideoFlush(op)
    \/ ScheduleNot \/ ScheduleNull \/ ScheduleFrame \/ VideoAnchors \/ SchedulePosts
    \/ RenderObsolete \/ RenderNull \/ RenderFrame \/ RenderTooSoon

VideoNext ==
    \/ \E eos \in BOOLEAN : VideoWrite(eos)
    \/ VideoWriteNull \/ DecoderAnew
    \/ \E op \in VideoOps : VideoCommand(op)
    \/ \E rate \in VideoRates : VideoRate(rate)
    \/ SetPreview \/ VideoThread \/ AudioMoves \/ Tick

VideoSpec == VideoInit /\ [][VideoNext]_videoVars

-----------------------------------------------------------------------------
LiveRenders == {i \in DOMAIN videoMsgs : videoMsgs[i].op = "render" /\ videoMsgs[i].arg = video.gen}

(* While the sink plays and has a frame, a render message that counts is on *)
(* its way.                                                                *)
ChainNeverBroken ==
    videoStep = "none" /\ ~video.paused /\ videoQueue # <<>> /\ video.mode # "previewDone" =>
        LiveRenders # {}

(* The chain breaks in one way only: the NULL of an end of stream that was  *)
(* old when it was written, since a flush or a stop had been asked, is left *)
(* behind by that and shown with frames of the new stream behind it (cut).  *)
(* No other order of writes, pauses, resumes, flushes, stops and messages   *)
(* that are obsolete breaks it, and any of resume and flush mends it.       *)
ChainAlive == ~videoSeen.cut => ChainNeverBroken

(* Nor is there a second one, whose older message would show a frame before *)
(* its time: of a sink with its own clock a frame leaves the queue no more   *)
(* than Slack early, or because the clock cannot say, whatever pauses,       *)
(* flushes, resumes and changes of the rate came while it waited.  (After a  *)
(* stop the generations start again, and this may fail.)                     *)
FramesInTime ==
    [][videoStep = "none" /\ videoStep' = "schedule" /\ Len(videoQueue') < Len(videoQueue)
         /\ video.owner /\ ~videoSeen.stopped =>
           LET late == MediaLate(clock, Head(videoQueue).pts, now)
           IN late >= -Slack \/ late < -FarAhead]_videoVars

(* Neither a pause nor a resume moves the position that the player reports,  *)
(* however long the pause: time spent paused does not count.  The exception *)
(* is a position held back at the bound of a sink that has run dry, which a *)
(* resume lets go (it forgets the bound).                                   *)
PositionSteady ==
    [][clock.paused # clock'.paused =>
         LET before == Position(clock, now)
             after  == Position(clock', now)
         IN \/ after = before
            \/ 0 <= clock.max /\ clock.max <= before /\ before < after]_videoVars

=============================================================================
