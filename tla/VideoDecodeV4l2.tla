-------------------------- MODULE VideoDecodeV4l2 --------------------------
(***************************************************************************)
(* VideoDecodeV4l2 (cow/src/components/video_decode_v4l2.cc), in the build   *)
(* that follows a change of the resolution (__MM_YUNOS_LINUX_BSP_BUILD__):   *)
(* a message thread that moves buffers between the reader, the codec, the    *)
(* sink and the window, and a thread that polls the codec and tells it when. *)
(*                                                                         *)
(* An output frame has one of four owners, which mOutputFrames notes; a      *)
(* buffer the sink lets go comes back as a message with the generation it    *)
(* was made in.  While the codec output port is to be reallocated flush    *)
(* and stop are put off.                                                   *)
(*                                                                         *)
(* A handler is one step, except stop, which waits for the poll thread, and  *)
(* onHandleOutputBuffer, which is one step for a frame.  The codec, the      *)
(* window, the reader, the sink and the pipeline are external.  Frames are   *)
(* passed as handles (not copied: mSurfaceOwnedByUs and thumbnails are not   *)
(* modelled), input is copied to the codec own buffers (V4L2_MEMORY_MMAP). *)
(***************************************************************************)
EXTENDS Integers, Sequences, FiniteSets, SequencesExt

CONSTANTS
    NumFrames,      \* mOutputQueueCapacity
    Undequeued,     \* kMinUndequeuedBuffs
    InputCount,     \* mInputQueueCapacity
    NumPackets,     \* the packets before the end of the stream, one for a frame, but for those
                    \* too big for an input buffer, which have no number
    SeekTarget,     \* MEDIA_ATTR_TARGET_TIME after a seek: the packet to be shown first
    MayFail,        \* may the window and the codec refuse?
    MaxV4l2Calls,   \* bounds
    MaxV4l2Changes,
    MaxStalls,      \* how often the reader has nothing before the end of the stream
    MaxTooBig,      \* packets of kMaxInputBufferSize or more
    MaxPolled       \* messages in the queue when the poll thread goes on

ASSUME V4l2Assumption ==
    /\ NumFrames \in Nat /\ Undequeued \in 0 .. NumFrames - 1 /\ InputCount \in Nat \ {0}
    /\ NumPackets \in Nat /\ SeekTarget \in Nat /\ MayFail \in BOOLEAN
    /\ MaxV4l2Calls \in Nat /\ MaxV4l2Changes \in Nat /\ MaxStalls \in Nat
    /\ MaxTooBig \in Nat /\ MaxPolled \in Nat

VARIABLES
    dec,        \* mState, mEosState, mConfigured, mGeneration, mPortSettingChange, mTargetTimeUs,
                \* mDeferMessages; is the device open, are reader and writer there?  an assertion, a null
    owner,      \* mOutputFrames: mOwner
    indices,    \* mInputIndces
    msgs,       \* the message thread's queue, and whether a delayed handleInputBuffer is in it
    v4l2Handler,    \* the message thread: idle, or inside a handler
    pollThread, \* DevicePollThread: its place, mSem, mContinue, event_pending
    codec,      \* external: input and output ports, the poll's interrupt
    held,       \* external: the buffers the sink holds
    input,      \* external: where the reader is, and how often it was moved
    pipe,       \* external: what the pipeline waits for, and its view of the decoder
    v4l2Seen    \* history and bounds

v4l2Vars == <<dec, owner, indices, msgs, v4l2Handler, pollThread, codec, held, input, pipe, v4l2Seen>>

Frames == 1 .. NumFrames
Indices == 1 .. InputCount
NoFrame == 0
EosPacket == 0

V4l2Ops == {"prepare", "start", "pause", "flush", "stop", "reset"}

Owners == {"none", "us", "codec", "window", "client"}

V4l2TypeOK ==
    /\ dec.state \in {"null", "prepared", "paused", "play", "playing", "stopping", "stopped"}
    /\ dec.eos \in {"none", "input", "output"}
    /\ dec.configured \in BOOLEAN /\ dec.changing \in BOOLEAN /\ dec.open \in BOOLEAN /\ dec.linked \in BOOLEAN
    /\ dec.gen \in Nat \ {0} /\ dec.target \in {-1, SeekTarget}
    /\ dec.deferred \in Seq({"flush", "stop"})
    /\ dec.over \in {"no", "start", "null", "refused", "reset"}
    /\ owner \in [Frames -> Owners]
    /\ indices \in Seq(Indices)
    /\ v4l2Handler \in {"idle", "out", "deferred", "join", "joinReset", "spins", "starves"}
    /\ pollThread.at \in {"none", "top", "sem", "poll", "exited"}
    /\ pollThread.sem \in Nat /\ pollThread.continue \in BOOLEAN /\ pollThread.event \in BOOLEAN
    /\ pipe.op \in V4l2Ops \cup {"none"}
    /\ pipe.mode \in {"null", "prepared", "playing", "paused", "stopped", "error", "reset"}

Message(what) == [what |-> what, frame |-> NoFrame, gen |-> 0]

V4l2Init ==
    /\ dec = [state |-> "null", eos |-> "none", configured |-> FALSE, changing |-> FALSE, open |-> FALSE,
              linked |-> TRUE, gen |-> 1, target |-> -1, deferred |-> <<>>, over |-> "no"]
    /\ owner = [f \in Frames |-> "none"]
    /\ indices = <<>>
    /\ msgs = [queue |-> <<>>, retry |-> FALSE]
    /\ v4l2Handler = "idle"
    /\ pollThread = [at |-> "none", sem |-> 0, continue |-> FALSE, event |-> FALSE]
    /\ codec = [in |-> <<>>, done |-> <<>>, free |-> {}, filled |-> <<>>, eos |-> FALSE, event |-> FALSE,
                blocked |-> FALSE, interrupt |-> FALSE]
    /\ held = {}
    /\ input = [pos |-> 1, epoch |-> 0]
    /\ pipe = [op |-> "none", mode |-> "null"]
    /\ v4l2Seen = [calls |-> 0, changes |-> 0, stalls |-> 0, tooBig |-> 0, last |-> 0, lossy |-> FALSE, eos |-> FALSE]

-----------------------------------------------------------------------------
(* The pipeline: prepare, start, pause, flush, stop and reset post a message *)
(* each; it waits for the answer, but unblocked it may stop or reset.  A      *)
(* flush is for a seek, or, while playing, for the play rate (setParameter). *)
V4l2Legal(op) ==
    \/ op = "prepare" /\ pipe.mode = "null"
    \/ op = "start" /\ pipe.mode \in {"prepared", "paused"}
    \/ op = "pause" /\ pipe.mode = "playing"
    \/ op = "flush" /\ pipe.mode \in {"prepared", "playing", "paused"}
    \/ op = "stop" /\ pipe.mode \in {"prepared", "playing", "paused"}
    \/ op = "reset" /\ pipe.mode \notin {"null", "reset"}

Called(op) == IF op # "start" THEN op ELSE IF dec.configured THEN "resume" ELSE "startInput"

V4l2Call(op) ==
    /\ v4l2Seen.calls < MaxV4l2Calls /\ V4l2Legal(op)
    /\ \/ pipe.op = "none"
       \/ op \in {"stop", "reset"} /\ pipe.op \notin {"prepare", "stop", "reset"}
    /\ pipe' = [pipe EXCEPT !.op = op]
    /\ msgs' = [msgs EXCEPT !.queue = Append(@, Message(Called(op)))]
    /\ v4l2Seen' = [v4l2Seen EXCEPT !.calls = @ + 1]
    /\ UNCHANGED <<dec, owner, indices, v4l2Handler, pollThread, codec, held, input>>

(* notify: an answer to what the pipeline waits for, or too late.  It goes   *)
(* on from a seek's flush by moving the source.                            *)
Seeking == pipe.op = "flush" /\ pipe.mode # "playing"

ModeAfter(op) ==
    CASE op = "prepare" -> "prepared" [] op = "start" -> "playing" [] op = "pause" -> "paused"
      [] op = "flush" -> pipe.mode [] op = "stop" -> "stopped" [] op = "reset" -> "reset"

Notify(op) ==
    /\ pipe' = IF pipe.op = op THEN [op |-> "none", mode |-> ModeAfter(op)] ELSE pipe
    /\ input' = IF op = "flush" /\ Seeking THEN [pos |-> 1, epoch |-> input.epoch + 1] ELSE input

Fails == pipe' = [op |-> IF pipe.op = "reset" THEN "reset" ELSE "none", mode |-> "error"]

(* The message thread takes the next message.                              *)
NextIs(what) == v4l2Handler = "idle" /\ msgs.queue # <<>> /\ Head(msgs.queue).what = what

Rest == Tail(msgs.queue)

Taken == msgs' = [msgs EXCEPT !.queue = Rest]

OnV4l2Prepare ==
    /\ NextIs("prepare") /\ Taken
    /\ dec' = [dec EXCEPT !.state = "prepared", !.open = TRUE]
    /\ Notify("prepare")
    /\ UNCHANGED <<owner, indices, v4l2Handler, pollThread, codec, held, v4l2Seen>>

-----------------------------------------------------------------------------
(* Starting, when not configured yet: the input port first ...             *)
AllIndices == [i \in Indices |-> i]

OnStartInput ==
    /\ NextIs("startInput")
    /\ dec' = [dec EXCEPT !.state = "play", !.eos = "none", !.target = -1, !.deferred = <<>>]
    /\ indices' = indices \o AllIndices
    /\ msgs' = [msgs EXCEPT !.queue = Rest \o <<Message("in"), Message("startOutput")>>]
    /\ UNCHANGED <<owner, v4l2Handler, pollThread, codec, held, input, pipe, v4l2Seen>>

(* ... and the output port when the codec has seen what is coming: frames   *)
(* for the codec, some of them given back to the window                     *)
(* (allocateOutputBuffersFromNativeWindow, configOutputSurface).            *)
AllocatedFrames == [f \in Frames |-> IF f <= Undequeued THEN "window" ELSE "codec"]

CodecWithFrames ==
    [codec EXCEPT !.free = Undequeued + 1 .. NumFrames, !.filled = <<>>, !.blocked = FALSE]

OnStartOutput ==
    /\ NextIs("startOutput") /\ Taken
    /\ \/ /\ codec.in # <<>>
          /\ owner' = AllocatedFrames
          /\ codec' = [CodecWithFrames EXCEPT !.interrupt = FALSE]
          /\ pollThread' = [at |-> "top", sem |-> 1, continue |-> TRUE, event |-> TRUE]
          /\ dec' = [dec EXCEPT !.state = "playing", !.configured = TRUE]
          /\ Notify("start")
       \/ /\ codec.in = <<>> \/ MayFail
          /\ Fails
          /\ UNCHANGED <<owner, codec, pollThread, dec, input>>
    /\ UNCHANGED <<indices, v4l2Handler, held, v4l2Seen>>

OnV4l2Pause ==
    /\ NextIs("pause") /\ Taken
    /\ dec' = [dec EXCEPT !.state = "paused"]
    /\ Notify("pause")
    /\ UNCHANGED <<owner, indices, v4l2Handler, pollThread, codec, held, v4l2Seen>>

OnV4l2Resume_NoSignal ==
    /\ NextIs("resume")
    /\ dec' = [dec EXCEPT !.state = "playing", !.eos = "none"]
    /\ Notify("start")
    /\ codec' = [codec EXCEPT !.interrupt = FALSE]
    /\ msgs' = [msgs EXCEPT !.queue = Append(Rest, Message("in"))]
    /\ UNCHANGED <<owner, indices, v4l2Handler, pollThread, held, v4l2Seen>>

OnV4l2Resume ==
    /\ NextIs("resume")
    /\ dec' = [dec EXCEPT !.state = "playing", !.eos = "none"]
    /\ Notify("start")
    /\ codec' = [codec EXCEPT !.interrupt = FALSE]
    /\ msgs' = [msgs EXCEPT !.queue = Append(Rest, Message("in"))]
    /\ pollThread' = [pollThread EXCEPT !.sem = @ + 1]
    /\ UNCHANGED <<owner, indices, v4l2Handler, held, v4l2Seen>>

-----------------------------------------------------------------------------
(* onHandleInputBuffer: what the codec has consumed comes back, and is       *)
(* filled again as long as the reader has something.  When it has nothing,   *)
(* or a packet is too big, which is dropped, the handler comes again after a *)
(* while; but at the start it waits for the reader.                        *)
Runs == dec.state \in {"play", "playing"}

Usable == indices \o codec.done

HandlesInput == ~dec.changing /\ Runs

OnInputIgnored ==
    /\ NextIs("in") /\ Taken
    /\ ~HandlesInput
    /\ UNCHANGED <<dec, owner, indices, v4l2Handler, pollThread, codec, held, input, pipe, v4l2Seen>>

Packet(i) == [n |-> IF i > NumPackets THEN EosPacket ELSE i, epoch |-> input.epoch]

(* How many packets may go to the codec now: up to the end of the stream.   *)
InputRoom ==
    LET left == NumPackets + 2 - input.pos
    IN IF dec.eos # "none" THEN 0 ELSE IF left < Len(Usable) THEN left ELSE Len(Usable)

OnHandleInputBuffer ==
    /\ NextIs("in") /\ HandlesInput
    /\ \E k \in 0 .. InputRoom, tooBig \in BOOLEAN :
         LET ended == k > 0 /\ input.pos + k = NumPackets + 2
             short == k < Len(Usable) /\ ~ended /\ dec.eos = "none"
             targetSet == input.pos = 1 /\ input.epoch > 0 /\ (tooBig \/ (k > 0 /\ NumPackets > 0))
         IN /\ tooBig => short /\ v4l2Seen.tooBig < MaxTooBig
            /\ short /\ ~tooBig => dec.state = "playing" /\ (InputRoom = k \/ v4l2Seen.stalls < MaxStalls)
            /\ dec.linked \/ Usable = <<>> \/ dec.eos # "none"
            /\ codec' = [codec EXCEPT !.done = <<>>,
                            !.in = @ \o [i \in 1 .. k |-> [idx |-> Usable[i], pkt |-> Packet(input.pos + i - 1)]]]
            /\ indices' = SubSeq(Usable, k + 1, Len(Usable))
            /\ input' = [input EXCEPT !.pos = @ + k]
            /\ dec' = [dec EXCEPT !.eos = IF ended THEN "input" ELSE @,
                                  !.target = IF targetSet THEN SeekTarget ELSE @]
            /\ msgs' = [queue |-> Rest, retry |-> msgs.retry \/ short]
            /\ v4l2Seen' = [v4l2Seen EXCEPT !.stalls = IF short /\ ~tooBig /\ k < InputRoom THEN @ + 1 ELSE @,
                                            !.tooBig = IF tooBig THEN @ + 1 ELSE @]
    /\ UNCHANGED <<owner, v4l2Handler, pollThread, held, pipe>>

(* At the start the reader never has anything again: the thread sleeps and   *)
(* reads for ever.  (When it has, the handler's step comes later.)          *)
InputStarves ==
    /\ NextIs("in") /\ Taken
    /\ HandlesInput /\ dec.state = "play"
    /\ dec.linked /\ Usable # <<>> /\ dec.eos = "none"
    /\ v4l2Handler' = "starves"
    /\ UNCHANGED <<dec, owner, indices, pollThread, codec, held, input, pipe, v4l2Seen>>

(* mReader->read of a reader that a stop has let go.                       *)
OnInputUnlinked ==
    /\ NextIs("in") /\ HandlesInput
    /\ ~dec.linked /\ Usable # <<>> /\ dec.eos = "none"
    /\ dec' = [dec EXCEPT !.over = "null"]
    /\ UNCHANGED <<owner, indices, msgs, v4l2Handler, pollThread, codec, held, input, pipe, v4l2Seen>>

RetryDue ==
    /\ msgs.retry
    /\ msgs' = [queue |-> Append(msgs.queue, Message("in")), retry |-> FALSE]
    /\ UNCHANGED <<dec, owner, indices, v4l2Handler, pollThread, codec, held, input, pipe, v4l2Seen>>

-----------------------------------------------------------------------------
(* handlePortSettingChanged, when every frame is ours or the window's: the   *)
(* codec's are taken back and given to the window, and then allocated anew.  *)
(* configOutputSurface asserts that the decoder is starting or playing.      *)
Reallocates(d) ==
    /\ owner' = AllocatedFrames
    /\ codec' = CodecWithFrames
    /\ dec' = d
    /\ UNCHANGED <<pipe, input>>

ReallocateFails(d) ==
    /\ MayFail
    /\ owner' = [f \in Frames |-> "window"]
    /\ codec' = [codec EXCEPT !.free = {}, !.filled = <<>>]
    /\ dec' = d
    /\ Fails
    /\ UNCHANGED input

AllOurs(own) == \A f \in Frames : own[f] \in {"us", "window"}

NextGen_Same(d) == d

NextGen(d) == [d EXCEPT !.gen = @ + 1]

(* onHandleOutputBuffer: a filled frame is written to the sink, which        *)
(* returns it when it likes; the end of the stream stops the decoder.  The   *)
(* loop ends when the codec has no more.                                   *)
OnOutputIgnored ==
    /\ NextIs("out") /\ Taken
    /\ ~Runs
    /\ UNCHANGED <<dec, owner, indices, v4l2Handler, pollThread, codec, held, input, pipe, v4l2Seen>>

HandlesOutput == v4l2Handler = "out" \/ (NextIs("out") /\ Runs)

OutputPosts(more) ==
    msgs' = [msgs EXCEPT !.queue = (IF v4l2Handler = "out" THEN @ ELSE Tail(@)) \o more]

Frame == Head(codec.filled)

Dequeued == [codec EXCEPT !.filled = Tail(@)]

Ends == Frame.last

(* Shown from the target of a seek on.                                     *)
Skipped == Frame.pkt.n < dec.target

OutputFrame ==
    /\ HandlesOutput /\ codec.filled # <<>> /\ ~dec.changing
    /\ LET f == Frame.frame
           d == IF Ends THEN [dec EXCEPT !.eos = "output", !.state = "paused"] ELSE dec
       IN /\ IF Skipped
             THEN /\ dec' = d
                  /\ owner' = [owner EXCEPT ![f] = "us"]
                  /\ OutputPosts(<<[what |-> "schedule", frame |-> f, gen |-> dec.gen]>>)
                  /\ v4l2Handler' = "idle"
                  /\ UNCHANGED held
             ELSE /\ dec' = [d EXCEPT !.target = -1]
                  /\ owner' = [owner EXCEPT ![f] = "client"]
                  /\ held' = held \cup {[frame |-> f, gen |-> dec.gen]}
                  /\ OutputPosts(<<>>)
                  /\ v4l2Handler' = "out"
          /\ v4l2Seen' = [v4l2Seen EXCEPT !.last = IF Ends THEN @ ELSE Frame.pkt.n,
                                          !.eos = @ \/ (Ends /\ ~Skipped)]
    /\ codec' = [Dequeued EXCEPT !.interrupt = @ \/ Ends]
    /\ UNCHANGED <<indices, pollThread, input, pipe>>

(* No more.  At the end of the input the codec may say so; else look again.  *)
OutputOver ==
    /\ HandlesOutput /\ codec.filled = <<>>
    /\ v4l2Handler' = "idle"
    /\ IF dec.eos = "input" /\ codec.eos
       THEN /\ dec' = [dec EXCEPT !.eos = "output", !.state = "paused"]
            /\ codec' = [codec EXCEPT !.interrupt = TRUE]
            /\ v4l2Seen' = [v4l2Seen EXCEPT !.eos = TRUE]
            /\ OutputPosts(<<>>)
       ELSE /\ OutputPosts(IF dec.eos = "input" THEN <<Message("out")>> ELSE <<>>)
            /\ UNCHANGED <<dec, codec, v4l2Seen>>
    /\ UNCHANGED <<owner, indices, pollThread, held, input, pipe>>

(* While the port is changing the frame is kept, and with the last one the   *)
(* port is reallocated.  What was put off is put off again, as              *)
(* mPortSettingChange is only cleared afterwards: two messages for ever.     *)
OutputKept ==
    /\ HandlesOutput /\ codec.filled # <<>> /\ dec.changing
    /\ OutputPosts(<<>>)
    /\ LET own == [owner EXCEPT ![Frame.frame] = "us"]
       IN IF ~AllOurs(own)
          THEN /\ owner' = own
               /\ codec' = Dequeued
               /\ v4l2Handler' = "idle"
               /\ UNCHANGED <<dec, pipe, input>>
          ELSE \/ /\ Reallocates([NextGen(dec) EXCEPT !.changing = Len(dec.deferred) > 1])
                  /\ v4l2Handler' = IF Len(dec.deferred) > 1 THEN "spins" ELSE "idle"
               \/ /\ ReallocateFails([NextGen(dec) EXCEPT !.changing = FALSE])
                  /\ v4l2Handler' = "idle"
    /\ UNCHANGED <<indices, pollThread, held, v4l2Seen>>

(* onScheduleOutputBuffer, renderOutputBuffer: what the sink let go is       *)
(* shown, for which the window gives another frame, or not; and a frame goes *)
(* to the codec again, unless the port is changing.                        *)
Returned == Head(msgs.queue)

Stale(m) == dec.state \in {"stopping", "stopped"} \/ m.gen # dec.gen

OnScheduleIgnored ==
    /\ NextIs("schedule") /\ Taken
    /\ Stale(Returned)
    /\ UNCHANGED <<dec, owner, indices, v4l2Handler, pollThread, codec, held, input, pipe, v4l2Seen>>

(* f itself when it is not to be shown, else what the window gives for it.   *)
Exchanges(f) == {f} \cup {g \in Frames : owner[g] = "window"}

OnSchedule ==
    /\ NextIs("schedule") /\ ~Stale(Returned)
    /\ Taken
    /\ \E g \in Exchanges(Returned.frame) :
         LET own == [owner EXCEPT ![Returned.frame] = "window", ![g] = "us"]
         IN \/ /\ ~dec.changing
               /\ owner' = [own EXCEPT ![g] = "codec"]
               /\ codec' = [codec EXCEPT !.free = @ \cup {g}]
               /\ UNCHANGED <<dec, v4l2Handler, pipe, input>>
            \/ /\ dec.changing /\ ~AllOurs(own)
               /\ owner' = own
               /\ UNCHANGED <<dec, v4l2Handler, codec, pipe, input>>
            \/ /\ dec.changing /\ AllOurs(own)
               /\ IF Runs
                  THEN \/ /\ Reallocates([NextGen(dec) EXCEPT !.changing = FALSE])
                          /\ v4l2Handler' = IF dec.deferred = <<>> THEN "idle" ELSE "deferred"
                       \/ /\ ReallocateFails([NextGen(dec) EXCEPT !.changing = FALSE, !.state = "paused"])
                          /\ UNCHANGED v4l2Handler
                  ELSE /\ dec' = [dec EXCEPT !.over = "start"]
                       /\ UNCHANGED <<owner, v4l2Handler, codec, pipe, input>>
    /\ UNCHANGED <<indices, pollThread, held, v4l2Seen>>

(* The window does not give a frame.                                       *)
RenderFails ==
    /\ MayFail
    /\ NextIs("schedule") /\ ~Stale(Returned)
    /\ Taken
    /\ owner' = [owner EXCEPT ![Returned.frame] = "window"]
    /\ dec' = [dec EXCEPT !.state = "paused"]
    /\ Fails
    /\ UNCHANGED <<indices, v4l2Handler, pollThread, codec, held, input, v4l2Seen>>

(* The codec refuses VIDIOC_REQBUFS or VIDIOC_STREAMOFF: nothing is          *)
(* reallocated, and onHandleOutputBuffer, which ignores that, tells nobody.  *)
(* Here the model ends.                                                    *)
ReallocateRefused ==
    /\ MayFail /\ dec.changing
    /\ \/ /\ HandlesOutput /\ codec.filled # <<>>
          /\ AllOurs([owner EXCEPT ![Frame.frame] = "us"])
       \/ /\ NextIs("schedule") /\ ~Stale(Returned)
          /\ \E g \in Exchanges(Returned.frame) : AllOurs([owner EXCEPT ![Returned.frame] = "window", ![g] = "us"])
    /\ dec' = [dec EXCEPT !.over = "refused"]
    /\ UNCHANGED <<owner, indices, msgs, v4l2Handler, pollThread, codec, held, input, pipe, v4l2Seen>>

(* onHandleResolutionChange: from here on the codec gives its frames back.   *)
OnHandleResolutionChange ==
    /\ NextIs("change") /\ Taken
    /\ IF codec.event
       THEN /\ dec' = [dec EXCEPT !.changing = TRUE]
            /\ codec' = [codec EXCEPT !.event = FALSE, !.free = {},
                            !.filled = @ \o SetToSeq({[frame |-> f, pkt |-> Packet(NumPackets + 1), last |-> FALSE]
                                                        : f \in codec.free})]
            /\ v4l2Seen' = [v4l2Seen EXCEPT !.lossy = TRUE]
       ELSE UNCHANGED <<dec, codec, v4l2Seen>>
    /\ UNCHANGED <<owner, indices, v4l2Handler, pollThread, held, input, pipe>>

-----------------------------------------------------------------------------
(* onFlush: everything comes back from the codec; the frames, but for the    *)
(* window's, go to it again, those the sink still holds among them.          *)
Flushes_KeepsOutput(d) ==
    /\ dec' = NextGen(d)
    /\ owner' = [f \in Frames |-> IF owner[f] = "window" THEN "window" ELSE "codec"]
    /\ codec' = [codec EXCEPT !.in = <<>>, !.done = <<>>, !.eos = FALSE,
                              !.free = {f \in Frames : owner[f] # "window"} \ {codec.filled[i].frame : i \in DOMAIN codec.filled}]
    /\ indices' = AllIndices
    /\ v4l2Seen' = IF Seeking THEN [v4l2Seen EXCEPT !.last = 0, !.lossy = FALSE, !.eos = FALSE]
                   ELSE [v4l2Seen EXCEPT !.lossy = TRUE, !.eos = FALSE]

Flushes(d) ==
    /\ dec' = NextGen(d)
    /\ owner' = [f \in Frames |-> IF owner[f] = "window" THEN "window" ELSE "codec"]
    /\ codec' = [codec EXCEPT !.in = <<>>, !.done = <<>>, !.filled = <<>>, !.eos = FALSE,
                              !.free = {f \in Frames : owner[f] # "window"}]
    /\ indices' = AllIndices
    /\ v4l2Seen' = IF Seeking THEN [v4l2Seen EXCEPT !.last = 0, !.lossy = FALSE, !.eos = FALSE]
                   ELSE [v4l2Seen EXCEPT !.lossy = TRUE, !.eos = FALSE]

OnV4l2Flush ==
    /\ NextIs("flush") /\ Taken
    /\ \/ /\ dec.changing
          /\ dec' = [dec EXCEPT !.deferred = Append(@, "flush")]
          /\ UNCHANGED <<owner, codec, indices, pipe, input, v4l2Seen>>
       \/ /\ ~dec.changing /\ ~dec.configured
          /\ Notify("flush")
          /\ UNCHANGED <<dec, owner, codec, indices, v4l2Seen>>
       \/ /\ ~dec.changing /\ dec.configured
          /\ Flushes(dec)
          /\ Notify("flush")
    /\ UNCHANGED <<v4l2Handler, pollThread, held>>

(* onStop: the poll thread is told to end, and waited for ...              *)
V4l2Idle == ~dec.configured \/ dec.state \in {"stopping", "stopped"}

TellsThread(d) ==
    /\ dec' = [d EXCEPT !.state = "stopping"]
    /\ codec' = [codec EXCEPT !.interrupt = TRUE]
    /\ pollThread' = [pollThread EXCEPT !.continue = FALSE, !.sem = @ + 1]

OnV4l2Stop ==
    /\ NextIs("stop") /\ Taken
    /\ \/ /\ dec.changing
          /\ dec' = [dec EXCEPT !.deferred = Append(@, "stop")]
          /\ UNCHANGED <<v4l2Handler, codec, pollThread, pipe, input>>
       \/ /\ ~dec.changing /\ V4l2Idle
          /\ dec' = [dec EXCEPT !.linked = FALSE]
          /\ Notify("stop")
          /\ UNCHANGED <<v4l2Handler, codec, pollThread>>
       \/ /\ ~dec.changing /\ ~V4l2Idle
          /\ TellsThread(dec)
          /\ v4l2Handler' = "join"
          /\ UNCHANGED <<pipe, input>>
    /\ UNCHANGED <<owner, indices, held, v4l2Seen>>

(* ... and everything comes back from the codec and goes to the window.     *)
Stopped(d) ==
    [NextGen(d) EXCEPT !.state = "stopped", !.configured = FALSE, !.linked = FALSE, !.target = -1]

StopJoined ==
    /\ v4l2Handler = "join" /\ pollThread.at = "exited"
    /\ dec' = Stopped(dec)
    /\ owner' = [f \in Frames |-> "window"]
    /\ codec' = [codec EXCEPT !.in = <<>>, !.done = <<>>, !.filled = <<>>, !.eos = FALSE, !.free = {}]
    /\ v4l2Handler' = "idle"
    /\ Notify("stop")
    /\ UNCHANGED <<indices, msgs, pollThread, held, v4l2Seen>>

(* processDeferMessage, from renderOutputBuffer; a stop is the last.         *)
DeferredFlush ==
    /\ v4l2Handler = "deferred" /\ Head(dec.deferred) = "flush"
    /\ Flushes([dec EXCEPT !.deferred = Tail(@)])
    /\ Notify("flush")
    /\ v4l2Handler' = IF Len(dec.deferred) = 1 THEN "idle" ELSE "deferred"
    /\ UNCHANGED <<msgs, pollThread, held>>

DeferredStop ==
    /\ v4l2Handler = "deferred" /\ Head(dec.deferred) = "stop"
    /\ TellsThread([dec EXCEPT !.deferred = Tail(@)])
    /\ v4l2Handler' = "join"
    /\ UNCHANGED <<owner, indices, msgs, held, input, pipe, v4l2Seen>>

(* onReset: onStop, and the device is closed.  Nothing is asked afterwards.  *)
Closed(d) == [d EXCEPT !.open = FALSE, !.linked = FALSE, !.over = "reset"]

OnV4l2Reset ==
    /\ NextIs("reset") /\ Taken
    /\ \/ /\ dec.changing \/ V4l2Idle
          /\ dec' = [Closed(dec) EXCEPT !.deferred = IF dec.changing THEN Append(@, "stop") ELSE @]
          /\ Notify("reset")
          /\ UNCHANGED <<v4l2Handler, codec, pollThread>>
       \/ /\ ~dec.changing /\ ~V4l2Idle
          /\ TellsThread(dec)
          /\ v4l2Handler' = "joinReset"
          /\ UNCHANGED <<pipe, input>>
    /\ UNCHANGED <<owner, indices, held, v4l2Seen>>

ResetJoined ==
    /\ v4l2Handler = "joinReset" /\ pollThread.at = "exited"
    /\ dec' = Closed(Stopped(dec))
    /\ owner' = [f \in Frames |-> "window"]
    /\ codec' = [codec EXCEPT !.in = <<>>, !.done = <<>>, !.filled = <<>>, !.eos = FALSE, !.free = {}]
    /\ v4l2Handler' = "idle"
    /\ Notify("reset")
    /\ UNCHANGED <<indices, msgs, pollThread, held, v4l2Seen>>

-----------------------------------------------------------------------------
(* DevicePollThread::main, once it runs, sleeps no more or poll returned: it *)
(* ends, sleeps or tells of what there is, and polls.                      *)
CodecReady ==
    codec.interrupt \/ codec.event \/ codec.eos \/ codec.done # <<>> \/ codec.filled # <<>>

PollReturned ==
    \/ pollThread.at = "top"
    \/ pollThread.at = "sem" /\ pollThread.sem > 0
    \/ pollThread.at = "poll" /\ CodecReady

HasEvent == IF pollThread.at = "poll" THEN codec.event ELSE pollThread.event

PollGoes(at) ==
    /\ PollReturned
    /\ pollThread' = [pollThread EXCEPT !.at = at, !.sem = IF pollThread.at = "sem" THEN @ - 1 ELSE @,
                         !.event = at # "poll" /\ HasEvent]

PollEnds ==
    /\ ~pollThread.continue /\ PollGoes("exited")
    /\ UNCHANGED <<dec, owner, indices, msgs, v4l2Handler, codec, held, input, pipe, v4l2Seen>>

PollSleeps ==
    /\ pollThread.continue /\ dec.state # "playing" /\ PollGoes("sem")
    /\ UNCHANGED <<dec, owner, indices, msgs, v4l2Handler, codec, held, input, pipe, v4l2Seen>>

PollPosts ==
    /\ pollThread.continue /\ dec.state = "playing" /\ PollGoes("poll")
    /\ Len(msgs.queue) <= MaxPolled
    /\ msgs' = [msgs EXCEPT !.queue = @ \o (IF HasEvent THEN <<Message("change")>> ELSE <<>>)
                                        \o <<Message("in"), Message("out")>>]
    /\ UNCHANGED <<dec, owner, indices, v4l2Handler, codec, held, input, pipe, v4l2Seen>>

-----------------------------------------------------------------------------
(* The codec: a frame for a packet; before one of another size it stops; the *)
(* end is told with a frame, or when it is asked for one.                   *)
CodecHas(eos) == codec.in # <<>> /\ ~codec.blocked /\ (Head(codec.in).pkt.n = EosPacket) = eos

Consumed == [codec EXCEPT !.in = Tail(@), !.done = Append(@, Head(codec.in).idx)]

Fills(f, last) ==
    codec' = [Consumed EXCEPT !.free = @ \ {f},
                              !.filled = Append(@, [frame |-> f, pkt |-> Head(codec.in).pkt, last |-> last])]

CodecStep ==
    \/ \E eos \in BOOLEAN : CodecHas(eos) /\ codec.free # {} /\ Fills(Min(codec.free), eos)
    \/ CodecHas(TRUE) /\ codec' = [Consumed EXCEPT !.eos = TRUE]

CodecGoesOn ==
    /\ CodecStep
    /\ UNCHANGED <<dec, owner, indices, msgs, v4l2Handler, pollThread, held, input, pipe, v4l2Seen>>

CodecChanges ==
    /\ CodecHas(FALSE) /\ dec.configured /\ v4l2Seen.changes < MaxV4l2Changes
    /\ codec' = [codec EXCEPT !.blocked = TRUE, !.event = TRUE]
    /\ v4l2Seen' = [v4l2Seen EXCEPT !.changes = @ + 1]
    /\ UNCHANGED <<dec, owner, indices, msgs, v4l2Handler, pollThread, held, input, pipe>>

(* The sink lets a buffer go (releaseOutputBuffer), shown or not.          *)
ClientReleases ==
    /\ \E b \in held :
         /\ held' = held \ {b}
         /\ msgs' = [msgs EXCEPT !.queue = Append(@, [what |-> "schedule", frame |-> b.frame, gen |-> b.gen])]
    /\ UNCHANGED <<dec, owner, indices, v4l2Handler, pollThread, codec, input, pipe, v4l2Seen>>

V4l2MessageThread ==
    \/ OnV4l2Prepare \/ OnStartInput \/ OnStartOutput \/ OnV4l2Pause \/ OnV4l2Resume
    \/ OnInputIgnored \/ OnHandleInputBuffer \/ InputStarves \/ OnInputUnlinked \/ RetryDue
    \/ OnOutputIgnored \/ OutputFrame \/ OutputOver \/ OutputKept
    \/ OnScheduleIgnored \/ OnSchedule \/ RenderFails \/ ReallocateRefused
    \/ OnHandleResolutionChange
    \/ OnV4l2Flush \/ OnV4l2Stop \/ StopJoined \/ DeferredFlush \/ DeferredStop \/ OnV4l2Reset \/ ResetJoined

PollThread == PollEnds \/ PollSleeps \/ PollPosts

V4l2Next ==
    /\ dec.over = "no"
    /\ \/ \E op \in V4l2Ops : V4l2Call(op)
       \/ V4l2MessageThread \/ PollThread \/ CodecGoesOn \/ CodecChanges \/ ClientReleases

V4l2Spec == V4l2Init /\ [][V4l2Next]_v4l2Vars

(* The two threads run, the codec decodes, the sink lets go what it has.    *)
V4l2FairSpec ==
    /\ V4l2Spec
    /\ WF_v4l2Vars(V4l2Next /\ V4l2MessageThread)
    /\ WF_v4l2Vars(V4l2Next /\ PollThread)
    /\ WF_v4l2Vars(V4l2Next /\ CodecGoesOn)
    /\ WF_v4l2Vars(V4l2Next /\ ClientReleases)

-----------------------------------------------------------------------------
(* mOutputFrames is right about every frame: the codec has those it is said  *)
(* to have; a frame the sink has, or one that is ours, comes back in exactly *)
(* one buffer of this generation (or the port is being reallocated): none is *)
(* lost and none is given out twice, whatever is flushed, shown, stopped and *)
(* changed while buffers are on their way.                                 *)
OnTheWay(f) ==
    Cardinality({b \in held : b.frame = f /\ b.gen = dec.gen})
    + Cardinality({i \in DOMAIN msgs.queue : msgs.queue[i].what = "schedule" /\ msgs.queue[i].frame = f
                                              /\ msgs.queue[i].gen = dec.gen})

FramesAccounted ==
    dec.over = "no" =>
        \A f \in Frames :
            /\ owner[f] = "codec" <=> f \in codec.free \cup {codec.filled[i].frame : i \in DOMAIN codec.filled}
            /\ owner[f] = "client" \/ (owner[f] = "us" /\ ~dec.changing) => OnTheWay(f) = 1
            /\ owner[f] \in {"none", "codec", "window"} => OnTheWay(f) = 0

(* So it is with the codec's input buffers, from the start to the stop.     *)
InputsAccounted ==
    dec.state \in {"play", "playing", "paused"} /\ dec.open =>
        \A i \in Indices :
            Cardinality({k \in DOMAIN indices : indices[k] = i})
            + Cardinality({k \in DOMAIN codec.in : codec.in[k].idx = i})
            + Cardinality({k \in DOMAIN codec.done : codec.done[k] = i}) = 1

(* A buffer, of input or output, is in one place.                          *)
BuffersAccounted == FramesAccounted /\ InputsAccounted

(* The sink gets the frames of the stream in order and without a gap, from   *)
(* the target of a seek on; none from before a flush that was answered.  A   *)
(* packet too big for an input buffer is no frame: its place in the stream  *)
(* is not counted.  (At a change of the resolution decoded frames are lost.) *)
FramesInOrder ==
    [][held' \ held # {} =>
         LET n == Frame.pkt.n
         IN /\ Frame.pkt.epoch = input.epoch
            /\ n = EosPacket \/ n = v4l2Seen.last + 1 \/ (v4l2Seen.lossy /\ n > v4l2Seen.last)
            /\ n # EosPacket /\ input.epoch > 0 => n >= SeekTarget]_v4l2Vars

(* component.h of flush, and likewise of the others: "MM_ERROR_ASYNC:        *)
(* execute async, the action will done by send event kEventFlushComplete".   *)
(* Violated when the resolution changes: see README.  (A reader that has     *)
(* nothing at the start is excepted.)                                      *)
V4l2Answers == pipe.op # "none" ~> pipe.op = "none" \/ v4l2Handler = "starves" \/ dec.over # "no"

(* The end of the stream that the codec has reaches the sink: a loop that     *)
(* asks the codec again runs only while mEosState says so, on the thread     *)
(* that commands, too, run on, one of which may come between.  (As long as    *)
(* the target of a seek is not reached the end, too, is skipped.)           *)
EosWithCodec ==
    \/ codec.eos \/ \E i \in DOMAIN codec.in : codec.in[i].pkt.n = EosPacket
    \/ \E i \in DOMAIN codec.filled : codec.filled[i].last

Commanded == pipe.mode # "playing" \/ pipe.op # "none"

EndReachesSink == dec.eos = "input" /\ dec.target = -1 /\ EosWithCodec ~> v4l2Seen.eos \/ Commanded

(* onHandleOutputBuffer of the end of the stream: "we should have a way for  *)
(* ending anyway".  Violated: see README.                                  *)
EndsAnyway == input.pos = NumPackets + 2 ~> v4l2Seen.eos \/ Commanded

(* onReset: "onStop wait until the pthread_join of mDevicePollThread": the   *)
(* device is not closed under the poll thread.  Violated: see README.       *)
DeviceOutlivesThread ==
    ~dec.open => pollThread.at \in {"none", "exited"}

(* configOutputSurface's ASSERT(mState == kStatePlay || mState ==           *)
(* kStatePlaying).  Violated: see README.                                  *)
ConfiguredWhilePlaying == dec.over # "start"

=============================================================================
