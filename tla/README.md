# A verification project for alios-mm

TLA+ models of the concurrent core of this multimedia framework, TLC
configurations that check them on small instances, and TLAPS proofs that hold
for every value of the constants. Source paths are relative to the repository;
`cow/...` and `base/...` are its directories.

Contents: 1 the system, 2 the plan, 3 the modules, 4 the runs, 5 the proofs,
6 what the models leave out, 7 findings.

## 1. The system

The framework plays and records media. An application holds a `CowPlayer` (or a
`CowRecorder`); it owns a *pipeline*, a vector of *components* (demuxer,
decoders, sinks). Every component, the pipeline and the player object are
message threads (`MMMsgThread`): a call posts a message, a handler on the
object's own thread does the work, and results come back as events that are
posted to the next message thread up.

    application
       | prepare/start/seek/...           ^ listener events
       v                                  |
    CowPlayer::Private  (command thread)  |
       | Pipeline::prepare() ...          |
       v                                  |
    PipelinePlayerBase  --- own thread: onComponentMessage, onCowMessage
       | component->start() ...           ^ Component::notify -> postMsg
       v                                  |
    components (own threads)  --- buffers, TrafficControl --->  next component

| part | state | operations | interacts through | hard behaviour | what makes it correct |
|---|---|---|---|---|---|
| `MMMsgThread`, `MMThread` (base) | queue by due time, map of responses, id counter, run/exit flags | run, postMsg, sendMsg, postReponse, exit, the loop | a mutex and two conditions | wakeups, order of delayed messages, exit against everything, id wrap | nothing slept through, due order, each request answered once and to its sender, exit drains |
| `Monitor`, `Tracker`, `TrafficControl` (base) | two counters, bars, escape flag | produce, consume, waitOnFull, waitOnEmpty, unblockWait | one mutex, one condition for both sides | signal on a shared condition, wrap, stop | bound on live buffers, nobody forgotten, unblock is final |
| `Pipeline`, `PipelinePlayerBase`, `PipelinePlayer` | mState/2/3, state and state2 per component, mErrorCode, mEscapeWait, seek parameter, preview flag | load, prepare, start, stop, pause, resume, seek, flush, reset, unblock, onComponentMessage | mLock and two conditions; the message thread | completions in any order and at any moment, seek as several commands, sections of onComponentMessage that are not atomic | a command that succeeded means what it says, seek restores, commands return |
| `CowPlayer` | uri, seek parameter, listener | the player's API, looping, destruction | command thread, mPriv->mLock, mWatchLock | lock order, sync calls under a lock, EOS handled inside a callback | no deadlock, order of commands |
| `SeekEventParam` | pending and target position | update, take, clear, report | own lock | several seeks share it | last seek wins |
| `Clock`, `ClockWrapper` | anchors, pause times | setAnchorTime, pause, resume, flush, getMediaLateUs | mutex; shared by sinks | check then act, flush while paused | pauses do not move the position |
| `MediaFission` | buffer queues, writers, push thread | read, write, start, stop, pause, resume | TrafficControl, a semaphore, unlocked queues | stop against a blocked push, refused writes | each output gets the input in order, stop returns |
| `AVDemuxer` | packet lists, seek, buffering and track state | prepare, start, stop, seek, read, flush, selectTrack | mutex, semaphore, read thread | a read in flight against everything else | no gap, a seek starts at a key frame, each seek answered, reading goes on |
| FFmpeg decoders | decode thread, monitor, flush flag | component interface | mutex kept during waits, TrafficControl | commands against a thread that keeps the lock, monitor replaced | commands answered, nothing old after a flush |
| video sink | frames, generation, clock | component interface, render messages | delayed messages to itself | messages that outlive pause, flush, stop | the chain of renders neither breaks nor doubles |
| audio sink (Pulse) | buffers, output thread, stream, clock | component interface | PulseAudio's lock, a mutex, a condition | a buffer in hand against flush, lost exit, drain of a corked stream | buffers once and in order, clock and stream agree, commands answered |
| V4L2 video decoder | owners of frames, input indices, generation, end state | component interface, input, output, schedule, resolution change | its messages, a poll thread, the codec, the window | buffers on their way against flush, stop and change; poll thread against stop | each buffer in one place, frames in order, commands answered, the end told |
| mediacodec, V4L2 encoder | buffers in ports | queue, dequeue, flush | device threads | buffer ownership | as above |
| recorder pipelines, `CowRecorder` | as the player, and counts of ends | prepare, start, pause, resume, stop, reset, EOS | as the player | stop through EOS, late ends | nothing stopped before this recording's end; commands return |
| `AVMuxer`, `FileSink` | list per stream, times, mux thread | write, start, pause, resume, stop, reset, the loop | a mutex, a semaphore, unlocked flags | interleaving of streams, pauses, stop against write | file in order and complete when its end is told, told once |
| mediaserver | sessions, instances, proxies | UBus methods | UBus, side band | client death | no session leaks |
| v4l2 service, WebRTC, transcoding, wrappers, examples | adapters | - | - | - | - |

`PROJECT.json` lists all of them with their files and how far they are
modelled, and under `hazards` the places in the code that are hard to test.

## 2. The plan

In order of importance. What is in bold exists.

| module | about | builds on |
|---|---|---|
| **`MsgThread`**, **`RequestReply`** (abstract) | message thread; sendMsg as a rendezvous | - |
| **`TrafficControl`** | flow control | - |
| **`PipelinePlayer`** | the player's pipeline against its components | the queue of `MsgThread` as a FIFO, which `QueueIsOrdered` justifies |
| **`MsgThreadProofs`**, **`PipelinePlayerProofs`**, **`AVMuxerProofs`**, **`RecorderPipelineProofs`**, **`AVDemuxerProofs`**, **`VideoDecodeV4l2Proofs`** | theorems | the modules they are named after |
| **`PlayerThreadProofs`** | theorems about the player's threads behind the demuxer | `DecodeThread`, `AudioSink`, `VideoSink`, `Clock` |
| **`BufferFlowProofs`** | theorems about the flow of buffers between threads | `TrafficControl`, `MediaFission` |
| **`Clock`** | anchors with pause, resume, flush, rate | - |
| **`VideoSink`**, **`AudioSink`** | the two sinks that share the clock | `Clock`, the queue of `MsgThread` |
| **`AVDemuxer`** | buffering, reads, seeks, tracks | - |
| **`DecodeThread`** | the FFmpeg decoders' thread, its monitor replaced on resume | the rules of `TrafficControl` |
| **`MediaFission`** | queues, push thread, semaphore, stop | the rules of `TrafficControl` |
| **`RecorderPipeline`** | start to stop through EOS | `pipeline.h`'s macros |
| **`AVMuxer`** | the recorder's end: interleaving, pauses, the file | - |
| **`VideoDecodeV4l2`** | the V4L2 decoder: buffers between reader, codec, window and sink; change of the resolution | the queue of `MsgThread` as a FIFO |
| `MediaCodecBuffers` | the mediacodec components: each buffer has one owner | - |
| `PlayerCommands` (abstract) | what a sequence of commands promises; `PipelinePlayer` to implement it outside the reset race | `PipelinePlayer` |
| `PlayerLocks` | mWatchLock, mPriv->mLock, mLock: who waits for whom | `PipelinePlayer`'s commands |
| `MediaSession` | sessions of the media service, death of a client | - |

The player's parts are composed through their contracts and not as one state
space: `PipelinePlayer` has components that answer when they like, each
component's module has a pipeline that gives any order of commands the first
one may give, and the buffers between two components are an input here and an
output there. A run of all of them at once would be out of TLC's reach.

## 3. The modules

General conventions. An action is one critical section, or the unlocked
accesses up to the next lock, whichever is what other threads can see. A thread
inside `Condition::wait` has given up the mutex: it has a place of its own
("waiting", "asleep"), left by a signal, a timeout or spuriously (POSIX allows
it, and no property relies on it: spurious wakeups are in every `Next` and
never fair). A definition `D_Mistake` in front of `D` is `D` with a plausible
mistake; nothing uses it, and `PROJECT.json` (`mutants`) says which property
notices it when it takes `D`'s place.

### MsgThread (`base/src/src/mmmsgthread.cc`, `mmmsgthread.h`, `mmthread.cc`)

| TLA+ | code |
|---|---|
| `mContinue, mThreadCreated, mMsgQ, mRespMap, mCurRespId` | the members of the same name; a response is the stamp of the request it answers, 0 when there is no entry |
| `loop` | the loop thread: check (at the top), waiting, timed (`timedWait` until `deadline`), handling, over |
| `pc[c]` | a caller: idle, post (id taken, not posted), reply (in the wait loop, holding the lock next), blocked (in `mReplyCond.wait`), join |
| `Enqueue` | doPost: the walk past all messages due no later (`Ahead`), the signal for a new front (`SignalsLoop`) |
| `SendMsg, SendPosted/SendRefused, SendAbandoned/SendBlocks/SendAnswered` | sendMsg, one section each |
| `LoopOver, LoopWaits, LoopTimedWait, LoopTakes` | the four outcomes of the loop's locked section, `Due` with the rule that an exiting thread ignores delays |
| `PostReponse, HandlerReturns, HandlerPosts` | what a handler does, without the lock |
| `Exit, Joined` | exit() and the pthread_join in destroy() |
| `now, Tick` | CLOCK_MONOTONIC |

`stamp`, `mine` and `answer` are history: they number accepted messages so that
"its own request" can be said.

`RequestReply` is sendMsg without queue, ids, locks or conditions: a request is
asked, served at most once, and returned, or abandoned because the thread
closed. `ImplementsRequestReply` maps a sender with an entry in `mRespMap` to
"served".

### TrafficControl (`base/src/src/media_monitor.cc`, `media_monitor.h`)

Counters have `CountSpace` values (2^32) and their difference is taken modulo
it. `at[t]` is where a thread is: a producer calls `Produce` (the constructor of
the `Tracker` of a new buffer), then waitOnFull, as the decode threads do
(`audio_decode_ffmpeg.cc:213-221`); a consumer drops a buffer and calls
waitOnEmpty, as `monitor-test.cc` does; `Release` is a sink's thread dropping
the last reference. `Signal` wakes any one of the threads on the one condition
variable. `alive` counts the buffers made and not released.

### PipelinePlayer (`cow/src/pipeline_player_base.cc`, `pipeline.h`, `player/pipeline_player.cc`, `player/cowplayer.cc`)

| TLA+ | code |
|---|---|
| `mState, mState2, mState3, state, state2, built` | the members; `built` is `mComponents.size()` |
| `cmd` | the command thread: the handler it runs (`top`), the call it is in (`op`), the step within it, the component it calls next, the status |
| `queue`, `p` | the pipeline's message thread: its queue, and the section of onComponentMessage it is in |
| `work, real, previewing` | the components: calls still to answer, the state each one really is in |
| `param` | SeekEventParam |
| `Enter*`, `Call*`, `Called` | CHECK_PIPELINE_STATE, the loop and the end of SET_PIPELINE_STATE; the same loops of flushInternal and reset |
| `WaitDone, WaitEnds, WaitSleeps, Waited` | waitUntilCondition; mErrorCode is read after the lock is gone |
| `EnterSeek, Following, SeekSource, Preview*, Continue` | seek(): pause, flush, seek of the source, preview, restart |
| `Receive, Update, SetReached, SetNull, Notify, Broadcast` | onComponentMessage: the test for Null, the locked update, `setState(mState, ...)`, the notification, the locked broadcast: five moments other threads can come between |
| `Answer, EndOfStream, ShowPreview` | components on their own threads |

`Sync` and `Async` say which component may complete which operation at once and
which may answer MM_ERROR_ASYNC. `DemuxerSync/DemuxerAsync` in
`MCPipelinePlayer` are AVDemuxer's answers (`av_demuxer.cc`: prepare and seek
later, everything else at once) with sinks that answer everything later
(`video_sink.cc`, `audio_sink_pulse.cc`); decoders behave like such sinks.
`AnySourceSync` lets the source do either.

The application's side: any command at any time, except a load of a player that
is still running (the code says "assume caller does reset"), and the order stop,
reset that `CowPlayer::reset` itself enforces. `gen` counts how often the
components were destroyed, so that an event of a former one never counts, as its
raw sender pointer matches no component.

### Clock (`cow/src/clock.cc`, `clock_wrapper.cc`)

A record with the members of the class and one operator per method, each a
section of its mLock: `Anchored` (refused while paused), `ClockPaused`,
`ClockResumed`, `ClockFlushed`, `RateSet`, `Position`, `MediaLate`. `Drives` says which calls
of a sink `ClockWrapper` lets through. Integer division is C++'s.

### VideoSink (`components/video_sink.cc`)

| TLA+ | code |
|---|---|
| `video`, `videoQueue` | its flags, the generation, the wrapper's ownership of the clock; mVideoQueue |
| `videoMsgs` | the message thread's queue with due times: commands, writes, render messages with their generation |
| `VideoWrite, VideoWriteNull` | the decoder's write: the frame and, behind an end of stream, the NULL, which is a message of its own |
| `DecoderAnew` | the decoder carries out a flush or stop some time after the sink was asked: what it writes before that is old (`videoSeen.old`), and after an end of stream nothing |
| `OnVideoWrite, OnVideoPause, OnVideoResume, OnVideoFlush` | the handlers of the component interface |
| `ScheduleNot, ScheduleNull, ScheduleFrame, VideoAnchors, SchedulePosts` | scheduleRenderFrame_l in its sections between uses of the clock: the anchor is looked at and set in two steps |
| `RenderObsolete, RenderNull, RenderFrame, RenderTooSoon` | onRenderFrame: a former generation, the end, a frame, a frame left out |
| `SetPreview`, `VideoRate` | setParameter: the seek's preview, the play rate |
| `AudioMoves` | the audio sink, on its threads: an anchor, pause, resume, flush of the clock |

### AudioSink (`components/audio_sink_pulse.cc`)

| TLA+ | code |
|---|---|
| `sink`, `sourceBufs`, `sinkMsgs`, `handler` | members, mAvailableSourceBuffers, the message thread and the section its handler has reached |
| `out` | the output thread: top of the loop, about to wait (holding mLock), asleep, with a buffer in hand, writing, without room, draining, about to pop |
| `stream` | PulseAudio (external): what is in the stream, corked, callbacks set |
| `OnStart .. Uncorked`, `OnPause .. Corked`, `OnFlush .. Flushed .. Cleared`, `OnStop .. SinkJoined .. StopFlushed .. StopEnds` | the handlers, cut where pa_threaded_mainloop_wait gives up the lock or another lock is taken |
| `Out*` | OutputThread::main, likewise |
| `DevicePlays` | streamWriteCallback |

A pop of an empty std::queue is undefined: the model notes it (`poppedEmpty`)
and ends there.

### DecodeThread (`components/video_decode_ffmpeg.cc`, `audio_decode_ffmpeg.cc`)

Both decoders, told apart where they differ (`decoder.audio`). `decodeLoop` is
the thread, which keeps mLock while it reads, decodes, writes and waits in
waitOnFull; `monitors` are the TrafficControls made so far, since a buffer counts in the one it was
made under; `codecHolds` is the number of flushes the data in the codec has
seen. `Unblocks` is unblockWait before pause, stop and reset ask for the lock.
`Order` has the orders of commands the pipeline uses: a flush comes in any state
and leaves it (`flushInternal`, in a seek and on the return to the normal rate).
A sink that refuses a buffer ends the thread (`WriteRefused`, `ReadsEndOfAudio`), or,
of the video decoder, has it write the same again and again with mLock held
(`WriteRepeats`: a frame refused with MM_ERROR_AGAIN, 205 to 212; an end of stream refused in
any way, 226 to 230). A refusal that passes is the same write, later.

### MediaFission (`components/media_fission.cc`)

`outQueues` are the encoder's queue, read by `FissionReader::read` on another
thread (`Encoder*`), and the preview's, emptied by the push thread (`Push*`): front, write, pop, each
without a lock. `fissionHandler` is the message thread, which pulls
(`HandleInput`) when the fission is the master of its input and blocks in `PushBuffer`, with
the commands behind it. `FissionStop` is stop() as called: it posts, and opens the
queues. `FissionWrite` is the source that writes by itself.

### AVDemuxer (`components/av_demuxer.cc`)

| TLA+ | code |
|---|---|
| `tracks`, `audioList` | mStreamInfoArray: current list, pending list of the track to switch to; packets are positions in `File` |
| `demux` | mState, seek position and sequence, buffer state |
| `reader` | ReadThread: at its semaphore, at the top, checking a seek, in av_read_frame (without the lock) |
| `file` | FFmpeg (external): position and the streams it discards |
| `ReadFrameBegins, ReadFrame, ReadFrameEof, ReadFrameFails` | readFrame up to the unlock, and from the lock on |
| `CheckSeek` with `InBuffer`, `SeekPos`, `Answers` | checkSeek: in the buffer if it can be, else in the file; one seek answers all that are queued |
| `ReadVideo`, `ReadAudio` | the decoders' threads, with the switch of tracks (`Switches`) and the wake-up below the low water mark (`AfterRead`) |
| `StartTime` | the file's start time: seek adds it to the position (2125), readFrame takes it from the packets' times (2614). `File` has the times after that; `SeekPos` (FFmpeg's) and `InBuffer` get the position as it is, so the second compares times that are `StartTime` apart |
| `Demux*`, `Stop*`, `Reset*`, `SelectTrack` | the pipeline's calls |

### RecorderPipeline (`cow/src/pipeline_recorder_base.cc`, `recorder/*.cc`, `pipeline.h`)

As `PipelinePlayer`, with one source and its encoder for those of audio and
video, the muxer, the file sink, and the preview's sink for MediaFission and
it. `rec` has the counts of connected and ended streams; `SignalEos`, `EosCame`
are stopInternal, `OnEos` the counting; `Ends` is the end of the stream coming
out of a sink. `Answers`, `AnswersFailed`, `Fails`, `FileSinkFails` are what
components do.

### AVMuxer (`components/av_muxer.cc`, `file_sink.cc`)

| TLA+ | code |
|---|---|
| `streams` | mStreamInfoArray: the list, paused, codec data there, the times that pauses are cut out with |
| `muxThread` | the mux thread with its semaphore, and the packet it has taken |
| `muxCall` | stop and reset as the message thread carries them out; pause and resume on the caller's thread |
| `MuxPause, PausesVideo`, `MuxResume, ResumesVideo, ResumeEnds` | pause and resume: the streams' flags one by one and mCheckVideoKeyFrame last, under mLock, which the mux thread does not take |
| `MuxWrite` | write: the list under mBufferLock, then `mMuxThread->mux()` without it |
| `MuxTakes` with `Earliest` | getMinFirstBuffer_l: all streams have packets or are at their end; of equal times it takes the last stream's, video's, since the pipeline connects audio first (`pipeline_videorecorder.cc:166`, 222) |
| `MuxEos, MuxUndetermined, MuxMalformed, MuxDiscards, MuxWrites` | what mux() may do with a packet |
| `MuxTrailer` | writeTrailer, the end told to the file sink |
| `Retimed` | StreamInfo's times: pauses are cut out |
| `muxSeen.dropped` | history: a packet may be missing for a reason. A start already sets it when a stream is still paused or mCheckVideoKeyFrame still set: the muxer clears that flag only when it writes a key frame (`av_muxer.cc:1628`), so after pause, resume and stop the next recording, which was never paused, begins with its first key frame |
| `Even` | the stream's first recording with packets at one distance, none of which was taken while a resume was under way (`muxSeen.slipped`: such a packet comes before the key frame for which the next ones are discarded). A pause is counted as over one former interval before the next packet, so with uneven intervals (or after packets a stop has lost) a packet may be put too early, by at most the difference; `TimesContinue` bounds the advance of even streams, and of all says that times never go back |

### VideoDecodeV4l2 (`components/video_decode_v4l2.cc`)

In the build `__MM_YUNOS_LINUX_BSP_BUILD__`, the one that keeps frames during a
change of the resolution and reallocates them after it.

| TLA+ | code |
|---|---|
| `dec` | mState, mEosState, mConfigured, mGeneration, mPortSettingChange, mTargetTimeUs, mDeferMessages; whether the device is open and the reader there; `over` ends a behaviour at an assertion, a null reader or after a reset |
| `owner`, `indices` | mOutputFrames[i].mOwner; mInputIndces |
| `msgs`, `v4l2Handler` | the message queue with the delayed handleInputBuffer; the handlers that wait (`join`, for the poll thread), go on with a next frame (`out`) or with what was put off (`deferred`), or do not end (`spins`) |
| `OnStartInput, OnStartOutput` | start() in two messages: the input port, then the output port and the poll thread |
| `OnHandleInputBuffer, RetryDue, OnInputUnlinked` | from the reader to the codec, as far as it has something; a packet too big for an input buffer is read, ignored and takes no place in the count of packets (1097 to 1101); the retry; a reader that is gone |
| `InputStarves` | the reader has nothing when the first input is asked for: the message thread reads again and again (1055 to 1058) and handles nothing more (`starves`). One that delivers after a while is `OnHandleInputBuffer`, later |
| `OutputFrame, OutputOver, OutputKept` | onHandleOutputBuffer: a frame written or left out before a seek's target, no more frames (and the end), a frame kept during a change |
| `OnSchedule, OnScheduleIgnored, RenderFails` | a buffer the sink let go: shown for another one of the window (`Exchanges`), queued again; of a former generation; refused |
| `OnHandleResolutionChange, Reallocates, ReallocateFails, ReallocateRefused` | from the event to handlePortSettingChanged; it fails with an error told (745), or, when the codec refuses VIDIOC_REQBUFS or VIDIOC_STREAMOFF, returns (721, 726) and nobody is told: `onHandleOutputBuffer` ignores the result (1505). There the model ends |
| `OnV4l2Flush, OnV4l2Stop .. StopJoined, OnV4l2Reset .. ResetJoined, Deferred*` | the handlers that a change puts off, and processDeferMessage |
| `PollEnds, PollSleeps, PollPosts` | DevicePollThread::main, one turn of its loop |
| `Codec*`, `ClientReleases`, `Exchanges`, `V4l2Legal` | external: the codec, the sink, the window, the pipeline |

The codec takes its free frames in a fixed order: frames differ only in who has them. Its poll
returns when it has a frame, a used input buffer, an event, the end to tell, or
is interrupted. `held` are buffers with the generation they were made in, as
the sink has them; they come back in any order. `v4l2Seen` is history: the last
frame written, whether decoded frames were lost by a change.

### The MC modules of several parts

`MCPlayerParts`, `MCDataThreads` and `MCRecorder` each put independent parts
into one run: the variable `part` says which of them moves, the others stay in
their initial states. A behaviour is then one of one part's specification, and
the state space is the sum and not the product of theirs.

## 4. The runs

| run | instance | shows |
|---|---|---|
| `msg_thread` | 2 clients, delays 0 and 1, ids 0..3, 3 messages, clock to 2 | order, wakeups, answers, the refinement with its fairness, exits that join, messages that are handled; the ids wrap, a second request overtakes, an exit meets posts, sends and answers |
| `msg_thread_create_fails` | thread creation may fail | `DestructorAssert` is violated (finding) |
| `traffic` | bars 1 and 3, counters modulo 6, 9 buffers: 2 producers, 1 consumer and a sink; or 1 producer and 1 consumer alone | exact count over the wrap, bound; the signal reaches whoever can go on |
| `pipeline_play` | source, video and audio sink, 5 commands, 2 seeks | what commands and seeks mean, and that they return |
| `pipeline_faults` | source, video sink, 5 commands, 1 seek, 1 end of stream, 1 fault, unblock | no completion is slept through |
| `pipeline_reset` | as small as shows it | finding |
| `player_parts` | video sink: 2 frames at a distance of 1, 3 commands, clock to 2, rates 1 and 2, with and without an audio sink; demuxer: 9 packets of 3 streams (two of video with times 0, 2, 3, the first of them 4 too; audio at 0 and 3), a start time of 2, 4 calls | renders, positions, reading, seeks, what decoders are given, where a seek starts |
| `data_threads` | audio sink: 4 commands, 2 buffers of twice the stream's room, operations of PulseAudio that may fail; decoders: bars 1 and 2, 4 packets of up to 2 frames, 6 commands; fission: queues of 2, 4 inputs, 4 commands; V4L2 decoder: 3 frames (1 the window's), 1 input buffer, 2 packets and one that is too big, seeks to the 2nd, 5 commands, 1 change of the resolution, refusals | data in order, nothing old, clock and stream agree; no buffer lost or doubled |
| `data_threads_live` | the same with fewer buffers and no failures of PulseAudio; V4L2 decoder: 1 packet and one that is too big, 4 commands, no change, a reader that has nothing for a while | every command is answered, but for the named exceptions; the end is told |
| `recorder` | audio recorder, and video recorder with preview: 5 commands, 1 fault; muxer: 4 packets of 2 streams, a limit that the last of them reaches unless a pause was cut out, 3 calls, late codec data, failing file | stop, end and file of a recording; commands return |
| `recorder_again` | video recorder, 7 commands, 1 fault | finding |
| `video_decode_change` | as `data_threads_live`, 3 commands, 1 change | finding |

Bounds. The constants named `Max...` (messages, commands, frames, packets,
calls, faults, times) end a behaviour; nothing else does, so `CHECK_DEADLOCK FALSE` is set
where a bound, an exit or a full stop may leave nothing to do. `IdSpace` and
`CountSpace` stand for 2^32 and are small, so that they wrap inside a run: with
three messages all three ids are used up. Five commands reach load, prepare, start,
pause and one more of each, or load, prepare, start and two seeks; two seeks are
the least at which one overtakes another and at which a flush meets marks of an
earlier flush. Three components are the least at which a component in the
middle has not been called when another answers. Two frames are the least at
which a render message meets another of a former generation; a buffer of twice
the stream's room makes the output thread wait in the middle of it. The
demuxer's file has a key frame in every second packet of both video tracks, so
that a seek and a switch find one that is not the next, and its two water marks
are one and two packets, so that every few reads cross one. Its first track has one
packet more than the second, so that a switch away from it is far enough under way
to have it discarded before its end. Two packets of
video with one of audio in between are the least that can be interleaved
wrongly; a pause cuts at any of them, and a third of video is the first whose
time depends on an interval that was measured before the pause. Three frames are the least with one at the
window, one at the sink and one at the codec; a single input buffer is used
again for every packet. `MaxPolled` 0 lets the poll thread go on only when its
messages have been handled, which keeps the queue short: commands, retries and
buffers of the sink still come between them. Times are small numbers: 1 stands for the
10 ms, 1 s or frame distance at hand, whose order (`Slack` < `TooLate` < `FarAhead`) is
the code's.

Fairness. Each thread is weakly fair: a thread that can run will. Handlers
return, components answer what they were asked (in the runs without faults) and
the clock advances. No fairness is given to the application, to handlers that
might post, to unblock, or to spurious wakeups; so liveness never comes from a
wakeup nobody sent. The parts of the MC modules keep the fairness of their own
specifications: weak for a component's threads, strong for the audio sink's
message thread, which competes for mLock with a thread that takes it again and
again, weak for the device that plays. The V4L2 decoder's two threads are weakly
fair, its codec decodes and its sink lets go what it holds, in the end. Decoders, sources and sinks on the other
side need not read, deliver or give back anything, with one exception: while the FFmpeg decoder is asked to flush,
its sink gives buffers back (`SinkFlushed`), since flushInternal asks both at
the same time (`pipeline_player_base.cc:735`) and the sink drops its queue.

What the properties mean is said above each of them in the modules.
`FirstCommandsReturn` is restricted to the time before the first reset, because
of finding 2: without the restriction it is `CommandReturns`, which
`pipeline_reset` violates. `PartsAnswer` excepts the audio sink's two ways of
hanging (`MissedExit`, `DrainsCorked`) and undefined pops, and of MediaFission asks
for stop and reset only; of the video decoder with FFmpeg it excepts the loop in which it writes again
what the sink refuses (it keeps mLock, which every handler wants), of the V4L2 decoder the loop of the
message thread around a reader that has nothing at the start; else it says
`V4l2Answers` of it, in a run where the resolution does not change (with a change see finding 4).
`ChainAlive` excepts the one way in which the chain of renders does break (`cut`): a NULL
that was posted after its stream was flushed or stopped, and is shown with frames
of the next stream behind it. `EndReachesSink` is
`EndsAnyway` for an end that the codec still has. `RecordingEnds` excepts recordings with a fault and the
paused one with a preview.
`SuccessIsTrue` and `BuffersAccounted` are conjunctions of named
parts; `PairNotForgotten` is `NobodyForgotten` where it holds.
The types of the recorder's two modules, `RecTypeOK` and `MuxTypeOK`, are proved (below), and no run
checks them again.

## 5. The proofs

Everything in `MsgThreadProofs`, `BufferFlowProofs`,
`PipelinePlayerProofs`, `AVMuxerProofs`, `RecorderPipelineProofs`, `AVDemuxerProofs`,
`PlayerThreadProofs` and `VideoDecodeV4l2Proofs` is checked by tlapm for every value of the constants that satisfies the modules' ASSUMEs (and,
for `DestructorSafe`, that the thread can be created; for `FileInOrderHolds`, that
the times of a stream increase).

* `TypeCorrect`: `TypeOK` is inductive.
* `QueueIsOrdered`: `QueueOrdered` is inductive together with "stamps in the
  queue are at most `stamp`": a new message has the largest stamp and is put
  behind all messages due no later, so only messages due strictly later follow
  it. Key lemma: what `InsertAt` does to each index.
* `SendersWakeUp`: a sender blocks only when its answer is missing under the
  lock, and every step that brings the answer or clears mContinue wakes all.
* `LoopWakesUp`: uses the order of the queue: a message not put first leaves the
  first one, and so the deadline of the timed wait, as they were.
* `DestructorSafe`: once closed the queue is empty or the loop is not over, and
  whoever closed it is joining.
* `RequestsAreKept`, `AnswersAreOwned`, `AnswersAreOwn` share one invariant: distinct waiting senders have distinct ids, every
  message with an id in the queue or the handler belongs to at most one of them,
  stamps are unique, and, while the thread is open, each waiting sender's
  request is in exactly one place. None of the three is inductive alone: that an
  answer is taken by its owner needs ids to be distinct, which needs the bound
  that fewer than 2^32 - 1 requests overtake one (`IdFree`).
* `MsgThreadImplements`: initial states map to initial states and each action to
  one of `RequestReply`'s or a stutter, using that invariant for PostReponse (it
  serves exactly one request) and SendAnswered.
* `TrafficTypeCorrect`, `PendingIsExact`, `EscapeIsFinal`, `AliveIsBounded`: the
  count is exact because produced - consumed and alive agree modulo
  `CountSpace`; the bound comes from counting the producers that are past
  their check: alive + (producers that may still add) stays within it.

* `SignalFindsTheOther`, `PairIsNotForgotten`: with one producer, one consumer and no sink (or
  with others that have not come to a wait), `NobodyForgotten` is inductive with the exact count: a signal is given when the
  bar is crossed, by the one that runs, so only the other can be asleep and
  there is nobody else the signal could go to.
* `PlayerTypeCorrect`: `TypeOK` is inductive with `BusyOK` (past its checks a
  command is one that components know, and was not turned down) and with "the
  pipeline's thread works on an event that reports something". It is proved in
  parts, one for each group of variables, each with the few actions that touch it.
* `CompletionIsNotMissed`: the command thread goes to sleep on a check made under
  the lock; after that only the pipeline's thread changes what the check looks
  at, and every such step of it lies before its broadcast.
* `TheLastSeekWins`: while a position is pending it is the newest, and there is a
  posted seek, or one that has not yet asked the source, or one that was turned
  down. That needs that a seek on its way to the source (`InHand`) has a position,
  and that the pause after a preview is not taken for the pause a seek begins with.

* `FissionTypeCorrect`, `EachGetsAllInOrder`: inputs are numbered. A queue holds
  exactly the numbers between what its consumer removed and what the handler
  pushed (`QueuesInOrder`), and what a thread holds between two locked calls of
  a queue is the next number (`HeldIsNext`). That the push thread still finds at
  its pop what it saw at its front needs that nobody clears a queue under it: a stop
  joins the thread first (`ClearedForGood`, `PullsOrIsWritten`).
* `WritesAlwaysFindThread`: a stop leaves the state "started" before it takes the
  thread (`CallsInOrder`).
* `RecordingComplete`: every number from the start on is in the file, in its
  list behind `Pending`, or the packet the thread holds (`NothingLost` with
  `ListsInOrder`), unless there is an excuse; where the trailer is written all lists are
  empty (`NothingLeft`). That needs why the thread leaves its loops
  (`LeavesForReason`, `EosForReason`, `EosSomewhere`: the end of a stream is in its list,
  taken or known), and why packets are discarded (`DiscardsForReason`). That the end
  is told once is `EndInOrder`: the thread runs until it has told it.
* `FileInOrderHolds`: all packets that may still be taken are as late as those in the
  file (`OthersAreLater`): the thread takes nothing while a stream that may
  continue has no packet. It assumes `Increasing`: the times of one stream increase
  strictly, which FFmpeg demands of those who write packets, and the instance
  TLC checks satisfies. For the times of an even stream, `Paced` bounds how far the
  retimed packets are ahead of the encoder's times by the frame length the muxer
  has counted too much (`Excess`, `Ahead`); `PacedStep` is the arithmetic of one
  packet, and `KeyAfterPause` says that packets are skipped only between a
  resume and the first key frame. It holds until a packet is taken between the streams' flags and
  mCheckVideoKeyFrame of a resume, which the mux thread can do: from then on (`slipped`) nothing is claimed
  about how far times advance (`NeverAhead`, section 7).
* `MuxTypeCorrect`: types, with `ListsInOrder` for what is in the lists.

* `AllTogetherHolds`: `AllTogether` speaks of the time between commands, so the
  invariant (`Together`) says what holds under way. A component has at most one
  call, the one of this command (`OneCall`), answers in the queue are this
  command's and one for each component (`AnswersHere`), and what the pipeline
  has noted of a component is where it is (`ReachedIsTrue`). The pipeline sets
  mState on its own thread after it has given up the lock (pipeline_recorder_base.cc 486 to
  489), possibly when the next command has begun: `ThreadPlace` says that
  what is still to be set is either this command's state and all components reached
  it, or mState already. That is true because the encoder is called last and never
  answers at once (`CallsLeft`, `EncoderLast`), so the next command cannot have
  finished meanwhile.
* `StopAfterEosHolds`: the ends counted and those in the queue are together those that
  came out of the sinks in this recording (`EndsCounted`), each once (`EndsOnce`), and outside a
  recording there are none, neither counted nor queued nor under way (`NoEnds`).
  Both theorems are about histories without a fault, as the two properties are: after a
  failure the pipeline may hold answers of a command that it gave up.
* `RecTypeCorrect`: types, of all histories.

* `NotStalledHolds`: `NotStalled` alone is not inductive: a seek that comes while the thread is in
  av_read_frame must not be lost when the thread goes to its semaphore with full
  buffers or at the end of the file. `SeekHeard` adds that its post is still there, or that the thread is
  corked, and a corked thread is woken by what uncorks it.
* `SeeksAnsweredHolds`: `SeeksAnswered` is inductive as it stands, written as `Accounted`
  of the answers with the seeks under way behind them; one lemma for each of
  what is done to those (one more, all answered, all dropped, stop's own in front).
* `StreamsContinueHolds`: `Chain` says that a list, with the packet given out last in
  front, is an unbroken piece of its stream, and that no packet of the stream lies between its
  last one and FFmpeg's position; `StreamInv` is that of the current
  list, the pending list and the audio list. What av_read_frame brings goes on from
  there whatever happened without the lock, because whoever moves the position empties the
  lists. But packets are skipped until a key frame after a start, flush or seek
  (mCheckVideoKeyFrame), and a piece with skipped packets would have a hole: `PhaseInv` says that
  by then the lists are empty, or a seek that will empty them waits and nothing is being read,
  or the file is at its end (`Settled`), also between the two sections of
  stop. `ReadsContinue` gets what a read says from the head of the chain. Of the
  file nothing is assumed, not even that times increase.
* `DemuxTypeCorrect`: types, with those of the history.

* `DecoderFlushed`: what the codec holds is of the current flush, or mNeedFlush is set (`CodecFresh`),
  and it is not set while a packet is decoded: a flush takes the decoder's lock, which the thread keeps
  from its look at the flag to the last frame of the packet, waits on the monitor included.
* `DecoderInFlight`: for every monitor there was. The current one has room for the rest of the packet
  (`CurrentMonitor`) and its escape is set only while the decoder is paused, so that one which a resume
  has replaced gets nothing more.
* `SinkStatesAgree`: `StatesAgree` holds inside the handlers as well, with what the property
  does not say: a sink that is not started is marked paused, so that a start cannot be taken for done
  with the stream corked (resumeInternal answers at once when it is not, 713). `OutThread` says when
  there is an output thread and when it drains; `SinkCommanded`, that a command is still as legal
  as it was when it was given.
* `SinkOutputIntact`: the buffers in the queue, in the messages and played are in the order of the writes
  (`QueuesInOrder`, `PlayedInOrder`). The thread's buffer is the front of the queue or older than
  all of it, and in that case a flush has come that has not yet cost a wrong pop (`FrontIsCurrent`), and none
  that has not yet cost a stale buffer, unless what it writes is newer than the flush (`AfterFlush`).
* `VideoChainAlive`: the step that could break the chain takes the current render message and
  posts none: that of the NULL entry, after which the queue must be empty. So `EndsOnce` follows the end of
  the stream through both queues: a NULL that is not late is the last of its queue, no write is behind it
  but with a flush or stop between, and the decoder writes on only when one of those is on its way or asked, or has
  not closed its stream yet (`Closed`). That no write overtakes them is the order of the messages (`InTime`),
  in which only render messages have a delay. A NULL that was written late, after the flush or stop it should have
  gone with was asked, may be anywhere: shown with frames behind it, it sets `cut`, the exception that
  `ChainAlive` makes. The exception is needed: `ChainNeverBroken` (section 7).
* `VideoPositionSteady`: a paused clock keeps the position its anchor gave when the pause began, or, if a
  flush came meanwhile, nothing, and then it has no anchor (`Stands`); a resume moves the anchor by
  the length of the pause. A sink that drives its own clock has it paused only while it is paused itself
  (`OwnClock`), so that updateMaxAnchorTime never changes a paused clock.
* `DecoderTypes`, `SinkStateTypes`, `VideoStateTypes`: types, for any bars, room, rates
  and numbers of calls.

* `VideoBuffersAccounted`: `BuffersAccounted` speaks of a decoder that runs and of sets; the invariant
  (`V4l2Inv`) counts at all times (`Hits`: how often something is in a queue). A frame is with the codec,
  free or filled, exactly when its owner says so; what is under way to the sink, with it or on
  its way back (`Way`) is counted in the current generation only, in which the window has no frame under way,
  the client has one, and we have one but during a change of the resolution (`FramesInv`).
  A flush or stop that begins a new generation leaves all older frames uncounted, because no message and no
  frame of the sink is ahead of the generation (`GensBounded`). That frames are taken back from the codec only when it may
  give them needs the order of commands (`ControlInv`): a start is in the queue once and before
  anything is configured, nothing that plays follows a stop, and a stop that waits for its thread or was put
  off was asked for. `FramesInv` is guarded by `dec.over = "no"`: an assertion, the use of a null reader and the reset
  that closes the device are the end of the modelled life of a decoder.
* `VideoFramesInOrder`: `FramesInOrder` looks at the frame that is shown; the invariant (`VideoOrderInv`,
  which has `V4l2Inv` as a part) follows every packet from the reader to the
  sink. Each has a place in the stream, the end of it the place behind the last packet. The codec's
  input is what was read last, without a gap (`ReadChain`); its output goes up and lies between the
  last frame shown and its input (`FilledChain`), and touches both unless frames were lost (`NoGap`);
  after a seek whose target was reached nothing before the target is read or decoded (`PastTarget`). While
  the resolution is changing there is no claim about the output, so `ChangeInv` says that such a change is
  recorded as a loss, that what was put off is not carried out before it is over, and that a decoder that
  has not been started has read nothing.  A packet too big for an input buffer takes no place in that count: the code reads it and ignores it,
  and what the theorem says is of the packets the decoder accepts.
* `VideoDecodeTypes`: types, for any number of frames and buffers.

Proving `CompleteAtEnd`, `TimesContinue` and `StreamsContinue` showed them to be false in an earlier
form, in instances larger than the one that was checked: the two rows
`muxSeen.dropped` and `Even` above say what the muxer does. The demuxer was said never to end
a track early; when a track that is being left is discarded and then selected again, its
end comes before its last packets (`SelectedTrackEnabled` below). `StreamsContinue` now
excepts that, and the instance has a file in which it happens.

Only model-checked: all liveness (no ENABLED or fairness in the prover), the rest of
`PipelinePlayer` (whether components are where the pipeline says depends on which
of them are asynchronous); of `VideoSink` that frames are shown in
time (`FramesInTime`, which needs more of the times of frames than the code asks for); and of `AVDemuxer` that a seek starts at a key frame
(`SeekStartsAtKey`), which is about files whose video tracks have their key frames together, and of which it
says that the frame is no later than asked, plus the start time when the seek was answered out of the buffer.

## 6. What the models leave out

* `MsgThread`: the payload of messages; failing allocations; MMNotify; the
  destruction of the object while calls are inside.
* `TrafficControl`: `updateLowBar`, `updateHighBar` (never called);
  `unblockWait(false)` (never called).
* `PipelinePlayer`: prepareInternal builds all components or none, where the
  code can stop half way; parameters, tracks, positions, duration; DASH and
  subtitle sources; events that are only passed on (kEventError, kEventInfo...);
  play rate; `mState` "Play", which the pipeline itself never has; lifetimes of
  components beyond `gen`; the mutexes of CowPlayer. The wait of 30000 s does
  not expire in the model. Two consecutive setStates are one action where no
  other thread can tell. unblock() is called by nothing but the variant of
  CowPlayer::reset that is compiled out, so it is off except in
  `pipeline_faults`, and what follows it is a reset as in that variant.
* `Clock`: the logging and the deprecated callers; 64-bit overflow of
  microseconds.
* `VideoSink`: a frame without meta data, which ends the chain as a NULL does (`video_sink.cc:416` to 424; decoders
  give all of them meta data); drawing, the canvas, frame rate statistics, dumps, the sinks derived
  from it; more than one play rate besides the normal one.
* `AudioSink`: volume, mute, routing, latency query (the anchor uses what is in
  the stream), underflow and moved callbacks, creation failures.
* `DecodeThread`: what the codec computes; an output buffer that cannot be allocated, with which the
  rest of the packet is dropped (`video_decode_ffmpeg.cc:172`); `setParameter`; the video decoder's
  hardware variants.
* `MediaFission`: how it is built; more than two queues; writers of another kind.
* `AVDemuxer`: removeUntilTs begins its search for a key frame at `end()`, which it dereferences before it
  steps back (`av_demuxer.cc:576` to 583): undefined, and modelled as an entry that is no key frame; the ten
  seconds that a seek in the buffer may lie behind it for http (`mBufferSeekExtra`, 1646, 2179), 0 for files;
  the target time that tells decoders which frames to drop, which has the start time in it too (2274); probing and metadata, DASH and DRM, subtitles, network time-outs and
  the interrupt callback beyond its exit flag, play rates other than 1, more than two
  tracks of one kind.
* `RecorderPipeline`: image capture, RTSP and AR variants, parameters,
  usage of a preview surface; components of one kind are one.
* `AVMuxer`: formats and bit streams, rotation and location metadata, size limit
  (it works as the duration's), drift limits, which nothing sets.
* `VideoDecodeV4l2`: a write that the sink refuses with MM_ERROR_AGAIN is repeated at once
  (`video_decode_v4l2.cc:1540` to 1542): one that passes is the same write later, one that does not would keep the message
  thread as `starves` does; the player's video sinks never return it (`video_sink.cc:84`). What follows a
  reallocation that the codec refused (`ReallocateRefused` ends the behaviour); the builds that do not follow a change of the resolution;
  codec configuration data, input by pointer, copied surfaces and thumbnails
  (mSurfaceOwnedByUs), where the picture is copied and the frame goes back at
  once; the second notification of a pause that was not needed; transforms,
  crops and the window's formats; the encoder and the mediacodec components.
* The rest of the table in 1 is not modelled; each entry of `components` in
  `PROJECT.json` says why. Most of the repository's lines are wrappers of
  devices, codecs, windows, sockets and an IPC library that is not in it: code
  without shared state of its own, whose model would be that of the other side.
  A map that covers a third of all lines is therefore not to be had by
  modelling; the mediacodec components, `MediaSession` and `PlayerLocks` of the
  plan are what would be worth adding.

## 7. Findings

1. `msg_thread_create_fails`: `run()` leaves mContinue set when the thread could
   not be created (`mmmsgthread.cc:51`); messages are accepted and the
   destructor's assertion fails. Pipeline and CowPlayer check the result,
   SideBandIPC does not.
2. `pipeline_reset`: the pipeline's thread sets mState to Null
   (`pipeline_player_base.cc:933`) after the section that lets reset() return.
   If it is delayed past the next load and the beginning of the next prepare,
   the completion of that prepare is ignored and prepare waits for 30000 s.
3. `recorder_again`: a video recorder that failed refuses its stop
   (`pipeline_videorecorder.cc:302`); reset zeroes the counts, and the end of the file
   that the muxer's reset writes is counted afterwards
   (`pipeline_recorder_base.cc:551`), towards the next recording, whose stop waits
   for an end it takes for one of two.
4. `video_decode_change`: a stop or flush that was put off during a change of
   the resolution is taken up before mPortSettingChange is cleared
   (`video_decode_v4l2.cc:1505`), puts itself off again and is never carried out;
   with two of them processDeferMessage does not end. `component.h:315` promises
   kEventStopped. (From renderOutputBuffer, the other place, it is taken up
   afterwards.)
Statements of docs, comments or tests that the code does not keep, kept in the
modules with the definition that says them, without a run of their own (each is
refuted by TLC when put into a .cfg):

| definition | module | what happens |
|---|---|---|
| `LastBuffersConsumed` | `TrafficControl` | `waitOnEmpty` holds out for mHighBar buffers (`media_monitor.cc:102`), so a consumer that ran empty never gets the last ones, for which `monitor-test.cc:174` waits |
| `FlushedTogether` | `PipelinePlayer` | in a second seek a component that answers early completes the flush with the marks of the first one (`pipeline_player_base.cc:742`) |
| `NotPreparedEarly` | `PipelinePlayer` | whether construction is over is decided outside the lock (`pipeline_player_base.cc:872`) |
| `StopAnswered` | `AudioSink` | the output thread waits for room without looking at mContinue (`audio_sink_pulse.cc:259`), or drains a stream that is corked (248); stop joins it |
| `ResumeUncorks` | `AudioSink` | a resume during the drain is answered without uncorking (713) |
| `ResumeUncorksInput` | `MediaFission` | onResume posts no handleInputBuffer: a master that was paused between two inputs pulls no more |
| `ChainNeverBroken` | `VideoSink` | an end of stream is two messages (`video_sink.cc:73`, 79): a flush or stop that is asked and handled between them leaves the NULL in the queue; frames of the new stream come behind it, renderNull pops it, tells an end that is none (410) and schedules nothing, and onWrite only schedules for an empty queue: nothing is shown until the next resume or flush |
| `SeekNotLate` | `AVDemuxer` | seek adds the file's start time (`av_demuxer.cc:2125`), the packets have it taken off (2614): a seek found in the buffer begins at a key frame later than the position by up to the start time, where the comment at 573 wants the "previous-nearest-key frame" |
| `SwitchAtKeyFrame`, `SelectedTrackEnabled` | `AVDemuxer` | after a flush the list of the pending track goes on with any frame (`av_demuxer.cc:680`); a track selected back stays discarded, and ends early |
| `EndsAnyway` | `VideoDecodeV4l2` | a flush while playing, after the input's end, leaves mEosState as it is (`video_decode_v4l2.cc:2222`): the end is gone, the input is not read again and the sink is never told, which the comment at 1452 wants "anyway" (under `V4l2FairSpec`) |
| `DeviceOutlivesThread` | `VideoDecodeV4l2` | a reset during a change of the resolution closes the device (2310) though the stop before it was put off, and the poll thread runs on; the comment at 2306 relies on the join |
| `ConfiguredWhilePlaying` | `VideoDecodeV4l2` | a pause during a change of the resolution, and the last frame comes back: configOutputSurface runs in a state that its assertion (1872) excludes |
| `NeverAhead` | `AVMuxer` | resume flags the streams one by one (`av_muxer.cc:1133`) and asks for a key frame after that (1141): a video packet taken in between is written, the next are discarded up to the key frame, and the interval measured across them puts packets behind a second pause ahead of the encoder's times (five calls, audio at 2, 4 .. 10, video at 1, 7, 9) |
| `EndAlwaysTold` | `AVMuxer` | a stream that ends before its codec data is there: the posts of the semaphore run out before the end is reached |

And a paused recording with a preview cannot be stopped: the end of the stream
does not pass a paused MediaFission (`PausedPreview` in `RecorderPipeline`).
