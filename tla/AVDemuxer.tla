----------------------------- MODULE AVDemuxer -----------------------------
(***************************************************************************)
(* AVDemuxer (cow/src/components/av_demuxer.cc): a read thread that fills   *)
(* one list of packets per stream, the decoders' threads that take from     *)
(* them, and the pipeline's thread that prepares, starts, seeks, flushes,   *)
(* switches tracks, stops and resets.                                       *)
(*                                                                         *)
(* mBufferLock covers a step of each, but the read thread gives it up while *)
(* av_read_frame runs: what it brings back is put into lists that others    *)
(* may have cleared or switched.  An api call is one step, except for those *)
(* that wait (for the prepare, for the end of the thread) or that take the  *)
(* lock twice (stop).                                                       *)
(*                                                                         *)
(* FFmpeg is external: a File of packets, a position, and a flag per stream *)
(* that tells it to discard.  The file has two video tracks and an audio    *)
(* track and is played at the normal rate.                                  *)
(***************************************************************************)
EXTENDS Integers, Sequences, SequencesExt

CONSTANTS
    File,           \* the packets: [st : stream, ts : time, key : is it a key frame?]
    StartTime,      \* startTimeUs(): the time of the file's start; ts is counted from it
    BufferingTime,  \* mBufferingTime; the high water mark is twice that
    MaxDemuxCalls   \* bound

VideoTracks == {"v", "w"}
FileStreams == VideoTracks \cup {"a"}

ASSUME DemuxAssumption ==
    /\ File \in Seq([st : FileStreams, ts : Nat, key : BOOLEAN]) /\ StartTime \in Nat
    /\ BufferingTime \in Nat \ {0} /\ MaxDemuxCalls \in Nat

VARIABLES
    demux,      \* mState, mSeekUs, mSeekSequence, mBufferState, mReportedBufferingPercent,
                \* mCheckVideoKeyFrame and whether the prepare is still to be handled
    reader,     \* the read thread: its place, the semaphore, mContinue, mCorded, mInterruptHandler's mExit
    tracks,     \* mStreamInfoArray[kMediaTypeVideo]
    audioList,  \* the audio stream's list
    file,       \* FFmpeg: position, streams it discards
    demuxCall,  \* the pipeline's call and the step it has reached
    demuxSeen   \* history and bounds

demuxVars == <<demux, reader, tracks, audioList, file, demuxCall, demuxSeen>>

NoSeek == -1
NoTrack == "none"
Eos == 0            \* the buffer with the EOS flag; the others are indices of File

Entries == {Eos} \cup DOMAIN File
Ts(e) == IF e = Eos THEN -1 ELSE File[e].ts
IsKey(e) == e # Eos /\ File[e].key
IsVideo(e) == File[e].st \in VideoTracks
Duration == IF File = <<>> THEN 0 ELSE Last(File).ts
SeekTimes == 0 .. Duration + StartTime

DemuxTypeOK ==
    /\ demux.state \in {"idle", "preparing", "prepared", "started"}
    /\ demux.seekTo \in {NoSeek} \cup SeekTimes
    /\ demux.bufState \in {"none", "buffering", "normal", "full", "eos"}
    /\ demux.reported \in {-1} \cup 0 .. 100
    /\ demux.checkKey \in BOOLEAN /\ demux.posted \in BOOLEAN
    /\ reader.at \in {"none", "wait", "top", "reading"}
    /\ reader.sem \in Nat /\ reader.continue \in BOOLEAN /\ reader.corked \in BOOLEAN /\ reader.exit \in BOOLEAN
    /\ tracks.cur \in Seq(Entries) /\ tracks.pend \in Seq(Entries) /\ audioList \in Seq(Entries)
    /\ tracks.selected \in VideoTracks /\ tracks.pending \in VideoTracks \cup {NoTrack}
    /\ tracks.begun \in BOOLEAN
    /\ file.pos \in 1 .. Len(File) + 1 /\ file.discard \subseteq FileStreams

NoTracks == [cur |-> <<>>, pend |-> <<>>, selected |-> "v", pending |-> NoTrack, begun |-> FALSE]

DemuxInit ==
    /\ demux = [state |-> "idle", seekTo |-> NoSeek, seeks |-> <<>>, bufState |-> "none",
                reported |-> -1, checkKey |-> FALSE, posted |-> FALSE]
    /\ reader = [at |-> "none", sem |-> 0, continue |-> FALSE, corked |-> TRUE, exit |-> FALSE]
    /\ tracks = NoTracks
    /\ audioList = <<>>
    /\ file = [pos |-> 1, discard |-> {}]
    /\ demuxCall = [op |-> "none", step |-> "none"]
    /\ demuxSeen = [calls |-> 0, asked |-> 0, answered |-> <<>>, dropped |-> {}, lastV |-> Eos, lastA |-> Eos,
                    jumpedV |-> TRUE, jumpedA |-> TRUE, target |-> NoSeek, shift |-> 0, switched |-> FALSE]

-----------------------------------------------------------------------------
BufferedTime(list) ==
    LET packets == {i \in DOMAIN list : list[i] # Eos}
    IN IF Len(list) <= 1 \/ packets = {} THEN 0 ELSE Ts(list[Max(packets)]) - Ts(list[Min(packets)])

FirstTs(list) == IF list = <<>> THEN -1 ELSE Ts(Head(list))
LastTs(list) == IF list = <<>> THEN -1 ELSE Ts(Last(list))

(* checkBuffer: the least time buffered; both streams have a reader.       *)
Smaller(m, n) == IF m < n THEN m ELSE n
Buffered(t, audio) == Smaller(BufferedTime(t.cur), BufferedTime(audio))

Posts(r) == [r EXCEPT !.sem = @ + 1]

(* flushInternal.  mBeginWritePendingList stays.                           *)
FlushedTracks == [tracks EXCEPT !.cur = <<>>, !.pend = <<>>]

FlushedDemux(d) == [d EXCEPT !.checkKey = TRUE, !.bufState = "buffering"]

(* The seeks under way, without stop's own, which is the first.            *)
OwnSeeks ==
    IF demux.seeks # <<>> /\ Head(demux.seeks) = 0 THEN Tail(demux.seeks) ELSE demux.seeks

(* What the decoders get next may be anything: the history's view.         *)
Jumped(seen) == [seen EXCEPT !.jumpedV = TRUE, !.jumpedA = TRUE, !.target = NoSeek]

-----------------------------------------------------------------------------
(* The pipeline's calls.                                                   *)
DemuxCalls == demuxCall.op = "none" /\ demuxSeen.calls < MaxDemuxCalls

Called == demuxSeen' = [demuxSeen EXCEPT !.calls = @ + 1]

DemuxPrepare ==
    /\ DemuxCalls /\ demux.state = "idle"
    /\ demux' = [demux EXCEPT !.state = "preparing", !.posted = TRUE]
    /\ Called
    /\ UNCHANGED <<reader, tracks, audioList, file, demuxCall>>

(* resetInternal, after the read thread has ended.                         *)
ResetState ==
    /\ demux' = [demux EXCEPT !.state = "idle", !.seekTo = NoSeek, !.seeks = <<>>,
                              !.bufState = "none", !.reported = -1, !.posted = FALSE]
    /\ tracks' = NoTracks
    /\ audioList' = <<>>
    /\ file' = [pos |-> 1, discard |-> {}]
    /\ demuxSeen' = [Jumped(demuxSeen) EXCEPT
                       !.dropped = @ \cup ToSet(OwnSeeks),
                       !.target = NoSeek, !.lastV = Eos, !.lastA = Eos, !.switched = FALSE]

(* onPrepare, on the message thread; it fails when the file cannot be       *)
(* opened or has no streams, or was interrupted.                            *)
OnDemuxPrepare ==
    /\ demux.posted
    /\ \/ /\ demux' = [demux EXCEPT !.state = "prepared", !.bufState = "buffering",
                                    !.reported = -1, !.posted = FALSE]
          /\ reader' = [reader EXCEPT !.at = "wait", !.continue = TRUE, !.corked = TRUE, !.exit = FALSE]
          /\ file' = [pos |-> 1, discard |-> FileStreams \ {"v", "a"}]
          /\ UNCHANGED <<tracks, audioList, demuxSeen>>
       \/ /\ ResetState
          /\ reader' = [Posts(reader) EXCEPT !.exit = TRUE, !.continue = FALSE]
    /\ UNCHANGED demuxCall

DemuxStart ==
    /\ DemuxCalls /\ demux.state = "prepared"
    /\ demux' = [demux EXCEPT !.state = "started", !.checkKey = TRUE]
    /\ reader' = [Posts(reader) EXCEPT !.corked = FALSE, !.exit = FALSE]
    /\ Called
    /\ UNCHANGED <<tracks, audioList, file, demuxCall>>

(* A seek is to the file's time; the packets' times are counted from its    *)
(* start.                                                                   *)
DemuxSeek(ts) ==
    /\ DemuxCalls /\ demux.state \in {"prepared", "started"}
    /\ demux' = [demux EXCEPT !.seekTo = ts + StartTime, !.seeks = Append(@, demuxSeen.asked + 1)]
    /\ reader' = [Posts(reader) EXCEPT !.exit = TRUE]
    /\ demuxSeen' = [demuxSeen EXCEPT !.calls = @ + 1, !.asked = @ + 1]
    /\ UNCHANGED <<tracks, audioList, file, demuxCall>>

DemuxFlush ==
    /\ DemuxCalls /\ demux.state = "started"
    /\ demux' = FlushedDemux(demux)
    /\ tracks' = FlushedTracks
    /\ audioList' = <<>>
    /\ reader' = Posts(reader)
    /\ demuxSeen' = [Jumped(demuxSeen) EXCEPT !.calls = @ + 1]
    /\ UNCHANGED <<file, demuxCall>>

(* selectTrack of a video track: shortCircuitSelectTrack and the rest of    *)
(* selectTrackInternal.  (There is no second audio track to go with it.)    *)
SelectTrack(t) ==
    /\ DemuxCalls /\ demux.state \in {"prepared", "started"}
    /\ IF t \in {tracks.pending, tracks.selected}
       THEN /\ tracks' = IF t = tracks.pending THEN tracks
                         ELSE [tracks EXCEPT !.pend = <<>>, !.pending = NoTrack]
            /\ UNCHANGED file
       ELSE /\ tracks' = [tracks EXCEPT !.pend = IF tracks.pending # NoTrack THEN <<>> ELSE @,
                                        !.pending = t, !.begun = FALSE]
            /\ file' = [file EXCEPT !.discard = @ \ {t}]
    /\ Called
    /\ UNCHANGED <<demux, reader, audioList, demuxCall>>

(* stop and reset first interrupt FFmpeg and wait for a prepare to end.    *)
DemuxStop(op) ==
    /\ op \in {"stop", "reset"}
    /\ DemuxCalls
    /\ reader' = [reader EXCEPT !.exit = TRUE]
    /\ demuxCall' = [op |-> op, step |-> "wait"]
    /\ Called
    /\ UNCHANGED <<demux, tracks, audioList, file>>

(* stopInternal up to its flush ...                                        *)
StopFlushes ==
    /\ demuxCall.step = "wait" /\ demux.state = "started"
    /\ demux' = FlushedDemux(demux)
    /\ reader' = [Posts(reader) EXCEPT !.exit = TRUE, !.corked = TRUE]
    /\ tracks' = FlushedTracks
    /\ audioList' = <<>>
    /\ demuxSeen' = Jumped(demuxSeen)
    /\ demuxCall' = [demuxCall EXCEPT !.step = "drop"]
    /\ UNCHANGED file

(* ... and the rest: a seek of its own takes the place of all others.      *)
StopDrops ==
    /\ demuxCall.step = "drop"
    /\ demux' = [demux EXCEPT !.seekTo = 0, !.seeks = <<0>>, !.state = "prepared"]
    /\ demuxSeen' = [demuxSeen EXCEPT !.dropped = @ \cup ToSet(OwnSeeks)]
    /\ demuxCall' = IF demuxCall.op = "stop" THEN [op |-> "none", step |-> "none"]
                    ELSE [demuxCall EXCEPT !.step = "wait"]
    /\ UNCHANGED <<reader, tracks, audioList, file>>

StopIsNothing ==
    /\ demuxCall.step = "wait"
    /\ \/ demuxCall.op = "stop" /\ demux.state \in {"idle", "prepared"}
       \/ demuxCall.op = "reset" /\ demux.state = "idle"
    /\ demuxCall' = [op |-> "none", step |-> "none"]
    /\ UNCHANGED <<demux, reader, tracks, audioList, file, demuxSeen>>

(* resetInternal joins the read thread.                                    *)
ResetEndsThread ==
    /\ demuxCall = [op |-> "reset", step |-> "wait"] /\ demux.state = "prepared"
    /\ reader' = [Posts(reader) EXCEPT !.exit = TRUE, !.continue = FALSE]
    /\ demuxCall' = [demuxCall EXCEPT !.step = "join"]
    /\ UNCHANGED <<demux, tracks, audioList, file, demuxSeen>>

ResetJoined ==
    /\ demuxCall.step = "join" /\ reader.at = "none"
    /\ ResetState
    /\ demuxCall' = [op |-> "none", step |-> "none"]
    /\ UNCHANGED reader

-----------------------------------------------------------------------------
(* A decoder's read.  StreamInfo::read of the video stream switches to the  *)
(* pending track when that is far enough back, and takes the first packet.  *)
Switches_AnyTime(t) == t.pending # NoTrack /\ FirstTs(t.pend) > 0

Switches(t) ==
    t.pending # NoTrack /\ FirstTs(t.pend) > 0 /\ FirstTs(t.pend) <= FirstTs(t.cur)

Switched(t) ==
    IF Switches(t)
    THEN [t EXCEPT !.cur = t.pend, !.pend = <<>>, !.selected = t.pending, !.pending = NoTrack]
    ELSE t

AfterRead_NoWake(t, audio) ==
    LET min == Buffered(t, audio)
    IN IF demux.bufState # "eos" /\ min <= 0
       THEN /\ demux' = [demux EXCEPT !.bufState = "buffering"]
            /\ UNCHANGED reader
       ELSE UNCHANGED <<demux, reader>>

(* AVDemuxer::read, after the packet was taken: at the low water mark the   *)
(* read thread is woken.                                                    *)
AfterRead(t, audio) ==
    LET min   == Buffered(t, audio)
        state == IF min <= 0 THEN "buffering" ELSE "normal"
        wakes == min <= 0 \/ (min < BufferingTime /\ demux.bufState # "normal")
    IN IF demux.bufState # "eos" /\ wakes
       THEN /\ demux' = [demux EXCEPT !.bufState = state]
            /\ reader' = Posts(reader)
       ELSE UNCHANGED <<demux, reader>>

ReadVideo ==
    /\ demux.state \in {"prepared", "started"} /\ demuxCall.step # "join"
    /\ demux.bufState # "buffering" /\ tracks.cur # <<>>
    /\ LET t == Switched(tracks)
           e == Head(t.cur)
           rest == [t EXCEPT !.cur = Tail(@)]
       IN /\ tracks' = rest
          /\ AfterRead(rest, audioList)
          /\ demuxSeen' = [demuxSeen EXCEPT !.lastV = e, !.switched = Switches(tracks),
                                            !.jumpedV = FALSE]
    /\ UNCHANGED <<audioList, file, demuxCall>>

ReadAudio ==
    /\ demux.state \in {"prepared", "started"} /\ demuxCall.step # "join"
    /\ demux.bufState # "buffering" /\ audioList # <<>>
    /\ audioList' = Tail(audioList)
    /\ AfterRead(tracks, Tail(audioList))
    /\ demuxSeen' = [demuxSeen EXCEPT !.lastA = Head(audioList), !.jumpedA = FALSE]
    /\ UNCHANGED <<tracks, file, demuxCall>>

-----------------------------------------------------------------------------
ReaderWakes_Early ==
    /\ reader.at = "wait"
    /\ reader' = [reader EXCEPT !.sem = @ - 1, !.at = IF reader.continue THEN "top" ELSE "none"]
    /\ UNCHANGED <<demux, tracks, audioList, file, demuxCall, demuxSeen>>

(* The read thread waits on its semaphore.                                 *)
ReaderWakes ==
    /\ reader.at = "wait" /\ reader.sem > 0
    /\ reader' = [reader EXCEPT !.sem = @ - 1, !.at = IF reader.continue THEN "top" ELSE "none"]
    /\ UNCHANGED <<demux, tracks, audioList, file, demuxCall, demuxSeen>>

ReaderEnds ==
    /\ reader.at = "top" /\ ~reader.continue
    /\ reader' = [reader EXCEPT !.at = "none"]
    /\ UNCHANGED <<demux, tracks, audioList, file, demuxCall, demuxSeen>>

KeysBefore_AnyFrame(list, ts) == {i \in 2 .. Len(list) : Ts(list[i]) <= ts}

(* removeUntilTs of the video list: from the key frame before ts, the first *)
(* entry never being looked at.                                             *)
KeysBefore(list, ts) == {i \in 2 .. Len(list) : IsKey(list[i]) /\ Ts(list[i]) <= ts}

LastKey(list, ts) == CHOOSE i \in KeysBefore(list, ts) : \A j \in KeysBefore(list, ts) : j <= i

(* checkBufferSeek: are the packets buffered?  The time sought is compared  *)
(* with the packets' as it is.                                              *)
InBuffer(ts) ==
    /\ \A list \in {tracks.cur, audioList} : list # <<>> /\ FirstTs(list) >= 0 /\ FirstTs(list) <= ts /\ ts <= LastTs(list)
    /\ KeysBefore(tracks.cur, ts) # {}

VideoFrom(ts) == SubSeq(tracks.cur, LastKey(tracks.cur, ts), Len(tracks.cur))

(* Audio's removeUntilTs: up to a packet no earlier; all, when there is none. *)
AudioFrom(ts) ==
    LET late == {i \in DOMAIN audioList : Ts(audioList[i]) >= ts}
    IN IF late = {} THEN <<>> ELSE SubSeq(audioList, Min(late), Len(audioList))

(* av_seek_frame with AVSEEK_FLAG_BACKWARD: the last key frame of the first *)
(* video track no later than ts, a time of the file.                        *)
SeekPos(ts) ==
    LET keys == {i \in DOMAIN File : File[i].st = "v" /\ File[i].key /\ File[i].ts + StartTime <= ts}
    IN IF keys = {} THEN 1 ELSE CHOOSE i \in keys : \A j \in keys : j <= i

(* What was asked for, in the packets' time.                                *)
Asked == IF demux.seekTo < StartTime THEN 0 ELSE demux.seekTo - StartTime

Answers_Newest(seen, how) ==
    [Jumped(seen) EXCEPT !.answered = @ \o (IF OwnSeeks = <<>> THEN <<>> ELSE <<Last(OwnSeeks)>>),
                         !.target = IF how = "failed" THEN NoSeek ELSE Asked,
                         !.shift = IF how = "buffered" THEN StartTime ELSE 0]

Answers(seen, how) ==
    [Jumped(seen) EXCEPT !.answered = @ \o OwnSeeks,
                         !.target = IF how = "failed" THEN NoSeek ELSE Asked,
                         !.shift = IF how = "buffered" THEN StartTime ELSE 0]

(* checkSeek: one seek, to the newest position, answers all of them.       *)
CheckSeek ==
    /\ reader.at = "top" /\ reader.continue
    /\ demux.seekTo # NoSeek
    /\ LET ts   == demux.seekTo
           done == [demux EXCEPT !.seekTo = NoSeek, !.seeks = <<>>, !.bufState = "buffering"]
       IN \/ /\ InBuffer(ts)
             /\ tracks' = [tracks EXCEPT !.cur = VideoFrom(ts)]
             /\ audioList' = AudioFrom(Ts(Head(VideoFrom(ts))))
             /\ demux' = [done EXCEPT !.checkKey = FALSE]
             /\ demuxSeen' = Answers(demuxSeen, "buffered")
             /\ UNCHANGED <<reader, file>>
          \/ /\ ~InBuffer(ts)
             /\ tracks' = FlushedTracks
             /\ audioList' = <<>>
             /\ \/ /\ file' = [file EXCEPT !.pos = SeekPos(ts)]
                   /\ demux' = FlushedDemux(done)
                   /\ demuxSeen' = Answers(demuxSeen, "sought")
                \/ /\ demux' = [FlushedDemux(done) EXCEPT !.checkKey = FALSE]
                   /\ demuxSeen' = Answers(demuxSeen, "failed")
                   /\ UNCHANGED file
             /\ reader' = [Posts(reader) EXCEPT !.exit = FALSE]
    /\ UNCHANGED demuxCall

(* Then mCorded is looked at, and readFrame begins: there may be nothing to *)
(* read.                                                                    *)
ReadFrameBegins ==
    /\ reader.at = "top" /\ reader.continue /\ demux.seekTo = NoSeek
    /\ reader' = IF reader.corked \/ demux.bufState \in {"full", "eos"}
                 THEN [reader EXCEPT !.at = "wait"]
                 ELSE [reader EXCEPT !.at = "reading", !.exit = FALSE]
    /\ UNCHANGED <<demux, tracks, audioList, file, demuxCall, demuxSeen>>

(* av_read_frame fails: interrupted, timed out or an error.                *)
ReadFrameFails ==
    /\ reader.at = "reading"
    /\ reader' = [reader EXCEPT !.at = "top"]
    /\ UNCHANGED <<demux, tracks, audioList, file, demuxCall, demuxSeen>>

NextPacket ==
    LET left == {i \in file.pos .. Len(File) : File[i].st \notin file.discard}
    IN IF left = {} THEN Eos ELSE CHOOSE i \in left : \A j \in left : i <= j

ReadFrameEof ==
    /\ reader.at = "reading" /\ NextPacket = Eos
    /\ demux' = [demux EXCEPT !.bufState = "eos"]
    /\ tracks' = [tracks EXCEPT !.cur = Append(@, Eos)]
    /\ audioList' = Append(audioList, Eos)
    /\ file' = [file EXCEPT !.pos = Len(File) + 1]
    /\ reader' = [reader EXCEPT !.at = "wait"]
    /\ UNCHANGED <<demuxCall, demuxSeen>>

(* StreamInfo::write of a video packet.                                    *)
Written(t, e) ==
    IF File[e].st = t.selected THEN [t EXCEPT !.cur = Append(@, e)]
    ELSE IF t.begun \/ (IsKey(e) /\ Ts(e) >= FirstTs(t.cur))
         THEN [t EXCEPT !.pend = Append(@, e), !.begun = TRUE]
         ELSE t

(* How full the buffers are, of what buffering waits for.                  *)
Percent(min) == Smaller((min * 100) \div BufferingTime, 100)

(* The end of readFrame: the buffering state.                              *)
AfterWrite(d, t, audio) ==
    LET min     == Buffered(t, audio)
        percent == Percent(min)
    IN CASE d.bufState = "buffering" ->
              IF percent = d.reported THEN d
              ELSE IF percent = 100 THEN [d EXCEPT !.bufState = "normal", !.reported = -1]
              ELSE [d EXCEPT !.reported = percent]
         [] d.bufState # "buffering" /\ min > 2 * BufferingTime -> [d EXCEPT !.bufState = "full"]
         [] OTHER -> d

(* A packet.  One that nobody selected is skipped; before the first key     *)
(* frame everything is.  Afterwards the track that is being left may be     *)
(* discarded from here on.                                                  *)
ReadFrame ==
    /\ reader.at = "reading" /\ NextPacket # Eos
    /\ LET e      == NextPacket
           st     == File[e].st
           wanted == ~IsVideo(e) \/ st \in {tracks.selected, tracks.pending}
           skip   == demux.checkKey /\ ~(IsVideo(e) /\ IsKey(e))
           t      == IF wanted /\ ~skip /\ IsVideo(e) THEN Written(tracks, e) ELSE tracks
           audio  == IF wanted /\ ~skip /\ ~IsVideo(e) THEN Append(audioList, e) ELSE audioList
           d      == IF skip \/ ~wanted THEN demux ELSE [demux EXCEPT !.checkKey = FALSE]
           leaves == /\ wanted /\ ~skip /\ IsVideo(e) /\ st = t.selected /\ t.pending # NoTrack
                     /\ FirstTs(t.pend) > 0 /\ Ts(e) >= FirstTs(t.pend)
       IN /\ tracks' = t
          /\ audioList' = audio
          /\ demux' = IF wanted /\ skip THEN d ELSE AfterWrite(d, t, audio)
          /\ file' = [pos |-> e + 1, discard |-> IF leaves THEN file.discard \cup {st} ELSE file.discard]
          /\ reader' = [reader EXCEPT !.at = IF demux'.bufState = "full" THEN "wait" ELSE "top"]
    /\ UNCHANGED <<demuxCall, demuxSeen>>

-----------------------------------------------------------------------------
ReadThread ==
    \/ ReaderWakes \/ ReaderEnds \/ CheckSeek \/ ReadFrameBegins
    \/ ReadFrameFails \/ ReadFrameEof \/ ReadFrame

DemuxNext ==
    \/ DemuxPrepare \/ OnDemuxPrepare \/ DemuxStart \/ DemuxFlush
    \/ \E ts \in 0 .. Duration : DemuxSeek(ts)
    \/ \E t \in VideoTracks : SelectTrack(t)
    \/ \E op \in {"stop", "reset"} : DemuxStop(op)
    \/ StopFlushes \/ StopDrops \/ StopIsNothing \/ ResetEndsThread \/ ResetJoined
    \/ ReadVideo \/ ReadAudio \/ ReadThread

DemuxSpec == DemuxInit /\ [][DemuxNext]_demuxVars

-----------------------------------------------------------------------------
(* The read thread sleeps only when nothing is to be read, or a wake-up is  *)
(* on its way: whatever flushes, seeks and reads came while it decided to.  *)
NotStalled ==
    reader.at = "wait" /\ reader.sem = 0 =>
        reader.corked \/ (demux.bufState \in {"full", "eos"} /\ demux.seekTo = NoSeek)

(* Every seek is answered exactly once, and the answers come in the order   *)
(* of the seeks, or is dropped by a stop or a reset; checkSeek's assertions *)
(* hold.                                                                    *)
SeeksAnswered ==
    /\ demux.seekTo = NoSeek <=> demux.seeks = <<>>
    /\ LET answered == demuxSeen.answered \o OwnSeeks
       IN /\ \A i, j \in DOMAIN answered : i < j => answered[i] < answered[j]
          /\ 1 .. demuxSeen.asked = ToSet(answered) \cup demuxSeen.dropped
          /\ ToSet(answered) \cap demuxSeen.dropped = {}

(* What a decoder is given is the stream of the file: between two seeks,    *)
(* flushes or stops no packet is left out and none comes twice, although    *)
(* the read thread puts into the lists what it asked FFmpeg for without the *)
(* lock; a new track begins no later than where the old one is left.        *)
(* Only a track that FFmpeg discards ends early: one that was being left    *)
(* for another, and was selected again.                                     *)
NextOf(e) ==
    LET after == {i \in e + 1 .. Len(File) : File[i].st = File[e].st}
    IN IF after = {} THEN Eos ELSE CHOOSE i \in after : \A j \in after : i <= j

StreamsContinue ==
    [][/\ ReadVideo /\ ~demuxSeen.jumpedV /\ demuxSeen.lastV # Eos =>
            LET next == NextOf(demuxSeen.lastV) IN
              \/ demuxSeen'.lastV = next
              \/ demuxSeen'.switched /\ (next = Eos \/ Ts(demuxSeen'.lastV) <= Ts(next))
              \/ demuxSeen'.lastV = Eos /\ tracks.selected \in file.discard
       /\ ReadAudio /\ ~demuxSeen.jumpedA /\ demuxSeen.lastA # Eos =>
            demuxSeen'.lastA = NextOf(demuxSeen.lastA)]_demuxVars

(* The first frame after a seek is a key frame at or before what was asked, *)
(* of a file whose video tracks have their key frames at the same times.    *)
(* Found in the buffer it may be later by the file's start time: seek adds  *)
(* that, readFrame has taken it from what is buffered, and checkBufferSeek  *)
(* compares the two.                                                        *)
SeekStartsAtKey ==
    [][ReadVideo /\ demuxSeen.jumpedV /\ demuxSeen.target # NoSeek =>
         \/ demuxSeen'.lastV = Eos
         \/ /\ IsKey(demuxSeen'.lastV)
            /\ Ts(demuxSeen'.lastV) <= demuxSeen.target + demuxSeen.shift]_demuxVars

(* removeUntilTs: "find previous-nearest-key frame".  Violated when the     *)
(* file's start time is not 0: see README.                                  *)
SeekNotLate ==
    [][ReadVideo /\ demuxSeen.jumpedV /\ demuxSeen.target # NoSeek =>
         demuxSeen'.lastV = Eos \/ Ts(demuxSeen'.lastV) <= demuxSeen.target]_demuxVars

(* StreamInfo::write: "during track switch, begin to cache new track data   *)
(* from a future key frame".  Violated: see README.                         *)
SwitchAtKeyFrame ==
    [][ReadVideo /\ Switches(tracks) => IsKey(Head(tracks.pend))]_demuxVars

(* onPrepare: "disable all track by default, then we can enable the         *)
(* selected track in selectTrackInternal".                                  *)
SelectedTrackEnabled ==
    demux.state \in {"prepared", "started"} /\ tracks.pending = NoTrack =>
        tracks.selected \notin file.discard

=============================================================================
