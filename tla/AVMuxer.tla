------------------------------ MODULE AVMuxer ------------------------------
(***************************************************************************)
(* AVMuxer (cow/src/components/av_muxer.cc), which writes the packets of    *)
(* the encoders into one file, and the FileSink behind it (file_sink.cc):   *)
(* the encoders' threads append to one list per stream, a mux thread takes  *)
(* the earliest packet and writes it, the pipeline starts, pauses, resumes, *)
(* stops and resets.                                                        *)
(*                                                                         *)
(* mBufferLock covers a write and the choice of a packet; what the mux      *)
(* thread does with the packet is under no lock, nor are the flags by which *)
(* it and the pipeline know of each other.  stop and reset are carried out  *)
(* by the message thread, under mLock.                                      *)
(*                                                                         *)
(* FFmpeg is external: it may refuse the header or a packet.  Times of      *)
(* packets, encoder and file have the same unit.  The limit of the drift    *)
(* between streams, which nothing sets, is left out.                        *)
(***************************************************************************)
EXTENDS Integers, Sequences, SequencesExt, FiniteSets

CONSTANTS
    MuxPackets,         \* per stream the packets the encoder makes: [dts : time, key : is it a key frame?]
    MaxDurations,       \* values of mMaxDuration; 0 is none
    ExtraMayBeLate,     \* may a stream's codec data come after its first packet?
    FileMayFail,        \* may FFmpeg refuse?
    MaxMuxCalls         \* bound

MuxStreams == {"v", "a"}

ASSUME MuxAssumption ==
    /\ MuxPackets \in [MuxStreams -> Seq([dts : Nat \ {0}, key : BOOLEAN])]
    /\ MaxDurations \subseteq Nat /\ MaxMuxCalls \in Nat
    /\ ExtraMayBeLate \in BOOLEAN /\ FileMayFail \in BOOLEAN

VARIABLES
    muxer,          \* mState, mEOS, mAllMediaExtraDataDetermined, mCheckVideoKeyFrame, is there a mMuxThread?,
                    \* mMaxDuration
    streams,        \* mStreamInfoArray
    muxThread,      \* the mux thread: its place, mSem, mContinue, the packet it has taken
    muxCall,        \* the call carried out, by the message thread or (pause, resume) the pipeline's, and its step
    muxFile,        \* the file: packets and trailer
    muxSeen         \* history and bounds

muxVars == <<muxer, streams, muxThread, muxCall, muxFile, muxSeen>>

EosPacket == 0          \* the buffer with the EOS flag; others are indices of MuxPackets[s]

Raw(s, i) == IF i = EosPacket THEN 0 ELSE MuxPackets[s][i].dts

NoCall == [op |-> "none", step |-> "none"]

NoPacket == [st |-> "none", i |-> EosPacket]

(* The members of a StreamInfo that times are computed from.               *)
NewTimes == [former |-> 0, start |-> -1, track |-> 0, frame |-> -1, pausedFor |-> -1, resumed |-> FALSE]

NewStream == [buf |-> <<>>, eos |-> FALSE, extra |-> FALSE, paused |-> FALSE, times |-> NewTimes]

MuxTypeOK ==
    /\ muxer \in [state : {"idle", "started", "stopping"}, eos : BOOLEAN, header : BOOLEAN,
                  checkKey : BOOLEAN, thread : BOOLEAN, max : MaxDurations]
    /\ \A s \in MuxStreams :
         /\ streams[s].buf \in Seq({EosPacket} \cup DOMAIN MuxPackets[s])
         /\ streams[s].eos \in BOOLEAN /\ streams[s].extra \in BOOLEAN /\ streams[s].paused \in BOOLEAN
         /\ streams[s].times \in [former : Int, start : Int, track : Int, frame : Int,
                                  pausedFor : Int, resumed : BOOLEAN]
    /\ muxThread.at \in {"over", "outer", "wait", "inner", "drain", "taken", "drainTaken", "trailer"}
    /\ muxThread.sem \in Nat /\ muxThread.continue \in BOOLEAN
    /\ muxCall \in [op : {"none", "pause", "resume", "stop", "reset"},
                    step : {"none", "video", "key", "posted", "join", "clear", "release", "end"}]
    /\ \A i \in DOMAIN muxFile : muxFile[i].st \in MuxStreams \cup {"trailer"}

MuxInit ==
    /\ muxer \in [state : {"idle"}, eos : {FALSE}, header : {FALSE}, checkKey : {FALSE}, thread : {FALSE},
                 max : MaxDurations]
    /\ streams = [s \in MuxStreams |-> NewStream]
    /\ muxThread = [at |-> "over", sem |-> 0, continue |-> FALSE, packet |-> NoPacket]
    /\ muxCall = NoCall
    /\ muxFile = <<>>
    /\ muxSeen = [calls |-> 0, next |-> [s \in MuxStreams |-> 1], first |-> [s \in MuxStreams |-> 1],
                  sent |-> {}, told |-> 0, reset |-> FALSE, malformed |-> FALSE, dropped |-> FALSE,
                  slipped |-> FALSE, orphan |-> FALSE]

-----------------------------------------------------------------------------
(* The pipeline's calls.                                                   *)
MuxCalls(op) == muxCall.op = "none" /\ ~muxSeen.reset /\ muxSeen.calls < MaxMuxCalls

MuxStart ==
    /\ MuxCalls("start") /\ muxer.state = "idle"
    /\ muxer' = [muxer EXCEPT !.state = "started", !.eos = FALSE, !.header = FALSE, !.thread = TRUE]
    /\ streams' = [s \in MuxStreams |-> [streams[s] EXCEPT !.eos = FALSE]]
    /\ muxThread' = [at |-> "outer", sem |-> 0, continue |-> TRUE, packet |-> NoPacket]
    /\ muxFile' = <<>>
    /\ muxSeen' = [muxSeen EXCEPT !.calls = @ + 1, !.sent = {}, !.told = 0, !.first = muxSeen.next,
                                  !.malformed = FALSE,
                                  !.dropped = muxer.checkKey \/ \E s \in MuxStreams : streams[s].paused]
    /\ UNCHANGED muxCall

Paused(st) == [st EXCEPT !.paused = TRUE, !.times.resumed = FALSE]

Resumed(st) == [st EXCEPT !.paused = FALSE, !.times.resumed = TRUE]

(* pause and resume, under mLock, flag one stream after the other, the      *)
(* audio first, while the mux thread goes on.                              *)
MuxPause ==
    /\ MuxCalls("pause") /\ muxer.state = "started" /\ \A s \in MuxStreams : ~streams[s].paused
    /\ streams' = [streams EXCEPT !["a"] = Paused(@)]
    /\ muxCall' = [op |-> "pause", step |-> "video"]
    /\ muxSeen' = [muxSeen EXCEPT !.calls = @ + 1, !.dropped = TRUE]
    /\ UNCHANGED <<muxer, muxThread, muxFile>>

PausesVideo ==
    /\ muxCall = [op |-> "pause", step |-> "video"]
    /\ streams' = [streams EXCEPT !["v"] = Paused(@)]
    /\ muxCall' = NoCall
    /\ UNCHANGED <<muxer, muxThread, muxFile, muxSeen>>

MuxResume ==
    /\ MuxCalls("resume") /\ muxer.state = "started" /\ \A s \in MuxStreams : streams[s].paused
    /\ streams' = [streams EXCEPT !["a"] = Resumed(@)]
    /\ muxCall' = [op |-> "resume", step |-> "video"]
    /\ muxSeen' = [muxSeen EXCEPT !.calls = @ + 1]
    /\ UNCHANGED <<muxer, muxThread, muxFile>>

ResumesVideo ==
    /\ muxCall = [op |-> "resume", step |-> "video"]
    /\ streams' = [streams EXCEPT !["v"] = Resumed(@)]
    /\ muxCall' = [op |-> "resume", step |-> "key"]
    /\ UNCHANGED <<muxer, muxThread, muxFile, muxSeen>>

(* Only now is there to be a key frame of video first.                     *)
ResumeEnds ==
    /\ muxCall = [op |-> "resume", step |-> "key"]
    /\ muxer' = [muxer EXCEPT !.checkKey = TRUE]
    /\ muxCall' = NoCall
    /\ UNCHANGED <<streams, muxThread, muxFile, muxSeen>>

MuxStop_StaysStarted ==
    /\ MuxCalls("stop") /\ muxer.state = "started"
    /\ muxCall' = [op |-> "stop", step |-> "posted"]
    /\ muxSeen' = [muxSeen EXCEPT !.calls = @ + 1]
    /\ UNCHANGED <<muxer, streams, muxThread, muxFile>>

MuxStop ==
    /\ MuxCalls("stop") /\ muxer.state = "started"
    /\ muxer' = [muxer EXCEPT !.state = "stopping"]
    /\ muxCall' = [op |-> "stop", step |-> "posted"]
    /\ muxSeen' = [muxSeen EXCEPT !.calls = @ + 1]
    /\ UNCHANGED <<streams, muxThread, muxFile>>

MuxReset ==
    /\ muxCall.op = "none" /\ ~muxSeen.reset
    /\ muxCall' = [op |-> "reset", step |-> IF muxer.state = "started" THEN "posted" ELSE "end"]
    /\ muxSeen' = [muxSeen EXCEPT !.reset = TRUE]
    /\ UNCHANGED <<muxer, streams, muxThread, muxFile>>

-----------------------------------------------------------------------------
(* stopInternal, on the message thread: MuxThread::reset, ...              *)
StopSignals ==
    /\ muxCall.step = "posted"
    /\ muxThread' = [muxThread EXCEPT !.continue = FALSE, !.sem = @ + 1]
    /\ muxCall' = [muxCall EXCEPT !.step = "join"]
    /\ UNCHANGED <<muxer, streams, muxFile, muxSeen>>

StopJoined ==
    /\ muxCall.step = "join" /\ muxThread.at = "over"
    /\ muxCall' = [muxCall EXCEPT !.step = "clear"]
    /\ UNCHANGED <<muxer, streams, muxThread, muxFile, muxSeen>>

(* ... the lists, ...                                                      *)
StopClears ==
    /\ muxCall.step = "clear"
    /\ streams' = [s \in MuxStreams |-> [streams[s] EXCEPT !.buf = <<>>]]
    /\ muxCall' = [muxCall EXCEPT !.step = "release"]
    /\ UNCHANGED <<muxer, muxThread, muxFile, muxSeen>>

(* ... the thread object, and then the state.                              *)
StopReleases ==
    /\ muxCall.step = "release"
    /\ muxer' = [muxer EXCEPT !.thread = FALSE]
    /\ muxCall' = [muxCall EXCEPT !.step = "end"]
    /\ UNCHANGED <<streams, muxThread, muxFile, muxSeen>>

StopAnswers ==
    /\ muxCall.step = "end"
    /\ muxer' = [muxer EXCEPT !.state = "idle"]
    /\ muxCall' = NoCall
    /\ streams' = IF muxCall.op = "reset" THEN [s \in MuxStreams |-> NewStream] ELSE streams
    /\ UNCHANGED <<muxThread, muxFile, muxSeen>>

-----------------------------------------------------------------------------
MuxWrite_EndUnposted(s, i) ==
    /\ muxer.state = "started" /\ ~streams[s].eos /\ s \notin muxSeen.sent
    /\ \E extra \in (IF ExtraMayBeLate /\ i # EosPacket THEN BOOLEAN ELSE {i # EosPacket}) :
         streams' = [streams EXCEPT ![s].buf = Append(@, i), ![s].extra = @ \/ extra]
    /\ muxThread' = [muxThread EXCEPT !.sem = IF i = EosPacket THEN @ ELSE @ + 1]
    /\ muxSeen' = [muxSeen EXCEPT !.next[s] = IF i = EosPacket THEN @ ELSE @ + 1,
                                  !.sent = IF i = EosPacket THEN @ \cup {s} ELSE @,
                                  !.orphan = ~muxer.thread]
    /\ UNCHANGED <<muxer, muxCall, muxFile>>

(* An encoder writes: its next packet, or the end of its stream.  Refused   *)
(* unless started.  Of a mux thread that is gone, the call of mux() is      *)
(* undefined (orphan), and the model ends there.                            *)
MuxWrite(s, i) ==
    /\ muxer.state = "started" /\ ~streams[s].eos /\ s \notin muxSeen.sent
    /\ \E extra \in (IF ExtraMayBeLate /\ i # EosPacket THEN BOOLEAN ELSE {i # EosPacket}) :
         streams' = [streams EXCEPT ![s].buf = Append(@, i), ![s].extra = @ \/ extra]
    /\ muxThread' = [muxThread EXCEPT !.sem = @ + 1]
    /\ muxSeen' = [muxSeen EXCEPT !.next[s] = IF i = EosPacket THEN @ ELSE @ + 1,
                                  !.sent = IF i = EosPacket THEN @ \cup {s} ELSE @,
                                  !.orphan = ~muxer.thread]
    /\ UNCHANGED <<muxer, muxCall, muxFile>>

-----------------------------------------------------------------------------
(* The mux thread: its two loops, and the third that writes what is left.   *)
MuxOuter ==
    /\ muxThread.at = "outer"
    /\ muxThread' = [muxThread EXCEPT !.at = IF muxThread.continue THEN "wait" ELSE "drain"]
    /\ UNCHANGED <<muxer, streams, muxCall, muxFile, muxSeen>>

MuxWakes ==
    /\ muxThread.at = "wait" /\ muxThread.sem > 0
    /\ muxThread' = [muxThread EXCEPT !.sem = @ - 1, !.at = IF muxThread.continue THEN "inner" ELSE "drain"]
    /\ UNCHANGED <<muxer, streams, muxCall, muxFile, muxSeen>>

MuxLeaves ==
    /\ muxThread.at = "inner" /\ ~muxThread.continue
    /\ muxThread' = [muxThread EXCEPT !.at = "drain"]
    /\ UNCHANGED <<muxer, streams, muxCall, muxFile, muxSeen>>

Waiting == {s \in MuxStreams : streams[s].buf # <<>>}

(* getMinFirstBuffer_l: nothing is taken while a stream that may still      *)
(* continue has none; of equals the last stream's, which is the video: the  *)
(* pipeline connects the audio first.                                      *)
Earliest_Any ==
    IF Waiting = {} THEN {}
    ELSE LET least(s) == \A t \in Waiting : Raw(s, Head(streams[s].buf)) <= Raw(t, Head(streams[t].buf))
         IN {CHOOSE s \in Waiting : least(s)}

Earliest ==
    LET ready(s) == streams[s].buf # <<>> \/ streams[s].eos
        least(s) == \A t \in Waiting : Raw(s, Head(streams[s].buf)) <= Raw(t, Head(streams[t].buf))
    IN IF Waiting = {} \/ \E s \in MuxStreams : ~ready(s) THEN {}
       ELSE {IF "v" \in Waiting /\ least("v") THEN "v" ELSE "a"}

MayTake == (muxThread.at = "inner" /\ muxThread.continue) \/ muxThread.at = "drain"

MuxTakes ==
    /\ MayTake /\ Earliest # {}
    /\ LET s == CHOOSE s \in Earliest : TRUE
       IN /\ streams' = [streams EXCEPT ![s].buf = Tail(@)]
          /\ muxThread' = [muxThread EXCEPT !.packet = [st |-> s, i |-> Head(streams[s].buf)],
                                            !.at = IF @ = "inner" THEN "taken" ELSE "drainTaken"]
    /\ UNCHANGED <<muxer, muxCall, muxFile, muxSeen>>

MuxNoMore ==
    /\ MayTake /\ Earliest = {}
    /\ muxThread' = [muxThread EXCEPT !.at = IF @ = "drain" THEN "trailer"
                                            ELSE IF muxer.eos THEN "drain" ELSE "outer",
                                      !.continue = @ /\ ~muxer.eos]
    /\ UNCHANGED <<muxer, streams, muxCall, muxFile, muxSeen>>

(* What the loops do with the results of mux().                            *)
Drains == muxThread.at = "drainTaken"

Goes(at) == muxThread' = [muxThread EXCEPT !.packet = NoPacket, !.at = at]

GoesOn == Goes(IF Drains THEN "drain" ELSE "inner")

GoesEos ==
    muxThread' = [muxThread EXCEPT !.packet = NoPacket, !.continue = FALSE,
                                   !.at = IF Drains THEN "trailer" ELSE "drain"]

Taken(s) == muxThread.at \in {"taken", "drainTaken"} /\ muxThread.packet.st = s

MuxEos_Any(s) ==
    /\ Taken(s) /\ muxThread.packet.i = EosPacket
    /\ streams' = [streams EXCEPT ![s].eos = TRUE]
    /\ muxer' = [muxer EXCEPT !.eos = TRUE]
    /\ GoesEos
    /\ UNCHANGED <<muxCall, muxFile, muxSeen>>

(* The end of a stream, and of the last one.                               *)
MuxEos(s) ==
    /\ Taken(s) /\ muxThread.packet.i = EosPacket
    /\ streams' = [streams EXCEPT ![s].eos = TRUE]
    /\ IF \A t \in MuxStreams \ {s} : streams[t].eos
       THEN /\ muxer' = [muxer EXCEPT !.eos = TRUE]
            /\ GoesEos
       ELSE /\ muxThread' = [muxThread EXCEPT !.packet = NoPacket, !.sem = @ + 1,
                                              !.at = IF Drains THEN "drain" ELSE "inner"]
            /\ UNCHANGED muxer
    /\ UNCHANGED <<muxCall, muxFile, muxSeen>>

(* Without all codec data there is no header yet: the packet is lost.      *)
MuxUndetermined(s) ==
    /\ Taken(s) /\ muxThread.packet.i # EosPacket
    /\ ~muxer.header /\ \E t \in MuxStreams : ~streams[t].extra
    /\ Goes(IF Drains THEN "trailer" ELSE "outer")
    /\ muxSeen' = [muxSeen EXCEPT !.dropped = TRUE]
    /\ UNCHANGED <<muxer, streams, muxCall, muxFile>>

(* The header is refused: the thread ends and tells nobody.                *)
MuxMalformed(s) ==
    /\ FileMayFail
    /\ Taken(s) /\ muxThread.packet.i # EosPacket
    /\ ~muxer.header /\ \A t \in MuxStreams : streams[t].extra
    /\ Goes("over")
    /\ muxSeen' = [muxSeen EXCEPT !.malformed = TRUE]
    /\ UNCHANGED <<muxer, streams, muxCall, muxFile>>

MayWrite(s) ==
    /\ Taken(s) /\ muxThread.packet.i # EosPacket
    /\ muxer.header \/ \A t \in MuxStreams : streams[t].extra

OpensVideo(s) == s = "v" /\ MuxPackets[s][muxThread.packet.i].key

(* Discarded while paused, and after a resume up to a key frame of video.   *)
MuxDiscards(s) ==
    /\ MayWrite(s)
    /\ streams[s].paused \/ (muxer.checkKey /\ ~OpensVideo(s))
    /\ muxer' = [muxer EXCEPT !.header = TRUE]
    /\ GoesOn
    /\ UNCHANGED <<streams, muxCall, muxFile, muxSeen>>

(* The time of a packet in the file: pauses are cut out, and it never goes  *)
(* back.                                                                    *)
Retimed(t, raw) ==
    LET gap    == raw - t.track - t.frame - (IF t.start # -1 THEN t.start ELSE 0)
        cut    == IF t.resumed THEN gap ELSE t.pausedFor
        wanted == IF cut # -1 THEN raw - cut ELSE raw
        frame  == IF t.former # 0 /\ wanted >= t.former THEN wanted - t.former ELSE t.frame
        dts    == IF wanted < t.former THEN t.former + 1 ELSE wanted
    IN [former |-> dts, start |-> IF t.start = -1 THEN dts ELSE t.start, track |-> t.track + frame,
        frame |-> frame, pausedFor |-> cut, resumed |-> FALSE]

(* A packet of a stream resumed already is dealt with before the resume     *)
(* demands a key frame.                                                    *)
Slips == muxCall.op = "resume"

(* The limit of the duration ends the recording like the end of all streams.*)
MuxWrites(s) ==
    /\ MayWrite(s)
    /\ ~streams[s].paused /\ (muxer.checkKey => OpensVideo(s))
    /\ LET i     == muxThread.packet.i
           times == Retimed(streams[s].times, Raw(s, i))
           full  == muxer.max > 0 /\ muxer.max <= times.former
       IN \/ /\ muxFile' = Append(muxFile, [st |-> s, i |-> i, dts |-> times.former])
             /\ streams' = [streams EXCEPT ![s].times = times]
             /\ muxer' = [muxer EXCEPT !.header = TRUE, !.checkKey = FALSE, !.eos = @ \/ full]
             /\ muxSeen' = [muxSeen EXCEPT !.dropped = @ \/ full, !.slipped = @ \/ Slips]
             /\ IF full THEN GoesEos ELSE GoesOn
          \/ /\ FileMayFail
             /\ streams' = [streams EXCEPT ![s].times = times]
             /\ muxer' = [muxer EXCEPT !.header = TRUE, !.checkKey = FALSE]
             /\ muxSeen' = [muxSeen EXCEPT !.dropped = TRUE, !.slipped = @ \/ Slips]
             /\ Goes(IF Drains THEN "trailer" ELSE "inner")
             /\ UNCHANGED muxFile
    /\ UNCHANGED muxCall

(* writeTrailer, when there is a header, and the end is told to the sink,   *)
(* which tells the pipeline.                                                *)
MuxTrailer ==
    /\ muxThread.at = "trailer"
    /\ muxFile' = IF muxer.header
                  THEN Append(muxFile, [st |-> "trailer", i |-> EosPacket, dts |-> 0]) ELSE muxFile
    /\ muxSeen' = [muxSeen EXCEPT !.told = @ + 1]
    /\ muxThread' = [muxThread EXCEPT !.at = "over"]
    /\ UNCHANGED <<muxer, streams, muxCall>>

-----------------------------------------------------------------------------
MuxHandlers == StopSignals \/ StopJoined \/ StopClears \/ StopReleases \/ StopAnswers

MuxLoop ==
    \/ MuxOuter \/ MuxWakes \/ MuxLeaves \/ MuxTakes \/ MuxNoMore \/ MuxTrailer
    \/ \E s \in MuxStreams : \/ MuxEos(s) \/ MuxUndetermined(s) \/ MuxMalformed(s)
                             \/ MuxDiscards(s) \/ MuxWrites(s)

MuxNext ==
    /\ ~muxSeen.orphan
    /\ \/ MuxStart \/ MuxPause \/ PausesVideo \/ MuxResume \/ ResumesVideo \/ ResumeEnds
       \/ MuxStop \/ MuxReset
       \/ \E s \in MuxStreams : \/ MuxWrite(s, EosPacket)
                                \/ muxSeen.next[s] \in DOMAIN MuxPackets[s] /\ MuxWrite(s, muxSeen.next[s])
       \/ MuxHandlers \/ MuxLoop

MuxSpec == MuxInit /\ [][MuxNext]_muxVars

(* The two threads of the muxer run; nobody else need.                     *)
MuxFairSpec ==
    /\ MuxSpec
    /\ WF_muxVars(~muxSeen.orphan /\ MuxHandlers)
    /\ WF_muxVars(~muxSeen.orphan /\ MuxLoop)

-----------------------------------------------------------------------------
MuxPacketsIn == {i \in DOMAIN muxFile : muxFile[i].st \in MuxStreams}

(* The file is interleaved: packets come in the order of their times as the *)
(* encoders gave them, whichever stream was late, and in the third loop as  *)
(* in the second; nothing follows the trailer.                              *)
Interleaved ==
    /\ \A i, j \in MuxPacketsIn :
         i < j => Raw(muxFile[i].st, muxFile[i].i) <= Raw(muxFile[j].st, muxFile[j].i)
    /\ \A i \in DOMAIN muxFile : muxFile[i].st = "trailer" => i = Len(muxFile)

(* The times of a stream in the file never go back, and those of a stream   *)
(* of even packets never advance by more than they did in the encoder,      *)
(* however often the first recording is paused and wherever the pause falls.*)
(* (A pause counts as over one former interval before the next packet: when *)
(* intervals differ, or a stop has lost packets, that may be too early; so  *)
(* when a packet slips through a resume, and the next are discarded until   *)
(* the key frame, which makes an interval of several.)                      *)
EvenPackets(s) ==
    \A i \in DOMAIN MuxPackets[s] : i > 1 => Raw(s, i) - Raw(s, i - 1) = Raw(s, 2) - Raw(s, 1)

Even(s) == muxSeen.first[s] = 1 /\ ~muxSeen.slipped /\ EvenPackets(s)

TimesContinue ==
    \A i, j \in MuxPacketsIn :
        LET before == muxFile[i] after == muxFile[j] IN
        i < j /\ before.st = after.st =>
            /\ before.dts <= after.dts
            /\ Even(after.st) =>
                 after.dts - before.dts <= Raw(after.st, after.i) - Raw(before.st, before.i)

(* Without the exception it fails: with two pauses, after the first of which *)
(* a packet slips through.                                                  *)
NeverAhead ==
    \A i, j \in MuxPacketsIn :
        LET before == muxFile[i] after == muxFile[j] IN
        i < j /\ before.st = after.st /\ muxSeen.first[after.st] = 1 /\ EvenPackets(after.st) =>
            after.dts - before.dts <= Raw(after.st, after.i) - Raw(before.st, before.i)

(* Both, of the file as a whole.                                           *)
FileInOrder == Interleaved /\ TimesContinue

(* The end of a recording is told once, by a stop at the latest, unless the *)
(* header was refused; and when all streams have ended it is told of a      *)
(* complete file: every packet written since the start is there, unless     *)
(* some were left out for a reason: a pause, an error, the limit of the     *)
(* duration, codec data that came late, a reset.                            *)
CompleteAtEnd ==
    /\ muxSeen.told <= 1
    /\ muxCall.step \in {"clear", "release"} => muxSeen.told = 1 \/ muxSeen.malformed
    /\ muxSeen.told > 0 /\ muxSeen.sent = MuxStreams /\ ~muxSeen.reset /\ ~muxSeen.dropped =>
        \A s \in MuxStreams : \A i \in muxSeen.first[s] .. muxSeen.next[s] - 1 :
            \E j \in DOMAIN muxFile : muxFile[j].st = s /\ muxFile[j].i = i

(* write calls the mux thread only while there is one, although stop and    *)
(* write have no lock in common: stop first turns later writes away.  (A    *)
(* reset that no stop precedes does not.)                                   *)
WritesFindThread == muxSeen.orphan => muxSeen.reset

(* When every stream has ended, the sink is told, unless the header was     *)
(* refused or the recording is stopped first: the posts of the semaphore    *)
(* are enough to take every packet.                                         *)
Ended == muxSeen.told > 0 \/ muxSeen.malformed \/ muxer.state # "started"

EndOwed == muxSeen.sent = MuxStreams /\ (\A s \in MuxStreams : streams[s].extra) /\ ~Ended

EndIsTold == EndOwed ~> ~EndOwed

(* The same of a recording in which a stream ends before its codec data is  *)
(* there, for which writeTrailer tells the end, "in which will notify       *)
(* kEventEos to pipeline".  It fails: every packet taken without a header   *)
(* sends the thread back to its semaphore, and posts have been spent on     *)
(* finding nothing to take.                                                 *)
EndAlwaysTold == muxSeen.sent = MuxStreams ~> Ended

=============================================================================
