--------------------------- MODULE AVMuxerProofs ---------------------------
(***************************************************************************)
(* Proofs about AVMuxer, for all packets of the encoders, every limit of    *)
(* the duration and every number of calls.                                 *)
(***************************************************************************)
EXTENDS AVMuxer, TLAPS

-----------------------------------------------------------------------------
(* The records.                                                            *)

MuxStates == {"idle", "started", "stopping"}
ThreadPlaces == {"over", "outer", "wait", "inner", "drain", "taken", "drainTaken", "trailer"}
HoldingPlaces == {"taken", "drainTaken"}
MuxSteps == {"none", "video", "key", "posted", "join", "clear", "release", "end"}
MuxOps == {"none", "pause", "resume", "stop", "reset"}
StreamsOrNone == MuxStreams \cup {"none"}
StreamsOrTrailer == MuxStreams \cup {"trailer"}

MuxerRecord == [state : MuxStates, eos : BOOLEAN, header : BOOLEAN, checkKey : BOOLEAN,
                thread : BOOLEAN, max : MaxDurations]
TimesRecord == [former : Int, start : Int, track : Int, frame : Int, pausedFor : Int, resumed : BOOLEAN]
StreamRecord == [buf : Seq(Nat), eos : BOOLEAN, extra : BOOLEAN, paused : BOOLEAN, times : TimesRecord]
HeldRecord == [st : StreamsOrNone, i : Nat]
ThreadRecord == [at : ThreadPlaces, sem : Nat, continue : BOOLEAN, packet : HeldRecord]
CallRecord == [op : MuxOps, step : MuxSteps]
EntryRecord == [st : StreamsOrTrailer, i : Nat, dts : Int]
SeenRecord == [calls : Nat, next : [MuxStreams -> Nat], first : [MuxStreams -> Nat],
               sent : SUBSET MuxStreams, told : Nat, reset : BOOLEAN, malformed : BOOLEAN,
               dropped : BOOLEAN, slipped : BOOLEAN, orphan : BOOLEAN]

Records ==
    /\ muxer \in MuxerRecord
    /\ streams \in [MuxStreams -> StreamRecord]
    /\ muxThread \in ThreadRecord
    /\ muxCall \in CallRecord
    /\ muxFile \in Seq(EntryRecord)
    /\ muxSeen \in SeenRecord
    /\ muxThread.at \in HoldingPlaces => muxThread.packet.st \in MuxStreams

-----------------------------------------------------------------------------
(* The inductive invariant.                                                *)

(* stop and reset go through their steps, and only a reset that no stop     *)
(* precedes takes the thread from a muxer that is started.                  *)
FlagOps == {"pause", "resume"}
FlagSteps == {"video", "key"}

CallsInOrder ==
    /\ muxCall.op = "none" <=> muxCall.step = "none"
    /\ muxCall.op = "none" => muxer.state # "stopping"
    /\ muxCall.op = "stop" => muxer.state = "stopping"
    /\ muxCall.op = "reset" => muxSeen.reset
    /\ muxCall.op \in FlagOps => muxer.state = "started" /\ ~muxSeen.reset
    /\ muxCall.op \in FlagOps <=> muxCall.step \in FlagSteps
    /\ muxCall.step \in {"posted", "join", "clear", "release"} => muxer.state # "idle"
    /\ muxer.state = "started" /\ ~muxSeen.reset => muxer.thread

(* The thread runs until it has told the end, or the header was refused.    *)
EndInOrder ==
    /\ muxSeen.told <= 1
    /\ muxThread.at # "over" => muxSeen.told = 0 /\ ~muxSeen.malformed
    /\ muxThread.at = "over" /\ muxer.state # "idle" => muxSeen.told = 1 \/ muxSeen.malformed
    /\ muxer.state = "idle" \/ muxCall.step \in {"clear", "release", "end"} => muxThread.at = "over"
    /\ muxSeen.malformed => muxSeen.told = 0

(* The packets in the list of a stream, and the first that the thread has   *)
(* not taken.                                                               *)
Count(s) ==
    IF s \in muxSeen.sent /\ streams[s].buf # <<>> THEN Len(streams[s].buf) - 1 ELSE Len(streams[s].buf)

Pending(s) == muxSeen.next[s] - Count(s)

ListInOrder(s) ==
    /\ muxSeen.first[s] >= 1 /\ muxSeen.first[s] <= muxSeen.next[s] /\ Pending(s) >= 1
    /\ \A i \in 1 .. muxSeen.next[s] - 1 : i \in DOMAIN MuxPackets[s]
    /\ \A k \in 1 .. Len(streams[s].buf) :
         streams[s].buf[k] = IF s \in muxSeen.sent /\ k = Len(streams[s].buf) THEN EosPacket
                             ELSE Pending(s) + k - 1
    /\ streams[s].eos => streams[s].buf = <<>> /\ s \in muxSeen.sent
    /\ Taken(s) => \/ muxThread.packet.i = EosPacket /\ streams[s].buf = <<>> /\ s \in muxSeen.sent
                   \/ muxThread.packet.i = Pending(s) - 1 /\ muxThread.packet.i >= 1

ListsInOrder == \A s \in MuxStreams : ListInOrder(s)

ListsCleared ==
    (muxCall.op = "stop" /\ muxCall.step \in {"release", "end"}) \/ (muxer.state = "idle" /\ ~muxSeen.reset) =>
        \A s \in MuxStreams : streams[s].buf = <<>>

(* The end of a stream is not lost: it is in the list, taken, or known.     *)
EosSomewhere ==
    muxThread.at # "over" =>
        \A s \in muxSeen.sent : \/ streams[s].eos \/ streams[s].buf # <<>>
                                \/ Taken(s) /\ muxThread.packet.i = EosPacket

(* Why the thread leaves its loops, why the muxer counts as ended, why      *)
(* packets are discarded.                                                   *)
LeavesForReason ==
    ~muxThread.continue \/ muxThread.at \in {"drain", "drainTaken", "trailer", "over"} =>
        muxer.state # "started" \/ muxer.eos \/ muxSeen.reset \/ muxSeen.malformed

EosForReason == muxer.eos => muxSeen.dropped \/ muxSeen.reset \/ \A s \in MuxStreams : streams[s].eos

DiscardsForReason ==
    muxer.checkKey \/ muxCall.op \in FlagOps \/ (\E s \in MuxStreams : streams[s].paused) => muxSeen.dropped

(* Where the trailer is written all lists are empty.                        *)
NothingLeft ==
    (muxThread.at = "trailer" \/ muxSeen.told > 0)
    /\ muxSeen.sent = MuxStreams /\ ~muxSeen.dropped /\ ~muxSeen.reset =>
        \A s \in MuxStreams : streams[s].buf = <<>>

InFile(s, i) == \E j \in DOMAIN muxFile : muxFile[j].st = s /\ muxFile[j].i = i

(* No packet is lost without a reason.                                      *)
Excused ==
    \/ muxSeen.dropped \/ muxSeen.malformed \/ muxSeen.reset
    \/ muxer.state # "started" /\ muxSeen.sent # MuxStreams

NothingLost ==
    Excused \/ \A s \in MuxStreams : \A i \in muxSeen.first[s] .. muxSeen.next[s] - 1 :
                  \/ InFile(s, i) \/ i >= Pending(s)
                  \/ Taken(s) /\ muxThread.packet.i = i

-----------------------------------------------------------------------------
(* What the order of the file rests on.                                     *)

Increasing ==
    \A s \in MuxStreams : \A i, j \in DOMAIN MuxPackets[s] : i < j => Raw(s, i) < Raw(s, j)

FileEntries ==
    \A j \in DOMAIN muxFile :
        /\ muxFile[j].st = "trailer" => j = Len(muxFile) /\ muxThread.at = "over"
        /\ muxFile[j].st \in MuxStreams => muxFile[j].i \in DOMAIN MuxPackets[muxFile[j].st]

(* All packets that the thread may still take are as late as time r.        *)
AllLater(r) ==
    \A t \in MuxStreams : \A i \in DOMAIN MuxPackets[t] :
        i >= Pending(t) /\ (i < muxSeen.next[t] \/ t \notin muxSeen.sent) => r <= Raw(t, i)

RawIn(j) == Raw(muxFile[j].st, muxFile[j].i)

HeldRaw == Raw(muxThread.packet.st, muxThread.packet.i)

HoldsPacket == muxThread.at \in HoldingPlaces /\ muxThread.packet.i # EosPacket

OthersAreLater ==
    muxThread.at # "over" =>
        /\ \A j \in MuxPacketsIn : AllLater(RawIn(j)) /\ (HoldsPacket => RawIn(j) <= HeldRaw)
        /\ HoldsPacket => AllLater(HeldRaw)

(* What the times in the file rest on.                                      *)
FormerIsLast ==
    muxThread.at # "over" =>
        \A j \in MuxPacketsIn : muxFile[j].dts <= streams[muxFile[j].st].times.former

NeverBack ==
    \A i, j \in MuxPacketsIn :
        i < j /\ muxFile[i].st = muxFile[j].st => muxFile[i].dts <= muxFile[j].dts

(* The state of a stream's times after a packet of time raw, when packets   *)
(* are a step apart.                                                        *)
CutOf(t) == IF t.pausedFor = -1 THEN 0 ELSE t.pausedFor

Excess(t) == t.former - t.start - t.track

Ahead(t, raw) == t.former - (raw - CutOf(t))

Paced(t, raw, step) ==
    /\ t.former >= 1 /\ t.start >= 1 /\ t.former <= raw
    /\ Excess(t) >= 0 /\ Ahead(t, raw) >= 0
    /\ (t.frame = -1 /\ Excess(t) + 1 >= Ahead(t, raw)) \/ Excess(t) >= Ahead(t, raw)
    /\ t.frame <= step

Unwritten(t) == t = [NewTimes EXCEPT !.resumed = t.resumed]

(* The packet of a stream that the thread deals with next.                  *)
Upcoming(s) == IF HoldsPacket /\ Taken(s) THEN Pending(s) - 1 ELSE Pending(s)

StepOf(s) == IF 2 \in DOMAIN MuxPackets[s] THEN Raw(s, 2) - Raw(s, 1) ELSE 1

EntriesOf(s) == {j \in MuxPacketsIn : muxFile[j].st = s}

WrittenUpTo(s, last) ==
    /\ muxer.header
    /\ Paced(streams[s].times, Raw(s, last), StepOf(s))
    /\ \A j \in EntriesOf(s) : RawIn(j) - muxFile[j].dts <= Raw(s, last) - streams[s].times.former
    /\ last < Upcoming(s)
    /\ streams[s].times.resumed \/ streams[s].paused \/ last + 1 = Upcoming(s)

EvenTimes ==
    muxThread.at # "over" =>
        \A s \in MuxStreams : Even(s) =>
            \/ Unwritten(streams[s].times) /\ EntriesOf(s) = {}
            \/ \E last \in DOMAIN MuxPackets[s] : WrittenUpTo(s, last)

FreshTimes ==
    ~muxSeen.reset => \A s \in MuxStreams : muxSeen.next[s] = 1 => Unwritten(streams[s].times)

KeyAfterPause ==
    /\ muxer.checkKey \/ muxCall.op = "resume"
    /\ ~muxSeen.slipped
    /\ ~muxSeen.reset \/ muxThread.at # "over"
    =>
        \A s \in MuxStreams : streams[s].paused \/ streams[s].times.resumed

-----------------------------------------------------------------------------
(* Sequences.                                                              *)

LEMMA AppendIs ==
    ASSUME NEW S, NEW s \in Seq(S), NEW x \in S
    PROVE  /\ Append(s, x) \in Seq(S) /\ Len(Append(s, x)) = Len(s) + 1
           /\ \A i \in 1 .. Len(s) : Append(s, x)[i] = s[i]
           /\ Append(s, x)[Len(s) + 1] = x
           /\ Append(s, x) # <<>>
  OBVIOUS

LEMMA TailIs ==
    ASSUME NEW S, NEW s \in Seq(S), s # <<>>
    PROVE  /\ Tail(s) \in Seq(S) /\ Len(s) > 0 /\ Len(Tail(s)) = Len(s) - 1
           /\ Head(s) = s[1] /\ Head(s) \in S
           /\ \A i \in 1 .. Len(s) - 1 : Tail(s)[i] = s[i + 1]
  OBVIOUS

LEMMA EmptyIs ==
    ASSUME NEW S, NEW s \in Seq(S)
    PROVE  Len(s) \in Nat /\ (s = <<>> <=> Len(s) = 0)
  OBVIOUS

-----------------------------------------------------------------------------
(* The records are kept.                                                    *)

MuxWritesNext ==
    \E s \in MuxStreams :
        \/ MuxWrite(s, EosPacket)
        \/ muxSeen.next[s] \in DOMAIN MuxPackets[s] /\ MuxWrite(s, muxSeen.next[s])

(* The steps of a pause, and of a resume.                                   *)
MuxPauses == MuxPause \/ PausesVideo

MuxResumes == MuxResume \/ ResumesVideo \/ ResumeEnds

(* What they do to a stream.                                               *)
LEMMA FlagIs ==
    ASSUME NEW st \in StreamRecord
    PROVE  /\ Paused(st) \in StreamRecord /\ Resumed(st) \in StreamRecord
           /\ Paused(st).buf = st.buf /\ Paused(st).eos = st.eos /\ Paused(st).extra = st.extra
           /\ Resumed(st).buf = st.buf /\ Resumed(st).eos = st.eos /\ Resumed(st).extra = st.extra
           /\ Paused(st).paused /\ ~Resumed(st).paused /\ Resumed(st).times.resumed
           /\ Paused(st).times = [st.times EXCEPT !.resumed = FALSE]
           /\ Resumed(st).times = [st.times EXCEPT !.resumed = TRUE]
<1>. DEFINE r(u) == [st.times EXCEPT !.resumed = u]
<1>1. st.times \in TimesRecord
  BY DEF StreamRecord
<1>2. r(TRUE) \in TimesRecord /\ r(FALSE) \in TimesRecord /\ r(TRUE).resumed
  BY <1>1 DEF TimesRecord
<1>3. Paused(st) = [st EXCEPT !.paused = TRUE, !.times = r(FALSE)]
  BY DEF Paused, StreamRecord
<1>4. Resumed(st) = [st EXCEPT !.paused = FALSE, !.times = r(TRUE)]
  BY DEF Resumed, StreamRecord
<1>. HIDE DEF r
<1>5. /\ Paused(st) \in StreamRecord /\ Paused(st).buf = st.buf /\ Paused(st).eos = st.eos
      /\ Paused(st).extra = st.extra /\ Paused(st).paused /\ Paused(st).times = r(FALSE)
  BY <1>2, <1>3 DEF StreamRecord
<1>6. /\ Resumed(st) \in StreamRecord /\ Resumed(st).buf = st.buf /\ Resumed(st).eos = st.eos
      /\ Resumed(st).extra = st.extra /\ ~Resumed(st).paused /\ Resumed(st).times = r(TRUE)
  BY <1>2, <1>4 DEF StreamRecord
<1>. QED  BY <1>2, <1>5, <1>6 DEF r

LEMMA FlagsIs ==
    ASSUME Records, MuxPauses \/ MuxResumes, NEW s \in MuxStreams
    PROVE  streams'[s] \in {streams[s], Paused(streams[s]), Resumed(streams[s])}
<1>. streams \in [MuxStreams -> StreamRecord]
  BY DEF Records
<1>1. \/ streams' = streams
      \/ \E t \in MuxStreams : streams' = [streams EXCEPT ![t] = Paused(streams[t])]
                              \/ streams' = [streams EXCEPT ![t] = Resumed(streams[t])]
  BY DEF MuxStreams, MuxPauses, MuxResumes, MuxPause, PausesVideo, MuxResume, ResumesVideo, ResumeEnds
<1>. QED  BY <1>1

MuxDeals == \E s \in MuxStreams : \/ MuxEos(s) \/ MuxUndetermined(s) \/ MuxMalformed(s)
                                  \/ MuxDiscards(s) \/ MuxWrites(s)

LEMMA MuxActions ==
    MuxNext => \/ MuxStart \/ MuxPauses \/ MuxResumes \/ MuxStop \/ MuxReset \/ MuxWritesNext
               \/ StopSignals \/ StopJoined \/ StopClears \/ StopReleases \/ StopAnswers
               \/ MuxOuter \/ MuxWakes \/ MuxLeaves \/ MuxTakes \/ MuxNoMore \/ MuxTrailer \/ MuxDeals
<1>1. MuxNext => \/ MuxStart \/ MuxPauses \/ MuxResumes \/ MuxStop \/ MuxReset
                 \/ MuxWritesNext \/ MuxHandlers \/ MuxLoop
  BY DEF MuxNext, MuxWritesNext, MuxPauses, MuxResumes
<1>2. MuxLoop => \/ MuxOuter \/ MuxWakes \/ MuxLeaves \/ MuxTakes \/ MuxNoMore \/ MuxTrailer \/ MuxDeals
  BY DEF MuxLoop, MuxDeals
<1>. QED  BY <1>1, <1>2 DEF MuxHandlers

LEMMA SetsAre ==
    /\ MuxStreams = {"v", "a"} /\ MuxStreams \subseteq StreamsOrNone /\ MuxStreams \subseteq StreamsOrTrailer
    /\ EosPacket = 0 /\ NoPacket \in HeldRecord
    /\ \A s \in MuxStreams : /\ MuxPackets[s] \in Seq([dts : Nat \ {0}, key : BOOLEAN])
                             /\ DOMAIN MuxPackets[s] = 1 .. Len(MuxPackets[s])
                             /\ DOMAIN MuxPackets[s] \subseteq Nat \ {0}
                             /\ \A i \in DOMAIN MuxPackets[s] : Raw(s, i) \in Nat \ {0}
<1>1. ASSUME NEW s \in MuxStreams
      PROVE  /\ MuxPackets[s] \in Seq([dts : Nat \ {0}, key : BOOLEAN])
             /\ DOMAIN MuxPackets[s] = 1 .. Len(MuxPackets[s])
             /\ DOMAIN MuxPackets[s] \subseteq Nat \ {0}
             /\ \A i \in DOMAIN MuxPackets[s] : Raw(s, i) \in Nat \ {0}
  <2>. DEFINE S == [dts : Nat \ {0}, key : BOOLEAN]
  <2>1. MuxPackets[s] \in Seq(S)
    BY MuxAssumption
  <2>2. DOMAIN MuxPackets[s] = 1 .. Len(MuxPackets[s]) /\ \A i \in 1 .. Len(MuxPackets[s]) : MuxPackets[s][i] \in S
    <3>. HIDE DEF S
    <3>. QED  BY <2>1
  <2>3. Len(MuxPackets[s]) \in Nat
    BY <2>1
  <2>4. DOMAIN MuxPackets[s] \subseteq Nat \ {0}
    BY <2>2, <2>3
  <2>5. ASSUME NEW i \in DOMAIN MuxPackets[s] PROVE Raw(s, i) \in Nat \ {0}
    BY <2>2, <2>4 DEF Raw, EosPacket
  <2>. QED  BY <2>1, <2>2, <2>4, <2>5
<1>. QED  BY <1>1 DEF MuxStreams, StreamsOrNone, StreamsOrTrailer, EosPacket, NoPacket, HeldRecord

LEMMA MuxerKept ==
    MuxNext => \/ muxer' = muxer
               \/ MuxStart \/ ResumeEnds \/ MuxStop \/ StopReleases \/ StopAnswers
               \/ \E s \in MuxStreams : MuxEos(s) \/ MuxDiscards(s) \/ MuxWrites(s)
BY MuxActions DEF MuxPauses, MuxResumes, MuxPause, PausesVideo, MuxResume, ResumesVideo, MuxReset, MuxWritesNext,
       MuxWrite, StopSignals, StopJoined, StopClears, MuxOuter,
       MuxWakes, MuxLeaves, MuxTakes, MuxNoMore, MuxTrailer, MuxDeals, MuxUndetermined, MuxMalformed

LEMMA MuxerType == Records /\ MuxNext => muxer' \in MuxerRecord
<1>. SUFFICES ASSUME Records, MuxNext PROVE muxer' \in MuxerRecord
  OBVIOUS
<1>. muxer \in MuxerRecord /\ {"idle", "started", "stopping"} \subseteq MuxStates
  BY DEF Records, MuxStates
<1>1. CASE MuxStart \/ ResumeEnds \/ MuxStop \/ StopReleases \/ StopAnswers
  BY <1>1 DEF MuxStart, ResumeEnds, MuxStop, StopReleases, StopAnswers, MuxerRecord
<1>2. ASSUME NEW s \in MuxStreams, MuxEos(s) \/ MuxDiscards(s)
      PROVE  muxer' \in MuxerRecord
  BY <1>2 DEF MuxEos, MuxDiscards, MuxerRecord
<1>3. ASSUME NEW s \in MuxStreams, MuxWrites(s)
      PROVE  muxer' \in MuxerRecord
  <2>1. \E full \in BOOLEAN : muxer' \in {[muxer EXCEPT !.header = TRUE, !.checkKey = FALSE,
         !.eos = muxer.eos \/ full],
                                         [muxer EXCEPT !.header = TRUE, !.checkKey = FALSE]}
    <3>. DEFINE times == Retimed(streams[s].times, Raw(s, muxThread.packet.i))
                full  == muxer.max > 0 /\ muxer.max <= times.former
    <3>1. full \in BOOLEAN
      OBVIOUS
    <3>2. muxer' \in {[muxer EXCEPT !.header = TRUE, !.checkKey = FALSE, !.eos = muxer.eos \/ full],
                     [muxer EXCEPT !.header = TRUE, !.checkKey = FALSE]}
      BY <1>3 DEF MuxWrites
    <3>. QED  BY <3>1, <3>2
  <2>. QED  BY <2>1 DEF MuxerRecord
<1>. QED  BY <1>1, <1>2, <1>3, MuxerKept

LEMMA StreamsKept ==
    MuxNext => \/ streams' = streams
               \/ MuxStart \/ MuxPauses \/ MuxResumes \/ StopClears \/ StopAnswers \/ MuxWritesNext \/ MuxTakes
               \/ \E s \in MuxStreams : MuxEos(s) \/ MuxWrites(s)
BY MuxActions DEF MuxStop, MuxReset, StopSignals, StopJoined, StopReleases, MuxOuter,
       MuxWakes, MuxLeaves, MuxNoMore, MuxTrailer, MuxDeals, MuxUndetermined, MuxMalformed, MuxDiscards

LEMMA RetimedType ==
    ASSUME NEW t \in TimesRecord, NEW raw \in Nat
    PROVE  Retimed(t, raw) \in TimesRecord /\ Retimed(t, raw).resumed = FALSE
<1>. DEFINE start  == IF t.start # -1 THEN t.start ELSE 0
            gap    == raw - t.track - t.frame - start
            cut    == IF t.resumed THEN gap ELSE t.pausedFor
            wanted == IF cut # -1 THEN raw - cut ELSE raw
            frame  == IF t.former # 0 /\ wanted >= t.former THEN wanted - t.former ELSE t.frame
            dts    == IF wanted < t.former THEN t.former + 1 ELSE wanted
<1>1. start \in Int /\ gap \in Int /\ t.former \in Int /\ t.track \in Int /\ t.pausedFor \in Int
  BY DEF TimesRecord
<1>2. cut \in Int
  BY <1>1
<1>3. wanted \in Int
  BY <1>2
<1>4. frame \in Int /\ dts \in Int
  BY <1>1, <1>3 DEF TimesRecord
<1>5. Retimed(t, raw) = [former |-> dts, start |-> IF t.start = -1 THEN dts ELSE t.start, track |-> t.track + frame,
                         frame |-> frame, pausedFor |-> cut, resumed |-> FALSE]
  BY DEF Retimed
<1>. HIDE DEF start, gap, cut, wanted, frame, dts
<1>6. (IF t.start = -1 THEN dts ELSE t.start) \in Int /\ t.track + frame \in Int
  BY <1>1, <1>4 DEF TimesRecord
<1>. QED  BY <1>2, <1>4, <1>5, <1>6 DEF TimesRecord

LEMMA StreamSet ==
    ASSUME streams \in [MuxStreams -> StreamRecord], NEW s \in MuxStreams, NEW r \in StreamRecord,
           streams' = [streams EXCEPT ![s] = r]
    PROVE  /\ streams' \in [MuxStreams -> StreamRecord]
           /\ streams'[s] = r
           /\ \A t \in MuxStreams \ {s} : streams'[t] = streams[t]
OBVIOUS

LEMMA NewIs == NewStream \in StreamRecord /\ NewTimes \in TimesRecord
<1>1. NewTimes \in TimesRecord
  BY DEF NewTimes, TimesRecord
<1>2. <<>> \in Seq(Nat)
  OBVIOUS
<1>. QED  BY <1>1, <1>2 DEF NewStream, StreamRecord

LEMMA BufSet ==
    ASSUME NEW r \in StreamRecord, NEW list \in Seq(Nat), NEW extra \in BOOLEAN
    PROVE  [r EXCEPT !.buf = list, !.extra = extra] \in StreamRecord
BY DEF StreamRecord

(* What a write does: the list of one stream gets the packet.              *)
LEMMA WriteIs ==
    ASSUME Records, NEW s \in MuxStreams, NEW i \in Nat, MuxWrite(s, i)
    PROVE  /\ streams' \in [MuxStreams -> StreamRecord]
           /\ streams'[s].buf = Append(streams[s].buf, i)
           /\ streams'[s].eos = streams[s].eos /\ streams'[s].paused = streams[s].paused
           /\ streams'[s].times = streams[s].times
           /\ \A t \in MuxStreams \ {s} : streams'[t] = streams[t]
<1>. streams \in [MuxStreams -> StreamRecord] /\ streams[s].buf \in Seq(Nat) /\ streams[s].extra \in BOOLEAN
  BY DEF Records, StreamRecord
<1>1. PICK extra \in BOOLEAN : streams' = [streams EXCEPT ![s].buf = Append(@, i), ![s].extra = @ \/ extra]
  <2>1. (i # EosPacket) \in BOOLEAN
    OBVIOUS
  <2>. QED  BY <2>1 DEF MuxWrite
<1>. DEFINE list == Append(streams[s].buf, i)
            late == streams[s].extra \/ extra
            r    == [streams[s] EXCEPT !.buf = list, !.extra = late]
<1>2. list \in Seq(Nat) /\ late \in BOOLEAN
  BY AppendIs
<1>3. streams' = [streams EXCEPT ![s] = r]
  BY <1>1
<1>. HIDE DEF list, late
<1>4. r \in StreamRecord
  BY <1>2, BufSet
<1>5. r.buf = list /\ r.eos = streams[s].eos /\ r.paused = streams[s].paused /\ r.times = streams[s].times
  BY DEF StreamRecord
<1>. HIDE DEF r
<1>. QED  BY <1>3, <1>4, <1>5, StreamSet DEF list

(* The list of a stream: packets one after the other, and the end.         *)
LEMMA HeadIs ==
    ASSUME Records, ListsInOrder, NEW s \in MuxStreams, streams[s].buf # <<>>
    PROVE  /\ Head(streams[s].buf) = streams[s].buf[1] /\ Len(streams[s].buf) >= 1
           /\ \/ Head(streams[s].buf) = EosPacket /\ s \in muxSeen.sent /\ Len(streams[s].buf) = 1
              \/ /\ Head(streams[s].buf) = Pending(s) /\ Pending(s) \in DOMAIN MuxPackets[s]
                 /\ Pending(s) < muxSeen.next[s] /\ (s \notin muxSeen.sent \/ Len(streams[s].buf) # 1)
           /\ Raw(s, Head(streams[s].buf)) \in Nat
<1>. DEFINE buf == streams[s].buf
<1>1. buf \in Seq(Nat) /\ Head(buf) = buf[1] /\ Len(buf) >= 1 /\ Len(buf) \in Nat
  BY TailIs DEF Records, StreamRecord
<1>2. muxSeen.next[s] \in Nat
  BY DEF Records, SeenRecord
<1>3. buf[1] = IF s \in muxSeen.sent /\ 1 = Len(buf) THEN EosPacket ELSE Pending(s)
  <2>1. buf[1] = IF s \in muxSeen.sent /\ 1 = Len(buf) THEN EosPacket ELSE Pending(s) + 1 - 1
    <3>1. ListInOrder(s) /\ 1 \in 1 .. Len(buf)
      BY <1>1 DEF ListsInOrder
    <3>. QED  BY <3>1 DEF ListInOrder
  <2>2. Pending(s) \in Int
    BY <1>1, <1>2 DEF Pending, Count
  <2>. QED  BY <2>1, <2>2
<1>4. CASE s \in muxSeen.sent /\ 1 = Len(buf)
  <2>1. Head(buf) = EosPacket /\ Raw(s, Head(buf)) = 0
    BY <1>1, <1>3, <1>4 DEF Raw
  <2>. QED  BY <1>1, <1>4, <2>1
<1>5. CASE ~(s \in muxSeen.sent /\ 1 = Len(buf))
  <2>1. Pending(s) >= 1 /\ Pending(s) < muxSeen.next[s] /\ Pending(s) \in Int
    <3>1. Pending(s) >= 1
      BY DEF ListsInOrder, ListInOrder
    <3>2. Count(s) \in Int /\ Count(s) >= 1
      <4>. DEFINE n == Len(buf)
      <4>1. Count(s) \in {n, n - 1} /\ (s \notin muxSeen.sent => Count(s) = n)
        BY DEF Count
      <4>2. n \in Nat /\ n >= 1 /\ (s \notin muxSeen.sent \/ n # 1)
        BY <1>1, <1>5
      <4>. HIDE DEF n
      <4>. QED  BY <4>1, <4>2
    <3>. QED  BY <1>2, <3>1, <3>2 DEF Pending
  <2>2. Pending(s) \in 1 .. muxSeen.next[s] - 1
    BY <1>2, <2>1
  <2>3. Pending(s) \in DOMAIN MuxPackets[s]
    BY <2>2 DEF ListsInOrder, ListInOrder
  <2>4. Raw(s, Pending(s)) \in Nat
    BY <2>3, SetsAre
  <2>. QED  BY <1>1, <1>3, <1>5, <2>1, <2>3, <2>4
<1>. QED  BY <1>4, <1>5

(* What the choice of a packet does.                                       *)
LEMMA EarliestIs ==
    ASSUME Records, ListsInOrder, NEW s \in Earliest
    PROVE  /\ s \in MuxStreams /\ streams[s].buf # <<>>
           /\ \A t \in MuxStreams :
                IF streams[t].buf = <<>> THEN streams[t].eos
                ELSE Raw(s, Head(streams[s].buf)) <= Raw(t, Head(streams[t].buf))
<1>. DEFINE least(r) == \A t \in Waiting : Raw(r, Head(streams[r].buf)) <= Raw(t, Head(streams[t].buf))
<1>1. /\ Waiting # {} /\ Waiting \subseteq {"a", "v"}
      /\ \A t \in MuxStreams : t \in Waiting \/ streams[t].eos
      /\ s = IF "v" \in Waiting /\ least("v") THEN "v" ELSE "a"
  BY SetsAre DEF Earliest, Waiting
<1>2. \A t \in Waiting : Raw(t, Head(streams[t].buf)) \in Nat
  BY HeadIs DEF Waiting
<1>3. s \in Waiting /\ least(s)
  <2>1. CASE "v" \in Waiting /\ least("v")
    BY <1>1, <2>1
  <2>2. CASE "v" \notin Waiting
    <3>1. Waiting = {"a"} /\ s = "a"
      BY <1>1, <2>2
    <3>. QED  BY <1>2, <3>1
  <2>3. CASE "v" \in Waiting /\ ~least("v")
    <3>1. PICK t \in Waiting : ~(Raw("v", Head(streams["v"].buf)) <= Raw(t, Head(streams[t].buf)))
      BY <2>3
    <3>2. t # "v"
      BY <1>2, <2>3, <3>1
    <3>3. t = "a" /\ s = "a"
      BY <1>1, <2>3, <3>2
    <3>. HIDE DEF least
    <3>4. least("a")
      BY <1>1, <1>2, <2>3, <3>1, <3>3 DEF least
    <3>. QED  BY <3>3, <3>4
  <2>. QED  BY <2>1, <2>2, <2>3
<1>. QED  BY <1>1, <1>3 DEF Waiting

LEMMA TakesIs ==
    ASSUME Records, ListsInOrder, MuxTakes
    PROVE  \E s \in Earliest :
             /\ s \in MuxStreams /\ streams[s].buf # <<>>
             /\ streams' \in [MuxStreams -> StreamRecord]
             /\ streams'[s].buf = Tail(streams[s].buf)
             /\ streams'[s].eos = streams[s].eos /\ streams'[s].paused = streams[s].paused
             /\ streams'[s].times = streams[s].times
             /\ \A t \in MuxStreams \ {s} : streams'[t] = streams[t]
             /\ muxThread' = [muxThread EXCEPT !.packet = [st |-> s, i |-> Head(streams[s].buf)],
                                               !.at = IF @ = "inner" THEN "taken" ELSE "drainTaken"]
<1>. DEFINE s == CHOOSE s \in Earliest : TRUE
<1>1. s \in Earliest
  BY DEF MuxTakes
<1>2. /\ streams' = [streams EXCEPT ![s].buf = Tail(streams[s].buf)]
      /\ muxThread' = [muxThread EXCEPT !.packet = [st |-> s, i |-> Head(streams[s].buf)],
                                        !.at = IF @ = "inner" THEN "taken" ELSE "drainTaken"]
  BY DEF MuxTakes
<1>. HIDE DEF s
<1>3. s \in MuxStreams /\ streams[s].buf # <<>>
  BY <1>1, EarliestIs
<1>. DEFINE list == Tail(streams[s].buf)
            r    == [streams[s] EXCEPT !.buf = list]
<1>4. streams[s] \in StreamRecord /\ streams \in [MuxStreams -> StreamRecord] /\ streams[s].buf \in Seq(Nat)
  BY <1>3 DEF Records, StreamRecord
<1>5. list \in Seq(Nat)
  BY <1>3, <1>4, TailIs
<1>6. streams' = [streams EXCEPT ![s] = r]
  BY <1>2
<1>. HIDE DEF list
<1>7. r \in StreamRecord /\ r.buf = list /\ r.eos = streams[s].eos /\ r.paused = streams[s].paused
      /\ r.times = streams[s].times
  BY <1>4, <1>5 DEF StreamRecord
<1>. HIDE DEF r
<1>8. streams' \in [MuxStreams -> StreamRecord] /\ streams'[s] = r
      /\ \A t \in MuxStreams \ {s} : streams'[t] = streams[t]
  BY <1>3, <1>4, <1>6, <1>7, StreamSet
<1>. QED  BY <1>1, <1>2, <1>3, <1>7, <1>8 DEF list

LEMMA HeldType ==
    ASSUME Records, ListsInOrder, NEW s \in MuxStreams, Taken(s)
    PROVE  /\ muxThread.packet.i \in Nat /\ Raw(s, muxThread.packet.i) \in Nat
           /\ muxThread.packet.i # EosPacket => muxThread.packet.i \in DOMAIN MuxPackets[s]
<1>1. muxThread.packet.i \in Nat
  BY DEF Records, ThreadRecord, HeldRecord
<1>2. ASSUME muxThread.packet.i # EosPacket
      PROVE  muxThread.packet.i \in DOMAIN MuxPackets[s]
  <2>1. ListInOrder(s)
    BY DEF ListsInOrder
  <2>2. muxThread.packet.i = Pending(s) - 1 /\ muxThread.packet.i >= 1
    BY <1>2, <2>1 DEF ListInOrder
  <2>3. Count(s) >= 0 /\ Count(s) \in Int
    <3>1. streams[s].buf \in Seq(Nat)
      BY DEF Records, StreamRecord
    <3>. QED  BY <3>1, EmptyIs DEF Count
  <2>4. muxSeen.next[s] \in Nat
    BY DEF Records, SeenRecord
  <2>5. muxThread.packet.i \in 1 .. muxSeen.next[s] - 1
    BY <1>1, <2>2, <2>3, <2>4 DEF Pending
  <2>. QED  BY <2>1, <2>5 DEF ListInOrder
<1>3. Raw(s, muxThread.packet.i) \in Nat
  BY <1>2, SetsAre DEF Raw
<1>. QED  BY <1>1, <1>2, <1>3

LEMMA StreamsType == Records /\ ListsInOrder /\ MuxNext => streams' \in [MuxStreams -> StreamRecord]
<1>. SUFFICES ASSUME Records, ListsInOrder, MuxNext PROVE streams' \in [MuxStreams -> StreamRecord]
  OBVIOUS
<1>. streams \in [MuxStreams -> StreamRecord] /\ <<>> \in Seq(Nat)
  BY DEF Records
<1>1. CASE MuxStart \/ StopClears
  <2>1. ASSUME NEW s \in MuxStreams
        PROVE  [streams[s] EXCEPT !.eos = FALSE] \in StreamRecord /\ [streams[s] EXCEPT !.buf = <<>>] \in StreamRecord
    BY DEF StreamRecord
  <2>2. CASE MuxStart
    <3>1. streams' = [s \in MuxStreams |-> [streams[s] EXCEPT !.eos = FALSE]]
      BY <2>2 DEF MuxStart
    <3>. QED  BY <2>1, <3>1
  <2>3. CASE StopClears
    <3>1. streams' = [s \in MuxStreams |-> [streams[s] EXCEPT !.buf = <<>>]]
      BY <2>3 DEF StopClears
    <3>. QED  BY <2>1, <3>1
  <2>. QED  BY <1>1, <2>2, <2>3
<1>7. CASE MuxPauses \/ MuxResumes
  <2>1. \/ streams' = streams
        \/ \E t \in MuxStreams : streams' = [streams EXCEPT ![t] = Paused(streams[t])]
                                \/ streams' = [streams EXCEPT ![t] = Resumed(streams[t])]
    BY <1>7 DEF MuxStreams, MuxPauses, MuxResumes, MuxPause, PausesVideo, MuxResume, ResumesVideo, ResumeEnds
  <2>2. ASSUME NEW t \in MuxStreams
        PROVE  streams[t] \in StreamRecord /\ Paused(streams[t]) \in StreamRecord
               /\ Resumed(streams[t]) \in StreamRecord
    BY FlagIs
  <2>. QED  BY <2>1, <2>2
<1>2. CASE StopAnswers
  BY <1>2, NewIs DEF StopAnswers
<1>3. CASE MuxWritesNext
  <2>1. \A s \in MuxStreams : muxSeen.next[s] \in Nat
    BY DEF Records, SeenRecord
  <2>. QED  BY <1>3, <2>1, WriteIs, SetsAre DEF MuxWritesNext
<1>4. CASE MuxTakes
  BY <1>4, TakesIs
<1>5. ASSUME NEW s \in MuxStreams, MuxEos(s)
      PROVE  streams' \in [MuxStreams -> StreamRecord]
  BY <1>5 DEF MuxEos, StreamRecord
<1>6. ASSUME NEW s \in MuxStreams, MuxWrites(s)
      PROVE  streams' \in [MuxStreams -> StreamRecord]
  <2>. DEFINE times == Retimed(streams[s].times, Raw(s, muxThread.packet.i))
  <2>1. Raw(s, muxThread.packet.i) \in Nat /\ streams[s].times \in TimesRecord
    <3>1. Taken(s)
      BY <1>6 DEF MuxWrites, MayWrite
    <3>. QED  BY <3>1, HeldType DEF StreamRecord
  <2>2. streams' = [streams EXCEPT ![s].times = times]
    BY <1>6 DEF MuxWrites
  <2>3. times \in TimesRecord
    BY <2>1, RetimedType
  <2>. HIDE DEF times
  <2>. QED  BY <2>2, <2>3 DEF StreamRecord
<1>. QED  BY <1>1, <1>2, <1>3, <1>4, <1>5, <1>6, <1>7, StreamsKept

LEMMA ThreadKept ==
    MuxNext => \/ muxThread' = muxThread
               \/ MuxStart \/ MuxWritesNext \/ StopSignals \/ MuxOuter \/ MuxWakes \/ MuxLeaves \/ MuxTakes
               \/ MuxNoMore \/ MuxTrailer \/ MuxDeals
BY MuxActions DEF MuxPauses, MuxResumes, MuxPause, PausesVideo, MuxResume, ResumesVideo, ResumeEnds, MuxStop,
       MuxReset, StopJoined, StopClears, StopReleases, StopAnswers

(* What the thread does next, with a packet dealt with.                     *)
LEMMA DealsIs ==
    ASSUME Records, MuxDeals
    PROVE  /\ muxThread.at \in HoldingPlaces
           /\ muxThread'.packet = NoPacket /\ muxThread'.at \in {"inner", "drain", "outer", "trailer", "over"}
           /\ muxThread' \in ThreadRecord
<1>. muxThread \in ThreadRecord /\ muxThread.sem \in Nat /\ muxThread.sem + 1 \in Nat /\ NoPacket \in HeldRecord
  BY SetsAre DEF Records, ThreadRecord
<1>1. muxThread.at \in HoldingPlaces
  BY DEF MuxDeals, MuxEos, MuxUndetermined, MuxMalformed, MuxDiscards, MuxWrites, MayWrite, Taken, HoldingPlaces
<1>2. \E at \in {"inner", "drain", "outer", "trailer", "over"} :
        \/ muxThread' = [muxThread EXCEPT !.packet = NoPacket, !.at = at]
        \/ muxThread' = [muxThread EXCEPT !.packet = NoPacket, !.continue = FALSE, !.at = at]
        \/ muxThread' = [muxThread EXCEPT !.packet = NoPacket, !.sem = muxThread.sem + 1, !.at = at]
  BY DEF MuxDeals, MuxEos, MuxUndetermined, MuxMalformed, MuxDiscards, MuxWrites, Goes, GoesOn, GoesEos
<1>3. {"inner", "drain", "outer", "trailer", "over"} \subseteq ThreadPlaces
  BY DEF ThreadPlaces
<1>. QED  BY <1>1, <1>2, <1>3 DEF ThreadRecord

LEMMA ThreadType ==
    Records /\ ListsInOrder /\ MuxNext =>
        /\ muxThread' \in ThreadRecord
        /\ muxThread'.at \in HoldingPlaces => muxThread'.packet.st \in MuxStreams
<1>. SUFFICES ASSUME Records, ListsInOrder, MuxNext
              PROVE  /\ muxThread' \in ThreadRecord
                     /\ muxThread'.at \in HoldingPlaces => muxThread'.packet.st \in MuxStreams
  OBVIOUS
<1>. /\ muxThread \in ThreadRecord /\ muxThread.sem \in Nat /\ NoPacket \in HeldRecord
     /\ muxThread.sem + 1 \in Nat /\ muxThread.at \in ThreadPlaces
     /\ muxThread.at \in HoldingPlaces => muxThread.packet.st \in MuxStreams
  BY SetsAre DEF Records, ThreadRecord
<1>. /\ {"over", "outer", "wait", "inner", "drain", "taken", "drainTaken", "trailer"} = ThreadPlaces
     /\ {"taken", "drainTaken"} = HoldingPlaces
  BY DEF ThreadPlaces, HoldingPlaces
<1>1. CASE MuxStart
  BY <1>1 DEF MuxStart, ThreadRecord
<1>2. CASE MuxWritesNext
  <2>1. muxThread' = [muxThread EXCEPT !.sem = muxThread.sem + 1]
    BY <1>2 DEF MuxWritesNext, MuxWrite
  <2>. QED  BY <2>1 DEF ThreadRecord
<1>3. CASE StopSignals
  <2>1. muxThread' = [muxThread EXCEPT !.continue = FALSE, !.sem = muxThread.sem + 1]
    BY <1>3 DEF StopSignals
  <2>. QED  BY <2>1 DEF ThreadRecord
<1>4. CASE MuxOuter \/ MuxLeaves \/ MuxTrailer
  <2>1. \E at \in {"wait", "drain", "over"} : muxThread' = [muxThread EXCEPT !.at = at]
    BY <1>4 DEF MuxOuter, MuxLeaves, MuxTrailer
  <2>. QED  BY <2>1 DEF ThreadRecord
<1>5. CASE MuxWakes
  <2>1. muxThread.sem - 1 \in Nat
    BY <1>5 DEF MuxWakes
  <2>2. \E at \in {"inner", "drain"} : muxThread' = [muxThread EXCEPT !.sem = muxThread.sem - 1, !.at = at]
    BY <1>5 DEF MuxWakes
  <2>. QED  BY <2>1, <2>2 DEF ThreadRecord
<1>6. CASE MuxTakes
  <2>1. PICK s \in MuxStreams : /\ streams[s].buf # <<>>
                                /\ muxThread' = [muxThread EXCEPT !.packet = [st |-> s, i |-> Head(streams[s].buf)],
                                                   !.at = IF @ = "inner" THEN "taken" ELSE "drainTaken"]
    BY <1>6, TakesIs
  <2>. DEFINE i == Head(streams[s].buf)
              h == [st |-> s, i |-> i]
  <2>2. i \in Nat
    <3>1. streams[s].buf \in Seq(Nat)
      BY DEF Records, StreamRecord
    <3>. QED  BY <2>1, <3>1, TailIs
  <2>3. muxThread' = [muxThread EXCEPT !.packet = h, !.at = IF @ = "inner" THEN "taken" ELSE "drainTaken"]
    BY <2>1
  <2>. HIDE DEF i
  <2>4. h \in HeldRecord /\ h.st \in MuxStreams
    BY <2>2, SetsAre DEF HeldRecord
  <2>. HIDE DEF h
  <2>. QED  BY <2>3, <2>4 DEF ThreadRecord
<1>7. CASE MuxNoMore
  <2>1. \E u \in BOOLEAN, at \in {"trailer", "drain", "outer"} :
           muxThread' = [muxThread EXCEPT !.at = at, !.continue = u]
    <3>1. (muxThread.continue /\ ~muxer.eos) \in BOOLEAN
      OBVIOUS
    <3>. QED  BY <1>7, <3>1 DEF MuxNoMore
  <2>. QED  BY <2>1 DEF ThreadRecord
<1>8. CASE MuxDeals
  BY <1>8, DealsIs
<1>. QED  BY <1>1, <1>2, <1>3, <1>4, <1>5, <1>6, <1>7, <1>8, ThreadKept

LEMMA CallKept ==
    MuxNext => \/ muxCall' = muxCall
               \/ MuxPauses \/ MuxResumes
               \/ MuxStop \/ MuxReset \/ StopSignals \/ StopJoined \/ StopClears \/ StopReleases \/ StopAnswers
BY MuxActions DEF MuxStart, MuxWritesNext, MuxWrite, MuxOuter, MuxWakes, MuxLeaves,
       MuxTakes, MuxNoMore, MuxTrailer, MuxDeals, MuxEos, MuxUndetermined, MuxMalformed, MuxDiscards, MuxWrites

LEMMA CallType == Records /\ MuxNext => muxCall' \in CallRecord
<1>. SUFFICES ASSUME Records, MuxNext PROVE muxCall' \in CallRecord
  OBVIOUS
<1>. muxCall \in CallRecord
  BY DEF Records
<1>. QED  BY CallKept DEF NoCall, MuxPauses, MuxResumes, MuxPause, PausesVideo, MuxResume, ResumesVideo,
       ResumeEnds, MuxStop, MuxReset, StopSignals, StopJoined, StopClears, StopReleases, StopAnswers,
                          CallRecord, MuxOps, MuxSteps

LEMMA FileKept ==
    MuxNext => muxFile' = muxFile \/ MuxStart \/ MuxTrailer \/ \E s \in MuxStreams : MuxWrites(s)
BY MuxActions DEF MuxPauses, MuxResumes, MuxPause, PausesVideo, MuxResume, ResumesVideo, ResumeEnds, MuxStop,
       MuxReset, MuxWritesNext, MuxWrite, StopSignals, StopJoined,
       StopClears, StopReleases, StopAnswers, MuxOuter, MuxWakes, MuxLeaves, MuxTakes, MuxNoMore, MuxDeals,
       MuxEos, MuxUndetermined, MuxMalformed, MuxDiscards

(* A packet that is written, or refused by FFmpeg: its time is computed.    *)
LEMMA WritesIs ==
    ASSUME Records, ListsInOrder, NEW s \in MuxStreams, MuxWrites(s)
    PROVE  LET i     == muxThread.packet.i
               times == Retimed(streams[s].times, Raw(s, i))
               entry == [st |-> s, i |-> i, dts |-> times.former]
           IN /\ Taken(s) /\ i \in DOMAIN MuxPackets[s] /\ Raw(s, i) \in Nat
              /\ times \in TimesRecord /\ entry \in EntryRecord
              /\ streams' = [streams EXCEPT ![s].times = times]
              /\ streams'[s].times = times /\ streams'[s].buf = streams[s].buf
              /\ streams'[s].eos = streams[s].eos /\ streams'[s].paused = streams[s].paused
              /\ \A t \in MuxStreams \ {s} : streams'[t] = streams[t]
              /\ \/ muxFile' = Append(muxFile, entry)
                 \/ muxFile' = muxFile /\ muxSeen'.dropped
<1>. DEFINE i     == muxThread.packet.i
            times == Retimed(streams[s].times, Raw(s, i))
            entry == [st |-> s, i |-> i, dts |-> times.former]
<1>1. Taken(s) /\ i # EosPacket
  BY DEF MuxWrites, MayWrite
<1>2. i \in Nat /\ Raw(s, i) \in Nat /\ i \in DOMAIN MuxPackets[s]
  BY <1>1, HeldType
<1>3. streams \in [MuxStreams -> StreamRecord] /\ streams[s].times \in TimesRecord /\ muxSeen \in SeenRecord
  BY DEF Records, StreamRecord
<1>4. times \in TimesRecord
  BY <1>2, <1>3, RetimedType
<1>5. entry \in EntryRecord
  BY <1>2, <1>4, SetsAre DEF EntryRecord, TimesRecord
<1>6. streams' = [streams EXCEPT ![s].times = times]
  BY DEF MuxWrites
<1>7. \/ muxFile' = Append(muxFile, entry)
      \/ muxFile' = muxFile /\ muxSeen' = [muxSeen EXCEPT !.dropped = TRUE, !.slipped = muxSeen.slipped \/ Slips]
  BY DEF MuxWrites
<1>8. muxFile' = Append(muxFile, entry) \/ (muxFile' = muxFile /\ muxSeen'.dropped)
  BY <1>3, <1>7 DEF SeenRecord
<1>. HIDE DEF times
<1>9. /\ streams'[s].times = times /\ streams'[s].buf = streams[s].buf
      /\ streams'[s].eos = streams[s].eos /\ streams'[s].paused = streams[s].paused
      /\ \A t \in MuxStreams \ {s} : streams'[t] = streams[t]
  BY <1>3, <1>6 DEF StreamRecord
<1>. QED  BY <1>1, <1>2, <1>4, <1>5, <1>6, <1>8, <1>9 DEF times

LEMMA FileType == Records /\ ListsInOrder /\ MuxNext => muxFile' \in Seq(EntryRecord)
<1>. SUFFICES ASSUME Records, ListsInOrder, MuxNext PROVE muxFile' \in Seq(EntryRecord)
  OBVIOUS
<1>. muxFile \in Seq(EntryRecord)
  BY DEF Records
<1>1. CASE MuxStart
  BY <1>1 DEF MuxStart
<1>2. CASE MuxTrailer
  <2>. DEFINE entry == [st |-> "trailer", i |-> EosPacket, dts |-> 0]
  <2>1. entry \in EntryRecord
    BY DEF EntryRecord, StreamsOrTrailer, EosPacket
  <2>2. muxFile' \in {muxFile, Append(muxFile, entry)}
    BY <1>2 DEF MuxTrailer
  <2>. HIDE DEF entry
  <2>. QED  BY <2>1, <2>2, AppendIs
<1>3. ASSUME NEW s \in MuxStreams, MuxWrites(s)
      PROVE  muxFile' \in Seq(EntryRecord)
  <2>1. \E entry \in EntryRecord : muxFile' \in {muxFile, Append(muxFile, entry)}
    BY <1>3, WritesIs
  <2>. QED  BY <2>1, AppendIs
<1>. QED  BY <1>1, <1>2, <1>3, FileKept

LEMMA SeenKept ==
    MuxNext => \/ muxSeen' = muxSeen
               \/ MuxStart \/ MuxPauses \/ MuxResumes \/ MuxStop \/ MuxReset \/ MuxWritesNext \/ MuxTrailer
               \/ \E s \in MuxStreams : MuxUndetermined(s) \/ MuxMalformed(s) \/ MuxWrites(s)
BY MuxActions DEF StopSignals, StopJoined, StopClears, StopReleases, StopAnswers, MuxOuter, MuxWakes,
       MuxLeaves, MuxTakes, MuxNoMore, MuxDeals, MuxEos, MuxDiscards

(* What a write does to the history.                                       *)
LEMMA WriteSeenIs ==
    ASSUME Records, NEW s \in MuxStreams, NEW i \in Nat, MuxWrite(s, i)
    PROVE  /\ muxSeen'.next = (IF i = EosPacket THEN muxSeen.next
                               ELSE [muxSeen.next EXCEPT ![s] = muxSeen.next[s] + 1])
           /\ muxSeen'.sent = (IF i = EosPacket THEN muxSeen.sent \cup {s} ELSE muxSeen.sent)
           /\ muxSeen'.first = muxSeen.first /\ muxSeen'.told = muxSeen.told
           /\ muxSeen'.reset = muxSeen.reset /\ muxSeen'.malformed = muxSeen.malformed
           /\ muxSeen'.dropped = muxSeen.dropped /\ muxSeen'.orphan = ~muxer.thread
           /\ muxSeen'.slipped = muxSeen.slipped
           /\ muxSeen' \in SeenRecord
<1>. /\ muxSeen \in SeenRecord /\ muxSeen.next \in [MuxStreams -> Nat] /\ muxSeen.next[s] + 1 \in Nat
     /\ muxSeen.sent \subseteq MuxStreams /\ muxer.thread \in BOOLEAN
  BY DEF Records, SeenRecord, MuxerRecord
<1>. DEFINE next == IF i = EosPacket THEN muxSeen.next ELSE [muxSeen.next EXCEPT ![s] = muxSeen.next[s] + 1]
            sent == IF i = EosPacket THEN muxSeen.sent \cup {s} ELSE muxSeen.sent
            lone == ~muxer.thread
<1>1. muxSeen' = [muxSeen EXCEPT !.next = next, !.sent = sent, !.orphan = lone]
  <2>1. CASE i = EosPacket
    <3>1. muxSeen' = [muxSeen EXCEPT !.next[s] = muxSeen.next[s], !.sent = muxSeen.sent \cup {s},
           !.orphan = ~muxer.thread]
      BY <2>1 DEF MuxWrite
    <3>. QED  BY <2>1, <3>1 DEF SeenRecord
  <2>2. CASE i # EosPacket
    <3>1. muxSeen' = [muxSeen EXCEPT !.next[s] = muxSeen.next[s] + 1, !.sent = muxSeen.sent, !.orphan = ~muxer.thread]
      BY <2>2 DEF MuxWrite
    <3>. QED  BY <2>2, <3>1 DEF SeenRecord
  <2>. QED  BY <2>1, <2>2
<1>2. next \in [MuxStreams -> Nat] /\ sent \in SUBSET MuxStreams /\ lone \in BOOLEAN
  OBVIOUS
<1>. HIDE DEF next, sent, lone
<1>3. muxSeen' \in SeenRecord
  BY <1>1, <1>2 DEF SeenRecord
<1>4. /\ muxSeen'.next = next /\ muxSeen'.sent = sent /\ muxSeen'.orphan = lone
      /\ muxSeen'.first = muxSeen.first /\ muxSeen'.told = muxSeen.told
      /\ muxSeen'.reset = muxSeen.reset /\ muxSeen'.malformed = muxSeen.malformed
      /\ muxSeen'.dropped = muxSeen.dropped /\ muxSeen'.slipped = muxSeen.slipped
  BY <1>1 DEF SeenRecord
<1>. QED  BY <1>3, <1>4 DEF next, sent, lone

LEMMA SeenType == Records /\ MuxNext => muxSeen' \in SeenRecord
<1>. SUFFICES ASSUME Records, MuxNext PROVE muxSeen' \in SeenRecord
  OBVIOUS
<1>. /\ muxSeen \in SeenRecord /\ muxSeen.calls + 1 \in Nat /\ muxSeen.told + 1 \in Nat
     /\ muxSeen.next \in [MuxStreams -> Nat]
  BY DEF Records, SeenRecord
<1>1. CASE MuxStart
  <2>1. PICK u \in BOOLEAN : muxSeen' = [muxSeen EXCEPT !.calls = muxSeen.calls + 1, !.sent = {}, !.told = 0,
                              !.first = muxSeen.next, !.malformed = FALSE, !.dropped = u]
    <3>. DEFINE u == muxer.checkKey \/ \E s \in MuxStreams : streams[s].paused
    <3>1. u \in BOOLEAN
      OBVIOUS
    <3>2. muxSeen' = [muxSeen EXCEPT !.calls = muxSeen.calls + 1, !.sent = {}, !.told = 0,
                              !.first = muxSeen.next, !.malformed = FALSE, !.dropped = u]
      BY <1>1 DEF MuxStart
    <3>. HIDE DEF u
    <3>. QED  BY <3>1, <3>2
  <2>. QED  BY <2>1 DEF SeenRecord
<1>2. CASE MuxPauses \/ MuxResumes \/ MuxStop \/ MuxReset \/ MuxTrailer
  <2>1. muxSeen' \in {[muxSeen EXCEPT !.calls = muxSeen.calls + 1, !.dropped = TRUE],
                      [muxSeen EXCEPT !.calls = muxSeen.calls + 1], [muxSeen EXCEPT !.reset = TRUE],
                      [muxSeen EXCEPT !.told = muxSeen.told + 1], muxSeen}
    BY <1>2 DEF MuxPauses, MuxResumes, MuxPause, PausesVideo, MuxResume, ResumesVideo, ResumeEnds, MuxStop,
           MuxReset, MuxTrailer
  <2>. QED  BY <2>1 DEF SeenRecord
<1>3. CASE MuxWritesNext
  BY <1>3, WriteSeenIs, SetsAre DEF MuxWritesNext
<1>4. CASE \E s \in MuxStreams : MuxUndetermined(s) \/ MuxMalformed(s) \/ MuxWrites(s)
  <2>1. \E u, v, w \in BOOLEAN : muxSeen' = [muxSeen EXCEPT !.dropped = u, !.malformed = v, !.slipped = w]
    <3>1. PICK s \in MuxStreams : MuxUndetermined(s) \/ MuxMalformed(s) \/ MuxWrites(s)
      BY <1>4
    <3>2. CASE MuxUndetermined(s) \/ MuxMalformed(s)
      <4>1. \/ muxSeen' = [muxSeen EXCEPT !.dropped = TRUE, !.malformed = muxSeen.malformed,
                                         !.slipped = muxSeen.slipped]
            \/ muxSeen' = [muxSeen EXCEPT !.dropped = muxSeen.dropped, !.malformed = TRUE,
                                         !.slipped = muxSeen.slipped]
        BY <3>2 DEF MuxUndetermined, MuxMalformed, SeenRecord
      <4>. QED  BY <4>1 DEF SeenRecord
    <3>3. CASE MuxWrites(s)
      <4>. DEFINE full == muxer.max > 0 /\ muxer.max <= Retimed(streams[s].times, Raw(s, muxThread.packet.i)).former
      <4>. DEFINE slips == muxSeen.slipped \/ Slips
      <4>1. muxSeen' = [muxSeen EXCEPT !.dropped = muxSeen.dropped \/ full, !.slipped = slips]
            \/ muxSeen' = [muxSeen EXCEPT !.dropped = TRUE, !.slipped = slips]
        BY <3>3 DEF MuxWrites
      <4>2. full \in BOOLEAN /\ (muxSeen.dropped \/ full) \in BOOLEAN /\ slips \in BOOLEAN
        BY DEF Slips
      <4>. HIDE DEF full, slips
      <4>3. PICK u \in BOOLEAN : muxSeen' = [muxSeen EXCEPT !.dropped = u, !.slipped = slips]
        BY <4>1, <4>2
      <4>4. muxSeen' = [muxSeen EXCEPT !.dropped = u, !.malformed = muxSeen.malformed, !.slipped = slips]
        BY <4>3 DEF SeenRecord
      <4>5. muxSeen.malformed \in BOOLEAN
        BY DEF SeenRecord
      <4>. QED  BY <4>2, <4>4, <4>5
    <3>. QED  BY <3>1, <3>2, <3>3
  <2>. QED  BY <2>1 DEF SeenRecord
<1>. QED  BY <1>1, <1>2, <1>3, <1>4, SeenKept

LEMMA RecordsStep == Records /\ ListsInOrder /\ MuxNext => Records'
BY MuxerType, StreamsType, ThreadType, CallType, FileType, SeenType DEF Records

-----------------------------------------------------------------------------
(* What changes which member.                                              *)

LEMMA SeenFields ==
    Records /\ MuxNext =>
        /\ MuxReset \/ muxSeen'.reset = muxSeen.reset
        /\ MuxStart \/ muxSeen'.first = muxSeen.first
        /\ MuxStart \/ MuxTrailer \/ muxSeen'.told = muxSeen.told
        /\ MuxStart \/ (\E s \in MuxStreams : MuxMalformed(s)) \/ muxSeen'.malformed = muxSeen.malformed
        /\ MuxStart \/ (muxSeen.dropped => muxSeen'.dropped)
        /\ (muxSeen.slipped => muxSeen'.slipped)
        /\ MuxWritesNext \/ muxSeen'.next = muxSeen.next
        /\ MuxStart \/ MuxWritesNext \/ muxSeen'.sent = muxSeen.sent
        /\ MuxWritesNext \/ muxSeen'.orphan = muxSeen.orphan
<1>. SUFFICES ASSUME Records, MuxNext
              PROVE  /\ MuxReset \/ muxSeen'.reset = muxSeen.reset
                     /\ MuxStart \/ muxSeen'.first = muxSeen.first
                     /\ MuxStart \/ MuxTrailer \/ muxSeen'.told = muxSeen.told
                     /\ \/ MuxStart \/ \E s \in MuxStreams : MuxMalformed(s)
                        \/ muxSeen'.malformed = muxSeen.malformed
                     /\ MuxStart \/ (muxSeen.dropped => muxSeen'.dropped)
                     /\ (muxSeen.slipped => muxSeen'.slipped)
                     /\ MuxWritesNext \/ muxSeen'.next = muxSeen.next
                     /\ MuxStart \/ MuxWritesNext \/ muxSeen'.sent = muxSeen.sent
                     /\ MuxWritesNext \/ muxSeen'.orphan = muxSeen.orphan
  OBVIOUS
<1>. muxSeen \in SeenRecord
  BY DEF Records
<1>1. CASE MuxStart \/ MuxPauses \/ MuxResumes \/ MuxStop \/ MuxReset \/ MuxTrailer
  BY <1>1 DEF MuxStart, MuxPauses, MuxResumes, MuxPause, PausesVideo, MuxResume, ResumesVideo, ResumeEnds, MuxStop,
         MuxReset, MuxTrailer, SeenRecord
<1>2. CASE MuxWritesNext
  BY <1>2, WriteSeenIs, SetsAre DEF MuxWritesNext, Records, SeenRecord
<1>3. CASE \E s \in MuxStreams : MuxUndetermined(s) \/ MuxMalformed(s) \/ MuxWrites(s)
  BY <1>3 DEF MuxUndetermined, MuxMalformed, MuxWrites, SeenRecord
<1>. QED  BY <1>1, <1>2, <1>3, SeenKept

LEMMA MuxerFields ==
    Records /\ MuxNext =>
        /\ MuxStart \/ MuxStop \/ StopAnswers \/ muxer'.state = muxer.state
        /\ MuxStart \/ StopReleases \/ muxer'.thread = muxer.thread
        /\ MuxStart \/ (\E s \in MuxStreams : MuxEos(s) \/ MuxWrites(s)) \/ muxer'.eos = muxer.eos
        /\ ResumeEnds \/ (muxer'.checkKey => muxer.checkKey)
        /\ MuxStart \/ (muxer.header => muxer'.header)
<1>. SUFFICES ASSUME Records, MuxNext
              PROVE  /\ MuxStart \/ MuxStop \/ StopAnswers \/ muxer'.state = muxer.state
                     /\ MuxStart \/ StopReleases \/ muxer'.thread = muxer.thread
                     /\ MuxStart \/ (\E s \in MuxStreams : MuxEos(s) \/ MuxWrites(s)) \/ muxer'.eos = muxer.eos
                     /\ ResumeEnds \/ (muxer'.checkKey => muxer.checkKey)
                     /\ MuxStart \/ (muxer.header => muxer'.header)
  OBVIOUS
<1>. muxer \in MuxerRecord
  BY DEF Records
<1>1. CASE MuxStart \/ ResumeEnds \/ MuxStop \/ StopReleases \/ StopAnswers
  BY <1>1 DEF MuxStart, ResumeEnds, MuxStop, StopReleases, StopAnswers, MuxerRecord
<1>2. CASE \E s \in MuxStreams : MuxEos(s) \/ MuxDiscards(s) \/ MuxWrites(s)
  BY <1>2 DEF MuxEos, MuxDiscards, MuxWrites, MuxerRecord
<1>. QED  BY <1>1, <1>2, MuxerKept

LEMMA StreamFields ==
    ASSUME Records, ListsInOrder, MuxNext, NEW s \in MuxStreams
    PROVE  /\ MuxWritesNext \/ MuxTakes \/ StopClears \/ StopAnswers \/ streams'[s].buf = streams[s].buf
           /\ MuxStart \/ StopAnswers \/ (\E t \in MuxStreams : MuxEos(t)) \/ streams'[s].eos = streams[s].eos
           /\ MuxPauses \/ MuxResumes \/ StopAnswers \/ streams'[s].paused = streams[s].paused
           /\ \/ MuxPauses \/ MuxResumes \/ StopAnswers \/ \E t \in MuxStreams : MuxWrites(t)
              \/ streams'[s].times = streams[s].times
<1>. streams \in [MuxStreams -> StreamRecord]
  BY DEF Records
<1>1. CASE MuxStart \/ StopClears
  BY <1>1 DEF MuxStart, StopClears, StreamRecord
<1>2. CASE MuxPauses \/ MuxResumes
  <2>2. streams'[s].buf = streams[s].buf /\ streams'[s].eos = streams[s].eos
    BY <1>2, FlagsIs, FlagIs
  <2>. QED  BY <1>2, <2>2
<1>3. CASE MuxWritesNext
  <2>1. PICK t \in MuxStreams, i \in Nat : MuxWrite(t, i)
    BY <1>3, SetsAre DEF MuxWritesNext, Records, SeenRecord
  <2>2. streams'[s] = streams[s]
        \/ (streams'[s].eos = streams[s].eos /\ streams'[s].paused = streams[s].paused /\ streams'[s].times = streams[s].times)
    BY <2>1, WriteIs
  <2>. QED  BY <1>3, <2>2
<1>4. CASE MuxTakes
  <2>1. PICK t \in MuxStreams :
             /\ streams'[t].eos = streams[t].eos /\ streams'[t].paused = streams[t].paused
             /\ streams'[t].times = streams[t].times
             /\ \A r \in MuxStreams \ {t} : streams'[r] = streams[r]
    BY <1>4, TakesIs
  <2>. QED  BY <1>4, <2>1
<1>5. ASSUME NEW t \in MuxStreams, MuxEos(t)
      PROVE  streams'[s].buf = streams[s].buf /\ streams'[s].paused = streams[s].paused /\ streams'[s].times = streams[s].times
  BY <1>5 DEF MuxEos, StreamRecord
<1>6. ASSUME NEW t \in MuxStreams, MuxWrites(t)
      PROVE  streams'[s].buf = streams[s].buf /\ streams'[s].paused = streams[s].paused /\ streams'[s].eos = streams[s].eos
  BY <1>6, WritesIs
<1>. QED  BY <1>1, <1>2, <1>3, <1>4, <1>5, <1>6, StreamsKept

LEMMA ThreadFields ==
    ASSUME Records, MuxNext
    PROVE  /\ MuxStart \/ MuxTakes \/ MuxDeals \/ muxThread'.packet = muxThread.packet
           /\ \/ MuxStart \/ MuxOuter \/ MuxWakes \/ MuxLeaves \/ MuxTakes \/ MuxNoMore \/ MuxTrailer \/ MuxDeals
              \/ muxThread'.at = muxThread.at
           /\ MuxStart \/ StopSignals \/ MuxNoMore \/ MuxDeals \/ muxThread'.continue = muxThread.continue
<1>. muxThread \in ThreadRecord
  BY DEF Records
<1>1. CASE MuxWritesNext \/ StopSignals
  <2>1. CASE MuxWritesNext
    <3>1. muxThread' = [muxThread EXCEPT !.sem = muxThread.sem + 1]
      BY <2>1 DEF MuxWritesNext, MuxWrite
    <3>. QED  BY <3>1 DEF ThreadRecord
  <2>2. CASE StopSignals
    <3>1. muxThread' = [muxThread EXCEPT !.continue = FALSE, !.sem = muxThread.sem + 1]
      BY <2>2 DEF StopSignals
    <3>. QED  BY <2>2, <3>1 DEF ThreadRecord
  <2>. QED  BY <1>1, <2>1, <2>2
<1>2. CASE MuxOuter \/ MuxWakes \/ MuxLeaves \/ MuxTrailer
  BY <1>2 DEF MuxOuter, MuxWakes, MuxLeaves, MuxTrailer, ThreadRecord
<1>3. CASE MuxNoMore
  BY <1>3 DEF MuxNoMore, ThreadRecord
<1>4. CASE MuxTakes
  <2>1. PICK h, at : muxThread' = [muxThread EXCEPT !.packet = h, !.at = at]
    BY <1>4 DEF MuxTakes
  <2>. QED  BY <1>4, <2>1 DEF ThreadRecord
<1>. QED  BY <1>1, <1>2, <1>3, <1>4, ThreadKept

-----------------------------------------------------------------------------
(* The steps.                                                              *)

(* What a step of a pause or of a resume leaves of the call, the history and *)
(* the muxer.                                                              *)
LEMMA FlagCallIs ==
    ASSUME Records, MuxPauses \/ MuxResumes
    PROVE  /\ \/ muxCall'.op = "none" /\ muxCall'.step = "none"
              \/ muxCall'.op \in FlagOps /\ muxCall'.step \in FlagSteps
           /\ muxer'.state = muxer.state /\ muxer'.thread = muxer.thread /\ muxThread' = muxThread
           /\ muxSeen'.told = muxSeen.told /\ muxSeen'.malformed = muxSeen.malformed
           /\ muxSeen'.reset = muxSeen.reset
<1>. muxer \in MuxerRecord /\ muxSeen \in SeenRecord
  BY DEF Records
<1>1. /\ muxCall' \in {[op |-> "none", step |-> "none"], [op |-> "pause", step |-> "video"],
                       [op |-> "resume", step |-> "video"], [op |-> "resume", step |-> "key"]}
      /\ muxer' \in {muxer, [muxer EXCEPT !.checkKey = TRUE]} /\ muxThread' = muxThread
  BY DEF MuxPauses, MuxPause, PausesVideo, MuxResumes, MuxResume, ResumesVideo, ResumeEnds, NoCall
<1>2. muxSeen' \in {muxSeen, [muxSeen EXCEPT !.calls = muxSeen.calls + 1, !.dropped = TRUE],
                    [muxSeen EXCEPT !.calls = muxSeen.calls + 1]}
  BY DEF MuxPauses, MuxPause, PausesVideo, MuxResumes, MuxResume, ResumesVideo, ResumeEnds
<1>3. muxSeen'.told = muxSeen.told /\ muxSeen'.malformed = muxSeen.malformed /\ muxSeen'.reset = muxSeen.reset
  BY <1>2 DEF SeenRecord
<1>4. muxer'.state = muxer.state /\ muxer'.thread = muxer.thread
  BY <1>1 DEF MuxerRecord
<1>5. \/ muxCall'.op = "none" /\ muxCall'.step = "none"
      \/ muxCall'.op \in FlagOps /\ muxCall'.step \in FlagSteps
  BY <1>1 DEF FlagOps, FlagSteps
<1>. QED  BY <1>1, <1>3, <1>4, <1>5

(* The steps of a stop and of a reset are not those of a pause or a resume. *)
LEMMA StopOps ==
    ASSUME Records, CallsInOrder, muxCall.step \notin FlagSteps \cup {"none"}
    PROVE  muxCall.op \in {"stop", "reset"}
BY DEF Records, CallRecord, MuxOps, CallsInOrder, FlagOps

LEMMA CallsStep == Records /\ CallsInOrder /\ MuxNext => CallsInOrder'
<1>. SUFFICES ASSUME Records, CallsInOrder, MuxNext PROVE CallsInOrder'
  OBVIOUS
<1>. muxCall \in CallRecord /\ muxer \in MuxerRecord /\ muxSeen \in SeenRecord
  BY DEF Records
<1>0. MuxReset => muxSeen'.reset
  BY DEF MuxReset, SeenRecord
<1>. USE DEF FlagOps, FlagSteps
<1>1. CASE MuxStart
  <2>1. muxer'.state = "started" /\ muxer'.thread /\ muxCall' = muxCall /\ muxCall.op = "none"
    BY <1>1 DEF MuxStart, MuxCalls, MuxerRecord
  <2>. QED  BY <2>1 DEF CallsInOrder
<1>8. CASE MuxPauses \/ MuxResumes
  <2>1. /\ muxer'.state = muxer.state /\ muxer'.thread = muxer.thread /\ muxSeen'.reset = muxSeen.reset
        /\ muxer.state = "started"
        /\ \/ muxCall'.op = "none" /\ muxCall'.step = "none"
           \/ muxCall'.op \in FlagOps /\ muxCall'.step \in FlagSteps
    <3>1. muxer.state = "started"
      BY <1>8 DEF MuxPauses, MuxPause, PausesVideo, MuxResumes, MuxResume, ResumesVideo, ResumeEnds, CallsInOrder
    <3>. QED  BY <1>8, <3>1, FlagCallIs
  <2>2. ~muxSeen.reset
    <3>1. muxCall.op \in FlagOps => ~muxSeen.reset
      BY DEF CallsInOrder
    <3>. QED  BY <1>8, <3>1 DEF MuxPauses, MuxPause, PausesVideo, MuxResumes, MuxResume, ResumesVideo, ResumeEnds,
                                MuxCalls
  <2>. QED  BY <2>1, <2>2 DEF CallsInOrder
<1>2. CASE MuxStop
  <2>1. muxer'.state = "stopping" /\ muxCall' = [op |-> "stop", step |-> "posted"]
    BY <1>2 DEF MuxStop, MuxerRecord
  <2>. QED  BY <2>1 DEF CallsInOrder
<1>3. CASE MuxReset
  <2>1. muxer' = muxer /\ muxCall.op = "none"
        /\ muxCall' = [op |-> "reset", step |-> IF muxer.state = "started" THEN "posted" ELSE "end"]
    BY <1>3 DEF MuxReset
  <2>2. muxer.state \in {"idle", "started"}
    BY <2>1 DEF CallsInOrder, MuxerRecord, MuxStates
  <2>. QED  BY <1>0, <1>3, <2>1, <2>2 DEF CallsInOrder
<1>4. CASE StopSignals \/ StopJoined \/ StopClears
  <2>1. muxer' = muxer /\ muxSeen' = muxSeen /\ muxCall'.op = muxCall.op
        /\ muxCall.step \in {"posted", "join", "clear"} /\ muxCall'.step \in {"join", "clear", "release"}
    BY <1>4 DEF StopSignals, StopJoined, StopClears, CallRecord
  <2>. QED  BY <2>1 DEF CallsInOrder
<1>5. CASE StopReleases
  <2>1. muxer'.state = muxer.state /\ muxSeen' = muxSeen /\ muxCall'.op = muxCall.op
        /\ muxCall.step = "release" /\ muxCall'.step = "end"
    BY <1>5 DEF StopReleases, CallRecord, MuxerRecord
  <2>2. muxCall.op \in {"stop", "reset"}
    BY <2>1, StopOps DEF FlagSteps
  <2>. QED  BY <2>1, <2>2 DEF CallsInOrder
<1>6. CASE StopAnswers
  <2>1. muxer'.state = "idle" /\ muxCall' = [op |-> "none", step |-> "none"]
    BY <1>6 DEF StopAnswers, MuxerRecord, NoCall
  <2>. QED  BY <2>1 DEF CallsInOrder
<1>7. CASE muxCall' = muxCall /\ muxer'.state = muxer.state /\ muxer'.thread = muxer.thread
           /\ muxSeen'.reset = muxSeen.reset
  BY <1>7 DEF CallsInOrder
<1>. QED  BY <1>1, <1>2, <1>3, <1>4, <1>5, <1>6, <1>7, <1>8, CallKept, MuxerFields, SeenFields

LEMMA EndStep == Records /\ CallsInOrder /\ EndInOrder /\ MuxNext => EndInOrder'
<1>. SUFFICES ASSUME Records, CallsInOrder, EndInOrder, MuxNext PROVE EndInOrder'
  OBVIOUS
<1>. /\ muxCall \in CallRecord /\ muxer \in MuxerRecord /\ muxSeen \in SeenRecord /\ muxThread \in ThreadRecord
     /\ muxSeen.told \in Nat
  BY DEF Records, SeenRecord
<1>1. CASE MuxStart
  <2>1. /\ muxSeen'.told = 0 /\ ~muxSeen'.malformed /\ muxThread'.at = "outer" /\ muxer'.state = "started"
        /\ muxCall' = muxCall /\ muxCall.op = "none"
    BY <1>1 DEF MuxStart, MuxCalls, SeenRecord, MuxerRecord
  <2>. QED  BY <2>1 DEF EndInOrder, CallsInOrder
<1>2. CASE MuxTrailer
  <2>1. /\ muxSeen'.told = muxSeen.told + 1 /\ muxSeen'.malformed = muxSeen.malformed /\ muxThread.at = "trailer"
        /\ muxThread'.at = "over" /\ muxer' = muxer /\ muxCall' = muxCall
    BY <1>2 DEF MuxTrailer, SeenRecord, ThreadRecord
  <2>. QED  BY <2>1 DEF EndInOrder
<1>3. ASSUME NEW s \in MuxStreams, MuxMalformed(s) PROVE EndInOrder'
  <2>1. /\ muxSeen'.told = muxSeen.told /\ muxSeen'.malformed /\ muxThread.at \in {"taken", "drainTaken"}
        /\ muxThread'.at = "over" /\ muxer' = muxer /\ muxCall' = muxCall
    BY <1>3 DEF MuxMalformed, Taken, Goes, SeenRecord, ThreadRecord
  <2>. QED  BY <2>1 DEF EndInOrder
<1>4. CASE StopJoined \/ StopClears \/ StopReleases \/ StopAnswers
  <2>1. /\ muxSeen' = muxSeen /\ muxThread' = muxThread /\ muxThread.at = "over"
        /\ muxer'.state \in {muxer.state, "idle"}
    BY <1>4 DEF StopJoined, StopClears, StopReleases, StopAnswers, EndInOrder, MuxerRecord
  <2>. QED  BY <2>1 DEF EndInOrder
<1>5. CASE MuxStop \/ MuxReset
  <2>1. /\ muxThread' = muxThread /\ muxSeen'.told = muxSeen.told /\ muxSeen'.malformed = muxSeen.malformed
        /\ muxer.state = "idle" \/ (muxer'.state # "idle" /\ muxCall'.step = "posted")
        /\ muxer.state # "idle" \/ muxer' = muxer
    <3>1. CASE MuxStop
      BY <3>1 DEF MuxStop, SeenRecord, MuxerRecord
    <3>2. CASE MuxReset
      <4>1. muxer.state \in {"idle", "started"}
        BY <3>2 DEF MuxReset, CallsInOrder, MuxerRecord, MuxStates
      <4>. QED  BY <3>2, <4>1 DEF MuxReset, SeenRecord
    <3>. QED  BY <1>5, <3>1, <3>2
  <2>2. muxer.state # "idle" => muxer'.state # "idle"
    BY <2>1
  <2>. QED  BY <2>1, <2>2 DEF EndInOrder
<1>6. ASSUME muxCall'.step = muxCall.step \/ StopSignals, muxer'.state = muxer.state,
       muxThread'.at # "over" \/ muxThread'.at = muxThread.at,
             muxThread.at # "over" \/ muxThread'.at = muxThread.at,
             muxSeen'.told = muxSeen.told, muxSeen'.malformed = muxSeen.malformed
      PROVE  EndInOrder'
  <2>1. StopSignals => muxCall'.step = "join"
    BY DEF StopSignals, CallRecord
  <2>. QED  BY <1>6, <2>1 DEF EndInOrder
<1>8. CASE MuxPauses \/ MuxResumes
  <2>1. /\ muxThread' = muxThread /\ muxSeen'.told = muxSeen.told /\ muxSeen'.malformed = muxSeen.malformed
        /\ muxer'.state = muxer.state /\ muxCall'.step \notin {"clear", "release", "end"}
    BY <1>8, FlagCallIs DEF FlagOps, FlagSteps
  <2>. QED  BY <2>1 DEF EndInOrder
<1>7. ASSUME ~MuxStart, ~MuxTrailer, \A s \in MuxStreams : ~MuxMalformed(s)
      PROVE  muxThread'.at = muxThread.at \/ (muxThread'.at # "over" /\ muxThread.at # "over")
  <2>1. CASE MuxDeals
    <3>1. muxThread.at # "over"
      BY <2>1, DealsIs DEF HoldingPlaces
    <3>2. muxThread'.at # "over"
      BY <1>7, <2>1 DEF MuxDeals, MuxEos, MuxUndetermined, MuxDiscards, MuxWrites, Goes, GoesOn, GoesEos, ThreadRecord
    <3>. QED  BY <3>1, <3>2
  <2>2. CASE MuxOuter \/ MuxWakes \/ MuxLeaves \/ MuxNoMore
    <3>1. CASE MuxOuter \/ MuxWakes \/ MuxLeaves
      BY <3>1 DEF MuxOuter, MuxWakes, MuxLeaves, ThreadRecord
    <3>2. CASE MuxNoMore
      <4>1. muxThread.at \in {"inner", "drain"}
        BY <3>2 DEF MuxNoMore, MayTake
      <4>2. PICK u : muxThread' = [muxThread EXCEPT !.at = IF @ = "drain" THEN "trailer"
                                             ELSE IF muxer.eos THEN "drain" ELSE "outer", !.continue = u]
        BY <3>2 DEF MuxNoMore
      <4>. QED  BY <4>1, <4>2 DEF ThreadRecord
    <3>. QED  BY <2>2, <3>1, <3>2
  <2>3. CASE MuxTakes
    <3>1. PICK h : muxThread' = [muxThread EXCEPT !.packet = h, !.at = IF @ = "inner" THEN "taken" ELSE "drainTaken"]
      BY <2>3 DEF MuxTakes
    <3>2. muxThread.at # "over"
      BY <2>3 DEF MuxTakes, MayTake
    <3>. QED  BY <3>1, <3>2 DEF ThreadRecord
  <2>. QED  BY <1>7, <2>1, <2>2, <2>3, ThreadFields
<1>. QED  BY <1>1, <1>2, <1>3, <1>4, <1>5, <1>6, <1>7, <1>8, CallKept, MuxerFields, SeenFields

LEMMA TakenKept ==
    ASSUME Records, MuxNext, ~MuxTakes
    PROVE  muxThread'.at \in HoldingPlaces => muxThread'.at = muxThread.at /\ muxThread'.packet = muxThread.packet
<1>. muxThread \in ThreadRecord /\ HoldingPlaces = {"taken", "drainTaken"}
  BY DEF Records, HoldingPlaces
<1>1. CASE MuxStart
  BY <1>1 DEF MuxStart
<1>2. CASE MuxOuter \/ MuxWakes \/ MuxLeaves \/ MuxTrailer
  BY <1>2 DEF MuxOuter, MuxWakes, MuxLeaves, MuxTrailer, ThreadRecord
<1>3. CASE MuxNoMore
  <2>1. PICK u : muxThread' = [muxThread EXCEPT !.at = IF @ = "drain" THEN "trailer"
                                             ELSE IF muxer.eos THEN "drain" ELSE "outer", !.continue = u]
    BY <1>3 DEF MuxNoMore
  <2>. QED  BY <2>1 DEF ThreadRecord
<1>4. CASE MuxDeals
  BY <1>4, DealsIs
<1>. QED  BY <1>1, <1>2, <1>3, <1>4, ThreadFields

LEMMA CountIs ==
    ASSUME Records, NEW s \in MuxStreams
    PROVE  /\ Count(s) \in Nat /\ Pending(s) \in Int /\ Pending(s) <= muxSeen.next[s]
           /\ muxSeen.next[s] \in Nat /\ muxSeen.first[s] \in Nat
           /\ streams[s].buf \in Seq(Nat) /\ Len(streams[s].buf) \in Nat
<1>1. streams[s].buf \in Seq(Nat) /\ muxSeen.next[s] \in Nat /\ muxSeen.first[s] \in Nat
  BY DEF Records, StreamRecord, SeenRecord
<1>2. Len(streams[s].buf) \in Nat /\ (streams[s].buf = <<>> <=> Len(streams[s].buf) = 0)
  BY <1>1, EmptyIs
<1>. DEFINE n == Len(streams[s].buf)
<1>3. Count(s) = n \/ (Count(s) = n - 1 /\ streams[s].buf # <<>>)
  BY DEF Count
<1>4. n \in Nat /\ (streams[s].buf # <<>> => n # 0)
  BY <1>2
<1>. HIDE DEF n
<1>5. Count(s) \in Nat
  BY <1>3, <1>4
<1>. QED  BY <1>1, <1>2, <1>5 DEF Pending

(* A list that no step touches.                                            *)
LEMMA ListSame ==
    ASSUME NEW s \in MuxStreams, ListInOrder(s), muxSeen'.next = muxSeen.next, muxSeen'.first = muxSeen.first,
           (s \in muxSeen'.sent) = (s \in muxSeen.sent), streams'[s].buf = streams[s].buf,
           streams'[s].eos => streams[s].eos \/ (streams[s].buf = <<>> /\ s \in muxSeen.sent),
           Taken(s)' => Taken(s) /\ muxThread'.packet = muxThread.packet
    PROVE  ListInOrder(s)' /\ Pending(s)' = Pending(s)
<1>1. Count(s)' = Count(s) /\ Pending(s)' = Pending(s)
  BY DEF Count, Pending
<1>. QED  BY <1>1 DEF ListInOrder

(* A write makes a list longer at its end, and changes nothing pending.    *)
LEMMA WriteKeepsOrder ==
    ASSUME Records, ListsInOrder, NEW s \in MuxStreams, NEW i \in {EosPacket, muxSeen.next[s]}, MuxWrite(s, i),
           i # EosPacket => i \in DOMAIN MuxPackets[s]
    PROVE  ListsInOrder' /\ \A t \in MuxStreams : Pending(t)' = Pending(t)
<1>. DEFINE buf == streams[s].buf
<1>1. /\ Count(s) \in Nat /\ muxSeen.next[s] \in Nat /\ muxSeen.first[s] \in Nat
      /\ buf \in Seq(Nat) /\ Len(buf) \in Nat /\ i \in Nat
  BY CountIs, SetsAre
<1>2. /\ streams'[s].buf = Append(buf, i) /\ streams'[s].eos = streams[s].eos
      /\ \A t \in MuxStreams \ {s} : streams'[t] = streams[t]
  BY <1>1, WriteIs
<1>3. /\ muxSeen'.next = (IF i = EosPacket THEN muxSeen.next
                          ELSE [muxSeen.next EXCEPT ![s] = muxSeen.next[s] + 1])
      /\ muxSeen'.sent = (IF i = EosPacket THEN muxSeen.sent \cup {s} ELSE muxSeen.sent)
      /\ muxSeen'.first = muxSeen.first
  BY <1>1, WriteSeenIs
<1>4. s \notin muxSeen.sent /\ ~streams[s].eos
  BY DEF MuxWrite
<1>5. muxThread' = [muxThread EXCEPT !.sem = muxThread.sem + 1] /\ muxThread \in ThreadRecord
  BY DEF MuxWrite, Records
<1>6. muxThread'.at = muxThread.at /\ muxThread'.packet = muxThread.packet
  BY <1>5 DEF ThreadRecord
<1>7. \A t \in MuxStreams : ListInOrder(t)
  BY DEF ListsInOrder
<1>8. ASSUME NEW t \in MuxStreams \ {s}
      PROVE  ListInOrder(t)' /\ Pending(t)' = Pending(t)
  <2>1. muxSeen'.next[t] = muxSeen.next[t] /\ (t \in muxSeen'.sent) = (t \in muxSeen.sent)
        /\ muxSeen'.first[t] = muxSeen.first[t]
    BY <1>3 DEF Records, SeenRecord
  <2>2. Count(t)' = Count(t) /\ Pending(t)' = Pending(t)
    BY <1>2, <2>1 DEF Count, Pending
  <2>. QED  BY <1>2, <1>6, <1>7, <2>1, <2>2 DEF ListInOrder, Taken
<1>9. Append(buf, i) # <<>> /\ Len(Append(buf, i)) = Len(buf) + 1
      /\ (\A k \in 1 .. Len(buf) : Append(buf, i)[k] = buf[k]) /\ Append(buf, i)[Len(buf) + 1] = i
  <2>. HIDE DEF buf
  <2>. QED  BY <1>1, AppendIs
<1>10. Count(s) = Len(buf) /\ Pending(s) = muxSeen.next[s] - Len(buf) /\ Pending(s) >= 1
  BY <1>4, <1>7 DEF Count, Pending, ListInOrder
<1>11. \A k \in 1 .. Len(buf) : buf[k] = Pending(s) + k - 1
  BY <1>4, <1>7 DEF ListInOrder
<1>12. Taken(s) => muxThread.packet.i = Pending(s) - 1 /\ muxThread.packet.i >= 1
  BY <1>4, <1>7 DEF ListInOrder
<1>. DEFINE list == streams'[s].buf
<1>13. CASE i = EosPacket
  <2>1. s \in muxSeen'.sent /\ muxSeen'.next = muxSeen.next
    BY <1>3, <1>13
  <2>2. Count(s)' = Len(buf) /\ Pending(s)' = Pending(s)
    <3>1. Count(s)' = Len(buf) + 1 - 1
      BY <1>2, <1>9, <2>1 DEF Count
    <3>. QED  BY <1>1, <1>10, <2>1, <3>1 DEF Pending
  <2>3. ASSUME NEW k \in 1 .. Len(list)
        PROVE  list[k] = IF s \in muxSeen'.sent /\ k = Len(list) THEN EosPacket ELSE Pending(s)' + k - 1
    BY <1>1, <1>2, <1>9, <1>11, <1>13, <2>1, <2>2
  <2>4. \A k \in 1 .. muxSeen'.next[s] - 1 : k \in DOMAIN MuxPackets[s]
    BY <1>7, <2>1 DEF ListInOrder
  <2>5. muxSeen'.first[s] >= 1 /\ muxSeen'.first[s] <= muxSeen'.next[s]
    BY <1>3, <1>7, <2>1 DEF ListInOrder
  <2>6. ~streams'[s].eos
    BY <1>2, <1>4
  <2>7. Taken(s)' => muxThread'.packet.i = Pending(s)' - 1 /\ muxThread'.packet.i >= 1
    BY <1>6, <1>12, <2>2 DEF Taken
  <2>8. ListInOrder(s)'
    BY <1>10, <2>2, <2>3, <2>4, <2>5, <2>6, <2>7 DEF ListInOrder
  <2>. QED  BY <1>8, <2>2, <2>8 DEF ListsInOrder
<1>14. CASE i # EosPacket
  <2>1. s \notin muxSeen'.sent /\ muxSeen'.next[s] = muxSeen.next[s] + 1 /\ i = muxSeen.next[s]
        /\ i \in DOMAIN MuxPackets[s]
    BY <1>3, <1>4, <1>14 DEF Records, SeenRecord
  <2>2. Count(s)' = Len(buf) + 1 /\ Pending(s)' = Pending(s)
    <3>1. Count(s)' = Len(buf) + 1
      BY <1>2, <1>9, <2>1 DEF Count
    <3>2. Pending(s)' = muxSeen'.next[s] - Count(s)'
      BY DEF Pending
    <3>. QED  BY <1>1, <1>10, <2>1, <3>1, <3>2
  <2>3. ASSUME NEW k \in 1 .. Len(list)
        PROVE  list[k] = IF s \in muxSeen'.sent /\ k = Len(list) THEN EosPacket ELSE Pending(s)' + k - 1
    <3>. DEFINE n == Len(buf)
    <3>1. n \in Nat /\ Len(list) = n + 1 /\ list[n + 1] = i /\ \A l \in 1 .. n : list[l] = buf[l]
      BY <1>1, <1>2, <1>9
    <3>2. Pending(s)' = muxSeen.next[s] - n
      BY <1>10, <2>2
    <3>3. CASE k = n + 1
      BY <1>1, <2>1, <3>1, <3>2, <3>3
    <3>4. CASE k # n + 1
      <4>1. k \in 1 .. n
        BY <3>1, <3>4
      <4>. QED  BY <1>11, <2>1, <2>2, <3>1, <4>1
    <3>. QED  BY <3>3, <3>4
  <2>4. \A k \in 1 .. muxSeen'.next[s] - 1 : k \in DOMAIN MuxPackets[s]
    <3>1. \A k \in 1 .. muxSeen.next[s] - 1 : k \in DOMAIN MuxPackets[s]
      BY <1>7 DEF ListInOrder
    <3>. QED  BY <1>1, <2>1, <3>1
  <2>5. muxSeen'.first[s] >= 1 /\ muxSeen'.first[s] <= muxSeen'.next[s]
    <3>1. muxSeen.first[s] >= 1 /\ muxSeen.first[s] <= muxSeen.next[s]
      BY <1>7 DEF ListInOrder
    <3>. QED  BY <1>1, <1>3, <2>1, <3>1
  <2>6. ~streams'[s].eos
    BY <1>2, <1>4
  <2>7. Taken(s)' => muxThread'.packet.i = Pending(s)' - 1 /\ muxThread'.packet.i >= 1
    BY <1>6, <1>12, <2>2 DEF Taken
  <2>8. ListInOrder(s)'
    BY <1>10, <2>2, <2>3, <2>4, <2>5, <2>6, <2>7 DEF ListInOrder
  <2>. QED  BY <1>8, <2>2, <2>8 DEF ListsInOrder
<1>. QED  BY <1>13, <1>14

(* Taking a packet: the first of a list, which is the first pending.        *)
LEMMA TakeKeepsOrder ==
    ASSUME Records, ListsInOrder, MuxTakes
    PROVE  /\ ListsInOrder'
           /\ \E s \in Earliest :
                /\ s \in MuxStreams /\ Taken(s)' /\ muxThread'.packet.i = Head(streams[s].buf)
                /\ streams[s].buf # <<>> /\ streams'[s].buf = Tail(streams[s].buf)
                /\ streams'[s].eos = streams[s].eos /\ streams'[s].paused = streams[s].paused
                /\ streams'[s].times = streams[s].times
                /\ IF Head(streams[s].buf) = EosPacket THEN Pending(s)' = Pending(s)
                   ELSE Head(streams[s].buf) = Pending(s) /\ Pending(s)' = Pending(s) + 1
                /\ \A t \in MuxStreams \ {s} : ~Taken(t)' /\ Pending(t)' = Pending(t) /\ streams'[t] = streams[t]
<1>1. PICK s \in Earliest :
             /\ s \in MuxStreams /\ streams[s].buf # <<>>
             /\ streams' \in [MuxStreams -> StreamRecord]
             /\ streams'[s].buf = Tail(streams[s].buf)
             /\ streams'[s].eos = streams[s].eos /\ streams'[s].paused = streams[s].paused
             /\ streams'[s].times = streams[s].times
             /\ \A t \in MuxStreams \ {s} : streams'[t] = streams[t]
             /\ muxThread' = [muxThread EXCEPT !.packet = [st |-> s, i |-> Head(streams[s].buf)],
                                               !.at = IF @ = "inner" THEN "taken" ELSE "drainTaken"]
  BY TakesIs
<1>. DEFINE buf  == streams[s].buf
            head == Head(buf)
            h    == [st |-> s, i |-> head]
<1>2. /\ Count(s) \in Nat /\ muxSeen.next[s] \in Nat /\ muxSeen.first[s] \in Nat
      /\ buf \in Seq(Nat) /\ Len(buf) \in Nat
  BY <1>1, CountIs
<1>3. muxSeen' = muxSeen
  BY DEF MuxTakes
<1>4. muxThread'.packet.st = s /\ muxThread'.packet.i = head /\ muxThread'.at \in {"taken", "drainTaken"}
  <2>1. muxThread' = [muxThread EXCEPT !.packet = h, !.at = IF @ = "inner" THEN "taken" ELSE "drainTaken"]
    BY <1>1
  <2>2. h.st = s /\ h.i = head
    OBVIOUS
  <2>. HIDE DEF h
  <2>. QED  BY <2>1, <2>2 DEF Records, ThreadRecord
<1>5. /\ Len(Tail(buf)) = Len(buf) - 1 /\ Len(buf) >= 1 /\ Tail(buf) \in Seq(Nat)
      /\ \A i \in 1 .. Len(buf) - 1 : Tail(buf)[i] = buf[i + 1]
  <2>. HIDE DEF buf
  <2>. QED  BY <1>1, <1>2, TailIs DEF buf
<1>6. ListInOrder(s) /\ \A t \in MuxStreams : ListInOrder(t)
  BY <1>1 DEF ListsInOrder
<1>7. \/ head = EosPacket /\ s \in muxSeen.sent /\ Len(buf) = 1
      \/ head = Pending(s) /\ Pending(s) \in DOMAIN MuxPackets[s] /\ Pending(s) < muxSeen.next[s]
  BY <1>1, HeadIs
<1>8. ASSUME NEW t \in MuxStreams \ {s}
      PROVE  ~Taken(t)' /\ Pending(t)' = Pending(t) /\ streams'[t] = streams[t] /\ ListInOrder(t)'
  <2>1. ~Taken(t)' /\ streams'[t] = streams[t]
    BY <1>1, <1>4 DEF Taken
  <2>. QED  BY <1>3, <1>6, <2>1, ListSame
<1>. DEFINE list == streams'[s].buf
<1>9. Tail(buf) = <<>> <=> Len(buf) = 1
  <2>. DEFINE tail == Tail(buf)
  <2>1. tail \in Seq(Nat) /\ Len(tail) = Len(buf) - 1
    BY <1>5
  <2>. HIDE DEF tail
  <2>2. tail = <<>> <=> Len(tail) = 0
    BY <2>1, EmptyIs
  <2>. QED  BY <1>2, <2>1, <2>2 DEF tail
<1>10. CASE head = EosPacket /\ s \in muxSeen.sent /\ Len(buf) = 1
  <2>1. list = <<>> /\ Len(list) = 0
    BY <1>1, <1>5, <1>9, <1>10
  <2>2. Count(s) = 0 /\ Count(s)' = 0
    <3>1. Count(s) = Len(buf) - 1
      BY <1>1, <1>10 DEF Count
    <3>2. Count(s)' = Len(list)
      BY <2>1 DEF Count
    <3>. QED  BY <1>10, <2>1, <3>1, <3>2
  <2>3. Pending(s)' = Pending(s)
    BY <1>3, <2>2 DEF Pending
  <2>4. Taken(s)' => muxThread'.packet.i = EosPacket /\ list = <<>> /\ s \in muxSeen'.sent
    BY <1>3, <1>4, <1>10, <2>1
  <2>5. /\ muxSeen'.first[s] >= 1 /\ muxSeen'.first[s] <= muxSeen'.next[s] /\ Pending(s)' >= 1
        /\ \A k \in 1 .. muxSeen'.next[s] - 1 : k \in DOMAIN MuxPackets[s]
    BY <1>3, <1>6, <2>3 DEF ListInOrder
  <2>6. streams'[s].eos => list = <<>> /\ s \in muxSeen'.sent
    BY <1>3, <1>10, <2>1
  <2>7. \A k \in 1 .. Len(list) : FALSE
    BY <2>1
  <2>8. ListInOrder(s)'
    BY <2>4, <2>5, <2>6, <2>7 DEF ListInOrder
  <2>. QED  BY <1>1, <1>4, <1>8, <1>10, <2>3, <2>8 DEF ListsInOrder, Taken
<1>11. CASE head = Pending(s) /\ Pending(s) \in DOMAIN MuxPackets[s] /\ Pending(s) < muxSeen.next[s]
  <2>. DEFINE n == Len(buf)
  <2>1. n \in Nat /\ n >= 1 /\ Len(list) = n - 1 /\ (list = <<>> <=> n = 1)
        /\ \A i \in 1 .. n - 1 : list[i] = buf[i + 1]
    BY <1>1, <1>2, <1>5, <1>9
  <2>2. Pending(s) >= 1 /\ Pending(s) \in Int
    BY <1>6, CountIs, <1>1 DEF ListInOrder
  <2>3. s \in muxSeen.sent => n # 1
    <3>1. ASSUME s \in muxSeen.sent, n = 1 PROVE FALSE
      <4>1. Count(s) = 0
        BY <1>1, <3>1 DEF Count
      <4>. QED  BY <1>2, <1>11, <4>1 DEF Pending
    <3>. QED  BY <3>1
  <2>4. Count(s) = (IF s \in muxSeen.sent THEN n - 1 ELSE n) /\ Count(s)' = (IF s \in muxSeen.sent THEN n - 2 ELSE n - 1)
    <3>. HIDE DEF n
    <3>1. Count(s) = (IF s \in muxSeen.sent THEN n - 1 ELSE n)
      BY <1>1 DEF Count, n
    <3>2. Count(s)' = (IF s \in muxSeen.sent THEN Len(list) - 1 ELSE Len(list))
      BY <1>3, <2>1, <2>3 DEF Count
    <3>. QED  BY <2>1, <3>1, <3>2
  <2>5. Pending(s)' = Pending(s) + 1
    <3>. HIDE DEF n
    <3>1. Pending(s)' = muxSeen.next[s] - Count(s)'
      BY <1>3 DEF Pending
    <3>. QED  BY <1>2, <2>1, <2>4, <3>1 DEF Pending
  <2>6. ASSUME NEW k \in 1 .. Len(list)
        PROVE  list[k] = IF s \in muxSeen'.sent /\ k = Len(list) THEN EosPacket ELSE Pending(s)' + k - 1
    <3>1. k \in 1 .. n - 1 /\ k + 1 \in 1 .. n /\ k \in Int
      BY <2>1
    <3>2. buf[k + 1] = IF s \in muxSeen.sent /\ k + 1 = n THEN EosPacket ELSE Pending(s) + (k + 1) - 1
      BY <1>6, <3>1 DEF ListInOrder
    <3>. HIDE DEF n
    <3>. QED  BY <1>3, <2>1, <2>2, <2>5, <3>1, <3>2
  <2>7. Taken(s)' => muxThread'.packet.i = Pending(s)' - 1 /\ muxThread'.packet.i >= 1
    BY <1>4, <1>11, <2>2, <2>5
  <2>8. /\ muxSeen'.first[s] >= 1 /\ muxSeen'.first[s] <= muxSeen'.next[s] /\ Pending(s)' >= 1
        /\ \A k \in 1 .. muxSeen'.next[s] - 1 : k \in DOMAIN MuxPackets[s]
    BY <1>3, <1>6, <2>2, <2>5 DEF ListInOrder
  <2>9. ~streams'[s].eos
    BY <1>1, <1>6 DEF ListInOrder
  <2>10. ListInOrder(s)'
    BY <2>6, <2>7, <2>8, <2>9 DEF ListInOrder
  <2>11. head # EosPacket
    BY <1>11, <2>2 DEF EosPacket
  <2>. QED  BY <1>1, <1>4, <1>8, <1>11, <2>5, <2>10, <2>11 DEF ListsInOrder, Taken
<1>. QED  BY <1>7, <1>10, <1>11

(* A list that is emptied, while nothing is taken.                          *)
LEMMA ListEmptied ==
    ASSUME Records, ListsInOrder, NEW s \in MuxStreams, streams'[s].buf = <<>>, muxSeen'.next = muxSeen.next,
           muxSeen'.first[s] >= 1, muxSeen'.first[s] <= muxSeen.next[s],
           streams'[s].eos => s \in muxSeen'.sent, muxThread'.at \notin HoldingPlaces
    PROVE  ListInOrder(s)' /\ Pending(s)' = muxSeen.next[s]
<1>. DEFINE list == streams'[s].buf
<1>1. muxSeen.next[s] \in Nat /\ muxSeen.first[s] \in Nat
  BY CountIs
<1>2. list = <<>> /\ Len(list) = 0
  OBVIOUS
<1>3. Count(s)' = 0
  BY <1>2 DEF Count
<1>4. Pending(s)' = muxSeen.next[s]
  BY <1>1, <1>3 DEF Pending
<1>5. ListInOrder(s)
  BY DEF ListsInOrder
<1>6. muxSeen.next[s] >= 1 /\ \A k \in 1 .. muxSeen.next[s] - 1 : k \in DOMAIN MuxPackets[s]
  BY <1>1, <1>5 DEF ListInOrder
<1>7. ~Taken(s)'
  BY DEF Taken, HoldingPlaces
<1>8. \A k \in 1 .. Len(list) : FALSE
  BY <1>2
<1>. QED  BY <1>2, <1>4, <1>6, <1>7, <1>8 DEF ListInOrder

LEMMA ListsStep ==
    Records /\ EndInOrder /\ ListsInOrder /\ ListsCleared /\ MuxNext => ListsInOrder'
<1>. SUFFICES ASSUME Records, EndInOrder, ListsInOrder, ListsCleared, MuxNext
              PROVE  ListsInOrder'
  OBVIOUS
<1>. /\ muxSeen \in SeenRecord /\ muxThread \in ThreadRecord /\ muxer \in MuxerRecord
     /\ HoldingPlaces = {"taken", "drainTaken"} /\ \A s \in MuxStreams : ListInOrder(s)
  BY DEF Records, HoldingPlaces, ListsInOrder
<1>1. CASE MuxStart
  <2>1. /\ muxSeen'.next = muxSeen.next /\ muxSeen'.first = muxSeen.next /\ muxThread'.at = "outer"
        /\ \A s \in MuxStreams : streams'[s] = [streams[s] EXCEPT !.eos = FALSE] /\ streams[s].buf = <<>>
    BY <1>1 DEF MuxStart, MuxCalls, SeenRecord, ListsCleared
  <2>2. ASSUME NEW s \in MuxStreams PROVE ListInOrder(s)'
    <3>1. streams'[s].buf = <<>> /\ ~streams'[s].eos
      BY <2>1 DEF Records, StreamRecord
    <3>2. muxSeen.first[s] >= 1 /\ muxSeen.first[s] <= muxSeen.next[s] /\ muxSeen.next[s] \in Nat /\ muxSeen.first[s] \in Nat
      BY CountIs DEF ListInOrder
    <3>3. muxSeen'.first[s] >= 1 /\ muxSeen'.first[s] <= muxSeen.next[s]
      BY <2>1, <3>2
    <3>. QED  BY <2>1, <3>1, <3>3, ListEmptied
  <2>. QED  BY <2>2 DEF ListsInOrder
<1>2. CASE MuxWritesNext
  <2>1. PICK s \in MuxStreams :
           \/ MuxWrite(s, EosPacket)
           \/ muxSeen.next[s] \in DOMAIN MuxPackets[s] /\ MuxWrite(s, muxSeen.next[s])
    BY <1>2 DEF MuxWritesNext
  <2>. QED  BY <2>1, WriteKeepsOrder
<1>3. CASE MuxTakes
  BY <1>3, TakeKeepsOrder
<1>4. ASSUME StopClears \/ (StopAnswers /\ muxCall.op = "reset"), NEW s \in MuxStreams PROVE ListInOrder(s)'
  <2>1. muxSeen' = muxSeen /\ muxThread' = muxThread /\ muxThread.at = "over"
    BY <1>4 DEF StopClears, StopAnswers, EndInOrder
  <2>2. streams'[s].buf = <<>> /\ (streams'[s].eos => streams[s].eos)
    <3>1. CASE StopClears
      BY <3>1 DEF StopClears, Records, StreamRecord
    <3>2. CASE StopAnswers /\ muxCall.op = "reset"
      <4>1. streams'[s] = NewStream
        BY <3>2 DEF StopAnswers
      <4>. QED  BY <4>1 DEF NewStream
    <3>. QED  BY <1>4, <3>1, <3>2
  <2>3. (streams[s].eos => s \in muxSeen.sent) /\ muxSeen.first[s] >= 1 /\ muxSeen.first[s] <= muxSeen.next[s]
    BY DEF ListInOrder
  <2>. QED  BY <2>1, <2>2, <2>3, ListEmptied
<1>5. ASSUME ~MuxStart, ~MuxWritesNext, ~MuxTakes, ~StopClears, ~(StopAnswers /\ muxCall.op = "reset"),
             NEW s \in MuxStreams
      PROVE  ListInOrder(s)'
  <2>1. /\ muxSeen'.next = muxSeen.next /\ muxSeen'.first = muxSeen.first /\ muxSeen'.sent = muxSeen.sent
    BY <1>5, SeenFields
  <2>2. Taken(s)' => Taken(s) /\ muxThread'.packet = muxThread.packet
    BY <1>5, TakenKept DEF Taken
  <2>3. StopAnswers => streams' = streams
    BY <1>5 DEF StopAnswers
  <2>4. streams'[s].buf = streams[s].buf
    BY <1>5, <2>3, StreamFields
  <2>5. streams'[s].eos => streams[s].eos \/ (streams[s].buf = <<>> /\ s \in muxSeen.sent)
    <3>1. CASE \E t \in MuxStreams : MuxEos(t)
      <4>1. PICK t \in MuxStreams : MuxEos(t)
        BY <3>1
      <4>2. s # t => streams'[s] = streams[s]
        BY <4>1 DEF MuxEos, Records
      <4>3. Taken(t) /\ muxThread.packet.i = EosPacket
        BY <4>1 DEF MuxEos
      <4>4. streams[t].buf = <<>> /\ t \in muxSeen.sent
        BY <4>3 DEF ListInOrder, EosPacket
      <4>. QED  BY <4>2, <4>4
    <3>. QED  BY <1>5, <2>3, <3>1, StreamFields
  <2>. QED  BY <2>1, <2>2, <2>4, <2>5, ListSame
<1>. QED  BY <1>1, <1>2, <1>3, <1>4, <1>5 DEF ListsInOrder

LEMMA ClearedStep ==
    Records /\ CallsInOrder /\ EndInOrder /\ ListsInOrder /\ ListsCleared /\ MuxNext => ListsCleared'
<1>. SUFFICES ASSUME Records, CallsInOrder, EndInOrder, ListsInOrder, ListsCleared, MuxNext
              PROVE  ListsCleared'
  OBVIOUS
<1>. /\ muxSeen \in SeenRecord /\ muxCall \in CallRecord /\ muxer \in MuxerRecord /\ streams \in [MuxStreams -> StreamRecord]
  BY DEF Records
<1>1. CASE MuxStart \/ MuxWritesNext
  <2>1. muxer'.state = "started" /\ muxCall' = muxCall /\ muxCall.op # "stop"
    BY <1>1 DEF MuxStart, MuxWritesNext, MuxWrite, MuxCalls, MuxerRecord, CallsInOrder
  <2>. QED  BY <2>1 DEF ListsCleared
<1>2. CASE MuxTakes
  <2>1. \E s \in MuxStreams : streams[s].buf # <<>>
    BY <1>2, TakesIs
  <2>2. muxer' = muxer /\ muxCall' = muxCall /\ muxSeen' = muxSeen
    BY <1>2 DEF MuxTakes
  <2>. QED  BY <2>1, <2>2 DEF ListsCleared
<1>3. CASE StopClears
  <2>1. \A s \in MuxStreams : streams'[s].buf = <<>>
    BY <1>3 DEF StopClears, StreamRecord
  <2>. QED  BY <2>1 DEF ListsCleared
<1>4. CASE StopAnswers
  <2>1. CASE muxCall.op = "reset"
    <3>1. \A s \in MuxStreams : streams'[s].buf = <<>>
      BY <1>4, <2>1 DEF StopAnswers, NewStream
    <3>. QED  BY <3>1 DEF ListsCleared
  <2>2. CASE muxCall.op = "stop"
    <3>1. streams' = streams /\ muxCall.step = "end"
      BY <1>4, <2>2 DEF StopAnswers
    <3>. QED  BY <2>2, <3>1 DEF ListsCleared
  <2>. QED  BY <1>4, <2>1, <2>2, StopOps DEF StopAnswers, FlagSteps
<1>5. CASE MuxStop \/ MuxReset \/ StopSignals \/ StopJoined
  <2>1. streams' = streams
    BY <1>5 DEF MuxStop, MuxReset, StopSignals, StopJoined
  <2>2. muxer'.state \in {muxer.state, "stopping"} /\ ~(muxCall'.op = "stop" /\ muxCall'.step \in {"release", "end"})
        /\ (~muxSeen'.reset => ~muxSeen.reset)
    BY <1>5 DEF MuxStop, MuxReset, StopSignals, StopJoined, SeenRecord, MuxerRecord, CallRecord
  <2>. QED  BY <2>1, <2>2 DEF ListsCleared
<1>6. CASE StopReleases
  <2>1. streams' = streams /\ muxer'.state = muxer.state /\ muxCall'.op = muxCall.op /\ muxSeen' = muxSeen
        /\ muxCall.step = "release"
    BY <1>6 DEF StopReleases, MuxerRecord, CallRecord
  <2>. QED  BY <2>1 DEF ListsCleared
<1>8. CASE MuxPauses \/ MuxResumes
  <2>1. muxCall'.op # "stop" /\ muxer'.state = muxer.state /\ muxSeen'.reset = muxSeen.reset
    BY <1>8, FlagCallIs DEF FlagOps, FlagSteps
  <2>2. \A s \in MuxStreams : streams'[s].buf = streams[s].buf
    <3>1. \A s \in MuxStreams : streams[s] \in StreamRecord
      BY DEF Records
    <3>. QED  BY <1>8, <3>1, FlagsIs, FlagIs
  <2>. QED  BY <2>1, <2>2 DEF ListsCleared
<1>7. ASSUME muxCall' = muxCall, muxer'.state = muxer.state, muxSeen'.reset = muxSeen.reset,
             \A s \in MuxStreams : streams'[s].buf = streams[s].buf
      PROVE  ListsCleared'
  BY <1>7 DEF ListsCleared
<1>. QED  BY <1>1, <1>2, <1>3, <1>4, <1>5, <1>6, <1>7, <1>8, CallKept, MuxerFields, SeenFields, StreamFields

LEMMA PlaceKept ==
    ASSUME Records, EndInOrder, MuxNext, muxThread'.at # "over"
    PROVE  MuxStart \/ muxThread.at # "over"
<1>. muxThread \in ThreadRecord
  BY DEF Records
<1>1. CASE MuxOuter \/ MuxWakes \/ MuxLeaves \/ MuxTakes \/ MuxNoMore \/ MuxTrailer
  BY <1>1 DEF MuxOuter, MuxWakes, MuxLeaves, MuxTakes, MuxNoMore, MuxTrailer, MayTake
<1>2. CASE MuxDeals
  BY <1>2, DealsIs DEF HoldingPlaces
<1>. QED  BY <1>1, <1>2, ThreadFields

LEMMA EosStep ==
    Records /\ EndInOrder /\ ListsInOrder /\ EosSomewhere /\ MuxNext => EosSomewhere'
<1>. SUFFICES ASSUME Records, EndInOrder, ListsInOrder, EosSomewhere, MuxNext, muxThread'.at # "over",
                     NEW s \in muxSeen'.sent
              PROVE  \/ streams'[s].eos \/ streams'[s].buf # <<>>
                     \/ Taken(s)' /\ muxThread'.packet.i = EosPacket
  BY DEF EosSomewhere
<1>. /\ muxSeen \in SeenRecord /\ muxThread \in ThreadRecord /\ muxer \in MuxerRecord
     /\ HoldingPlaces = {"taken", "drainTaken"} /\ s \in MuxStreams
  BY SeenType DEF Records, HoldingPlaces, SeenRecord
<1>1. CASE MuxStart
  BY <1>1 DEF MuxStart, SeenRecord
<1>2. ~MuxStart => muxThread.at # "over"
  BY PlaceKept
<1>3. muxThread.at # "over" /\ s \in muxSeen.sent =>
         \/ streams[s].eos \/ streams[s].buf # <<>> \/ (Taken(s) /\ muxThread.packet.i = EosPacket)
  BY DEF EosSomewhere
<1>4. CASE MuxWritesNext
  <2>1. PICK t \in MuxStreams, i \in Nat : MuxWrite(t, i) /\ i \in {EosPacket, muxSeen.next[t]}
    BY <1>4, SetsAre DEF MuxWritesNext, Records, SeenRecord
  <2>2. CASE s = t
    <3>1. streams'[s].buf = Append(streams[s].buf, i)
      BY <2>1, <2>2, WriteIs
    <3>2. streams[s].buf \in Seq(Nat)
      BY CountIs
    <3>. DEFINE b == streams[s].buf
    <3>3. Append(b, i) # <<>>
      <4>. HIDE DEF b
      <4>. QED  BY <3>2, AppendIs DEF b
    <3>. QED  BY <3>1, <3>3
  <2>3. CASE s # t
    <3>1. s \in muxSeen.sent /\ streams'[s] = streams[s]
      <4>1. muxSeen'.sent \in {muxSeen.sent, muxSeen.sent \cup {t}}
        BY <2>1, WriteSeenIs
      <4>2. streams'[s] = streams[s]
        BY <2>1, <2>3, WriteIs
      <4>. QED  BY <2>3, <4>1, <4>2
    <3>2. muxThread' = [muxThread EXCEPT !.sem = muxThread.sem + 1]
      BY <2>1 DEF MuxWrite
    <3>3. muxThread'.at = muxThread.at /\ muxThread'.packet = muxThread.packet
      BY <3>2 DEF ThreadRecord
    <3>4. ~MuxStart
      BY <2>1 DEF MuxStart, MuxWrite
    <3>. QED  BY <1>2, <1>3, <3>1, <3>3, <3>4 DEF Taken
  <2>. QED  BY <2>2, <2>3
<1>5. CASE MuxTakes
  <2>1. muxSeen' = muxSeen /\ muxThread.at # "over" /\ muxThread.at \notin HoldingPlaces
    BY <1>5 DEF MuxTakes, MayTake
  <2>2. PICK t \in MuxStreams :
                /\ Taken(t)' /\ muxThread'.packet.i = Head(streams[t].buf)
                /\ streams[t].buf # <<>>
                /\ streams'[t].buf = Tail(streams[t].buf)
                /\ \A r \in MuxStreams \ {t} : streams'[r] = streams[r]
    BY <1>5, TakeKeepsOrder
  <2>3. CASE s # t
    BY <1>3, <2>1, <2>2, <2>3 DEF Taken
  <2>4. CASE s = t
    <3>1. CASE Head(streams[s].buf) = EosPacket
      BY <2>2, <2>4, <3>1
    <3>2. CASE Head(streams[s].buf) # EosPacket
      <4>. DEFINE b == streams[s].buf
      <4>1. Len(b) # 1 /\ Len(b) >= 1 /\ b \in Seq(Nat) /\ Len(b) \in Nat
        BY <2>1, <2>2, <2>4, <3>2, HeadIs, CountIs
      <4>2. Tail(b) # <<>>
        <5>. HIDE DEF b
        <5>1. b # <<>>
          BY <2>2, <2>4 DEF b
        <5>2. Tail(b) \in Seq(Nat) /\ Len(Tail(b)) = Len(b) - 1
          BY <4>1, <5>1, TailIs
        <5>. DEFINE tail == Tail(b)
        <5>3. tail \in Seq(Nat) /\ Len(tail) # 0
          BY <4>1, <5>2
        <5>. HIDE DEF tail
        <5>4. tail # <<>>
          BY <5>3, EmptyIs
        <5>. QED  BY <5>4 DEF tail
      <4>. QED  BY <2>2, <2>4, <4>2
    <3>. QED  BY <3>1, <3>2
  <2>. QED  BY <2>3, <2>4
<1>6. CASE MuxDeals
  <2>1. muxSeen'.sent = muxSeen.sent /\ muxThread.at # "over"
    <3>1. muxThread.at # "over"
      BY <1>6, DealsIs
    <3>. QED  BY <1>6, <3>1 DEF MuxDeals, MuxEos, MuxUndetermined, MuxMalformed, MuxDiscards, MuxWrites, SeenRecord
  <2>2. PICK t \in MuxStreams : MuxEos(t) \/ MuxUndetermined(t) \/ MuxMalformed(t) \/ MuxDiscards(t) \/ MuxWrites(t)
    BY <1>6 DEF MuxDeals
  <2>3. CASE MuxEos(t)
    BY <1>3, <2>1, <2>3 DEF MuxEos, Records, StreamRecord, Taken
  <2>4. CASE MuxUndetermined(t) \/ MuxMalformed(t) \/ MuxDiscards(t)
    BY <1>3, <2>1, <2>4 DEF MuxUndetermined, MuxMalformed, MuxDiscards, MayWrite
  <2>5. CASE MuxWrites(t)
    <3>1. muxThread.packet.i # EosPacket
      BY <2>5 DEF MuxWrites, MayWrite
    <3>2. streams'[s].eos = streams[s].eos /\ streams'[s].buf = streams[s].buf
      BY <2>5, WritesIs
    <3>. QED  BY <1>3, <2>1, <3>1, <3>2
  <2>. QED  BY <2>2, <2>3, <2>4, <2>5
<1>7. CASE StopClears \/ StopAnswers
  <2>1. muxThread' = muxThread /\ muxThread.at = "over"
    BY <1>7 DEF StopClears, StopAnswers, EndInOrder
  <2>. QED  BY <2>1
<1>8. CASE ~MuxStart /\ ~MuxWritesNext /\ ~MuxTakes /\ ~MuxDeals /\ ~StopClears /\ ~StopAnswers
  <2>1. muxSeen'.sent = muxSeen.sent
    BY <1>8, SeenFields
  <2>2. streams'[s].eos = streams[s].eos /\ streams'[s].buf = streams[s].buf
    BY <1>8, StreamFields DEF MuxDeals
  <2>3. Taken(s) => Taken(s)' /\ muxThread'.packet = muxThread.packet
    BY <1>8, ThreadFields DEF Taken, MuxOuter, MuxWakes, MuxLeaves, MuxNoMore, MuxTrailer, MayTake
  <2>. QED  BY <1>2, <1>3, <1>8, <2>1, <2>2, <2>3
<1>. QED  BY <1>1, <1>4, <1>5, <1>6, <1>7, <1>8

LEMMA LeavesStep == Records /\ CallsInOrder /\ LeavesForReason /\ MuxNext => LeavesForReason'
<1>. SUFFICES ASSUME Records, CallsInOrder, LeavesForReason, MuxNext PROVE LeavesForReason'
  OBVIOUS
<1>. /\ muxSeen \in SeenRecord /\ muxThread \in ThreadRecord /\ muxer \in MuxerRecord /\ muxCall \in CallRecord
  BY DEF Records
<1>. DEFINE leaves == ~muxThread.continue \/ muxThread.at \in {"drain", "drainTaken", "trailer", "over"}
            reason == muxer.state # "started" \/ muxer.eos \/ muxSeen.reset \/ muxSeen.malformed
<1>1. CASE MuxStart
  BY <1>1 DEF MuxStart, LeavesForReason
<1>2. ASSUME ~MuxStart PROVE reason => reason'
  <2>1. MuxReset => muxSeen'.reset
    BY DEF MuxReset, SeenRecord
  <2>2. MuxStop \/ StopAnswers => muxer'.state # "started"
    BY DEF MuxStop, StopAnswers, MuxerRecord
  <2>3. muxer.eos => muxer'.eos
    BY <1>2, MuxerFields DEF MuxEos, MuxWrites, MuxerRecord
  <2>4. muxSeen.malformed => muxSeen'.malformed
    BY <1>2, SeenFields DEF MuxMalformed, SeenRecord
  <2>. QED  BY <1>2, <2>1, <2>2, <2>3, <2>4, MuxerFields, SeenFields
<1>3. CASE StopSignals
  <2>1. muxCall.step = "posted" /\ muxer' = muxer /\ muxSeen' = muxSeen
    BY <1>3 DEF StopSignals
  <2>2. muxCall.op \in {"stop", "reset"}
    BY <2>1, StopOps DEF FlagSteps
  <2>. QED  BY <2>1, <2>2 DEF CallsInOrder, LeavesForReason
<1>4. CASE MuxOuter \/ MuxWakes \/ MuxLeaves \/ MuxTrailer
  <2>1. leaves' => leaves
    BY <1>4 DEF MuxOuter, MuxWakes, MuxLeaves, MuxTrailer, ThreadRecord
  <2>. QED  BY <1>1, <1>2, <2>1 DEF LeavesForReason
<1>5. CASE MuxTakes
  <2>1. PICK h : muxThread' = [muxThread EXCEPT !.packet = h, !.at = IF @ = "inner" THEN "taken" ELSE "drainTaken"]
    BY <1>5 DEF MuxTakes
  <2>2. muxThread.at \in {"inner", "drain"} /\ muxer' = muxer /\ muxSeen' = muxSeen
    BY <1>5 DEF MuxTakes, MayTake
  <2>3. leaves' => leaves
    BY <2>1, <2>2 DEF ThreadRecord
  <2>. QED  BY <2>2, <2>3 DEF LeavesForReason
<1>6. CASE MuxNoMore
  <2>. DEFINE u == muxThread.continue /\ ~muxer.eos
  <2>1. muxThread.at \in {"inner", "drain"} /\ muxer' = muxer /\ muxSeen' = muxSeen
    BY <1>6 DEF MuxNoMore, MayTake
  <2>2. muxThread' = [muxThread EXCEPT !.at = IF @ = "drain" THEN "trailer"
                                       ELSE IF muxer.eos THEN "drain" ELSE "outer", !.continue = u]
    BY <1>6 DEF MuxNoMore
  <2>3. muxThread'.continue = u
    <3>. HIDE DEF u
    <3>. QED  BY <2>2 DEF ThreadRecord
  <2>4. muxThread'.at = (IF muxThread.at = "drain" THEN "trailer" ELSE IF muxer.eos THEN "drain" ELSE "outer")
    <3>. HIDE DEF u
    <3>. QED  BY <2>2 DEF ThreadRecord
  <2>5. leaves' => leaves \/ muxer.eos
    BY <2>1, <2>3, <2>4
  <2>. QED  BY <2>1, <2>5 DEF LeavesForReason
<1>7. ASSUME NEW s \in MuxStreams, MuxEos(s) \/ MuxUndetermined(s) \/ MuxMalformed(s) \/ MuxDiscards(s) \/ MuxWrites(s)
      PROVE  LeavesForReason'
  <2>1. muxThread.at \in {"taken", "drainTaken"}
    BY <1>7 DEF MuxEos, MuxUndetermined, MuxMalformed, MuxDiscards, MuxWrites, MayWrite, Taken
  <2>2. CASE MuxMalformed(s)
    BY <2>2 DEF MuxMalformed, SeenRecord, LeavesForReason
  <2>3. (leaves' => leaves) \/ reason'
    <3>1. CASE MuxMalformed(s)
      BY <3>1 DEF MuxMalformed, SeenRecord
    <3>2. CASE MuxUndetermined(s) \/ MuxDiscards(s)
      BY <2>1, <3>2 DEF MuxUndetermined, MuxDiscards, Goes, GoesOn, Drains, ThreadRecord
    <3>3. CASE MuxEos(s)
      <4>1. CASE \A t \in MuxStreams \ {s} : streams[t].eos
        BY <3>3, <4>1 DEF MuxEos, MuxerRecord
      <4>2. CASE ~\A t \in MuxStreams \ {s} : streams[t].eos
        <5>1. PICK n : muxThread' = [muxThread EXCEPT !.packet = NoPacket, !.sem = n,
                                              !.at = IF Drains THEN "drain" ELSE "inner"]
          BY <3>3, <4>2 DEF MuxEos
        <5>. QED  BY <2>1, <5>1 DEF ThreadRecord, Drains
      <4>. QED  BY <4>1, <4>2
    <3>4. CASE MuxWrites(s)
      <4>. DEFINE full == muxer.max > 0 /\ muxer.max <= Retimed(streams[s].times, Raw(s, muxThread.packet.i)).former
      <4>1. \/ full /\ muxer' = [muxer EXCEPT !.header = TRUE, !.checkKey = FALSE, !.eos = muxer.eos \/ full]
            \/ ~full /\ GoesOn
            \/ Goes(IF Drains THEN "trailer" ELSE "inner")
        BY <3>4 DEF MuxWrites
      <4>. HIDE DEF full
      <4>2. CASE full /\ muxer' = [muxer EXCEPT !.header = TRUE, !.checkKey = FALSE, !.eos = muxer.eos \/ full]
        BY <4>2 DEF MuxerRecord
      <4>3. CASE GoesOn \/ Goes(IF Drains THEN "trailer" ELSE "inner")
        BY <2>1, <4>3 DEF GoesOn, Goes, Drains, ThreadRecord
      <4>. QED  BY <4>1, <4>2, <4>3
    <3>. QED  BY <1>7, <3>1, <3>2, <3>3, <3>4
  <2>4. CASE MuxStart
    BY <1>1, <2>4
  <2>. QED  BY <1>2, <2>3, <2>4 DEF LeavesForReason
<1>8. CASE ~MuxStart /\ muxThread'.at = muxThread.at /\ muxThread'.continue = muxThread.continue
  BY <1>2, <1>8 DEF LeavesForReason
<1>. QED  BY <1>1, <1>3, <1>4, <1>5, <1>6, <1>7, <1>8, ThreadFields DEF MuxDeals

LEMMA EosReasonStep ==
    Records /\ CallsInOrder /\ ListsInOrder /\ EosForReason /\ MuxNext => EosForReason'
<1>. SUFFICES ASSUME Records, CallsInOrder, ListsInOrder, EosForReason, MuxNext PROVE EosForReason'
  OBVIOUS
<1>. /\ muxSeen \in SeenRecord /\ muxer \in MuxerRecord /\ streams \in [MuxStreams -> StreamRecord]
  BY DEF Records
<1>1. CASE MuxStart
  BY <1>1 DEF MuxStart, MuxerRecord, EosForReason
<1>2. ASSUME NEW s \in MuxStreams, MuxEos(s) PROVE EosForReason'
  <2>1. CASE \A t \in MuxStreams \ {s} : streams[t].eos
    <3>1. \A t \in MuxStreams : streams'[t].eos
      BY <1>2, <2>1 DEF MuxEos, StreamRecord
    <3>. QED  BY <3>1 DEF EosForReason
  <2>2. CASE ~\A t \in MuxStreams \ {s} : streams[t].eos
    <3>1. muxer' = muxer /\ muxSeen' = muxSeen /\ ~\A t \in MuxStreams : streams[t].eos
      BY <1>2, <2>2 DEF MuxEos
    <3>. QED  BY <3>1 DEF EosForReason
  <2>. QED  BY <2>1, <2>2
<1>3. ASSUME NEW s \in MuxStreams, MuxWrites(s) PROVE EosForReason'
  <2>. DEFINE full == muxer.max > 0 /\ muxer.max <= Retimed(streams[s].times, Raw(s, muxThread.packet.i)).former
              slips == muxSeen.slipped \/ Slips
  <2>1. \/ /\ muxer' = [muxer EXCEPT !.header = TRUE, !.checkKey = FALSE, !.eos = muxer.eos \/ full]
           /\ muxSeen' = [muxSeen EXCEPT !.dropped = muxSeen.dropped \/ full, !.slipped = slips]
        \/ muxSeen' = [muxSeen EXCEPT !.dropped = TRUE, !.slipped = slips]
    BY <1>3 DEF MuxWrites
  <2>2. \A t \in MuxStreams : streams'[t].eos = streams[t].eos
    BY <1>3, WritesIs
  <2>. HIDE DEF full, slips
  <2>3. CASE /\ muxer' = [muxer EXCEPT !.header = TRUE, !.checkKey = FALSE, !.eos = muxer.eos \/ full]
             /\ muxSeen' = [muxSeen EXCEPT !.dropped = muxSeen.dropped \/ full, !.slipped = slips]
    <3>1. (muxer'.eos <=> muxer.eos \/ full) /\ (muxSeen'.dropped <=> muxSeen.dropped \/ full)
          /\ muxSeen'.reset = muxSeen.reset
      BY <2>3 DEF MuxerRecord, SeenRecord
    <3>. QED  BY <2>2, <3>1 DEF EosForReason
  <2>4. CASE muxSeen' = [muxSeen EXCEPT !.dropped = TRUE, !.slipped = slips]
    BY <2>4 DEF EosForReason, SeenRecord
  <2>. QED  BY <2>1, <2>3, <2>4
<1>4. CASE StopAnswers
  <2>1. muxSeen' = muxSeen /\ muxer'.eos = muxer.eos
    BY <1>4 DEF StopAnswers, MuxerRecord
  <2>2. CASE muxCall.op = "reset"
    BY <2>1, <2>2 DEF EosForReason, CallsInOrder
  <2>3. CASE muxCall.op # "reset"
    BY <1>4, <2>1, <2>3 DEF EosForReason, StopAnswers
  <2>. QED  BY <2>2, <2>3
<1>5. ASSUME ~MuxStart, ~StopAnswers, \A s \in MuxStreams : ~MuxEos(s) /\ ~MuxWrites(s) PROVE EosForReason'
  <2>1. muxer'.eos = muxer.eos
    BY <1>5, MuxerFields
  <2>2. \A t \in MuxStreams : streams'[t].eos = streams[t].eos
    BY <1>5, StreamFields
  <2>3. MuxReset => muxSeen'.reset
    BY DEF MuxReset, SeenRecord
  <2>. QED  BY <1>5, <2>1, <2>2, <2>3, SeenFields DEF EosForReason
<1>. QED  BY <1>1, <1>2, <1>3, <1>4, <1>5

LEMMA DiscardsStep == Records /\ ListsInOrder /\ DiscardsForReason /\ MuxNext => DiscardsForReason'
<1>. SUFFICES ASSUME Records, ListsInOrder, DiscardsForReason, MuxNext PROVE DiscardsForReason'
  OBVIOUS
<1>. /\ muxSeen \in SeenRecord /\ muxer \in MuxerRecord /\ streams \in [MuxStreams -> StreamRecord]
  BY DEF Records
<1>1. CASE MuxStart
  <2>. DEFINE u == muxer.checkKey \/ \E s \in MuxStreams : streams[s].paused
  <2>1. muxSeen' = [muxSeen EXCEPT !.calls = muxSeen.calls + 1, !.sent = {}, !.told = 0,
                           !.first = muxSeen.next, !.malformed = FALSE, !.dropped = u]
    BY <1>1 DEF MuxStart
  <2>2. muxSeen'.dropped = u
    <3>. HIDE DEF u
    <3>. QED  BY <2>1 DEF SeenRecord
  <2>3. muxer'.checkKey = muxer.checkKey
    BY <1>1 DEF MuxStart, MuxerRecord
  <2>4. \A s \in MuxStreams : streams'[s].paused = streams[s].paused
    BY <1>1 DEF MuxStart, StreamRecord
  <2>5. muxCall'.op \notin FlagOps
    BY <1>1 DEF MuxStart, MuxCalls, FlagOps
  <2>. QED  BY <2>2, <2>3, <2>4, <2>5 DEF DiscardsForReason
<1>2. CASE MuxPause
  BY <1>2 DEF MuxPause, SeenRecord, DiscardsForReason
<1>3. CASE MuxResume
  <2>1. muxSeen'.dropped = muxSeen.dropped /\ \E s \in MuxStreams : streams[s].paused
    BY <1>3, SetsAre DEF MuxResume, SeenRecord
  <2>. QED  BY <2>1 DEF DiscardsForReason
<1>6. CASE PausesVideo \/ ResumesVideo \/ ResumeEnds
  BY <1>6 DEF PausesVideo, ResumesVideo, ResumeEnds, FlagOps, DiscardsForReason
<1>4. CASE StopAnswers
  <2>1. muxSeen' = muxSeen /\ muxer'.checkKey = muxer.checkKey /\ muxCall'.op \notin FlagOps
    BY <1>4 DEF StopAnswers, MuxerRecord, NoCall, FlagOps
  <2>2. \A s \in MuxStreams : streams'[s].paused => streams[s].paused
    <3>1. \A s \in MuxStreams : streams'[s] \in {streams[s], NewStream}
      BY <1>4 DEF StopAnswers
    <3>. QED  BY <3>1 DEF NewStream
  <2>. QED  BY <2>1, <2>2 DEF DiscardsForReason
<1>5. CASE ~MuxStart /\ ~MuxPauses /\ ~MuxResumes /\ ~StopAnswers
  <2>3. muxCall'.op \in FlagOps => muxCall.op \in FlagOps
    BY <1>5, CallKept DEF MuxStop, MuxReset, StopSignals, StopJoined, StopClears, StopReleases, FlagOps, CallRecord,
                          Records
  <2>1. muxer'.checkKey => muxer.checkKey
    BY <1>5, MuxerFields DEF MuxResumes
  <2>2. \A s \in MuxStreams : streams'[s].paused = streams[s].paused
    BY <1>5, StreamFields
  <2>. QED  BY <1>5, <2>1, <2>2, <2>3, SeenFields DEF DiscardsForReason
<1>. QED  BY <1>1, <1>2, <1>3, <1>4, <1>5, <1>6 DEF MuxPauses, MuxResumes

LEMMA KeyStep ==
    Records /\ CallsInOrder /\ EndInOrder /\ ListsInOrder /\ KeyAfterPause /\ MuxNext => KeyAfterPause'
<1>. SUFFICES ASSUME Records, CallsInOrder, EndInOrder, ListsInOrder, KeyAfterPause, MuxNext
              PROVE  KeyAfterPause'
  OBVIOUS
<1>. /\ muxSeen \in SeenRecord /\ muxer \in MuxerRecord /\ streams \in [MuxStreams -> StreamRecord]
  BY DEF Records
<1>0. ASSUME NEW s \in MuxStreams PROVE streams[s] \in StreamRecord
  OBVIOUS
<1>1. CASE MuxPauses
  <2>1. ASSUME NEW s \in MuxStreams PROVE streams'[s] \in {streams[s], Paused(streams[s])}
    BY <1>1, SetsAre DEF MuxPauses, MuxPause, PausesVideo
  <2>2. /\ muxer' = muxer /\ muxSeen'.slipped = muxSeen.slipped /\ muxSeen'.reset = muxSeen.reset
        /\ muxThread' = muxThread
        /\ muxCall' = [op |-> "pause", step |-> "video"] \/ muxCall' = [op |-> "none", step |-> "none"]
    BY <1>1 DEF MuxPauses, MuxPause, PausesVideo, NoCall, SeenRecord
  <2>3. ASSUME NEW s \in MuxStreams, streams[s].paused \/ streams[s].times.resumed
        PROVE  streams'[s].paused \/ streams'[s].times.resumed
    <3>1. streams'[s] \in {streams[s], Paused(streams[s])}
      BY <2>1
    <3>2. Paused(streams[s]).paused
      BY <1>0, FlagIs
    <3>. QED  BY <2>3, <3>1, <3>2
  <2>4. muxCall'.op # "resume"
    BY <2>2
  <2>. QED  BY <2>2, <2>3, <2>4 DEF KeyAfterPause
<1>2. CASE MuxResumes
  <2>1. ASSUME NEW s \in MuxStreams PROVE streams'[s] \in {streams[s], Resumed(streams[s])}
    BY <1>2, SetsAre DEF MuxResumes, MuxResume, ResumesVideo, ResumeEnds
  <2>2. ASSUME NEW s \in MuxStreams, streams[s].paused \/ streams[s].times.resumed
        PROVE  streams'[s].paused \/ streams'[s].times.resumed
    <3>1. streams'[s] \in {streams[s], Resumed(streams[s])}
      BY <2>1
    <3>2. Resumed(streams[s]).times.resumed
      BY <1>0, FlagIs
    <3>. QED  BY <2>2, <3>1, <3>2
  <2>3. muxSeen'.slipped = muxSeen.slipped /\ muxSeen'.reset = muxSeen.reset /\ muxThread' = muxThread
    BY <1>2 DEF MuxResumes, MuxResume, ResumesVideo, ResumeEnds, SeenRecord
  <2>4. muxCall.op = "resume" \/ \A s \in MuxStreams : streams[s].paused
    BY <1>2 DEF MuxResumes, MuxResume, ResumesVideo, ResumeEnds
  <2>. QED  BY <2>2, <2>3, <2>4 DEF KeyAfterPause
<1>3. ASSUME NEW s \in MuxStreams, MuxWrites(s) PROVE KeyAfterPause'
  <2>1. \/ \E u : muxer' = [muxer EXCEPT !.header = TRUE, !.checkKey = FALSE, !.eos = u]
        \/ muxer' = [muxer EXCEPT !.header = TRUE, !.checkKey = FALSE]
    BY <1>3 DEF MuxWrites
  <2>2. ~muxer'.checkKey
    BY <2>1 DEF MuxerRecord
  <2>3. muxCall' = muxCall /\ (muxCall.op = "resume" => muxSeen'.slipped)
    BY <1>3 DEF MuxWrites, Slips, SeenRecord
  <2>. QED  BY <2>2, <2>3 DEF KeyAfterPause
<1>4. CASE StopAnswers
  <2>1. /\ muxSeen' = muxSeen /\ muxer'.checkKey = muxer.checkKey /\ muxThread' = muxThread
        /\ muxThread.at = "over" /\ muxCall'.op = "none"
    BY <1>4 DEF StopAnswers, MuxerRecord, EndInOrder, NoCall
  <2>2. CASE muxCall.op = "reset"
    BY <2>1, <2>2 DEF KeyAfterPause, CallsInOrder
  <2>3. CASE muxCall.op # "reset"
    BY <1>4, <2>1, <2>3 DEF KeyAfterPause, StopAnswers
  <2>. QED  BY <2>2, <2>3
<1>5. CASE ~MuxPauses /\ ~MuxResumes /\ ~StopAnswers /\ \A s \in MuxStreams : ~MuxWrites(s)
  <2>5. muxCall'.op = "resume" => muxCall.op = "resume"
    BY <1>5, CallKept DEF MuxStop, MuxReset, StopSignals, StopJoined, StopClears, StopReleases, CallRecord, Records
  <2>6. muxSeen.slipped => muxSeen'.slipped
    BY SeenFields
  <2>1. muxer'.checkKey => muxer.checkKey
    BY <1>5, MuxerFields DEF MuxResumes
  <2>2. \A s \in MuxStreams : streams'[s].paused = streams[s].paused /\ streams'[s].times = streams[s].times
    BY <1>5, StreamFields
  <2>3. muxThread'.at # "over" => muxThread.at # "over" \/ ~muxSeen.reset
    BY PlaceKept DEF MuxStart, MuxCalls
  <2>4. ~muxSeen'.reset => ~muxSeen.reset
    BY SeenFields DEF MuxReset, SeenRecord
  <2>. QED  BY <2>1, <2>2, <2>3, <2>4, <2>5, <2>6 DEF KeyAfterPause
<1>. QED  BY <1>1, <1>2, <1>3, <1>4, <1>5

LEMMA NothingLeftStep ==
    /\ Records /\ CallsInOrder /\ EndInOrder /\ ListsInOrder /\ EosSomewhere /\ LeavesForReason /\ EosForReason
    /\ NothingLeft /\ ListsInOrder' /\ MuxNext
    => NothingLeft'
<1>. SUFFICES ASSUME Records, CallsInOrder, EndInOrder, ListsInOrder, EosSomewhere, LeavesForReason, EosForReason,
                     NothingLeft, ListsInOrder', MuxNext,
                     muxThread'.at = "trailer" \/ muxSeen'.told > 0,
                     muxSeen'.sent = MuxStreams, ~muxSeen'.dropped, ~muxSeen'.reset, NEW s \in MuxStreams
              PROVE  streams'[s].buf = <<>>
  BY DEF NothingLeft
<1>. /\ muxSeen \in SeenRecord /\ muxThread \in ThreadRecord /\ muxer \in MuxerRecord /\ muxSeen.told \in Nat
     /\ streams \in [MuxStreams -> StreamRecord]
     /\ \A t \in MuxStreams : ListInOrder(t)
  BY DEF Records, SeenRecord, ListsInOrder
<1>0. muxThread.at = "trailer" \/ muxSeen.told > 0 =>
         ~muxSeen.malformed /\ muxThread.at \in {"trailer", "over"}
  BY DEF EndInOrder
<1>1. CASE MuxStart
  BY <1>1 DEF MuxStart, SeenRecord
<1>2. CASE MuxWritesNext
  <2>1. PICK t \in MuxStreams, i \in Nat : MuxWrite(t, i)
    BY <1>2, SetsAre DEF MuxWritesNext, Records, SeenRecord
  <2>2. muxer.state = "started" /\ t \notin muxSeen.sent
    BY <2>1 DEF MuxWrite
  <2>3. muxSeen'.told = muxSeen.told /\ muxSeen'.dropped = muxSeen.dropped /\ muxSeen'.reset = muxSeen.reset
    BY <2>1, WriteSeenIs
  <2>4. muxThread'.at = muxThread.at
    <3>1. muxThread' = [muxThread EXCEPT !.sem = muxThread.sem + 1]
      BY <2>1 DEF MuxWrite
    <3>. QED  BY <3>1 DEF ThreadRecord
  <2>5. ~muxSeen.malformed /\ muxThread.at \in {"trailer", "over"}
    BY <1>0, <2>3, <2>4
  <2>6. muxer.eos
    BY <2>2, <2>3, <2>5 DEF LeavesForReason
  <2>7. streams[t].eos
    BY <2>3, <2>6 DEF EosForReason
  <2>. QED  BY <2>2, <2>7 DEF ListInOrder
<1>3. CASE MuxNoMore
  <2>1. muxSeen' = muxSeen /\ streams' = streams /\ Earliest = {} /\ muxThread.at \in {"inner", "drain"}
    BY <1>3 DEF MuxNoMore, MayTake
  <2>2. ASSUME NEW t \in MuxStreams PROVE streams[t].buf # <<>> \/ streams[t].eos
    BY <2>1 DEF EosSomewhere, Taken
  <2>3. Waiting = {}
    <3>1. Waiting = {} \/ \E t \in MuxStreams : ~(streams[t].buf # <<>> \/ streams[t].eos)
      BY <2>1 DEF Earliest
    <3>. QED  BY <2>2, <3>1
  <2>. QED  BY <2>1, <2>3 DEF Waiting
<1>4. CASE MuxTakes
  <2>1. muxSeen' = muxSeen /\ muxThread.at \in {"inner", "drain"}
    BY <1>4 DEF MuxTakes, MayTake
  <2>2. PICK h : muxThread' = [muxThread EXCEPT !.packet = h, !.at = IF @ = "inner" THEN "taken" ELSE "drainTaken"]
    BY <1>4 DEF MuxTakes
  <2>3. muxThread'.at # "trailer"
    BY <2>2 DEF ThreadRecord
  <2>. QED  BY <1>0, <2>1, <2>3
<1>5. ASSUME NEW t \in MuxStreams, MuxEos(t) PROVE streams'[s].buf = <<>>
  <2>1. muxSeen' = muxSeen /\ muxThread.at \in {"taken", "drainTaken"}
    BY <1>5 DEF MuxEos, Taken
  <2>2. muxThread'.at = "trailer"
    BY <1>0, <2>1
  <2>3. \A r \in MuxStreams \ {t} : streams[r].eos
    <3>1. ASSUME ~\A r \in MuxStreams \ {t} : streams[r].eos PROVE FALSE
      <4>1. PICK n : muxThread' = [muxThread EXCEPT !.packet = NoPacket, !.sem = n,
                                              !.at = IF Drains THEN "drain" ELSE "inner"]
        BY <1>5, <3>1 DEF MuxEos
      <4>. QED  BY <2>2, <4>1 DEF ThreadRecord
    <3>. QED  BY <3>1
  <2>4. streams'[s].eos
    BY <1>5, <2>3 DEF MuxEos, StreamRecord
  <2>. QED  BY <2>4 DEF ListsInOrder, ListInOrder
<1>6. ASSUME NEW t \in MuxStreams, MuxUndetermined(t) \/ MuxMalformed(t) \/ MuxDiscards(t) \/ MuxWrites(t)
      PROVE  FALSE
  <2>1. muxThread.at \in {"taken", "drainTaken"}
    BY <1>6 DEF MuxUndetermined, MuxMalformed, MuxDiscards, MuxWrites, MayWrite, Taken
  <2>2. muxSeen'.told = muxSeen.told
    BY <1>6 DEF MuxUndetermined, MuxMalformed, MuxDiscards, MuxWrites, SeenRecord
  <2>3. muxThread'.at = "trailer"
    BY <1>0, <2>1, <2>2
  <2>4. CASE MuxUndetermined(t)
    BY <2>4 DEF MuxUndetermined, SeenRecord
  <2>5. CASE MuxMalformed(t) \/ MuxDiscards(t)
    BY <2>3, <2>5 DEF MuxMalformed, MuxDiscards, Goes, GoesOn, ThreadRecord
  <2>6. CASE MuxWrites(t)
    <3>. DEFINE full == muxer.max > 0 /\ muxer.max <= Retimed(streams[t].times, Raw(t, muxThread.packet.i)).former
    <3>. DEFINE slips == muxSeen.slipped \/ Slips
    <3>1. \/ full /\ muxSeen' = [muxSeen EXCEPT !.dropped = muxSeen.dropped \/ full, !.slipped = slips]
          \/ ~full /\ GoesOn
          \/ muxSeen' = [muxSeen EXCEPT !.dropped = TRUE, !.slipped = slips]
      BY <2>6 DEF MuxWrites
    <3>. HIDE DEF full, slips
    <3>2. CASE full /\ muxSeen' = [muxSeen EXCEPT !.dropped = muxSeen.dropped \/ full, !.slipped = slips]
      BY <3>2 DEF SeenRecord
    <3>3. CASE GoesOn
      BY <2>3, <3>3 DEF GoesOn, Goes, ThreadRecord
    <3>4. CASE muxSeen' = [muxSeen EXCEPT !.dropped = TRUE, !.slipped = slips]
      BY <3>4 DEF SeenRecord
    <3>. QED  BY <3>1, <3>2, <3>3, <3>4
  <2>. QED  BY <1>6, <2>4, <2>5, <2>6
<1>7. CASE MuxTrailer
  <2>1. muxThread.at = "trailer" /\ streams' = streams /\ muxSeen'.sent = muxSeen.sent
        /\ muxSeen'.dropped = muxSeen.dropped /\ muxSeen'.reset = muxSeen.reset
    BY <1>7 DEF MuxTrailer, SeenRecord
  <2>. QED  BY <2>1 DEF NothingLeft
<1>8. CASE StopClears
  BY <1>8 DEF StopClears, StreamRecord
<1>9. CASE StopAnswers
  <2>1. muxSeen' = muxSeen /\ muxThread' = muxThread /\ (muxCall.op = "reset" \/ streams' = streams)
    BY <1>9 DEF StopAnswers
  <2>. QED  BY <2>1 DEF NothingLeft, CallsInOrder
<1>10. CASE MuxOuter \/ MuxWakes \/ MuxLeaves
  <2>1. muxSeen' = muxSeen /\ streams' = streams /\ muxThread'.at # "trailer"
    BY <1>10 DEF MuxOuter, MuxWakes, MuxLeaves, ThreadRecord
  <2>. QED  BY <2>1 DEF NothingLeft
<1>11. CASE MuxPauses \/ MuxResumes \/ MuxStop \/ MuxReset \/ StopSignals \/ StopJoined \/ StopReleases
  <2>1. streams'[s].buf = streams[s].buf
    <3>1. CASE MuxPauses \/ MuxResumes
      BY <3>1, FlagsIs, FlagIs
    <3>2. CASE ~MuxPauses /\ ~MuxResumes
      BY <1>11, <3>2 DEF MuxStop, MuxReset, StopSignals, StopJoined, StopReleases
    <3>. QED  BY <3>1, <3>2
  <2>2. muxThread'.at = muxThread.at
    BY <1>11 DEF MuxPauses, MuxResumes, MuxPause, PausesVideo, MuxResume, ResumesVideo, ResumeEnds,
        MuxStop, MuxReset, StopSignals, StopJoined, StopReleases, ThreadRecord
  <2>3. /\ muxSeen'.sent = muxSeen.sent /\ muxSeen'.told = muxSeen.told
        /\ (muxSeen.dropped => muxSeen'.dropped) /\ (muxSeen.reset => muxSeen'.reset)
    BY <1>11 DEF MuxPauses, MuxResumes, MuxPause, PausesVideo, MuxResume, ResumesVideo, ResumeEnds,
        MuxStop, MuxReset, StopSignals, StopJoined, StopReleases, SeenRecord
  <2>. QED  BY <2>1, <2>2, <2>3 DEF NothingLeft
<1>. QED  BY <1>1, <1>2, <1>3, <1>4, <1>5, <1>6, <1>7, <1>8, <1>9, <1>10, <1>11, MuxActions DEF MuxDeals

LEMMA PendingKept ==
    ASSUME Records, ListsInOrder, MuxNext, ~MuxStart, ~MuxTakes, ~StopClears, ~(StopAnswers /\ muxCall.op = "reset"),
           NEW s \in MuxStreams
    PROVE  Pending(s)' = Pending(s)
<1>1. CASE MuxWritesNext
  <2>1. PICK t \in MuxStreams :
           \/ MuxWrite(t, EosPacket)
           \/ muxSeen.next[t] \in DOMAIN MuxPackets[t] /\ MuxWrite(t, muxSeen.next[t])
    BY <1>1 DEF MuxWritesNext
  <2>. QED  BY <2>1, WriteKeepsOrder
<1>2. CASE ~MuxWritesNext
  <2>1. StopAnswers => streams' = streams
    BY DEF StopAnswers
  <2>2. streams'[s].buf = streams[s].buf
    BY <1>2, <2>1, StreamFields
  <2>3. muxSeen'.next = muxSeen.next /\ muxSeen'.sent = muxSeen.sent
    BY <1>2, SeenFields
  <2>. QED  BY <2>2, <2>3 DEF Pending, Count
<1>. QED  BY <1>1, <1>2

LEMMA NothingLostStep ==
    /\ Records /\ CallsInOrder /\ EndInOrder /\ ListsInOrder /\ DiscardsForReason
    /\ NothingLeft /\ NothingLost /\ MuxNext
    => NothingLost'
<1>. SUFFICES ASSUME Records, CallsInOrder, EndInOrder, ListsInOrder, DiscardsForReason, NothingLeft, NothingLost,
                     MuxNext, ~Excused', NEW s \in MuxStreams, NEW i \in muxSeen'.first[s] .. muxSeen'.next[s] - 1
              PROVE  InFile(s, i)' \/ i >= Pending(s)' \/ (Taken(s)' /\ muxThread'.packet.i = i)
  BY DEF NothingLost
<1>. /\ muxSeen \in SeenRecord /\ muxThread \in ThreadRecord /\ muxer \in MuxerRecord /\ muxFile \in Seq(EntryRecord)
     /\ streams \in [MuxStreams -> StreamRecord] /\ muxCall \in CallRecord
     /\ \A t \in MuxStreams : ListInOrder(t)
  BY DEF Records, ListsInOrder
<1>. /\ muxSeen.next[s] \in Nat /\ muxSeen.first[s] \in Nat /\ Pending(s) \in Int /\ Pending(s) <= muxSeen.next[s]
  BY CountIs
<1>1. CASE MuxStart
  <2>1. muxSeen'.first[s] = muxSeen.next[s] /\ muxSeen'.next[s] = muxSeen.next[s]
    BY <1>1 DEF MuxStart, SeenRecord
  <2>2. i \in muxSeen.next[s] .. muxSeen.next[s] - 1
    BY <2>1
  <2>. QED  BY <2>2
<1>2. ASSUME ~MuxStart PROVE ~Excused
  <2>1. (muxSeen.dropped => muxSeen'.dropped) /\ (muxSeen.reset => muxSeen'.reset)
        /\ (muxSeen.malformed => muxSeen'.malformed)
    BY <1>2, SeenFields DEF MuxReset, MuxMalformed, SeenRecord
  <2>2. muxer.state # "started" => muxer'.state # "started"
    BY <1>2, MuxerFields DEF MuxStop, StopAnswers, MuxerRecord
  <2>3. muxer.state # "started" => muxSeen'.sent = muxSeen.sent
    BY <1>2, SeenFields DEF MuxWritesNext, MuxWrite
  <2>. QED  BY <2>1, <2>2, <2>3 DEF Excused
<1>3. ASSUME ~MuxStart, i < muxSeen.next[s]
      PROVE  InFile(s, i) \/ i >= Pending(s) \/ (Taken(s) /\ muxThread.packet.i = i)
  <2>1. i \in muxSeen.first[s] .. muxSeen.next[s] - 1
    BY <1>3, SeenFields
  <2>. QED  BY <1>2, <1>3, <2>1 DEF NothingLost
<1>4. InFile(s, i) /\ ~MuxStart => InFile(s, i)'
  <2>1. ASSUME ~MuxStart, NEW j \in DOMAIN muxFile PROVE j \in DOMAIN muxFile' /\ muxFile'[j] = muxFile[j]
    <3>1. CASE muxFile' = muxFile
      BY <3>1
    <3>2. CASE \E e \in EntryRecord : muxFile' = Append(muxFile, e)
      <4>1. PICK e \in EntryRecord : muxFile' = Append(muxFile, e)
        BY <3>2
      <4>2. DOMAIN muxFile = 1 .. Len(muxFile) /\ DOMAIN muxFile' = 1 .. Len(muxFile') /\ Len(muxFile) \in Nat
        BY <4>1
      <4>. QED  BY <4>1, <4>2, AppendIs
    <3>3. muxFile' = muxFile \/ \E e \in EntryRecord : muxFile' = Append(muxFile, e)
      <4>1. CASE MuxTrailer
        <5>1. [st |-> "trailer", i |-> EosPacket, dts |-> 0] \in EntryRecord
          BY DEF EntryRecord, StreamsOrTrailer, EosPacket
        <5>. QED  BY <4>1, <5>1 DEF MuxTrailer
      <4>2. ASSUME NEW t \in MuxStreams, MuxWrites(t)
            PROVE  muxFile' = muxFile \/ \E e \in EntryRecord : muxFile' = Append(muxFile, e)
        BY <4>2, WritesIs
      <4>. QED  BY <2>1, <4>1, <4>2, FileKept
    <3>. QED  BY <3>1, <3>2, <3>3
  <2>. QED  BY <2>1 DEF InFile
<1>5. CASE MuxTakes
  <2>1. PICK t \in MuxStreams :
                /\ Taken(t)' /\ muxThread'.packet.i = Head(streams[t].buf)
                /\ IF Head(streams[t].buf) = EosPacket THEN Pending(t)' = Pending(t)
                   ELSE Head(streams[t].buf) = Pending(t) /\ Pending(t)' = Pending(t) + 1
                /\ \A r \in MuxStreams \ {t} : ~Taken(r)' /\ Pending(r)' = Pending(r) /\ streams'[r] = streams[r]
    BY <1>5, TakeKeepsOrder
  <2>2. muxSeen' = muxSeen /\ ~MuxStart /\ ~Taken(s)
    BY <1>5 DEF MuxTakes, MayTake, Taken, MuxStart, MuxCalls, EndInOrder
  <2>3. i \in Int /\ i < muxSeen.next[s]
    BY <2>2
  <2>4. InFile(s, i)' \/ i >= Pending(s)
    BY <1>3, <1>4, <2>2, <2>3
  <2>. QED  BY <2>1, <2>3, <2>4
<1>6. CASE StopClears
  <2>1. muxSeen' = muxSeen /\ muxer' = muxer /\ muxThread' = muxThread /\ muxThread.at = "over" /\ muxCall.step = "clear"
    BY <1>6 DEF StopClears, EndInOrder
  <2>2. ~MuxStart
    BY <2>1 DEF MuxStart, MuxCalls, CallsInOrder
  <2>3. muxer.state \notin {"idle", "started"}
    <3>1. muxCall.op \in {"stop", "reset"}
      BY <2>1, StopOps DEF FlagSteps
    <3>2. muxCall.op # "reset"
      BY <1>2, <2>2 DEF CallsInOrder, Excused
    <3>. QED  BY <3>1, <3>2 DEF CallsInOrder
  <2>4. muxSeen.told > 0 /\ muxSeen.sent = MuxStreams /\ ~muxSeen.dropped /\ ~muxSeen.reset
    BY <1>2, <2>1, <2>2, <2>3 DEF Excused, EndInOrder
  <2>5. streams[s].buf = <<>> /\ streams'[s].buf = <<>>
    BY <1>6, <2>4 DEF NothingLeft, StopClears, StreamRecord
  <2>6. Pending(s)' = Pending(s)
    BY <2>1, <2>5 DEF Pending, Count
  <2>. QED  BY <1>3, <1>4, <2>1, <2>2, <2>6 DEF Taken
<1>7. CASE StopAnswers /\ muxCall.op = "reset"
  <2>1. muxSeen' = muxSeen /\ muxSeen.reset
    BY <1>7 DEF StopAnswers, CallsInOrder
  <2>. QED  BY <2>1 DEF Excused
<1>8. ASSUME ~MuxStart, ~MuxTakes, ~StopClears, ~(StopAnswers /\ muxCall.op = "reset"),
             ~(Taken(s) /\ muxThread.packet.i = i)
             \/ InFile(s, i)' \/ (Taken(s)' /\ muxThread'.packet.i = i)
      PROVE  InFile(s, i)' \/ i >= Pending(s)' \/ (Taken(s)' /\ muxThread'.packet.i = i)
  <2>1. Pending(s)' = Pending(s)
    BY <1>8, PendingKept
  <2>2. CASE i < muxSeen.next[s]
    BY <1>3, <1>4, <1>8, <2>1, <2>2
  <2>3. CASE ~(i < muxSeen.next[s])
    BY <2>1, <2>3
  <2>. QED  BY <2>2, <2>3
<1>9. ASSUME ~MuxStart, ~MuxTakes
      PROVE  ~(Taken(s) /\ muxThread.packet.i = i) \/ InFile(s, i)' \/ (Taken(s)' /\ muxThread'.packet.i = i)
  <2>1. CASE MuxDeals
    <3>1. PICK t \in MuxStreams : MuxEos(t) \/ MuxUndetermined(t) \/ MuxMalformed(t) \/ MuxDiscards(t) \/ MuxWrites(t)
      BY <2>1 DEF MuxDeals
    <3>2. CASE MuxEos(t)
      <4>1. muxSeen.first[s] >= 1 /\ muxSeen'.first = muxSeen.first
        BY <1>9, SeenFields DEF ListInOrder
      <4>2. i # EosPacket
        BY <4>1 DEF EosPacket
      <4>. QED  BY <3>2, <4>2 DEF MuxEos
    <3>3. CASE MuxUndetermined(t) \/ MuxMalformed(t)
      BY <3>3 DEF MuxUndetermined, MuxMalformed, SeenRecord, Excused
    <3>4. CASE MuxDiscards(t)
      <4>1. muxSeen.dropped /\ muxSeen' = muxSeen
        BY <3>4 DEF MuxDiscards, DiscardsForReason
      <4>. QED  BY <4>1 DEF Excused
    <3>5. CASE MuxWrites(t)
      <4>. DEFINE e == [st |-> t, i |-> muxThread.packet.i, dts |-> Retimed(streams[t].times, Raw(t,
             muxThread.packet.i)).former]
      <4>1. Taken(t) /\ e \in EntryRecord /\ (muxFile' = Append(muxFile, e) \/ muxSeen'.dropped)
        BY <3>5, WritesIs
      <4>2. e.st = t /\ e.i = muxThread.packet.i
        OBVIOUS
      <4>. HIDE DEF e
      <4>3. muxFile' = Append(muxFile, e)
        BY <4>1 DEF Excused
      <4>4. Len(muxFile) + 1 \in DOMAIN muxFile' /\ muxFile'[Len(muxFile) + 1] = e
        BY <4>1, <4>3, AppendIs
      <4>5. Taken(s) => s = t
        BY <4>1 DEF Taken
      <4>. QED  BY <4>2, <4>4, <4>5 DEF InFile
    <3>. QED  BY <3>1, <3>2, <3>3, <3>4, <3>5
  <2>2. CASE ~MuxDeals
    <3>1. muxThread'.packet = muxThread.packet
      BY <1>9, <2>2, ThreadFields
    <3>2. Taken(s) => muxThread'.at = muxThread.at
      BY <1>9, <2>2, ThreadFields DEF Taken, MuxOuter, MuxWakes, MuxLeaves, MuxNoMore, MuxTrailer, MayTake
    <3>. QED  BY <3>1, <3>2 DEF Taken
  <2>. QED  BY <2>1, <2>2
<1>. QED  BY <1>1, <1>5, <1>6, <1>7, <1>8, <1>9

-----------------------------------------------------------------------------
(* The order of the file.                                                  *)

(* A step empties the file, appends a packet to it, or leaves its packets.  *)
NewEntry(s) ==
    [st |-> s, i |-> muxThread.packet.i,
     dts |-> Retimed(streams[s].times, Raw(s, muxThread.packet.i)).former]

SamePackets == MuxPacketsIn' = MuxPacketsIn /\ \A j \in MuxPacketsIn : muxFile'[j] = muxFile[j]

OneMore(s) ==
    /\ MuxPacketsIn' = MuxPacketsIn \cup {Len(muxFile) + 1}
    /\ \A j \in MuxPacketsIn : j < Len(muxFile) + 1 /\ muxFile'[j] = muxFile[j]
    /\ muxFile'[Len(muxFile) + 1] = NewEntry(s)

LEMMA FileAppended ==
    ASSUME muxFile \in Seq(EntryRecord), NEW e \in EntryRecord, muxFile' = Append(muxFile, e)
    PROVE  /\ DOMAIN muxFile = 1 .. Len(muxFile) /\ DOMAIN muxFile' = 1 .. Len(muxFile) + 1
           /\ Len(muxFile') = Len(muxFile) + 1 /\ Len(muxFile) \in Nat
           /\ \A j \in DOMAIN muxFile : muxFile'[j] = muxFile[j]
           /\ muxFile'[Len(muxFile) + 1] = e
<1>1. Len(muxFile) \in Nat /\ DOMAIN muxFile = 1 .. Len(muxFile)
  OBVIOUS
<1>2. muxFile' \in Seq(EntryRecord) /\ Len(muxFile') = Len(muxFile) + 1
  BY AppendIs
<1>3. DOMAIN muxFile' = 1 .. Len(muxFile')
  BY <1>2
<1>. QED  BY <1>1, <1>2, <1>3, AppendIs

LEMMA PacketsIs ==
    ASSUME Records, ListsInOrder, MuxNext
    PROVE  \/ MuxStart /\ muxFile' = <<>> /\ MuxPacketsIn' = {}
           \/ ~(\E s \in MuxStreams : MuxWrites(s)) /\ SamePackets
           \/ \E s \in MuxStreams : MuxWrites(s) /\ (OneMore(s) \/ (SamePackets /\ muxFile' = muxFile))
<1>. muxFile \in Seq(EntryRecord)
  BY DEF Records
<1>1. CASE MuxStart
  BY <1>1 DEF MuxStart, MuxPacketsIn
<1>2. CASE MuxTrailer
  <2>. DEFINE e == [st |-> "trailer", i |-> EosPacket, dts |-> 0]
  <2>1. e \in EntryRecord /\ e.st \notin MuxStreams
    BY DEF EntryRecord, StreamsOrTrailer, EosPacket, MuxStreams
  <2>2. muxFile' \in {muxFile, Append(muxFile, e)}
    BY <1>2 DEF MuxTrailer
  <2>3. ~\E s \in MuxStreams : MuxWrites(s)
    BY <1>2 DEF MuxTrailer, MuxWrites, MayWrite, Taken
  <2>. HIDE DEF e
  <2>4. CASE muxFile' = muxFile
    BY <2>3, <2>4 DEF SamePackets, MuxPacketsIn
  <2>5. CASE muxFile' = Append(muxFile, e)
    <3>1. /\ DOMAIN muxFile = 1 .. Len(muxFile) /\ DOMAIN muxFile' = 1 .. Len(muxFile) + 1
          /\ Len(muxFile) \in Nat
          /\ \A j \in DOMAIN muxFile : muxFile'[j] = muxFile[j]
          /\ muxFile'[Len(muxFile) + 1] = e
      BY <2>1, <2>5, FileAppended
    <3>. QED  BY <2>1, <2>3, <3>1 DEF SamePackets, MuxPacketsIn
  <2>. QED  BY <2>2, <2>4, <2>5
<1>3. ASSUME NEW s \in MuxStreams, MuxWrites(s)
      PROVE  OneMore(s) \/ (SamePackets /\ muxFile' = muxFile)
  <2>1. NewEntry(s) \in EntryRecord /\ (muxFile' = Append(muxFile, NewEntry(s)) \/ muxFile' = muxFile)
    BY <1>3, WritesIs DEF NewEntry
  <2>2. NewEntry(s).st = s
    BY DEF NewEntry
  <2>3. CASE muxFile' = Append(muxFile, NewEntry(s))
    <3>1. /\ DOMAIN muxFile = 1 .. Len(muxFile) /\ DOMAIN muxFile' = 1 .. Len(muxFile) + 1
          /\ Len(muxFile) \in Nat
          /\ \A j \in DOMAIN muxFile : muxFile'[j] = muxFile[j]
          /\ muxFile'[Len(muxFile) + 1] = NewEntry(s)
      BY <2>1, <2>3, FileAppended
    <3>. QED  BY <2>2, <3>1 DEF OneMore, MuxPacketsIn
  <2>4. CASE muxFile' = muxFile
    BY <2>4 DEF SamePackets, MuxPacketsIn
  <2>. QED  BY <2>1, <2>3, <2>4
<1>4. CASE muxFile' = muxFile /\ ~\E s \in MuxStreams : MuxWrites(s)
  BY <1>4 DEF SamePackets, MuxPacketsIn
<1>. QED  BY <1>1, <1>2, <1>3, <1>4, FileKept

LEMMA EntriesStep ==
    Records /\ EndInOrder /\ ListsInOrder /\ FileEntries /\ MuxNext => FileEntries'
<1>. SUFFICES ASSUME Records, EndInOrder, ListsInOrder, FileEntries, MuxNext PROVE FileEntries'
  OBVIOUS
<1>. muxFile \in Seq(EntryRecord) /\ muxThread \in ThreadRecord
  BY DEF Records
<1>1. CASE MuxStart
  BY <1>1 DEF MuxStart, FileEntries
<1>2. CASE MuxTrailer
  <2>. DEFINE e == [st |-> "trailer", i |-> EosPacket, dts |-> 0]
  <2>1. e \in EntryRecord /\ e.st \notin MuxStreams
    BY DEF EntryRecord, StreamsOrTrailer, EosPacket, MuxStreams
  <2>2. muxFile' \in {muxFile, Append(muxFile, e)} /\ muxThread.at = "trailer" /\ muxThread'.at = "over"
    BY <1>2 DEF MuxTrailer, ThreadRecord
  <2>. HIDE DEF e
  <2>3. CASE muxFile' = muxFile
    BY <2>2, <2>3 DEF FileEntries
  <2>4. CASE muxFile' = Append(muxFile, e)
    <3>1. /\ DOMAIN muxFile = 1 .. Len(muxFile) /\ DOMAIN muxFile' = 1 .. Len(muxFile) + 1
          /\ Len(muxFile') = Len(muxFile) + 1 /\ Len(muxFile) \in Nat
          /\ \A j \in DOMAIN muxFile : muxFile'[j] = muxFile[j]
          /\ muxFile'[Len(muxFile) + 1] = e
      BY <2>1, <2>4, FileAppended
    <3>2. \A j \in DOMAIN muxFile : muxFile[j].st # "trailer"
      BY <2>2 DEF FileEntries
    <3>3. ASSUME NEW j \in DOMAIN muxFile'
          PROVE  /\ muxFile'[j].st = "trailer" => j = Len(muxFile')
                 /\ muxFile'[j].st \in MuxStreams => muxFile'[j].i \in DOMAIN MuxPackets[muxFile'[j].st]
      <4>1. CASE j = Len(muxFile) + 1
        BY <2>1, <3>1, <4>1
      <4>2. CASE j \in DOMAIN muxFile
        BY <3>1, <3>2, <4>2 DEF FileEntries
      <4>. QED  BY <3>1, <4>1, <4>2
    <3>. QED  BY <2>2, <3>3 DEF FileEntries
  <2>. QED  BY <2>2, <2>3, <2>4
<1>3. ASSUME NEW s \in MuxStreams, MuxWrites(s) PROVE FileEntries'
  <2>1. NewEntry(s) \in EntryRecord /\ (muxFile' = Append(muxFile, NewEntry(s)) \/ muxFile' = muxFile)
        /\ muxThread.packet.i \in DOMAIN MuxPackets[s] /\ Taken(s)
    BY <1>3, WritesIs DEF NewEntry
  <2>2. NewEntry(s).st = s /\ NewEntry(s).i = muxThread.packet.i /\ s # "trailer"
    BY SetsAre DEF NewEntry
  <2>3. \A j \in DOMAIN muxFile : muxFile[j].st # "trailer"
    BY <2>1 DEF FileEntries, Taken
  <2>4. CASE muxFile' = Append(muxFile, NewEntry(s))
    <3>1. /\ DOMAIN muxFile = 1 .. Len(muxFile) /\ DOMAIN muxFile' = 1 .. Len(muxFile) + 1
          /\ Len(muxFile) \in Nat
          /\ \A j \in DOMAIN muxFile : muxFile'[j] = muxFile[j]
          /\ muxFile'[Len(muxFile) + 1] = NewEntry(s)
      BY <2>1, <2>4, FileAppended
    <3>2. ASSUME NEW j \in DOMAIN muxFile'
          PROVE  /\ muxFile'[j].st # "trailer"
                 /\ muxFile'[j].st \in MuxStreams => muxFile'[j].i \in DOMAIN MuxPackets[muxFile'[j].st]
      <4>1. CASE j = Len(muxFile) + 1
        BY <2>1, <2>2, <3>1, <4>1
      <4>2. CASE j \in DOMAIN muxFile
        BY <2>3, <3>1, <4>2 DEF FileEntries
      <4>. QED  BY <3>1, <4>1, <4>2
    <3>. QED  BY <3>2 DEF FileEntries
  <2>5. CASE muxFile' = muxFile
    BY <2>3, <2>5 DEF FileEntries
  <2>. QED  BY <2>1, <2>4, <2>5
<1>4. CASE muxFile' = muxFile /\ ~MuxStart
  <2>1. muxThread.at = "over" => muxThread'.at = "over"
    BY <1>4, PlaceKept
  <2>. QED  BY <1>4, <2>1 DEF FileEntries
<1>. QED  BY <1>1, <1>2, <1>3, <1>4, FileKept

(* With increasing times, what may still be taken is later than what was.   *)
LEMMA AllLaterKept ==
    ASSUME Records, ListsInOrder, MuxNext, ~MuxStart, muxThread.at # "over", EndInOrder, NEW r, AllLater(r)
    PROVE  AllLater(r)'
<1>. SUFFICES ASSUME NEW t \in MuxStreams, NEW i \in DOMAIN MuxPackets[t], i >= Pending(t)',
                     i < muxSeen'.next[t] \/ t \notin muxSeen'.sent
              PROVE  r <= Raw(t, i)
  BY DEF AllLater
<1>1. Pending(t) \in Int /\ muxSeen.next[t] \in Nat /\ i \in Nat
  BY CountIs, SetsAre
<1>2. Pending(t)' \in {Pending(t), Pending(t) + 1}
  <2>1. CASE MuxTakes
    BY <2>1, TakeKeepsOrder
  <2>2. CASE ~MuxTakes
    <3>1. ~StopClears /\ ~StopAnswers
      BY DEF StopClears, StopAnswers, EndInOrder
    <3>. QED  BY <2>2, <3>1, PendingKept
  <2>. QED  BY <2>1, <2>2
<1>3. i >= Pending(t)
  BY <1>1, <1>2
<1>4. i < muxSeen.next[t] \/ t \notin muxSeen.sent
  <2>1. CASE MuxWritesNext
    <3>1. PICK s \in MuxStreams, j \in Nat : MuxWrite(s, j)
      BY <2>1, SetsAre DEF MuxWritesNext, Records, SeenRecord
    <3>2. /\ muxSeen'.next = (IF j = EosPacket THEN muxSeen.next
                              ELSE [muxSeen.next EXCEPT ![s] = muxSeen.next[s] + 1])
          /\ muxSeen'.sent = (IF j = EosPacket THEN muxSeen.sent \cup {s} ELSE muxSeen.sent)
      BY <3>1, WriteSeenIs
    <3>3. s \notin muxSeen.sent
      BY <3>1 DEF MuxWrite
    <3>4. muxSeen.next \in [MuxStreams -> Nat]
      BY DEF Records, SeenRecord
    <3>. QED  BY <3>2, <3>3, <3>4
  <2>2. CASE ~MuxWritesNext
    BY <2>2, SeenFields
  <2>. QED  BY <2>1, <2>2
<1>. QED  BY <1>3, <1>4 DEF AllLater

LEMMA LaterOfHead ==
    ASSUME Increasing, Records, ListsInOrder, NEW s \in Earliest, s \in MuxStreams, streams[s].buf # <<>>,
           Head(streams[s].buf) # EosPacket, NEW t \in MuxStreams \ {s}, NEW i \in DOMAIN MuxPackets[t],
           i >= Pending(t), i < muxSeen.next[t] \/ t \notin muxSeen.sent
    PROVE  Raw(s, Head(streams[s].buf)) <= Raw(t, i)
<1>. DEFINE h == Head(streams[s].buf)
            g == Head(streams[t].buf)
<1>1. h \in DOMAIN MuxPackets[s] /\ Raw(s, h) \in Nat \ {0} /\ Raw(t, i) \in Nat \ {0} /\ i \in Nat
  BY HeadIs, SetsAre
<1>2. IF streams[t].buf = <<>> THEN streams[t].eos ELSE Raw(s, h) <= Raw(t, g)
  BY EarliestIs
<1>3. muxSeen.next[t] \in Nat /\ Pending(t) \in Int
  BY CountIs
<1>4. CASE streams[t].buf = <<>>
  <2>1. t \in muxSeen.sent
    BY <1>2, <1>4 DEF ListsInOrder, ListInOrder
  <2>2. Pending(t) = muxSeen.next[t]
    BY <1>3, <1>4 DEF Pending, Count
  <2>. QED  BY <1>1, <1>3, <2>1, <2>2
<1>5. CASE streams[t].buf # <<>>
  <2>1. Raw(s, h) <= Raw(t, g)
    BY <1>2, <1>5
  <2>2. g # EosPacket
    <3>1. Raw(t, EosPacket) = 0
      BY DEF Raw
    <3>. QED  BY <1>1, <2>1, <3>1
  <2>3. g = Pending(t) /\ g \in DOMAIN MuxPackets[t] /\ Raw(t, g) \in Nat
    BY <1>5, <2>2, HeadIs
  <2>4. Raw(t, g) <= Raw(t, i)
    <3>1. CASE g = i
      BY <1>1, <3>1
    <3>2. CASE g # i
      <4>1. g < i
        BY <1>1, <1>3, <2>3, <3>2
      <4>2. Raw(t, g) < Raw(t, i)
        BY <2>3, <4>1 DEF Increasing
      <4>. QED  BY <1>1, <2>3, <4>2
    <3>. QED  BY <3>1, <3>2
  <2>. DEFINE x == Raw(s, h)
              y == Raw(t, g)
              z == Raw(t, i)
  <2>5. x <= z
    <3>1. x \in Int /\ y \in Int /\ z \in Int /\ x <= y /\ y <= z
      BY <1>1, <2>1, <2>3, <2>4
    <3>. HIDE DEF x, y, z
    <3>. QED  BY <3>1
  <2>. QED  BY <2>5
<1>. QED  BY <1>4, <1>5

LEMMA EarlierKept ==
    ASSUME Records, EndInOrder, ListsInOrder, OthersAreLater, MuxNext, ~MuxStart, muxThread.at # "over",
           NEW j \in MuxPacketsIn, muxFile'[j] = muxFile[j]
    PROVE  RawIn(j)' = RawIn(j) /\ AllLater(RawIn(j)) /\ AllLater(RawIn(j))'
<1>1. RawIn(j)' = RawIn(j)
  BY DEF RawIn
<1>2. AllLater(RawIn(j))
  BY DEF OthersAreLater
<1>3. PICK c : c = RawIn(j)
  OBVIOUS
<1>4. AllLater(c)'
  <2>1. AllLater(c)
    BY <1>2, <1>3
  <2>. QED  BY <2>1, AllLaterKept
<1>5. c = RawIn(j)'
  BY <1>1, <1>3
<1>6. AllLater(RawIn(j))'
  BY <1>4, <1>5 DEF AllLater
<1>. QED  BY <1>1, <1>2, <1>6

LEMMA OthersLaterStep ==
    Increasing /\ Records /\ EndInOrder /\ ListsInOrder /\ FileEntries /\ OthersAreLater /\ MuxNext => OthersAreLater'
<1>. SUFFICES ASSUME Increasing, Records, EndInOrder, ListsInOrder, FileEntries, OthersAreLater, MuxNext,
       muxThread'.at # "over"
              PROVE  /\ \A j \in MuxPacketsIn' : AllLater(RawIn(j))' /\ (HoldsPacket' => RawIn(j)' <= HeldRaw')
                     /\ HoldsPacket' => AllLater(HeldRaw)'
  BY DEF OthersAreLater
<1>. muxThread \in ThreadRecord /\ muxSeen \in SeenRecord
  BY DEF Records
<1>1. CASE MuxStart
  <2>1. MuxPacketsIn' = {} /\ ~HoldsPacket'
    BY <1>1 DEF MuxStart, MuxPacketsIn, HoldsPacket, HoldingPlaces
  <2>. QED  BY <2>1
<1>2. ASSUME ~MuxStart PROVE muxThread.at # "over"
  BY <1>2, PlaceKept
<1>3. CASE MuxTakes
  <2>1. ~MuxStart /\ muxThread.at # "over" /\ muxSeen' = muxSeen /\ muxFile' = muxFile
    BY <1>3 DEF MuxTakes, MayTake, MuxStart, MuxCalls, EndInOrder
  <2>2. PICK s \in Earliest :
                /\ s \in MuxStreams /\ Taken(s)' /\ muxThread'.packet.i = Head(streams[s].buf)
                /\ streams[s].buf # <<>>
                /\ IF Head(streams[s].buf) = EosPacket THEN Pending(s)' = Pending(s)
                   ELSE Head(streams[s].buf) = Pending(s) /\ Pending(s)' = Pending(s) + 1
                /\ \A t \in MuxStreams \ {s} : Pending(t)' = Pending(t)
    BY <1>3, TakeKeepsOrder
  <2>3. HeldRaw' = Raw(s, Head(streams[s].buf))
    BY <2>2 DEF HeldRaw, Taken
  <2>4. MuxPacketsIn' = MuxPacketsIn
    BY <2>1 DEF MuxPacketsIn
  <2>5. ASSUME NEW j \in MuxPacketsIn PROVE RawIn(j)' = RawIn(j) /\ AllLater(RawIn(j)) /\ AllLater(RawIn(j))'
    BY <2>1, EarlierKept
  <2>6. ASSUME HoldsPacket'
        PROVE  /\ Head(streams[s].buf) # EosPacket /\ Head(streams[s].buf) = Pending(s) /\ Pending(s) < muxSeen.next[s]
               /\ Pending(s) \in DOMAIN MuxPackets[s]
    BY <2>2, <2>6, HeadIs DEF HoldsPacket
  <2>7. ASSUME HoldsPacket', NEW j \in MuxPacketsIn PROVE RawIn(j)' <= HeldRaw'
    <3>. s \in MuxStreams
      BY <2>2
    <3>2. AllLater(RawIn(j))
      BY <2>5
    <3>3. /\ Pending(s) \in DOMAIN MuxPackets[s] /\ Pending(s) < muxSeen.next[s]
          /\ Head(streams[s].buf) = Pending(s)
      BY <2>6, <2>7
    <3>4. Pending(s) \in Int
      BY CountIs
    <3>1. RawIn(j) <= Raw(s, Head(streams[s].buf))
      BY <3>2, <3>3, <3>4 DEF AllLater
    <3>. QED  BY <2>3, <2>5, <3>1
  <2>8. ASSUME HoldsPacket' PROVE AllLater(HeldRaw)'
    <3>. SUFFICES ASSUME NEW t \in MuxStreams, NEW i \in DOMAIN MuxPackets[t],
                         i >= Pending(t)', i < muxSeen.next[t] \/ t \notin muxSeen.sent
                  PROVE  Raw(s, Head(streams[s].buf)) <= Raw(t, i)
      BY <2>1, <2>3 DEF AllLater
    <3>1. CASE t = s
      <4>. DEFINE h == Head(streams[s].buf)
      <4>1. h \in DOMAIN MuxPackets[s] /\ h < i
        <5>1. Pending(s)' = Pending(s) + 1 /\ h = Pending(s) /\ h \in DOMAIN MuxPackets[s]
          BY <2>2, <2>6, <2>8
        <5>2. Pending(s) \in Int /\ i \in Int
          <6>1. Pending(s) \in Int
            BY <2>2, CountIs
          <6>2. i \in Nat \ {0}
            BY SetsAre
          <6>. QED  BY <6>1, <6>2
        <5>. HIDE DEF h
        <5>. QED  BY <3>1, <5>1, <5>2
      <4>2. Raw(s, h) < Raw(s, i) /\ Raw(s, h) \in Nat /\ Raw(s, i) \in Nat
        BY <3>1, <4>1, SetsAre DEF Increasing
      <4>. DEFINE x == Raw(s, h)
                  y == Raw(s, i)
      <4>3. x <= y
        <5>1. x < y /\ x \in Nat /\ y \in Nat
          BY <4>2
        <5>. HIDE DEF x, y
        <5>. QED  BY <5>1
      <4>. QED  BY <3>1, <4>3
    <3>2. CASE t # s
      BY <2>2, <2>6, <2>8, <3>2, LaterOfHead
    <3>. QED  BY <3>1, <3>2
  <2>. QED  BY <2>4, <2>5, <2>7, <2>8
<1>4. ASSUME ~MuxStart, ~MuxTakes, HoldsPacket' PROVE HoldsPacket /\ HeldRaw' = HeldRaw /\ AllLater(HeldRaw)'
  <2>1. HoldsPacket /\ HeldRaw' = HeldRaw
    BY <1>4, TakenKept DEF HoldsPacket, HeldRaw
  <2>2. PICK c : c = HeldRaw
    OBVIOUS
  <2>3. AllLater(c)'
    <3>1. AllLater(c)
      BY <1>2, <1>4, <2>1, <2>2 DEF OthersAreLater
    <3>. QED  BY <1>2, <1>4, <3>1, AllLaterKept
  <2>4. c = HeldRaw'
    BY <2>1, <2>2
  <2>5. AllLater(HeldRaw)'
    BY <2>3, <2>4 DEF AllLater
  <2>. QED  BY <2>1, <2>5
<1>5. CASE ~MuxStart /\ ~MuxTakes /\ SamePackets
  <2>1. ASSUME NEW j \in MuxPacketsIn
        PROVE  AllLater(RawIn(j))' /\ (HoldsPacket' => RawIn(j)' <= HeldRaw')
    <3>1. RawIn(j)' = RawIn(j) /\ AllLater(RawIn(j))'
      BY <1>2, <1>5, EarlierKept DEF SamePackets
    <3>2. HoldsPacket => RawIn(j) <= HeldRaw
      BY <1>2, <1>5 DEF OthersAreLater
    <3>. QED  BY <1>4, <1>5, <3>1, <3>2
  <2>. QED  BY <1>4, <1>5, <2>1 DEF SamePackets
<1>6. ASSUME NEW s \in MuxStreams, MuxWrites(s), OneMore(s), ~MuxStart, ~MuxTakes
      PROVE  OthersAreLater'
  <2>1. ~HoldsPacket' /\ HoldsPacket
    <3>1. MuxDeals
      BY <1>6 DEF MuxDeals
    <3>. QED  BY <1>6, <3>1, DealsIs DEF HoldsPacket, HoldingPlaces, MuxWrites, MayWrite
  <2>2. HeldRaw = Raw(s, muxThread.packet.i)
    BY <1>6 DEF HeldRaw, MuxWrites, MayWrite, Taken
  <2>3. PICK c : c = HeldRaw
    OBVIOUS
  <2>4. AllLater(c)'
    <3>1. AllLater(c)
      BY <1>2, <1>6, <2>1, <2>3 DEF OthersAreLater
    <3>. QED  BY <1>2, <1>6, <3>1, AllLaterKept
  <2>5. ASSUME NEW j \in MuxPacketsIn' PROVE AllLater(RawIn(j))'
    <3>1. CASE j = Len(muxFile) + 1
      <4>1. c = RawIn(j)'
        BY <1>6, <2>2, <2>3, <3>1 DEF RawIn, OneMore, NewEntry
      <4>. QED  BY <2>4, <4>1 DEF AllLater
    <3>2. CASE j \in MuxPacketsIn
      BY <1>2, <1>6, <3>2, EarlierKept DEF OneMore
    <3>. QED  BY <1>6, <3>1, <3>2 DEF OneMore
  <2>. QED  BY <2>1, <2>5 DEF OthersAreLater
<1>7. MuxTakes => ~MuxStart
  BY DEF MuxTakes, MayTake, MuxStart, MuxCalls, EndInOrder
<1>8. ASSUME ~MuxStart, ~MuxTakes PROVE SamePackets \/ \E s \in MuxStreams : MuxWrites(s) /\ OneMore(s)
  BY <1>8, PacketsIs
<1>. QED  BY <1>1, <1>3, <1>5, <1>6, <1>8 DEF OthersAreLater

LEMMA InterleavedStep ==
    Records /\ EndInOrder /\ ListsInOrder /\ FileEntries /\ OthersAreLater /\ Interleaved /\ FileEntries' /\ MuxNext
        => Interleaved'
<1>. SUFFICES ASSUME Records, EndInOrder, ListsInOrder, FileEntries, OthersAreLater, Interleaved, FileEntries',
       MuxNext
              PROVE  \A i, j \in MuxPacketsIn' : i < j => RawIn(i)' <= RawIn(j)'
  BY DEF Interleaved, RawIn, FileEntries
<1>. muxFile \in Seq(EntryRecord)
  BY DEF Records
<1>1. \A i, j \in MuxPacketsIn : i < j => RawIn(i) <= RawIn(j)
  BY DEF Interleaved, RawIn
<1>2. CASE MuxPacketsIn' = {}
  BY <1>2
<1>3. CASE SamePackets
  BY <1>1, <1>3 DEF SamePackets, RawIn
<1>4. ASSUME NEW s \in MuxStreams, MuxWrites(s), OneMore(s), NEW i \in MuxPacketsIn', NEW j \in MuxPacketsIn', i < j
      PROVE  RawIn(i)' <= RawIn(j)'
  <2>1. i \in MuxPacketsIn
    <3>1. Len(muxFile) \in Nat /\ MuxPacketsIn \subseteq 1 .. Len(muxFile)
      BY DEF MuxPacketsIn
    <3>. QED  BY <1>4, <3>1 DEF OneMore
  <2>2. RawIn(i)' = RawIn(i)
    BY <1>4, <2>1 DEF OneMore, RawIn
  <2>3. CASE j \in MuxPacketsIn
    <3>1. RawIn(j)' = RawIn(j)
      BY <1>4, <2>3 DEF OneMore, RawIn
    <3>. QED  BY <1>1, <1>4, <2>1, <2>2, <2>3, <3>1
  <2>4. CASE j = Len(muxFile) + 1
    <3>1. HoldsPacket /\ HeldRaw = Raw(s, muxThread.packet.i) /\ muxThread.at # "over"
      BY <1>4 DEF HeldRaw, HoldsPacket, HoldingPlaces, MuxWrites, MayWrite, Taken
    <3>2. RawIn(i) <= HeldRaw
      BY <2>1, <3>1 DEF OthersAreLater
    <3>3. RawIn(j)' = HeldRaw
      BY <1>4, <2>4, <3>1 DEF OneMore, RawIn, NewEntry
    <3>. QED  BY <2>2, <3>2, <3>3
  <2>. QED  BY <1>4, <2>3, <2>4 DEF OneMore
<1>. QED  BY <1>2, <1>3, <1>4, PacketsIs

-----------------------------------------------------------------------------
(* The times of the file.                                                   *)

(* A time never goes back in its stream.                                   *)
LEMMA RetimedLater ==
    ASSUME NEW t \in TimesRecord, NEW raw \in Nat
    PROVE  Retimed(t, raw).former >= t.former
<1>. DEFINE start  == IF t.start # -1 THEN t.start ELSE 0
            gap    == raw - t.track - t.frame - start
            cut    == IF t.resumed THEN gap ELSE t.pausedFor
            wanted == IF cut # -1 THEN raw - cut ELSE raw
            frame  == IF t.former # 0 /\ wanted >= t.former THEN wanted - t.former ELSE t.frame
            dts    == IF wanted < t.former THEN t.former + 1 ELSE wanted
<1>1. start \in Int /\ gap \in Int /\ t.former \in Int /\ t.track \in Int /\ t.pausedFor \in Int
  BY DEF TimesRecord
<1>2. cut \in Int
  BY <1>1
<1>3. wanted \in Int
  BY <1>2
<1>4. Retimed(t, raw).former = dts
  BY DEF Retimed
<1>. HIDE DEF wanted
<1>. QED  BY <1>1, <1>3, <1>4

LEMMA EntryType ==
    ASSUME Records, NEW j \in MuxPacketsIn
    PROVE  /\ muxFile[j] \in EntryRecord /\ muxFile[j].st \in MuxStreams
           /\ muxFile[j].dts \in Int /\ muxFile[j].i \in Nat /\ j \in Nat
<1>1. muxFile[j] \in EntryRecord /\ j \in Nat
  BY DEF Records, MuxPacketsIn
<1>2. muxFile[j].dts \in Int /\ muxFile[j].i \in Nat
  BY <1>1 DEF EntryRecord
<1>. QED  BY <1>1, <1>2 DEF MuxPacketsIn

LEMMA FormerLater ==
    ASSUME Records, EndInOrder, ListsInOrder, MuxNext, ~MuxStart, muxThread.at # "over", NEW s \in MuxStreams
    PROVE  /\ streams'[s].times.former >= streams[s].times.former
           /\ streams[s].times \in TimesRecord /\ streams'[s].times \in TimesRecord
<1>. streams \in [MuxStreams -> StreamRecord] /\ \A t \in MuxStreams : streams[t].times \in TimesRecord
  BY DEF Records, StreamRecord
<1>0. streams[s].times.former \in Int
  BY DEF TimesRecord
<1>1. streams'[s].times \in TimesRecord
  BY StreamsType DEF StreamRecord
<1>2. CASE MuxPauses \/ MuxResumes
  <2>2. \/ streams'[s].times = streams[s].times
        \/ \E u \in BOOLEAN : streams'[s].times = [streams[s].times EXCEPT !.resumed = u]
    BY <1>2, FlagsIs, FlagIs
  <2>3. streams'[s].times.former = streams[s].times.former
    BY <2>2 DEF TimesRecord
  <2>. QED  BY <1>0, <1>1, <2>3
<1>3. ASSUME NEW t \in MuxStreams, MuxWrites(t) PROVE streams'[s].times.former >= streams[s].times.former
  <2>1. CASE t = s
    <3>1. streams'[s].times = Retimed(streams[s].times, Raw(s, muxThread.packet.i)) /\ Raw(s,
           muxThread.packet.i) \in Nat
      BY <1>3, <2>1, WritesIs
    <3>. QED  BY <3>1, RetimedLater
  <2>2. CASE t # s
    <3>1. streams'[s] = streams[s]
      BY <1>3, <2>2, WritesIs
    <3>. QED  BY <1>0, <3>1
  <2>. QED  BY <2>1, <2>2
<1>4. ~StopAnswers
  BY DEF StopAnswers, EndInOrder
<1>5. streams'[s].times = streams[s].times => streams'[s].times.former >= streams[s].times.former
  BY <1>0
<1>. QED  BY <1>1, <1>2, <1>3, <1>4, <1>5, StreamFields

LEMMA FormerStep ==
    Records /\ EndInOrder /\ ListsInOrder /\ FormerIsLast /\ MuxNext => FormerIsLast'
<1>. SUFFICES ASSUME Records, EndInOrder, ListsInOrder, FormerIsLast, MuxNext, muxThread'.at # "over",
                     NEW j \in MuxPacketsIn'
              PROVE  muxFile'[j].dts <= streams'[muxFile'[j].st].times.former
  BY DEF FormerIsLast
<1>. muxFile \in Seq(EntryRecord)
  BY DEF Records
<1>1. ASSUME ~MuxStart, j \in MuxPacketsIn, muxFile'[j] = muxFile[j]
      PROVE  muxFile'[j].dts <= streams'[muxFile'[j].st].times.former
  <2>. DEFINE s == muxFile[j].st
              d == muxFile[j].dts
  <2>1. muxThread.at # "over" /\ s \in MuxStreams
    BY <1>1, PlaceKept DEF MuxPacketsIn
  <2>2. d <= streams[s].times.former
    BY <1>1, <2>1 DEF FormerIsLast
  <2>3. d \in Int
    BY <1>1, EntryType
  <2>. HIDE DEF s, d
  <2>4. /\ streams'[s].times.former >= streams[s].times.former
        /\ streams[s].times \in TimesRecord /\ streams'[s].times \in TimesRecord
    BY <1>1, <2>1, FormerLater
  <2>5. streams[s].times.former \in Int /\ streams'[s].times.former \in Int
    BY <2>4 DEF TimesRecord
  <2>6. d <= streams'[s].times.former
    BY <2>2, <2>3, <2>4, <2>5
  <2>. QED  BY <1>1, <2>6 DEF s, d
<1>2. ASSUME NEW s \in MuxStreams, MuxWrites(s), OneMore(s), j = Len(muxFile) + 1
      PROVE  muxFile'[j].dts <= streams'[muxFile'[j].st].times.former
  <2>1. muxFile'[j].st = s /\ muxFile'[j].dts = Retimed(streams[s].times, Raw(s, muxThread.packet.i)).former
    BY <1>2 DEF OneMore, NewEntry
  <2>2. streams'[s].times = Retimed(streams[s].times, Raw(s, muxThread.packet.i)) /\ streams'[s].times \in TimesRecord
    BY <1>2, WritesIs
  <2>3. streams'[s].times.former \in Int
    BY <2>2 DEF TimesRecord
  <2>. QED  BY <2>1, <2>2, <2>3
<1>3. ~MuxStart
  BY DEF MuxStart, MuxPacketsIn
<1>4. ASSUME NEW s \in MuxStreams, MuxWrites(s) PROVE ~MuxStart
  BY <1>4 DEF MuxWrites, MayWrite, Taken, MuxStart, MuxCalls, EndInOrder
<1>. QED  BY <1>1, <1>2, <1>3, <1>4, PacketsIs DEF SamePackets, OneMore

LEMMA NeverBackStep ==
    Records /\ EndInOrder /\ ListsInOrder /\ FormerIsLast /\ NeverBack /\ MuxNext => NeverBack'
<1>. SUFFICES ASSUME Records, EndInOrder, ListsInOrder, FormerIsLast, NeverBack, MuxNext,
                     NEW i \in MuxPacketsIn', NEW j \in MuxPacketsIn', i < j, muxFile'[i].st = muxFile'[j].st
              PROVE  muxFile'[i].dts <= muxFile'[j].dts
  BY DEF NeverBack
<1>. muxFile \in Seq(EntryRecord)
  BY DEF Records
<1>1. CASE SamePackets
  BY <1>1 DEF SamePackets, NeverBack
<1>2. ASSUME NEW s \in MuxStreams, MuxWrites(s), OneMore(s)
      PROVE  muxFile'[i].dts <= muxFile'[j].dts
  <2>1. i \in MuxPacketsIn
    <3>1. Len(muxFile) \in Nat /\ MuxPacketsIn \subseteq 1 .. Len(muxFile)
      BY DEF MuxPacketsIn
    <3>. QED  BY <1>2, <3>1 DEF OneMore
  <2>2. muxFile'[i] = muxFile[i]
    BY <1>2, <2>1 DEF OneMore
  <2>3. CASE j \in MuxPacketsIn
    BY <1>2, <2>1, <2>3 DEF OneMore, NeverBack
  <2>4. CASE j = Len(muxFile) + 1
    <3>. DEFINE new == Retimed(streams[s].times, Raw(s, muxThread.packet.i)).former
                old == streams[s].times.former
                d   == muxFile[i].dts
    <3>1. muxFile'[j].st = s /\ muxFile'[j].dts = new
      BY <1>2, <2>4 DEF OneMore, NewEntry
    <3>2. new >= old /\ new \in Int /\ old \in Int
      <4>1. streams[s].times \in TimesRecord
        BY DEF Records, StreamRecord
      <4>2. Raw(s, muxThread.packet.i) \in Nat /\ Retimed(streams[s].times, Raw(s,
             muxThread.packet.i)) \in TimesRecord
        BY <1>2, WritesIs
      <4>3. new >= old
        BY <4>1, <4>2, RetimedLater
      <4>. QED  BY <4>1, <4>2, <4>3 DEF TimesRecord
    <3>3. d <= old /\ d \in Int
      <4>1. muxThread.at # "over"
        BY <1>2 DEF MuxWrites, MayWrite, Taken
      <4>2. d <= streams[muxFile[i].st].times.former
        BY <2>1, <4>1 DEF FormerIsLast
      <4>3. muxFile[i].st = s
        BY <2>2, <3>1
      <4>. QED  BY <2>1, <4>2, <4>3, EntryType
    <3>4. d <= new
      <4>. HIDE DEF d, new, old
      <4>. QED  BY <3>2, <3>3
    <3>. QED  BY <2>2, <3>1, <3>4
  <2>. QED  BY <1>2, <2>3, <2>4 DEF OneMore
<1>. QED  BY <1>1, <1>2, PacketsIs

(* How Retimed computes: what it takes for the length of the pauses, the time    *)
(* wanted, and the new members.                                             *)
Computed(t, raw, cut, wanted, frame, dts, start) ==
    /\ t.resumed => cut = raw - t.track - t.frame - (IF t.start # -1 THEN t.start ELSE 0)
    /\ ~t.resumed => cut = t.pausedFor
    /\ wanted = IF cut # -1 THEN raw - cut ELSE raw
    /\ frame = IF t.former # 0 /\ wanted >= t.former THEN wanted - t.former ELSE t.frame
    /\ dts = IF wanted < t.former THEN t.former + 1 ELSE wanted
    /\ start = IF t.start = -1 THEN dts ELSE t.start
    /\ Retimed(t, raw) = [former |-> dts, start |-> start, track |-> t.track + frame, frame |-> frame,
                          pausedFor |-> cut, resumed |-> FALSE]

LEMMA RetimedIs ==
    ASSUME NEW t \in TimesRecord, NEW raw \in Nat
    PROVE  \E cut, wanted, frame, dts, start \in Int : Computed(t, raw, cut, wanted, frame, dts, start)
<1>. DEFINE start0 == IF t.start # -1 THEN t.start ELSE 0
            gap    == raw - t.track - t.frame - start0
            cut    == IF t.resumed THEN gap ELSE t.pausedFor
            wanted == IF cut # -1 THEN raw - cut ELSE raw
            frame  == IF t.former # 0 /\ wanted >= t.former THEN wanted - t.former ELSE t.frame
            dts    == IF wanted < t.former THEN t.former + 1 ELSE wanted
            start  == IF t.start = -1 THEN dts ELSE t.start
<1>1. start0 \in Int /\ gap \in Int /\ t.former \in Int /\ t.track \in Int /\ t.pausedFor \in Int /\ t.frame \in Int
      /\ t.start \in Int /\ t.resumed \in BOOLEAN
  BY DEF TimesRecord
<1>2. cut \in Int
  BY <1>1
<1>3. wanted \in Int
  BY <1>2
<1>4. frame \in Int /\ dts \in Int
  BY <1>1, <1>3
<1>5. start \in Int
  BY <1>1, <1>4
<1>6. Retimed(t, raw) = [former |-> dts, start |-> start, track |-> t.track + frame, frame |-> frame,
                         pausedFor |-> cut, resumed |-> FALSE]
  BY DEF Retimed
<1>7. /\ t.resumed => cut = raw - t.track - t.frame - (IF t.start # -1 THEN t.start ELSE 0)
      /\ ~t.resumed => cut = t.pausedFor
      /\ wanted = IF cut # -1 THEN raw - cut ELSE raw
      /\ frame = IF t.former # 0 /\ wanted >= t.former THEN wanted - t.former ELSE t.frame
      /\ dts = IF wanted < t.former THEN t.former + 1 ELSE wanted
      /\ start = IF t.start = -1 THEN dts ELSE t.start
  OBVIOUS
<1>. HIDE DEF cut, wanted, frame, dts, start
<1>8. Computed(t, raw, cut, wanted, frame, dts, start)
  BY <1>6, <1>7 DEF Computed
<1>. QED  BY <1>2, <1>3, <1>4, <1>5, <1>8

LEMMA PacedStep ==
    ASSUME NEW t \in TimesRecord, NEW raw \in Nat, NEW step \in Nat, step >= 1, Paced(t, raw, step),
           NEW new \in Nat, new >= raw + step, t.resumed \/ new = raw + step
    PROVE  /\ Paced(Retimed(t, new), new, step)
           /\ Retimed(t, new).former - t.former <= new - raw
<1>0. PICK cut \in Int, wanted \in Int, frame \in Int, dts \in Int, start \in Int :
        Computed(t, new, cut, wanted, frame, dts, start)
  BY RetimedIs
<1>1. /\ t.resumed => cut = new - t.track - t.frame - (IF t.start # -1 THEN t.start ELSE 0)
      /\ ~t.resumed => cut = t.pausedFor
      /\ wanted = IF cut # -1 THEN new - cut ELSE new
      /\ frame = IF t.former # 0 /\ wanted >= t.former THEN wanted - t.former ELSE t.frame
      /\ dts = IF wanted < t.former THEN t.former + 1 ELSE wanted
      /\ start = IF t.start = -1 THEN dts ELSE t.start
      /\ Retimed(t, new) = [former |-> dts, start |-> start, track |-> t.track + frame, frame |-> frame,
                            pausedFor |-> cut, resumed |-> FALSE]
  BY <1>0 DEF Computed
<1>. DEFINE r == Retimed(t, new)
<1>2. /\ r.former = dts /\ r.start = start /\ r.track = t.track + frame /\ r.frame = frame /\ r.pausedFor = cut
  BY <1>1
<1>3. /\ t.former \in Int /\ t.start \in Int /\ t.track \in Int /\ t.frame \in Int /\ t.pausedFor \in Int
  BY DEF TimesRecord
<1>4. PICK former \in Int, start0 \in Int, track \in Int, frame0 \in Int, pausedFor \in Int :
        /\ former = t.former /\ start0 = t.start /\ track = t.track /\ frame0 = t.frame /\ pausedFor = t.pausedFor
  BY <1>3
<1>. DEFINE cut0   == IF pausedFor = -1 THEN 0 ELSE pausedFor
            excess == former - start0 - track
            ahead  == former - (raw - cut0)
<1>5. /\ former >= 1 /\ start0 >= 1 /\ former <= raw /\ excess >= 0 /\ ahead >= 0
      /\ (frame0 = -1 /\ excess + 1 >= ahead) \/ excess >= ahead
      /\ frame0 <= step
  BY <1>4 DEF Paced, Excess, Ahead, CutOf
<1>6. start = start0
  BY <1>1, <1>4, <1>5
<1>7. wanted = IF t.resumed THEN former - excess + frame0 ELSE former - ahead + step
  <2>1. CASE t.resumed
    <3>1. cut = new - track - frame0 - start0
      BY <1>1, <1>4, <1>5, <2>1
    <3>2. cut # -1
      BY <3>1, <1>5
    <3>. QED  BY <1>1, <2>1, <3>1, <3>2
  <2>2. CASE ~t.resumed
    BY <1>1, <1>4, <2>2
  <2>. QED  BY <2>1, <2>2
<1>8. wanted = new - (IF cut = -1 THEN 0 ELSE cut)
  BY <1>1
<1>9. /\ frame = IF wanted >= former THEN wanted - former ELSE frame0
      /\ dts = IF wanted < former THEN former + 1 ELSE wanted
  BY <1>1, <1>4, <1>5
<1>10. PICK back \in Int : back = IF t.resumed THEN excess - frame0 ELSE ahead - step
  <2>. DEFINE b == IF t.resumed THEN excess - frame0 ELSE ahead - step
  <2>1. b \in Int
    BY <1>5
  <2>. HIDE DEF b
  <2>2. PICK back \in Int : back = b
    BY <2>1
  <2>. QED  BY <2>2 DEF b
<1>11. wanted = former - back
  BY <1>7, <1>10
<1>. DEFINE excess2 == dts - start0 - (track + frame)
            ahead2  == dts - wanted
<1>14. Excess(r) = excess2 /\ Ahead(r, new) = ahead2
  <2>1. Excess(r) = dts - start - (track + frame)
    <3>. HIDE DEF r
    <3>. QED  BY <1>2, <1>4 DEF Excess
  <2>2. CutOf(r) = IF cut = -1 THEN 0 ELSE cut
    <3>. HIDE DEF r
    <3>. QED  BY <1>2 DEF CutOf
  <2>3. Ahead(r, new) = dts - (new - CutOf(r))
    <3>. HIDE DEF r
    <3>. QED  BY <1>2 DEF Ahead
  <2>. HIDE DEF r
  <2>. QED  BY <1>6, <1>8, <2>1, <2>2, <2>3
<1>12. CASE back <= 0
  <2>1. frame = 0 - back /\ dts = former - back
    BY <1>9, <1>11, <1>12
  <2>2. 0 - back <= step
    BY <1>5, <1>10
  <2>3. excess2 = excess /\ ahead2 = 0
    BY <2>1, <1>11
  <2>4. dts >= 1 /\ dts <= new /\ dts - former <= new - raw
    BY <1>5, <1>12, <2>1, <2>2
  <2>5. Paced(r, new, step)
    <3>1. /\ r.former >= 1 /\ r.start >= 1 /\ r.former <= new
          /\ excess2 >= 0 /\ ahead2 >= 0 /\ excess2 >= ahead2 /\ r.frame <= step
      <4>. HIDE DEF r
      <4>. QED  BY <1>2, <1>5, <1>6, <2>1, <2>2, <2>3, <2>4
    <3>. HIDE DEF r, excess2, ahead2
    <3>. QED  BY <1>14, <3>1 DEF Paced
  <2>. QED  BY <1>2, <1>4, <2>4, <2>5
<1>13. CASE back > 0
  <2>1. frame = frame0 /\ dts = former + 1
    BY <1>9, <1>11, <1>13
  <2>2. excess2 = excess + 1 - frame0 /\ ahead2 = back + 1
    BY <1>11, <2>1
  <2>3. excess2 >= ahead2 /\ ahead2 >= 0 /\ excess2 >= 0
    <3>1. excess >= 0 /\ ahead >= 0 /\ frame0 <= step /\ ((frame0 = -1 /\ excess + 1 >= ahead) \/ excess >= ahead)
      BY <1>5
    <3>2. back = excess - frame0 \/ back = ahead - step
      BY <1>10
    <3>. QED  BY <1>13, <2>2, <3>1, <3>2
  <2>4. dts >= 1 /\ dts <= new /\ dts - former <= new - raw
    BY <1>5, <2>1
  <2>5. Paced(r, new, step)
    <3>1. /\ r.former >= 1 /\ r.start >= 1 /\ r.former <= new /\ r.frame <= step
          /\ excess2 >= 0 /\ ahead2 >= 0
          /\ (r.frame = -1 /\ excess2 + 1 >= ahead2) \/ excess2 >= ahead2
      <4>. HIDE DEF r
      <4>. QED  BY <1>2, <1>5, <1>6, <2>1, <2>3, <2>4
    <3>. HIDE DEF r, excess2, ahead2
    <3>. QED  BY <1>14, <3>1 DEF Paced
  <2>. QED  BY <1>2, <1>4, <2>4, <2>5
<1>. QED  BY <1>10, <1>12, <1>13

LEMMA PacedStart ==
    ASSUME NEW t \in TimesRecord, Unwritten(t), NEW raw \in Nat, raw >= 1, NEW step \in Nat, step >= 1
    PROVE  Paced(Retimed(t, raw), raw, step)
<1>0. PICK cut \in Int, wanted \in Int, frame \in Int, dts \in Int, start \in Int :
        Computed(t, raw, cut, wanted, frame, dts, start)
  BY RetimedIs
<1>1. /\ t.resumed => cut = raw - t.track - t.frame - (IF t.start # -1 THEN t.start ELSE 0)
      /\ ~t.resumed => cut = t.pausedFor
      /\ wanted = IF cut # -1 THEN raw - cut ELSE raw
      /\ frame = IF t.former # 0 /\ wanted >= t.former THEN wanted - t.former ELSE t.frame
      /\ dts = IF wanted < t.former THEN t.former + 1 ELSE wanted
      /\ start = IF t.start = -1 THEN dts ELSE t.start
      /\ Retimed(t, raw) = [former |-> dts, start |-> start, track |-> t.track + frame, frame |-> frame,
                            pausedFor |-> cut, resumed |-> FALSE]
  BY <1>0 DEF Computed
<1>2. t.former = 0 /\ t.start = -1 /\ t.track = 0 /\ t.frame = -1 /\ t.pausedFor = -1
  BY DEF Unwritten, NewTimes, TimesRecord
<1>. DEFINE r == Retimed(t, raw)
<1>3. /\ r.former = dts /\ r.start = start /\ r.track = frame /\ r.frame = frame /\ r.pausedFor = cut
  BY <1>1, <1>2
<1>4. frame = -1 /\ start = dts
  BY <1>1, <1>2
<1>5. CASE t.resumed
  <2>1. cut = raw + 1 /\ wanted = -1
    BY <1>1, <1>2, <1>5
  <2>2. dts = 1
    BY <1>1, <1>2, <2>1
  <2>. QED  BY <1>3, <1>4, <2>1, <2>2 DEF Paced, Excess, Ahead, CutOf
<1>6. CASE ~t.resumed
  <2>1. cut = -1 /\ wanted = raw
    BY <1>1, <1>2, <1>6
  <2>2. dts = raw
    BY <1>1, <1>2, <2>1
  <2>. QED  BY <1>3, <1>4, <2>1, <2>2 DEF Paced, Excess, Ahead, CutOf
<1>. QED  BY <1>5, <1>6

(* The packets of an even stream are a step apart.                         *)
LEMMA EvenSteps ==
    ASSUME Increasing, Records, NEW s \in MuxStreams, Even(s)
    PROVE  /\ StepOf(s) \in Nat /\ StepOf(s) >= 1
           /\ \A i, j \in DOMAIN MuxPackets[s] :
                i < j => /\ Raw(s, j) >= Raw(s, i) + StepOf(s)
                         /\ j = i + 1 => Raw(s, j) = Raw(s, i) + StepOf(s)
<1>1. /\ DOMAIN MuxPackets[s] = 1 .. Len(MuxPackets[s]) /\ Len(MuxPackets[s]) \in Nat
      /\ DOMAIN MuxPackets[s] \subseteq Nat \ {0} /\ \A i \in DOMAIN MuxPackets[s] : Raw(s, i) \in Nat
  BY SetsAre
<1>2. ASSUME NEW i \in DOMAIN MuxPackets[s], i + 1 \in DOMAIN MuxPackets[s]
      PROVE  Raw(s, i + 1) = Raw(s, i) + StepOf(s) /\ StepOf(s) \in Int
  <2>1. 2 \in DOMAIN MuxPackets[s] /\ 1 \in DOMAIN MuxPackets[s] /\ i \in Nat /\ i + 1 > 1 /\ i + 1 - 1 = i
    BY <1>1, <1>2
  <2>2. Raw(s, i + 1) - Raw(s, i + 1 - 1) = Raw(s, 2) - Raw(s, 1)
    BY <1>2, <2>1 DEF Even, EvenPackets
  <2>3. Raw(s, i + 1) - Raw(s, i) = Raw(s, 2) - Raw(s, 1)
    BY <2>1, <2>2
  <2>4. StepOf(s) = Raw(s, 2) - Raw(s, 1)
    BY <2>1 DEF StepOf
  <2>. DEFINE x == Raw(s, i + 1)
              y == Raw(s, i)
  <2>5. Raw(s, 2) \in Nat /\ Raw(s, 1) \in Nat /\ x \in Nat /\ y \in Nat /\ x - y = StepOf(s)
    BY <1>1, <1>2, <2>1, <2>3, <2>4
  <2>6. StepOf(s) \in Int
    BY <2>4, <2>5
  <2>7. x = y + StepOf(s)
    <3>. HIDE DEF x, y
    <3>. QED  BY <2>5, <2>6
  <2>. QED  BY <2>6, <2>7
<1>3. StepOf(s) \in Nat /\ StepOf(s) >= 1
  <2>1. CASE 2 \in DOMAIN MuxPackets[s]
    <3>1. 1 \in DOMAIN MuxPackets[s]
      BY <1>1, <2>1
    <3>2. Raw(s, 1) < Raw(s, 2)
      BY <2>1, <3>1 DEF Increasing
    <3>. QED  BY <1>1, <2>1, <3>1, <3>2 DEF StepOf
  <2>2. CASE 2 \notin DOMAIN MuxPackets[s]
    BY <2>2 DEF StepOf
  <2>. QED  BY <2>1, <2>2
<1>4. ASSUME NEW i \in DOMAIN MuxPackets[s], NEW j \in DOMAIN MuxPackets[s], i < j
      PROVE  /\ Raw(s, j) >= Raw(s, i) + StepOf(s)
             /\ j = i + 1 => Raw(s, j) = Raw(s, i) + StepOf(s)
  <2>1. i + 1 \in DOMAIN MuxPackets[s] /\ i \in Nat /\ j \in Nat
    BY <1>1, <1>4
  <2>2. Raw(s, i + 1) = Raw(s, i) + StepOf(s)
    BY <1>2, <2>1
  <2>. DEFINE x == Raw(s, i)
              y == Raw(s, i + 1)
              z == Raw(s, j)
  <2>3. x \in Nat /\ y \in Nat /\ z \in Nat
    BY <1>1, <2>1
  <2>4. CASE j = i + 1
    <3>1. z = y /\ y = x + StepOf(s)
      BY <2>2, <2>4
    <3>2. z >= x + StepOf(s)
      <4>. HIDE DEF x, y, z
      <4>. QED  BY <1>3, <2>3, <3>1
    <3>. QED  BY <3>1, <3>2
  <2>5. CASE j # i + 1
    <3>1. i + 1 < j
      BY <1>4, <2>1, <2>5
    <3>2. y < z
      BY <2>1, <3>1 DEF Increasing
    <3>3. y = x + StepOf(s)
      BY <2>2
    <3>4. z >= x + StepOf(s)
      <4>. HIDE DEF x, y, z
      <4>. QED  BY <1>3, <2>3, <3>2, <3>3
    <3>. QED  BY <2>5, <3>4
  <2>. QED  BY <2>4, <2>5
<1>. QED  BY <1>3, <1>4

LEMMA UpcomingKept ==
    ASSUME Records, EndInOrder, ListsInOrder, MuxNext, ~MuxStart, muxThread.at # "over", NEW s \in MuxStreams,
           ~(MuxDeals /\ HoldsPacket /\ Taken(s))
    PROVE  Upcoming(s)' = Upcoming(s)
<1>. Pending(s) \in Int
  BY CountIs
<1>1. CASE MuxTakes
  <2>1. PICK t \in MuxStreams :
                /\ Taken(t)' /\ muxThread'.packet.i = Head(streams[t].buf)
                /\ IF Head(streams[t].buf) = EosPacket THEN Pending(t)' = Pending(t)
                   ELSE Head(streams[t].buf) = Pending(t) /\ Pending(t)' = Pending(t) + 1
                /\ \A r \in MuxStreams \ {t} : ~Taken(r)' /\ Pending(r)' = Pending(r)
    BY <1>1, TakeKeepsOrder
  <2>2. ~HoldsPacket
    BY <1>1 DEF MuxTakes, MayTake, HoldsPacket, HoldingPlaces
  <2>3. Taken(s)' /\ muxThread'.packet.i # EosPacket => HoldsPacket'
    BY DEF HoldsPacket, Taken, HoldingPlaces
  <2>. QED  BY <2>1, <2>2, <2>3 DEF Upcoming, HoldsPacket
<1>2. CASE ~MuxTakes
  <2>1. ~StopClears /\ ~StopAnswers
    BY DEF StopClears, StopAnswers, EndInOrder
  <2>2. Pending(s)' = Pending(s)
    BY <1>2, <2>1, PendingKept
  <2>3. (HoldsPacket /\ Taken(s))' => HoldsPacket /\ Taken(s)
    BY <1>2, TakenKept DEF HoldsPacket, Taken
  <2>4. HoldsPacket /\ Taken(s) => (HoldsPacket /\ Taken(s))'
    <3>1. CASE MuxDeals
      BY <3>1
    <3>2. CASE ~MuxDeals
      <4>1. muxThread'.packet = muxThread.packet
        BY <1>2, <3>2, ThreadFields
      <4>2. Taken(s) => muxThread'.at = muxThread.at
        BY <1>2, <3>2, ThreadFields DEF Taken, MuxOuter, MuxWakes, MuxLeaves, MuxNoMore, MuxTrailer, MayTake
      <4>. QED  BY <4>1, <4>2 DEF HoldsPacket, Taken
    <3>. QED  BY <3>1, <3>2
  <2>. QED  BY <2>2, <2>3, <2>4 DEF Upcoming
<1>. QED  BY <1>1, <1>2

LEMMA UpcomingDealt ==
    ASSUME Records, EndInOrder, ListsInOrder, MuxNext, MuxDeals, HoldsPacket, NEW s \in MuxStreams, Taken(s)
    PROVE  /\ muxThread.packet.i \in DOMAIN MuxPackets[s] /\ muxThread.packet.i \in Nat
           /\ Upcoming(s) = muxThread.packet.i /\ Upcoming(s)' = muxThread.packet.i + 1
<1>1. Pending(s) \in Int
  BY CountIs
<1>2. muxThread.packet.i # EosPacket
  BY DEF HoldsPacket
<1>3. muxThread.packet.i \in DOMAIN MuxPackets[s] /\ muxThread.packet.i \in Nat
  BY <1>2, HeldType
<1>4. muxThread.packet.i = Pending(s) - 1
  BY <1>2 DEF ListsInOrder, ListInOrder
<1>5. ~HoldsPacket'
  BY DealsIs DEF HoldsPacket, HoldingPlaces
<1>6. ~MuxStart /\ ~MuxTakes /\ ~StopClears /\ ~StopAnswers
  BY DEF MuxStart, MuxCalls, MuxTakes, MayTake, StopClears, StopAnswers, EndInOrder, HoldsPacket, HoldingPlaces
<1>7. Pending(s)' = Pending(s)
  BY <1>6, PendingKept
<1>. QED  BY <1>1, <1>3, <1>4, <1>5, <1>7 DEF Upcoming

(* Steps that write no packet of a stream.                                 *)
TimesSame(s) == \E u \in BOOLEAN : streams'[s].times = [streams[s].times EXCEPT !.resumed = u]

EntriesSame(s) ==
    EntriesOf(s)' = EntriesOf(s) /\ \A j \in EntriesOf(s) : muxFile'[j] = muxFile[j]

LEMMA ResumedSet ==
    ASSUME NEW t \in TimesRecord, NEW u \in BOOLEAN
    PROVE  LET r == [t EXCEPT !.resumed = u]
           IN /\ r.former = t.former /\ r.start = t.start /\ r.track = t.track /\ r.frame = t.frame
              /\ r.pausedFor = t.pausedFor /\ r.resumed = u
              /\ Unwritten(t) => Unwritten(r)
<1>. DEFINE r == [t EXCEPT !.resumed = u]
<1>1. /\ r.former = t.former /\ r.start = t.start /\ r.track = t.track /\ r.frame = t.frame
      /\ r.pausedFor = t.pausedFor /\ r.resumed = u
  BY DEF TimesRecord
<1>2. Unwritten(t) => Unwritten(r)
  <2>1. ASSUME Unwritten(t) PROVE r = [NewTimes EXCEPT !.resumed = u]
    <3>1. t = [NewTimes EXCEPT !.resumed = t.resumed]
      BY <2>1 DEF Unwritten
    <3>2. t = [former |-> 0, start |-> -1, track |-> 0, frame |-> -1, pausedFor |-> -1, resumed |-> t.resumed]
      BY <3>1 DEF NewTimes
    <3>3. r = [former |-> 0, start |-> -1, track |-> 0, frame |-> -1, pausedFor |-> -1, resumed |-> u]
      BY <3>2
    <3>. QED  BY <3>3 DEF NewTimes
  <2>. HIDE DEF r
  <2>. QED  BY <1>1, <2>1 DEF Unwritten
<1>. QED  BY <1>1, <1>2

LEMMA WrittenKept ==
    ASSUME NEW s \in MuxStreams, NEW last, WrittenUpTo(s, last), streams[s].times \in TimesRecord, TimesSame(s),
           EntriesSame(s), muxer'.header, last < Upcoming(s)',
           streams'[s].times.resumed \/ streams'[s].paused \/ last + 1 = Upcoming(s)'
    PROVE  WrittenUpTo(s, last)'
<1>. DEFINE t == streams[s].times
            r == streams'[s].times
<1>1. /\ r.former = t.former /\ r.start = t.start /\ r.track = t.track /\ r.frame = t.frame
      /\ r.pausedFor = t.pausedFor
  BY ResumedSet DEF TimesSame
<1>2. Paced(r, Raw(s, last), StepOf(s))
  <2>1. Paced(t, Raw(s, last), StepOf(s))
    BY DEF WrittenUpTo
  <2>. HIDE DEF t, r
  <2>. QED  BY <1>1, <2>1 DEF Paced, Excess, Ahead, CutOf
<1>3. ASSUME NEW j \in EntriesOf(s)'
      PROVE  RawIn(j)' - muxFile'[j].dts <= Raw(s, last) - r.former
  <2>1. j \in EntriesOf(s) /\ muxFile'[j] = muxFile[j]
    BY <1>3 DEF EntriesSame
  <2>2. RawIn(j) - muxFile[j].dts <= Raw(s, last) - t.former
    BY <2>1 DEF WrittenUpTo
  <2>. QED  BY <1>1, <2>1, <2>2 DEF RawIn
<1>. QED  BY <1>2, <1>3 DEF WrittenUpTo

LEMMA EvenUnwritten ==
    ASSUME Increasing, Records, EndInOrder, ListsInOrder, EvenTimes, KeyAfterPause, MuxNext, ~MuxStart,
           muxThread.at # "over", muxThread'.at # "over", NEW s \in MuxStreams, Even(s), ~MuxWrites(s)
    PROVE  \/ Unwritten(streams'[s].times) /\ EntriesOf(s)' = {}
           \/ \E last \in DOMAIN MuxPackets[s] : WrittenUpTo(s, last)'
<1>. /\ streams \in [MuxStreams -> StreamRecord] /\ streams[s].times \in TimesRecord
     /\ muxSeen \in SeenRecord /\ muxer \in MuxerRecord
  BY DEF Records, StreamRecord
<1>1. TimesSame(s)
  <2>1. ASSUME streams'[s].times = streams[s].times PROVE TimesSame(s)
    <3>1. streams[s].times = [streams[s].times EXCEPT !.resumed = streams[s].times.resumed]
          /\ streams[s].times.resumed \in BOOLEAN
      BY DEF TimesRecord
    <3>. QED  BY <2>1, <3>1 DEF TimesSame
  <2>2. CASE MuxPauses \/ MuxResumes
    BY <2>1, <2>2, FlagsIs, FlagIs DEF TimesSame
  <2>3. ASSUME NEW t \in MuxStreams, MuxWrites(t) PROVE streams'[s].times = streams[s].times
    BY <2>3, WritesIs
  <2>4. ~StopAnswers
    BY DEF StopAnswers, EndInOrder
  <2>. QED  BY <2>1, <2>2, <2>3, <2>4, StreamFields
<1>2. EntriesSame(s)
  <2>1. CASE SamePackets
    BY <2>1 DEF SamePackets, EntriesSame, EntriesOf
  <2>2. ASSUME NEW t \in MuxStreams, MuxWrites(t), OneMore(t) PROVE EntriesSame(s)
    <3>1. t # s /\ muxFile'[Len(muxFile) + 1].st = t
      BY <2>2 DEF OneMore, NewEntry
    <3>. QED  BY <2>2, <3>1 DEF OneMore, EntriesSame, EntriesOf
  <2>. QED  BY <2>1, <2>2, PacketsIs
<1>3. CASE Unwritten(streams[s].times) /\ EntriesOf(s) = {}
  BY <1>1, <1>2, <1>3, ResumedSet DEF TimesSame, EntriesSame
<1>4. ASSUME NEW last \in DOMAIN MuxPackets[s], WrittenUpTo(s, last)
      PROVE  WrittenUpTo(s, last)'
  <2>1. muxer.header /\ muxer'.header
    BY <1>4, MuxerFields DEF WrittenUpTo
  <2>2. last < Upcoming(s) /\ (streams[s].times.resumed \/ streams[s].paused \/ last + 1 = Upcoming(s))
    BY <1>4 DEF WrittenUpTo
  <2>3. last \in Nat /\ Upcoming(s) \in Int
    BY SetsAre, CountIs DEF Upcoming
  <2>4. CASE MuxDeals /\ HoldsPacket /\ Taken(s)
    <3>1. Upcoming(s)' = Upcoming(s) + 1
      BY <2>4, UpcomingDealt
    <3>2. MuxDiscards(s)
      BY <1>4, <2>1, <2>4
      DEF MuxDeals, MuxEos, MuxUndetermined, MuxMalformed, MuxDiscards, MuxWrites, MayWrite, Taken, HoldsPacket
    <3>3. streams' = streams
      BY <3>2 DEF MuxDiscards
    <3>4. streams[s].paused \/ streams[s].times.resumed
      BY <3>2 DEF MuxDiscards, KeyAfterPause, Even
    <3>5. last < Upcoming(s)'
      BY <2>2, <2>3, <3>1
    <3>. QED  BY <1>1, <1>2, <1>4, <2>1, <3>3, <3>4, <3>5, WrittenKept
  <2>5. CASE ~(MuxDeals /\ HoldsPacket /\ Taken(s))
    <3>1. Upcoming(s)' = Upcoming(s)
      BY <2>5, UpcomingKept
    <3>2. streams'[s].times.resumed \/ streams'[s].paused \/ last + 1 = Upcoming(s)
      <4>1. CASE MuxPauses \/ MuxResumes
        <5>1. streams[s] \in StreamRecord
          OBVIOUS
        <5>2. streams'[s] \in {streams[s], Paused(streams[s]), Resumed(streams[s])}
          BY <4>1, FlagsIs
        <5>3. Paused(streams[s]).paused /\ Resumed(streams[s]).times.resumed
          BY <5>1, FlagIs
        <5>. QED  BY <2>2, <5>2, <5>3
      <4>2. ASSUME NEW t \in MuxStreams, MuxWrites(t) PROVE streams'[s] = streams[s]
        BY <4>2, WritesIs
      <4>3. ~StopAnswers
        BY DEF StopAnswers, EndInOrder
      <4>. QED  BY <2>2, <4>1, <4>2, <4>3, StreamFields
    <3>. QED  BY <1>1, <1>2, <1>4, <2>1, <2>2, <3>1, <3>2, WrittenKept
  <2>. QED  BY <2>4, <2>5
<1>. QED  BY <1>3, <1>4 DEF EvenTimes

(* A step that writes a packet of a stream, after the packet last or as the first.   *)
LEMMA EvenWritten ==
    ASSUME Increasing, Records, EndInOrder, ListsInOrder, FileEntries, EvenTimes, MuxNext, ~MuxStart,
           muxThread.at # "over", NEW s \in MuxStreams, Even(s), MuxWrites(s)
    PROVE  /\ \E last \in DOMAIN MuxPackets[s] : WrittenUpTo(s, last)'
           /\ \A j \in EntriesOf(s) :
                RawIn(j) - muxFile[j].dts <= Raw(s, muxThread.packet.i) - streams'[s].times.former
<1>. DEFINE i == muxThread.packet.i
            t == streams[s].times
            r == streams'[s].times
            new == Raw(s, i)
            step == StepOf(s)
<1>1. /\ t \in TimesRecord /\ muxer \in MuxerRecord /\ r = Retimed(t, new) /\ r \in TimesRecord
      /\ streams'[s].paused = streams[s].paused
  BY WritesIs DEF Records, StreamRecord
<1>2. HoldsPacket /\ Taken(s) /\ MuxDeals
  BY DEF MuxWrites, MayWrite, Taken, HoldsPacket, HoldingPlaces, MuxDeals
<1>3. /\ i \in DOMAIN MuxPackets[s] /\ i \in Nat /\ Upcoming(s) = i /\ Upcoming(s)' = i + 1
      /\ new \in Nat /\ new >= 1
  BY <1>2, UpcomingDealt, SetsAre
<1>4. step \in Nat /\ step >= 1
  BY EvenSteps
<1>5. muxer'.header
  BY <1>1 DEF MuxWrites, MuxerRecord
<1>6. ~streams[s].paused
  BY DEF MuxWrites
<1>7. OneMore(s) \/ SamePackets
  <2>1. ASSUME NEW u \in MuxStreams, MuxWrites(u) PROVE u = s
    BY <1>2, <2>1 DEF MuxWrites, MayWrite, Taken
  <2>. QED  BY <2>1, PacketsIs
<1>8. ASSUME NEW j \in EntriesOf(s)', j \notin EntriesOf(s) \/ muxFile'[j] # muxFile[j]
      PROVE  RawIn(j)' = new /\ muxFile'[j].dts = r.former
  <2>1. OneMore(s) /\ j = Len(muxFile) + 1
    BY <1>7, <1>8 DEF SamePackets, OneMore, EntriesOf
  <2>2. muxFile'[j].st = s /\ muxFile'[j].i = i /\ muxFile'[j].dts = Retimed(t, new).former
    BY <2>1 DEF OneMore, NewEntry
  <2>. QED  BY <1>1, <2>2 DEF RawIn
<1>9. Paced(r, new, step) /\ \A j \in EntriesOf(s) : RawIn(j) - muxFile[j].dts <= new - r.former
  <2>1. CASE Unwritten(t) /\ EntriesOf(s) = {}
    <3>1. Paced(Retimed(t, new), new, step)
      <4>. HIDE DEF t, new, step
      <4>. QED  BY <1>1, <1>3, <1>4, <2>1, PacedStart
    <3>2. Paced(r, new, step)
      BY <1>1, <3>1
    <3>. QED  BY <2>1, <3>2
  <2>2. ASSUME NEW last \in DOMAIN MuxPackets[s], WrittenUpTo(s, last)
        PROVE  Paced(r, new, step) /\ \A j \in EntriesOf(s) : RawIn(j) - muxFile[j].dts <= new - r.former
    <3>. DEFINE raw == Raw(s, last)
    <3>1. /\ Paced(t, raw, step) /\ last < i /\ (t.resumed \/ last + 1 = i)
          /\ \A j \in EntriesOf(s) : RawIn(j) - muxFile[j].dts <= raw - t.former
      BY <1>3, <1>6, <2>2 DEF WrittenUpTo
    <3>2. raw \in Nat /\ new >= raw + step /\ (t.resumed \/ new = raw + step)
      BY <1>3, <3>1, EvenSteps, SetsAre
    <3>3. Paced(Retimed(t, new), new, step) /\ Retimed(t, new).former - t.former <= new - raw
      <4>. HIDE DEF t, raw, new, step
      <4>. QED  BY <1>1, <1>3, <1>4, <3>1, <3>2, PacedStep
    <3>4. r.former - t.former <= new - raw /\ r.former \in Int /\ t.former \in Int
      BY <1>1, <3>3 DEF TimesRecord
    <3>5. ASSUME NEW j \in EntriesOf(s) PROVE RawIn(j) - muxFile[j].dts <= new - r.former
      <4>. DEFINE x == RawIn(j)
                  d == muxFile[j].dts
                  f == r.former
                  g == t.former
      <4>1. x - d <= raw - g
        BY <3>1
      <4>2. d \in Int /\ x \in Int
        <5>1. j \in MuxPacketsIn /\ j \in DOMAIN muxFile /\ muxFile[j].st = s
          BY DEF EntriesOf, MuxPacketsIn
        <5>2. muxFile[j].i \in DOMAIN MuxPackets[s]
          BY <5>1 DEF FileEntries
        <5>3. x \in Nat
          BY <5>1, <5>2, SetsAre DEF RawIn
        <5>. QED  BY <5>1, <5>3, EntryType
      <4>3. f - g <= new - raw /\ f \in Int /\ g \in Int
        BY <3>4
      <4>4. x - d <= new - f
        <5>. HIDE DEF x, d, f, g, raw, new
        <5>. QED  BY <1>3, <3>2, <4>1, <4>2, <4>3
      <4>. QED  BY <4>4
    <3>. QED  BY <1>1, <3>3, <3>5
  <2>. QED  BY <2>1, <2>2 DEF EvenTimes
<1>10. ASSUME NEW j \in EntriesOf(s)' PROVE RawIn(j)' - muxFile'[j].dts <= new - r.former
  <2>1. CASE j \in EntriesOf(s) /\ muxFile'[j] = muxFile[j]
    BY <1>9, <2>1 DEF RawIn
  <2>2. CASE ~(j \in EntriesOf(s) /\ muxFile'[j] = muxFile[j])
    <3>1. RawIn(j)' = new /\ muxFile'[j].dts = r.former
      BY <1>8, <2>2
    <3>2. r.former \in Int
      BY <1>1 DEF TimesRecord
    <3>. QED  BY <1>3, <3>1, <3>2
  <2>. QED  BY <2>1, <2>2
<1>11. \E last \in DOMAIN MuxPackets[s] : WrittenUpTo(s, last)'
  <2>1. PICK k \in DOMAIN MuxPackets[s] : k = muxThread.packet.i
    BY <1>3
  <2>2. /\ muxer'.header /\ Paced(streams'[s].times, Raw(s, k), StepOf(s))
        /\ \A j \in EntriesOf(s)' : RawIn(j)' - muxFile'[j].dts <= Raw(s, k) - streams'[s].times.former
        /\ k < Upcoming(s)' /\ k + 1 = Upcoming(s)'
    BY <1>3, <1>5, <1>9, <1>10, <2>1
  <2>3. WrittenUpTo(s, k)'
    BY <2>2 DEF WrittenUpTo
  <2>. QED  BY <2>3
<1>. QED  BY <1>9, <1>11

LEMMA FirstKept ==
    ASSUME Records, MuxNext, ~MuxStart, NEW s \in MuxStreams
    PROVE  Even(s)' => Even(s)
BY SeenFields DEF Even, EvenPackets

LEMMA EvenTimesStep ==
    /\ Increasing /\ Records /\ CallsInOrder /\ EndInOrder /\ ListsInOrder /\ FileEntries /\ EvenTimes /\ FreshTimes
    /\ KeyAfterPause /\ MuxNext
    => EvenTimes'
<1>. SUFFICES ASSUME Increasing, Records, CallsInOrder, EndInOrder, ListsInOrder, FileEntries, EvenTimes, FreshTimes,
                     KeyAfterPause, MuxNext, muxThread'.at # "over", NEW s \in MuxStreams, Even(s)'
              PROVE  \/ Unwritten(streams'[s].times) /\ EntriesOf(s)' = {}
                     \/ \E last \in DOMAIN MuxPackets[s] : WrittenUpTo(s, last)'
  BY DEF EvenTimes
<1>1. CASE MuxStart
  <2>1. muxSeen'.first = muxSeen.next /\ streams'[s].times = streams[s].times /\ ~muxSeen.reset
    BY <1>1 DEF MuxStart, MuxCalls, Records, SeenRecord, StreamRecord
  <2>2. muxSeen.next[s] = 1
    BY <2>1 DEF Even
  <2>3. Unwritten(streams'[s].times)
    BY <2>1, <2>2 DEF FreshTimes
  <2>4. EntriesOf(s)' = {}
    BY <1>1 DEF MuxStart, EntriesOf, MuxPacketsIn
  <2>. QED  BY <2>3, <2>4
<1>2. CASE ~MuxStart
  <2>1. muxThread.at # "over" /\ Even(s)
    BY <1>2, PlaceKept, FirstKept
  <2>. QED  BY <1>2, <2>1, EvenUnwritten, EvenWritten
<1>. QED  BY <1>1, <1>2

LEMMA FreshStep ==
    Records /\ CallsInOrder /\ ListsInOrder /\ FreshTimes /\ MuxNext => FreshTimes'
<1>. SUFFICES ASSUME Records, CallsInOrder, ListsInOrder, FreshTimes, MuxNext, ~muxSeen'.reset,
                     NEW s \in MuxStreams, muxSeen'.next[s] = 1
              PROVE  Unwritten(streams'[s].times)
  BY DEF FreshTimes
<1>. /\ streams \in [MuxStreams -> StreamRecord] /\ streams[s].times \in TimesRecord /\ streams[s] \in StreamRecord
     /\ muxSeen \in SeenRecord /\ muxSeen.next \in [MuxStreams -> Nat]
  BY DEF Records, StreamRecord, SeenRecord
<1>1. ~muxSeen.reset
  BY SeenFields DEF MuxReset, SeenRecord
<1>2. muxSeen.next[s] = 1
  <2>1. muxSeen.next[s] >= 1
    BY CountIs DEF ListsInOrder, ListInOrder
  <2>2. CASE MuxWritesNext
    <3>1. PICK t \in MuxStreams, i \in Nat : MuxWrite(t, i)
      BY <2>2, SetsAre DEF MuxWritesNext
    <3>2. muxSeen'.next = (IF i = EosPacket THEN muxSeen.next
                           ELSE [muxSeen.next EXCEPT ![t] = muxSeen.next[t] + 1])
      BY <3>1, WriteSeenIs
    <3>3. muxSeen'.next[s] \in {muxSeen.next[s], muxSeen.next[s] + 1}
      BY <3>2
    <3>. QED  BY <2>1, <3>3
  <2>3. CASE ~MuxWritesNext
    BY <2>3, SeenFields
  <2>. QED  BY <2>2, <2>3
<1>3. Unwritten(streams[s].times)
  BY <1>1, <1>2 DEF FreshTimes
<1>4. CASE MuxPauses \/ MuxResumes
  <2>1. streams'[s] \in {streams[s], Paused(streams[s]), Resumed(streams[s])}
    BY <1>4, FlagsIs
  <2>2. \/ streams'[s].times = streams[s].times
        \/ \E u \in BOOLEAN : streams'[s].times = [streams[s].times EXCEPT !.resumed = u]
    BY <2>1, FlagIs
  <2>3. ASSUME NEW u \in BOOLEAN, streams'[s].times = [streams[s].times EXCEPT !.resumed = u]
        PROVE  Unwritten(streams'[s].times)
    <3>1. Unwritten([streams[s].times EXCEPT !.resumed = u])
      BY <1>3, ResumedSet
    <3>. QED  BY <2>3, <3>1
  <2>. QED  BY <1>3, <2>2, <2>3
<1>5. CASE StopAnswers
  <2>1. streams' = streams
    BY <1>1, <1>5 DEF StopAnswers, CallsInOrder
  <2>. QED  BY <1>3, <2>1
<1>6. ASSUME NEW t \in MuxStreams, MuxWrites(t) PROVE streams'[s].times = streams[s].times
  <2>1. CASE t = s
    <3>1. Taken(s) /\ muxThread.packet.i # EosPacket
      BY <1>6, <2>1 DEF MuxWrites, MayWrite
    <3>2. muxThread.packet.i = Pending(s) - 1 /\ muxThread.packet.i >= 1
      BY <3>1 DEF ListsInOrder, ListInOrder
    <3>3. muxThread.packet.i \in Nat
      BY <3>1, HeldType
    <3>. QED  BY <1>2, <3>2, <3>3, CountIs
  <2>2. CASE t # s
    BY <1>6, <2>2, WritesIs
  <2>. QED  BY <2>1, <2>2
<1>. QED  BY <1>3, <1>4, <1>5, <1>6, StreamFields

(* No packet of an even stream comes later in the file than it was made.   *)
EvenSlack ==
    \A i, j \in MuxPacketsIn :
        i < j /\ muxFile[i].st = muxFile[j].st /\ Even(muxFile[j].st) =>
            muxFile[j].dts - muxFile[i].dts <= RawIn(j) - RawIn(i)

LEMMA SlackStep ==
    /\ Increasing /\ Records /\ EndInOrder /\ ListsInOrder /\ FileEntries /\ EvenTimes /\ EvenSlack /\ MuxNext
    => EvenSlack'
<1>. SUFFICES ASSUME Increasing, Records, EndInOrder, ListsInOrder, FileEntries, EvenTimes, EvenSlack, MuxNext,
                     NEW i \in MuxPacketsIn', NEW j \in MuxPacketsIn', i < j, muxFile'[i].st = muxFile'[j].st,
                     Even(muxFile[j].st)'
              PROVE  muxFile'[j].dts - muxFile'[i].dts <= RawIn(j)' - RawIn(i)'
  BY DEF EvenSlack
<1>1. ~MuxStart
  BY DEF MuxStart, MuxPacketsIn
<1>2. ASSUME i \in MuxPacketsIn, j \in MuxPacketsIn, muxFile'[i] = muxFile[i], muxFile'[j] = muxFile[j]
      PROVE  muxFile'[j].dts - muxFile'[i].dts <= RawIn(j)' - RawIn(i)'
  <2>1. muxFile[i].st = muxFile[j].st /\ RawIn(i)' = RawIn(i) /\ RawIn(j)' = RawIn(j)
    BY <1>2 DEF RawIn
  <2>2. Even(muxFile[j].st)
    BY <1>1, <1>2, SeenFields DEF Even, EvenPackets
  <2>3. muxFile[j].dts - muxFile[i].dts <= RawIn(j) - RawIn(i)
    BY <1>2, <2>1, <2>2 DEF EvenSlack
  <2>. QED  BY <1>2, <2>1, <2>3
<1>3. ASSUME NEW s \in MuxStreams, MuxWrites(s), OneMore(s)
      PROVE  muxFile'[j].dts - muxFile'[i].dts <= RawIn(j)' - RawIn(i)'
  <2>1. i \in MuxPacketsIn
    <3>1. Len(muxFile) \in Nat /\ MuxPacketsIn \subseteq 1 .. Len(muxFile)
      BY DEF MuxPacketsIn, Records
    <3>. QED  BY <1>3, <3>1 DEF OneMore
  <2>2. muxFile'[i] = muxFile[i]
    BY <1>3, <2>1 DEF OneMore
  <2>3. CASE j \in MuxPacketsIn
    BY <1>2, <1>3, <2>1, <2>2, <2>3 DEF OneMore
  <2>4. CASE j = Len(muxFile) + 1
    <3>1. muxFile'[j] = NewEntry(s)
      BY <1>3, <2>4 DEF OneMore
    <3>2. muxFile'[j].st = s /\ RawIn(j)' = Raw(s, muxThread.packet.i) /\ muxFile'[j].dts = streams'[s].times.former
      BY <1>3, <3>1, WritesIs DEF NewEntry, RawIn
    <3>3. Even(s) /\ i \in EntriesOf(s) /\ muxThread.at # "over"
      BY <1>1, <1>3, <2>1, <2>2, <3>2, SeenFields DEF Even, EvenPackets, EntriesOf, MuxWrites, MayWrite, Taken
    <3>. DEFINE x == RawIn(i)
                d == muxFile[i].dts
                new == Raw(s, muxThread.packet.i)
                f == streams'[s].times.former
    <3>4. x - d <= new - f
      BY <1>1, <1>3, <3>3, EvenWritten
    <3>5. x \in Int /\ d \in Int /\ new \in Int /\ f \in Int
      <4>1. i \in DOMAIN muxFile /\ muxFile[i].st = s
        BY <3>3 DEF EntriesOf, MuxPacketsIn
      <4>2. muxFile[i].i \in DOMAIN MuxPackets[s]
        BY <4>1 DEF FileEntries
      <4>3. x \in Nat
        BY <4>1, <4>2, SetsAre DEF RawIn
      <4>4. new \in Nat /\ streams'[s].times \in TimesRecord
        BY <1>3, WritesIs
      <4>. QED  BY <2>1, <4>3, <4>4, EntryType DEF TimesRecord
    <3>6. f - d <= new - x
      <4>. HIDE DEF x, d, new, f
      <4>. QED  BY <3>4, <3>5
    <3>7. RawIn(i)' = x
      BY <2>2 DEF RawIn
    <3>. QED  BY <2>2, <3>2, <3>6, <3>7
  <2>. QED  BY <1>3, <2>3, <2>4 DEF OneMore
<1>. QED  BY <1>1, <1>2, <1>3, PacketsIs DEF SamePackets

-----------------------------------------------------------------------------
(* The theorems.                                                            *)

MuxInv ==
    /\ Records /\ CallsInOrder /\ EndInOrder /\ ListsInOrder /\ ListsCleared /\ EosSomewhere
    /\ LeavesForReason /\ EosForReason /\ DiscardsForReason /\ NothingLeft /\ NothingLost
    /\ KeyAfterPause /\ FreshTimes /\ FileEntries /\ FormerIsLast /\ NeverBack /\ WritesFindThread

LEMMA MuxInitInv == MuxInit => MuxInv /\ Interleaved /\ OthersAreLater /\ EvenTimes /\ EvenSlack
<1>. SUFFICES ASSUME MuxInit PROVE MuxInv /\ Interleaved /\ OthersAreLater /\ EvenTimes /\ EvenSlack
  OBVIOUS
<1>1. /\ muxer.state = "idle" /\ ~muxer.eos /\ ~muxer.checkKey /\ muxer \in MuxerRecord
      /\ muxThread = [at |-> "over", sem |-> 0, continue |-> FALSE, packet |-> NoPacket]
      /\ muxCall = [op |-> "none", step |-> "none"] /\ muxFile = <<>>
      /\ streams = [s \in MuxStreams |-> NewStream]
  BY DEF MuxInit, MuxerRecord, MuxStates, NoCall
<1>2. /\ muxSeen.told = 0 /\ ~muxSeen.reset /\ ~muxSeen.malformed /\ ~muxSeen.orphan /\ muxSeen.sent = {}
      /\ muxSeen.next = [s \in MuxStreams |-> 1] /\ muxSeen.first = [s \in MuxStreams |-> 1]
      /\ muxSeen \in SeenRecord
  BY DEF MuxInit, SeenRecord
<1>3. \A s \in MuxStreams : /\ streams[s].buf = <<>> /\ ~streams[s].eos /\ ~streams[s].paused
                            /\ streams[s].times = NewTimes
  BY <1>1 DEF NewStream
<1>4. Records
  <2>1. streams \in [MuxStreams -> StreamRecord]
    BY <1>1, NewIs
  <2>2. muxThread \in ThreadRecord /\ muxThread.at = "over"
    BY <1>1, SetsAre DEF ThreadRecord, ThreadPlaces
  <2>3. muxCall \in CallRecord /\ muxFile \in Seq(EntryRecord)
    BY <1>1 DEF CallRecord, MuxOps, MuxSteps
  <2>. QED  BY <1>1, <1>2, <2>1, <2>2, <2>3 DEF Records, HoldingPlaces
<1>5. CallsInOrder /\ EndInOrder /\ ListsCleared /\ EosSomewhere /\ EosForReason /\ DiscardsForReason
      /\ NothingLeft /\ KeyAfterPause /\ WritesFindThread
  BY <1>1, <1>2, <1>3 DEF FlagOps, FlagSteps, CallsInOrder, EndInOrder, ListsCleared, EosSomewhere, EosForReason, DiscardsForReason,
     NothingLeft, KeyAfterPause, WritesFindThread
<1>6. LeavesForReason
  BY <1>1 DEF LeavesForReason
<1>7. ListsInOrder
  <2>. SUFFICES ASSUME NEW s \in MuxStreams PROVE ListInOrder(s)
    BY DEF ListsInOrder
  <2>1. Len(streams[s].buf) = 0 /\ Count(s) = 0 /\ Pending(s) = 1 /\ muxSeen.next[s] = 1 /\ muxSeen.first[s] = 1
    BY <1>2, <1>3 DEF Count, Pending
  <2>2. ~Taken(s)
    BY <1>1 DEF Taken
  <2>. QED  BY <1>3, <2>1, <2>2 DEF ListInOrder
<1>8. NothingLost
  BY <1>1, <1>2 DEF NothingLost, Excused, MuxStreams
<1>9. FreshTimes
  <2>1. Unwritten(NewTimes)
    BY DEF Unwritten, NewTimes
  <2>. QED  BY <1>3, <2>1 DEF FreshTimes
<1>10. MuxPacketsIn = {} /\ muxThread.at = "over" /\ DOMAIN muxFile = {}
  BY <1>1 DEF MuxPacketsIn
<1>11. FileEntries /\ FormerIsLast /\ NeverBack /\ Interleaved /\ OthersAreLater /\ EvenTimes /\ EvenSlack
  BY <1>10 DEF FileEntries, FormerIsLast, NeverBack, Interleaved, OthersAreLater, EvenTimes, EvenSlack
<1>. QED  BY <1>4, <1>5, <1>6, <1>7, <1>8, <1>9, <1>11 DEF MuxInv

LEMMA FindsStep == Records /\ CallsInOrder /\ WritesFindThread /\ MuxNext => WritesFindThread'
<1>. SUFFICES ASSUME Records, CallsInOrder, WritesFindThread, MuxNext, muxSeen'.orphan PROVE muxSeen'.reset
  BY DEF WritesFindThread
<1>1. CASE MuxWritesNext
  <2>1. PICK s \in MuxStreams, i \in Nat : MuxWrite(s, i)
    BY <1>1, SetsAre DEF MuxWritesNext, Records, SeenRecord
  <2>2. muxSeen'.orphan = ~muxer.thread /\ muxSeen'.reset = muxSeen.reset /\ muxer.state = "started"
    BY <2>1, WriteSeenIs DEF MuxWrite
  <2>. QED  BY <2>2 DEF CallsInOrder
<1>2. CASE ~MuxWritesNext
  <2>1. muxSeen.reset
    BY <1>2, SeenFields DEF WritesFindThread
  <2>. QED  BY <2>1, SeenFields DEF MuxReset, Records, SeenRecord
<1>. QED  BY <1>1, <1>2

LEMMA MuxInvStep == MuxInv /\ [MuxNext]_muxVars => MuxInv'
<1>1. ASSUME MuxInv, MuxNext PROVE MuxInv'
  <2>1. ListsInOrder'
    BY <1>1, ListsStep DEF MuxInv
  <2>. QED  BY <1>1, <2>1, RecordsStep, CallsStep, EndStep, ClearedStep, EosStep, LeavesStep, EosReasonStep,
               DiscardsStep, NothingLeftStep, NothingLostStep, KeyStep, FreshStep, EntriesStep, FormerStep,
               NeverBackStep, FindsStep DEF MuxInv
<1>2. ASSUME MuxInv, UNCHANGED muxVars PROVE MuxInv'
  <2>. UNCHANGED <<muxer, streams, muxThread, muxCall, muxFile, muxSeen>>
    BY <1>2 DEF muxVars
  <2>1. (Records /\ CallsInOrder /\ EndInOrder)' 
    BY <1>2 DEF MuxInv, Records, CallsInOrder, EndInOrder
  <2>2. (ListsInOrder /\ ListsCleared /\ EosSomewhere)'
    BY <1>2 DEF MuxInv, ListsInOrder, ListInOrder, Pending, Count, Taken, ListsCleared, EosSomewhere
  <2>3. (LeavesForReason /\ EosForReason /\ DiscardsForReason /\ NothingLeft /\ WritesFindThread)'
    BY <1>2 DEF MuxInv, LeavesForReason, EosForReason, DiscardsForReason, NothingLeft, WritesFindThread
  <2>4. NothingLost'
    BY <1>2 DEF MuxInv, NothingLost, Excused, InFile, Pending, Count, Taken
  <2>5. (KeyAfterPause /\ FreshTimes)'
    BY <1>2 DEF MuxInv, KeyAfterPause, FreshTimes
  <2>6. (FileEntries /\ FormerIsLast /\ NeverBack)'
    BY <1>2 DEF MuxInv, FileEntries, FormerIsLast, NeverBack, MuxPacketsIn
  <2>. QED  BY <2>1, <2>2, <2>3, <2>4, <2>5, <2>6 DEF MuxInv
<1>. QED  BY <1>1, <1>2

(* The invariant that all results below rest on is one.                     *)
THEOREM MuxInvHolds == MuxSpec => []MuxInv
<1>1. MuxInit => MuxInv
  BY MuxInitInv
<1>. QED  BY <1>1, MuxInvStep, PTL DEF MuxSpec

(* Types: every list holds packets of its stream, the file its packets and   *)
(* trailers.                                                                *)
LEMMA ListType ==
    ASSUME Records, ListsInOrder, NEW s \in MuxStreams
    PROVE  streams[s].buf \in Seq({EosPacket} \cup DOMAIN MuxPackets[s])
<1>. DEFINE buf == streams[s].buf
            S == {EosPacket} \cup DOMAIN MuxPackets[s]
<1>1. buf \in Seq(Nat) /\ Len(buf) \in Nat
  BY CountIs
<1>2. ASSUME NEW k \in 1 .. Len(buf) PROVE buf[k] \in S
  <2>1. ListInOrder(s)
    BY DEF ListsInOrder
  <2>2. buf[k] = IF s \in muxSeen.sent /\ k = Len(buf) THEN EosPacket ELSE Pending(s) + k - 1
    BY <2>1 DEF ListInOrder
  <2>3. CASE ~(s \in muxSeen.sent /\ k = Len(buf))
    <3>1. k <= Count(s)
      <4>. DEFINE n == Len(buf)
      <4>1. Count(s) = n \/ (Count(s) = n - 1 /\ s \in muxSeen.sent)
        BY DEF Count
      <4>2. k \in 1 .. n /\ n \in Nat /\ ~(s \in muxSeen.sent /\ k = n)
        BY <1>1, <2>3
      <4>. HIDE DEF n
      <4>. QED  BY <4>1, <4>2
    <3>2. /\ Pending(s) \in Int /\ Pending(s) >= 1 /\ muxSeen.next[s] \in Nat /\ Count(s) \in Nat
          /\ Pending(s) = muxSeen.next[s] - Count(s)
      BY <2>1, CountIs DEF ListInOrder, Pending
    <3>3. k \in Nat /\ k >= 1
      BY <1>1
    <3>4. Pending(s) + k - 1 \in 1 .. muxSeen.next[s] - 1
      <4>. DEFINE p == Pending(s)
                  c == Count(s)
                  n == muxSeen.next[s]
      <4>1. k <= c /\ p \in Int /\ p >= 1 /\ n \in Nat /\ c \in Nat /\ p = n - c
        BY <3>1, <3>2
      <4>. HIDE DEF p, c, n
      <4>2. p + k - 1 \in 1 .. n - 1
        BY <3>3, <4>1
      <4>. QED  BY <4>2 DEF p, n
    <3>5. Pending(s) + k - 1 \in DOMAIN MuxPackets[s]
      BY <2>1, <3>4 DEF ListInOrder
    <3>. QED  BY <2>2, <2>3, <3>5
  <2>. QED  BY <2>2, <2>3
<1>. HIDE DEF S
<1>3. buf \in Seq(S)
  <2>. HIDE DEF buf
  <2>. QED  BY <1>1, <1>2
<1>. QED  BY <1>3 DEF S

(* The type invariant, which the run checks as a part of its own.          *)
THEOREM MuxTypeCorrect == MuxSpec => []MuxTypeOK
<1>1. MuxInv => MuxTypeOK
  <2>. SUFFICES ASSUME MuxInv PROVE MuxTypeOK
    OBVIOUS
  <2>1. Records /\ ListsInOrder
    BY DEF MuxInv
  <2>2. muxer \in [state : {"idle", "started", "stopping"}, eos : BOOLEAN, header : BOOLEAN,
                   checkKey : BOOLEAN, thread : BOOLEAN, max : MaxDurations]
    BY <2>1 DEF Records, MuxerRecord, MuxStates
  <2>3. ASSUME NEW s \in MuxStreams
        PROVE  /\ streams[s].buf \in Seq({EosPacket} \cup DOMAIN MuxPackets[s])
               /\ streams[s].eos \in BOOLEAN /\ streams[s].extra \in BOOLEAN /\ streams[s].paused \in BOOLEAN
               /\ streams[s].times \in [former : Int, start : Int, track : Int, frame : Int,
                                        pausedFor : Int, resumed : BOOLEAN]
    <3>1. streams[s] \in StreamRecord
      BY <2>1 DEF Records
    <3>2. streams[s].eos \in BOOLEAN /\ streams[s].extra \in BOOLEAN /\ streams[s].paused \in BOOLEAN
          /\ streams[s].times \in TimesRecord
      BY <3>1 DEF StreamRecord
    <3>. QED  BY <2>1, <3>2, ListType DEF TimesRecord
  <2>4. muxThread.at \in ThreadPlaces /\ muxThread.sem \in Nat /\ muxThread.continue \in BOOLEAN
    BY <2>1 DEF Records, ThreadRecord
  <2>5. muxCall \in [op : {"none", "pause", "resume", "stop", "reset"},
                     step : {"none", "video", "key", "posted", "join", "clear", "release", "end"}]
    BY <2>1 DEF Records, CallRecord, MuxOps, MuxSteps
  <2>6. \A i \in DOMAIN muxFile : muxFile[i].st \in StreamsOrTrailer
    <3>1. \A i \in DOMAIN muxFile : muxFile[i] \in EntryRecord
      BY <2>1 DEF Records
    <3>. QED  BY <3>1 DEF EntryRecord
  <2>. QED  BY <2>2, <2>3, <2>4, <2>5, <2>6 DEF MuxTypeOK, ThreadPlaces, StreamsOrTrailer
<1>. QED  BY <1>1, MuxInvHolds, PTL

(* The end of a recording is told once, by a stop at the latest, of a file  *)
(* in which no packet is missing without a reason.                          *)
THEOREM RecordingComplete == MuxSpec => []CompleteAtEnd
<1>1. MuxInv => CompleteAtEnd
  <2>. SUFFICES ASSUME MuxInv PROVE CompleteAtEnd
    OBVIOUS
  <2>1. muxSeen.told <= 1
    BY DEF MuxInv, EndInOrder
  <2>2. muxCall.step \in {"clear", "release"} => muxSeen.told = 1 \/ muxSeen.malformed
    BY DEF MuxInv, EndInOrder, CallsInOrder
  <2>3. ASSUME muxSeen.told > 0, muxSeen.sent = MuxStreams, ~muxSeen.reset, ~muxSeen.dropped,
               NEW s \in MuxStreams, NEW i \in muxSeen.first[s] .. muxSeen.next[s] - 1
        PROVE  InFile(s, i)
    <3>1. muxThread.at = "over" /\ ~muxSeen.malformed
      <4>1. ~(muxSeen.told = 0)
        BY <2>3
      <4>. QED  BY <4>1 DEF MuxInv, EndInOrder
    <3>2. InFile(s, i) \/ i >= Pending(s)
      BY <2>3, <3>1 DEF MuxInv, NothingLost, Excused, Taken
    <3>3. streams[s].buf = <<>>
      BY <2>3 DEF MuxInv, NothingLeft
    <3>4. Pending(s) = muxSeen.next[s] /\ muxSeen.next[s] \in Nat /\ muxSeen.first[s] \in Nat
      <4>1. Count(s) = 0
        BY <3>3 DEF Count
      <4>. QED  BY <4>1, CountIs DEF MuxInv, Pending
    <3>. QED  BY <3>2, <3>4
  <2>. QED  BY <2>1, <2>2, <2>3 DEF CompleteAtEnd, InFile
<1>. QED  BY <1>1, MuxInvHolds, PTL

(* A write finds a mux thread, unless the muxer is reset without a stop.    *)
THEOREM WritesAlwaysFindThread == MuxSpec => []WritesFindThread
<1>1. MuxInv => WritesFindThread
  BY DEF MuxInv
<1>. QED  BY <1>1, MuxInvHolds, PTL

(* When the times of every stream increase, as FFmpeg demands of those who   *)
(* write with it, the file is in their order; and the times of a stream     *)
(* continue whatever pauses were cut out.                                   *)
OrderInv == MuxInv /\ OthersAreLater /\ Interleaved /\ EvenTimes /\ EvenSlack

LEMMA OrderInvStep == Increasing /\ OrderInv /\ [MuxNext]_muxVars => OrderInv'
<1>1. ASSUME Increasing, OrderInv, MuxNext PROVE OrderInv'
  <2>1. MuxInv /\ MuxInv'
    BY <1>1, MuxInvStep DEF OrderInv
  <2>2. OthersAreLater' /\ Interleaved'
    BY <1>1, <2>1, OthersLaterStep, InterleavedStep DEF OrderInv, MuxInv
  <2>3. EvenTimes' /\ EvenSlack'
    BY <1>1, <2>1, EvenTimesStep, SlackStep DEF OrderInv, MuxInv
  <2>. QED  BY <2>1, <2>2, <2>3 DEF OrderInv
<1>2. ASSUME OrderInv, UNCHANGED muxVars PROVE OrderInv'
  <2>. UNCHANGED <<muxer, streams, muxThread, muxCall, muxFile, muxSeen>>
    BY <1>2 DEF muxVars
  <2>1. MuxInv'
    BY <1>2, MuxInvStep DEF OrderInv
  <2>2. OthersAreLater' /\ Interleaved'
    BY <1>2 DEF OrderInv, OthersAreLater, Interleaved, MuxPacketsIn, AllLater, RawIn, HeldRaw, HoldsPacket,
           Pending, Count
  <2>3. EvenTimes'
    BY <1>2 DEF OrderInv, EvenTimes, Even, EvenPackets, EntriesOf, MuxPacketsIn, WrittenUpTo, RawIn, Upcoming,
           HoldsPacket, Taken,
                Pending, Count
  <2>4. EvenSlack'
    BY <1>2 DEF OrderInv, EvenSlack, Even, EvenPackets, MuxPacketsIn, RawIn
  <2>. QED  BY <2>1, <2>2, <2>3, <2>4 DEF OrderInv
<1>. QED  BY <1>1, <1>2

(* The file is in the order of the encoders' times with nothing behind the   *)
(* trailer, the times of a stream never go back, and those of an even stream,*)
(* in its first recording, never run ahead of the encoder's, unless a packet *)
(* slipped through a resume (mux, getMinFirstBuffer_l and the retiming).     *)
THEOREM FileInOrderHolds == Increasing => (MuxSpec => []FileInOrder)
<1>. SUFFICES ASSUME Increasing PROVE MuxSpec => []FileInOrder
  OBVIOUS
<1>1. MuxInit => OrderInv
  BY MuxInitInv DEF OrderInv
<1>2. OrderInv /\ [MuxNext]_muxVars => OrderInv'
  BY OrderInvStep
<1>3. OrderInv => FileInOrder
  <2>. SUFFICES ASSUME OrderInv PROVE TimesContinue
    BY DEF OrderInv, FileInOrder
  <2>. SUFFICES ASSUME NEW i \in MuxPacketsIn, NEW j \in MuxPacketsIn, i < j, muxFile[i].st = muxFile[j].st
                PROVE  /\ muxFile[i].dts <= muxFile[j].dts
                       /\ Even(muxFile[j].st) =>
                            muxFile[j].dts - muxFile[i].dts
                                <= Raw(muxFile[j].st, muxFile[j].i) - Raw(muxFile[i].st, muxFile[i].i)
    BY DEF TimesContinue
  <2>1. muxFile[i].dts <= muxFile[j].dts
    BY DEF OrderInv, MuxInv, NeverBack
  <2>2. Even(muxFile[j].st) => muxFile[j].dts - muxFile[i].dts <= RawIn(j) - RawIn(i)
    BY DEF OrderInv, EvenSlack
  <2>. QED  BY <2>1, <2>2 DEF RawIn
<1>. QED  BY <1>1, <1>2, <1>3, PTL DEF MuxSpec

=============================================================================
