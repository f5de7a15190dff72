-------------------------- MODULE AVDemuxerProofs --------------------------
(***************************************************************************)
(* Proofs about AVDemuxer, for every file (any packets of its three tracks  *)
(* in any order, with any times and key frames), every buffering time and   *)
(* every number of calls.                                                  *)
(***************************************************************************)
EXTENDS AVDemuxer, SequenceTheorems, WellFoundedInduction, TLAPS

-----------------------------------------------------------------------------
(* The demuxer: types.                                                     *)

DemuxRecord ==
    [state : {"idle", "preparing", "prepared", "started"}, seekTo : {NoSeek} \cup SeekTimes,
     seeks : Seq(Nat), bufState : {"none", "buffering", "normal", "full", "eos"},
     reported : Int, checkKey : BOOLEAN, posted : BOOLEAN]
ReaderRecord ==
    [at : {"none", "wait", "top", "reading"}, sem : Nat, continue : BOOLEAN, corked : BOOLEAN, exit : BOOLEAN]
TracksRecord ==
    [cur : Seq(Entries), pend : Seq(Entries), selected : VideoTracks,
     pending : VideoTracks \cup {NoTrack}, begun : BOOLEAN]
FileRecord == [pos : 1 .. Len(File) + 1, discard : SUBSET FileStreams]
CallRecord == [op : {"none", "stop", "reset"}, step : {"none", "wait", "drop", "join"}]
DemuxSeenRecord ==
    [calls : Nat, asked : Nat, answered : Seq(Nat), dropped : SUBSET Nat, lastV : Entries,
     lastA : Entries, jumpedV : BOOLEAN, jumpedA : BOOLEAN, target : {NoSeek} \cup SeekTimes,
     shift : Nat, switched : BOOLEAN]

DemuxRecords ==
    /\ demux \in DemuxRecord
    /\ reader \in ReaderRecord
    /\ tracks \in TracksRecord
    /\ audioList \in Seq(Entries)
    /\ file \in FileRecord
    /\ demuxCall \in CallRecord
    /\ demuxSeen \in DemuxSeenRecord

LEMMA FileIs ==
    /\ Len(File) \in Nat /\ DOMAIN File = 1 .. Len(File)
    /\ \A i \in 1 .. Len(File) : File[i].st \in FileStreams /\ File[i].ts \in Nat /\ File[i].key \in BOOLEAN
<1>. DEFINE S == [st : FileStreams, ts : Nat, key : BOOLEAN]
<1>1. File \in Seq(S) /\ \A r \in S : r.st \in FileStreams /\ r.ts \in Nat /\ r.key \in BOOLEAN
  BY DemuxAssumption
<1>. HIDE DEF S
<1>. QED  BY <1>1

LEMMA DurationIs == Duration \in Nat
<1>1. CASE File = <<>>
  BY <1>1 DEF Duration
<1>2. CASE File # <<>>
  <2>1. Len(File) \in 1 .. Len(File)
    BY <1>2, DemuxAssumption
  <2>. QED  BY <1>2, <2>1, FileIs DEF Duration, Last
<1>. QED  BY <1>1, <1>2

LEMMA SeekTimesAre ==
    /\ SeekTimes \subseteq Nat /\ 0 \in SeekTimes
    /\ \A ts \in 0 .. Duration : ts + StartTime \in SeekTimes
  BY DurationIs, DemuxAssumption DEF SeekTimes

LEMMA EntriesAre ==
    /\ Entries = {Eos} \cup 1 .. Len(File) /\ Eos = 0
    /\ \A e \in Entries : e \in Nat /\ Ts(e) \in Int /\ (e # Eos => Ts(e) \in Nat)
  BY FileIs DEF Entries, Eos, Ts

LEMMA AppendIs ==
    ASSUME NEW S, NEW s \in Seq(S), NEW x \in S
    PROVE  /\ Append(s, x) \in Seq(S) /\ Len(Append(s, x)) = Len(s) + 1
           /\ \A i \in 1 .. Len(s) : Append(s, x)[i] = s[i]
           /\ Append(s, x)[Len(s) + 1] = x
           /\ Append(s, x) # <<>>
  OBVIOUS

LEMMA TailIs ==
    ASSUME NEW S, NEW s \in Seq(S), s # <<>>
    PROVE  /\ Tail(s) \in Seq(S) /\ Len(s) \in Nat /\ Len(s) > 0 /\ Len(Tail(s)) = Len(s) - 1
           /\ Head(s) = s[1] /\ Head(s) \in S
           /\ \A i \in 1 .. Len(s) - 1 : Tail(s)[i] = s[i + 1]
  OBVIOUS

LEMMA SuffixIs ==
    ASSUME NEW S, NEW s \in Seq(S), NEW n \in 1 .. Len(s)
    PROVE  /\ SubSeq(s, n, Len(s)) \in Seq(S) /\ Len(SubSeq(s, n, Len(s))) = Len(s) - n + 1
           /\ \A i \in 1 .. Len(s) - n + 1 : SubSeq(s, n, Len(s))[i] = s[i + n - 1]
  OBVIOUS

LEMMA EmptyIs == ASSUME NEW S PROVE <<>> \in Seq(S) /\ Len(<<>>) = 0
  OBVIOUS

(* A set of natural numbers has a least one, and a bounded one a largest.   *)
LEMMA LeastIs ==
    ASSUME NEW T, T \subseteq Nat, T # {}
    PROVE  Min(T) \in T /\ \A i \in T : Min(T) <= i
<1>. DEFINE R == {ss \in Nat \X Nat : ss[1] < ss[2]}
<1>1. OpToRel(<, Nat) = R
  BY DEF OpToRel
<1>2. IsWellFoundedOn(R, Nat)
  BY <1>1, NatLessThanWellFounded
<1>3. \A x, y \in Nat : y < x => <<y, x>> \in R
  OBVIOUS
<1>. HIDE DEF R
<1>4. \E x \in T : \A y \in T : ~ (<<y, x>> \in R)
  BY <1>2, WFMin, Zenon
<1>5. \E x \in T : \A y \in T : x <= y
  <2>1. PICK x \in T : \A y \in T : ~ (<<y, x>> \in R)
    BY <1>4
  <2>2. ASSUME NEW y \in T PROVE x <= y
    <3>1. x \in Nat /\ y \in Nat /\ ~(y < x)
      BY <1>3, <2>1
    <3>. QED  BY <3>1
  <2>. QED  BY <2>2
<1>. QED  BY <1>5 DEF Min

LEMMA GreatestIs ==
    ASSUME NEW n \in Nat, NEW T, T \subseteq 0 .. n, T # {}
    PROVE  Max(T) \in T /\ \A i \in T : i <= Max(T)
<1>. DEFINE U == {n - i : i \in T}
<1>1. U \subseteq Nat /\ U # {}
  <2>1. \A i \in T : i \in 0 .. n /\ n - i \in Nat
    OBVIOUS
  <2>. QED  BY <2>1
<1>2. Min(U) \in U /\ \A u \in U : Min(U) <= u
  BY <1>1, LeastIs
<1>3. PICK x \in T : Min(U) = n - x
  BY <1>2
<1>4. \A i \in T : i <= x
  <2>1. SUFFICES ASSUME NEW i \in T PROVE i <= x
    OBVIOUS
  <2>2. n - i \in U
    OBVIOUS
  <2>3. n - x <= n - i /\ i \in Int /\ x \in Int
    <3>1. Min(U) <= n - i
      BY <1>2, <2>2
    <3>2. i \in 0 .. n /\ x \in 0 .. n
      OBVIOUS
    <3>. QED  BY <1>3, <3>1, <3>2
  <2>. QED  BY <2>3
<1>. QED  BY <1>4 DEF Max

-----------------------------------------------------------------------------
(* What the operators return.                                              *)

LEMMA BufferedIs == ASSUME NEW t \in TracksRecord, NEW a \in Seq(Entries) PROVE Buffered(t, a) \in Int
<1>1. ASSUME NEW list \in Seq(Entries) PROVE BufferedTime(list) \in Int
  <2>. DEFINE packets == {i \in DOMAIN list : list[i] # Eos}
  <2>1. CASE Len(list) <= 1 \/ packets = {}
    BY <2>1 DEF BufferedTime
  <2>2. CASE ~(Len(list) <= 1 \/ packets = {})
    <3>1. packets \subseteq 0 .. Len(list) /\ packets \subseteq Nat /\ Len(list) \in Nat
      OBVIOUS
    <3>2. Max(packets) \in DOMAIN list /\ Min(packets) \in DOMAIN list
      BY <2>2, <3>1, LeastIs, GreatestIs
    <3>3. Ts(list[Max(packets)]) \in Int /\ Ts(list[Min(packets)]) \in Int
      BY <3>2, EntriesAre
    <3>. QED  BY <2>2, <3>3 DEF BufferedTime
  <2>. QED  BY <2>1, <2>2
<1>2. BufferedTime(t.cur) \in Int /\ BufferedTime(a) \in Int
  BY <1>1 DEF TracksRecord
<1>. QED  BY <1>2 DEF Buffered, Smaller

(* After a read: the state of the buffers, and perhaps a wake-up.           *)
LEMMA AfterReadIs ==
    ASSUME DemuxRecords, NEW t, NEW a, AfterRead(t, a)
    PROVE  /\ \/ demux' = demux /\ reader' = reader
              \/ /\ \E b \in {"buffering", "normal"} : demux' = [demux EXCEPT !.bufState = b]
                 /\ reader' = [reader EXCEPT !.sem = @ + 1]
                 /\ demux.bufState # "eos"
           /\ demux' \in DemuxRecord /\ reader' \in ReaderRecord
           /\ demux' = [demux EXCEPT !.bufState = demux'.bufState]
           /\ reader' = [reader EXCEPT !.sem = reader'.sem]
<1>1. \/ demux' = demux /\ reader' = reader
      \/ /\ \E b \in {"buffering", "normal"} : demux' = [demux EXCEPT !.bufState = b]
         /\ reader' = [reader EXCEPT !.sem = @ + 1]
         /\ demux.bufState # "eos"
  BY DEF AfterRead, Posts
<1>2. demux \in DemuxRecord /\ reader \in ReaderRecord
  BY DEF DemuxRecords
<1>3. demux' \in DemuxRecord
  BY <1>1, <1>2 DEF DemuxRecord
<1>4. reader' \in ReaderRecord
  BY <1>1, <1>2 DEF ReaderRecord
<1>5. demux' = [demux EXCEPT !.bufState = demux'.bufState]
  BY <1>1, <1>2 DEF DemuxRecord
<1>6. reader' = [reader EXCEPT !.sem = reader'.sem]
  BY <1>1, <1>2 DEF ReaderRecord
<1>. QED  BY <1>1, <1>3, <1>4, <1>5, <1>6

(* After a write: the state of the buffers and what has been reported.      *)
LEMMA AfterWriteIs ==
    ASSUME NEW d \in DemuxRecord, NEW t \in TracksRecord, NEW a \in Seq(Entries)
    PROVE  /\ AfterWrite(d, t, a) \in DemuxRecord
           /\ AfterWrite(d, t, a) = [d EXCEPT !.bufState = AfterWrite(d, t, a).bufState,
                                              !.reported = AfterWrite(d, t, a).reported]
           /\ AfterWrite(d, t, a).bufState = d.bufState \/ AfterWrite(d, t, a).bufState \in {"normal", "full"}
<1>1. Buffered(t, a) \in Int
  BY BufferedIs
<1>2. Percent(Buffered(t, a)) \in Int
  BY <1>1, DemuxAssumption DEF Percent, Smaller
<1>. DEFINE p == Percent(Buffered(t, a))
<1>3. \/ AfterWrite(d, t, a) = d
      \/ AfterWrite(d, t, a) = [d EXCEPT !.bufState = "normal", !.reported = -1]
      \/ AfterWrite(d, t, a) = [d EXCEPT !.reported = p]
      \/ AfterWrite(d, t, a) = [d EXCEPT !.bufState = "full"]
  BY DEF AfterWrite
<1>4. p \in Int
  BY <1>2
<1>. HIDE DEF p
<1>5. PICK w : w = AfterWrite(d, t, a)
  OBVIOUS
<1>6. /\ w \in DemuxRecord
      /\ w.bufState = d.bufState \/ w.bufState \in {"normal", "full"}
  <2>1. CASE w = d
    BY <2>1
  <2>2. CASE w = [d EXCEPT !.bufState = "normal", !.reported = -1]
    <3>1. [d EXCEPT !.bufState = "normal"] \in DemuxRecord
      BY DEF DemuxRecord
    <3>2. PICK n \in Int : n = -1
      OBVIOUS
    <3>3. w = [[d EXCEPT !.bufState = "normal"] EXCEPT !.reported = n]
      BY <2>2, <3>2
    <3>4. w.bufState = "normal"
      BY <2>2 DEF DemuxRecord
    <3>. QED  BY <3>1, <3>3, <3>4 DEF DemuxRecord
  <2>3. CASE w = [d EXCEPT !.reported = p]
    BY <2>3, <1>4 DEF DemuxRecord
  <2>4. CASE w = [d EXCEPT !.bufState = "full"]
    BY <2>4 DEF DemuxRecord
  <2>. QED  BY <1>3, <1>5, <2>1, <2>2, <2>3, <2>4
<1>7. w = [d EXCEPT !.bufState = w.bufState, !.reported = w.reported]
  <2>1. CASE w = d
    BY <2>1 DEF DemuxRecord
  <2>2. CASE w = [d EXCEPT !.bufState = "normal", !.reported = -1]
    BY <2>2 DEF DemuxRecord
  <2>3. CASE w = [d EXCEPT !.reported = p]
    BY <2>3 DEF DemuxRecord
  <2>4. CASE w = [d EXCEPT !.bufState = "full"]
    BY <2>4 DEF DemuxRecord
  <2>. QED  BY <1>3, <1>5, <2>1, <2>2, <2>3, <2>4
<1>. QED  BY <1>5, <1>6, <1>7

LEMMA NextPacketIs ==
    ASSUME DemuxRecords
    PROVE  /\ NextPacket \in Entries
           /\ NextPacket = Eos => \A i \in file.pos .. Len(File) : File[i].st \in file.discard
           /\ NextPacket # Eos =>
                /\ NextPacket \in file.pos .. Len(File) /\ NextPacket \in 1 .. Len(File)
                /\ File[NextPacket].st \notin file.discard
                /\ \A i \in file.pos .. NextPacket - 1 : File[i].st \in file.discard
<1>. DEFINE left == {i \in file.pos .. Len(File) : File[i].st \notin file.discard}
<1>1. file.pos \in 1 .. Len(File) + 1 /\ Len(File) \in Nat
  BY FileIs DEF DemuxRecords, FileRecord
<1>2. CASE left = {}
  BY <1>1, <1>2, EntriesAre DEF NextPacket
<1>3. CASE left # {}
  <2>1. left \subseteq Nat
    BY <1>1
  <2>2. NextPacket \in left /\ \A i \in left : NextPacket <= i
    <3>1. NextPacket = Min(left)
      BY <1>3 DEF NextPacket, Min
    <3>. QED  BY <1>3, <2>1, <3>1, LeastIs
  <2>3. NextPacket \in 1 .. Len(File) /\ NextPacket # Eos
    BY <1>1, <2>2 DEF Eos
  <2>4. ASSUME NEW i \in file.pos .. NextPacket - 1 PROVE File[i].st \in file.discard
    BY <1>1, <2>2, <2>3
  <2>. QED  BY <1>1, <2>2, <2>3, <2>4, EntriesAre
<1>. QED  BY <1>2, <1>3

LEMMA TwoUpdates ==
    ASSUME NEW x \in DemuxRecord, NEW y \in DemuxRecord, NEW k \in BOOLEAN, NEW z \in DemuxRecord,
           y = [x EXCEPT !.checkKey = k], z = [y EXCEPT !.bufState = z.bufState, !.reported = z.reported]
    PROVE  z = [x EXCEPT !.bufState = z.bufState, !.reported = z.reported, !.checkKey = z.checkKey]
  BY DEF DemuxRecord

(* What a packet changes.                                                  *)
LEMMA ReadFrameIs ==
    ASSUME DemuxRecords, ReadFrame
    PROVE  /\ reader.at = "reading" /\ NextPacket \in 1 .. Len(File) /\ NextPacket \in Entries
           /\ \/ tracks' = tracks /\ audioList' = audioList
                 /\ \/ demux.checkKey
                    \/ ~(File[NextPacket].st \in {tracks.selected, tracks.pending, "a"})
                    \/ /\ File[NextPacket].st = tracks.pending /\ File[NextPacket].st # tracks.selected
                       /\ ~tracks.begun
              \/ /\ File[NextPacket].st = "a" /\ ~demux.checkKey
                 /\ tracks' = tracks /\ audioList' = Append(audioList, NextPacket)
              \/ /\ File[NextPacket].st = tracks.selected /\ demux'.checkKey = FALSE
                 /\ tracks' = [tracks EXCEPT !.cur = Append(@, NextPacket)] /\ audioList' = audioList
              \/ /\ File[NextPacket].st = tracks.pending /\ demux'.checkKey = FALSE
                 /\ tracks' = [tracks EXCEPT !.pend = Append(@, NextPacket), !.begun = TRUE]
                 /\ audioList' = audioList
           /\ demux' \in DemuxRecord
           /\ demux' = [demux EXCEPT !.bufState = demux'.bufState, !.reported = demux'.reported,
                                     !.checkKey = demux'.checkKey]
           /\ demux'.checkKey => demux.checkKey
           /\ file'.pos = NextPacket + 1 /\ file' \in FileRecord
           /\ \/ file'.discard = file.discard
              \/ tracks.pending # NoTrack /\ file'.discard = file.discard \cup {tracks.selected}
           /\ reader' = [reader EXCEPT !.at = reader'.at] /\ reader'.at \in {"wait", "top"}
           /\ reader'.at = "wait" => demux'.bufState = "full"
           /\ UNCHANGED <<demuxCall, demuxSeen>>
<1>. DEFINE e      == NextPacket
            st     == File[e].st
            wanted == ~IsVideo(e) \/ st \in {tracks.selected, tracks.pending}
            skip   == demux.checkKey /\ ~(IsVideo(e) /\ IsKey(e))
            t      == IF wanted /\ ~skip /\ IsVideo(e) THEN Written(tracks, e) ELSE tracks
            audio  == IF wanted /\ ~skip /\ ~IsVideo(e) THEN Append(audioList, e) ELSE audioList
            d      == IF skip \/ ~wanted THEN demux ELSE [demux EXCEPT !.checkKey = FALSE]
            leaves == /\ wanted /\ ~skip /\ IsVideo(e) /\ st = t.selected /\ t.pending # NoTrack
                      /\ FirstTs(t.pend) > 0 /\ Ts(e) >= FirstTs(t.pend)
<1>1. /\ reader.at = "reading" /\ e # Eos
      /\ tracks' = t /\ audioList' = audio
      /\ demux' = IF wanted /\ skip THEN d ELSE AfterWrite(d, t, audio)
      /\ file' = [pos |-> e + 1, discard |-> IF leaves THEN file.discard \cup {st} ELSE file.discard]
      /\ reader' = [reader EXCEPT !.at = IF demux'.bufState = "full" THEN "wait" ELSE "top"]
      /\ UNCHANGED <<demuxCall, demuxSeen>>
  BY DEF ReadFrame
<1>2. e \in 1 .. Len(File) /\ e \in Entries /\ e \in Nat /\ Len(File) \in Nat
  BY <1>1, NextPacketIs, FileIs
<1>3. st \in FileStreams /\ (IsVideo(e) <=> st # "a")
  BY <1>2, FileIs DEF IsVideo, FileStreams, VideoTracks
<1>4. d \in DemuxRecord /\ d = [demux EXCEPT !.checkKey = d.checkKey] /\ (d.checkKey => demux.checkKey)
  BY DEF DemuxRecords, DemuxRecord
<1>5. tracks \in TracksRecord /\ audioList \in Seq(Entries)
  BY DEF DemuxRecords
<1>6. \/ t = tracks
         /\ \/ ~wanted \/ skip \/ ~IsVideo(e)
            \/ st # tracks.selected /\ ~tracks.begun
      \/ wanted /\ ~skip /\ IsVideo(e) /\ st = tracks.selected /\ t = [tracks EXCEPT !.cur = Append(@, e)]
      \/ /\ wanted /\ ~skip /\ IsVideo(e) /\ st # tracks.selected
         /\ t = [tracks EXCEPT !.pend = Append(@, e), !.begun = TRUE]
  BY DEF Written
<1>7. t \in TracksRecord /\ t.selected = tracks.selected /\ t.pending = tracks.pending
  <2>1. Append(tracks.cur, e) \in Seq(Entries) /\ Append(tracks.pend, e) \in Seq(Entries)
    BY <1>2, <1>5, AppendIs DEF TracksRecord
  <2>. HIDE DEF t, wanted, skip
  <2>. QED  BY <1>5, <1>6, <2>1 DEF TracksRecord
<1>8. audio \in Seq(Entries)
  BY <1>2, <1>5, AppendIs
<1>9. \/ tracks' = tracks /\ audioList' = audioList
         /\ \/ demux.checkKey
            \/ ~(st \in {tracks.selected, tracks.pending, "a"})
            \/ st = tracks.pending /\ st # tracks.selected /\ ~tracks.begun
      \/ st = "a" /\ ~demux.checkKey /\ tracks' = tracks /\ audioList' = Append(audioList, e)
      \/ /\ st = tracks.selected /\ d.checkKey = FALSE
         /\ tracks' = [tracks EXCEPT !.cur = Append(@, e)] /\ audioList' = audioList
      \/ /\ st = tracks.pending /\ d.checkKey = FALSE
         /\ tracks' = [tracks EXCEPT !.pend = Append(@, e), !.begun = TRUE]
         /\ audioList' = audioList
  <2>1. CASE ~wanted \/ skip
    <3>1. tracks' = tracks /\ audioList' = audioList
      BY <1>1, <2>1
    <3>2. ~wanted => ~(st \in {tracks.selected, tracks.pending, "a"})
      BY <1>3
    <3>. QED  BY <2>1, <3>1, <3>2
  <2>2. CASE wanted /\ ~skip /\ ~IsVideo(e)
    BY <1>1, <1>3, <2>2
  <2>3. CASE wanted /\ ~skip /\ IsVideo(e)
    <3>1. audioList' = audioList /\ st \in {tracks.selected, tracks.pending}
      BY <1>1, <2>3
    <3>2. d.checkKey = FALSE
      BY <2>3 DEF DemuxRecords, DemuxRecord
    <3>. QED  BY <1>1, <1>6, <2>3, <3>1, <3>2
  <2>. QED  BY <2>1, <2>2, <2>3
<1>10. /\ demux' \in DemuxRecord
       /\ demux' = [d EXCEPT !.bufState = demux'.bufState, !.reported = demux'.reported]
  <2>. HIDE DEF d, t, audio, wanted, skip
  <2>1. CASE wanted /\ skip
    BY <1>1, <1>4, <2>1 DEF DemuxRecord
  <2>2. CASE ~(wanted /\ skip)
    <3>1. PICK x \in DemuxRecord, y \in TracksRecord, z \in Seq(Entries) : x = d /\ y = t /\ z = audio
      BY <1>4, <1>7, <1>8
    <3>3. /\ AfterWrite(x, y, z) \in DemuxRecord
          /\ AfterWrite(x, y, z) = [x EXCEPT !.bufState = AfterWrite(x, y, z).bufState,
                                             !.reported = AfterWrite(x, y, z).reported]
      BY AfterWriteIs
    <3>2. demux' = AfterWrite(d, t, audio)
      BY <1>1, <2>2
    <3>. QED  BY <3>1, <3>2, <3>3
  <2>. QED  BY <2>1, <2>2
<1>11. /\ demux' = [demux EXCEPT !.bufState = demux'.bufState, !.reported = demux'.reported,
                                 !.checkKey = demux'.checkKey]
       /\ demux'.checkKey = d.checkKey
  <2>. HIDE DEF d
  <2>1. d.checkKey \in BOOLEAN /\ demux \in DemuxRecord
    BY <1>4 DEF DemuxRecords, DemuxRecord
  <2>2. demux'.checkKey = d.checkKey
    BY <1>4, <1>10 DEF DemuxRecord
  <2>. QED  BY <1>4, <1>10, <2>1, <2>2, TwoUpdates
<1>12. /\ file'.pos = e + 1 /\ file' \in FileRecord
       /\ \/ file'.discard = file.discard
          \/ tracks.pending # NoTrack /\ file'.discard = file.discard \cup {tracks.selected}
  <2>1. file'.pos = e + 1 /\ file'.discard = IF leaves THEN file.discard \cup {st} ELSE file.discard
    BY <1>1
  <2>2. leaves => st = tracks.selected /\ tracks.pending # NoTrack
    BY <1>7
  <2>3. file'.discard \in SUBSET FileStreams
    BY <1>3, <2>1 DEF DemuxRecords, FileRecord
  <2>4. e + 1 \in 1 .. Len(File) + 1
    BY <1>2
  <2>. HIDE DEF leaves
  <2>. QED  BY <1>1, <2>1, <2>2, <2>3, <2>4 DEF FileRecord
<1>13. /\ reader' = [reader EXCEPT !.at = reader'.at] /\ reader'.at \in {"wait", "top"}
       /\ reader'.at = "wait" => demux'.bufState = "full"
  BY <1>1 DEF DemuxRecords, ReaderRecord
<1>. HIDE DEF d, t, audio, wanted, skip, leaves
<1>. QED  BY <1>1, <1>2, <1>4, <1>9, <1>10, <1>11, <1>12, <1>13

(* A seek in the buffers: what is left begins later, with a key frame.      *)
LEMMA VideoFromIs ==
    ASSUME DemuxRecords, NEW ts \in Nat, KeysBefore(tracks.cur, ts) # {}
    PROVE  \E n \in 2 .. Len(tracks.cur) : VideoFrom(ts) = SubSeq(tracks.cur, n, Len(tracks.cur))
<1>1. tracks.cur \in Seq(Entries) /\ Len(tracks.cur) \in Nat
  BY DEF DemuxRecords, TracksRecord
<1>2. KeysBefore(tracks.cur, ts) \subseteq 0 .. Len(tracks.cur) /\ KeysBefore(tracks.cur, ts) \subseteq 2 .. Len(tracks.cur)
  BY <1>1 DEF KeysBefore
<1>3. LastKey(tracks.cur, ts) = Max(KeysBefore(tracks.cur, ts))
  BY <1>2 DEF LastKey, Max
<1>4. LastKey(tracks.cur, ts) \in KeysBefore(tracks.cur, ts)
  BY <1>1, <1>2, <1>3, GreatestIs
<1>. QED  BY <1>2, <1>4 DEF VideoFrom

LEMMA AudioFromIs ==
    ASSUME DemuxRecords, NEW ts
    PROVE  \/ AudioFrom(ts) = <<>>
           \/ \E n \in 1 .. Len(audioList) : AudioFrom(ts) = SubSeq(audioList, n, Len(audioList))
<1>. DEFINE late == {i \in DOMAIN audioList : Ts(audioList[i]) >= ts}
<1>1. CASE late = {}
  BY <1>1 DEF AudioFrom
<1>2. CASE late # {}
  <2>1. late \subseteq Nat /\ late \subseteq 1 .. Len(audioList)
    BY DEF DemuxRecords
  <2>2. Min(late) \in late
    BY <1>2, <2>1, LeastIs
  <2>. QED  BY <1>2, <2>1, <2>2 DEF AudioFrom
<1>. QED  BY <1>1, <1>2

LEMMA SeekPosIs == ASSUME NEW ts PROVE SeekPos(ts) \in 1 .. Len(File) + 1
<1>. DEFINE keys == {i \in DOMAIN File : File[i].st = "v" /\ File[i].key /\ File[i].ts + StartTime <= ts}
<1>1. Len(File) \in Nat /\ keys \subseteq 0 .. Len(File) /\ keys \subseteq 1 .. Len(File)
  BY FileIs
<1>2. CASE keys = {}
  BY <1>1, <1>2 DEF SeekPos
<1>3. CASE keys # {}
  <2>1. SeekPos(ts) = Max(keys)
    BY <1>1, <1>3 DEF SeekPos, Max
  <2>2. keys \subseteq 1 .. Len(File) /\ 1 .. Len(File) \subseteq 1 .. Len(File) + 1
    BY <1>1
  <2>. HIDE DEF keys
  <2>3. Max(keys) \in keys
    BY <1>1, <1>3, GreatestIs
  <2>. QED  BY <2>1, <2>2, <2>3
<1>. QED  BY <1>2, <1>3

LEMMA OwnSeeksIs == ASSUME DemuxRecords PROVE OwnSeeks \in Seq(Nat) /\ ToSet(OwnSeeks) \subseteq Nat
<1>1. demux.seeks \in Seq(Nat)
  BY DEF DemuxRecords, DemuxRecord
<1>2. OwnSeeks \in Seq(Nat)
  BY <1>1, TailIs DEF OwnSeeks
<1>. QED  BY <1>2 DEF ToSet

-----------------------------------------------------------------------------
(* Types: one part for each group of variables.                            *)

LEMMA NoTracksIs == NoTracks \in TracksRecord
  BY EmptyIs DEF NoTracks, TracksRecord, VideoTracks

LEMMA DemuxTypesInit == DemuxInit => DemuxRecords
<1>. SUFFICES ASSUME DemuxInit PROVE DemuxRecords
  OBVIOUS
<1>1. 1 \in 1 .. Len(File) + 1
  BY FileIs
<1>2. demux \in DemuxRecord /\ reader \in ReaderRecord /\ demuxCall \in CallRecord
  BY EmptyIs DEF DemuxInit, DemuxRecord, ReaderRecord, CallRecord, NoSeek
<1>3. file \in FileRecord /\ audioList \in Seq(Entries)
  BY <1>1, EmptyIs DEF DemuxInit, FileRecord
<1>4. demuxSeen \in DemuxSeenRecord
  BY EmptyIs, EntriesAre DEF DemuxInit, DemuxSeenRecord
<1>. QED  BY <1>2, <1>3, <1>4, NoTracksIs DEF DemuxInit, DemuxRecords

LEMMA ResetTypes ==
    ASSUME DemuxRecords, ResetState
    PROVE  /\ demux' \in DemuxRecord /\ tracks' \in TracksRecord /\ audioList' \in Seq(Entries)
           /\ file' \in FileRecord /\ demuxSeen' \in DemuxSeenRecord
<1>1. 1 \in 1 .. Len(File) + 1
  BY FileIs
<1>2. demux' \in DemuxRecord
  <2>1. PICK n \in Int : n = -1
    OBVIOUS
  <2>2. PICK d \in DemuxRecord : d = demux
    BY DEF DemuxRecords
  <2>3. demux' = [d EXCEPT !.state = "idle", !.seekTo = NoSeek, !.seeks = <<>>,
                           !.bufState = "none", !.reported = n, !.posted = FALSE]
    BY <2>1, <2>2 DEF ResetState
  <2>4. [d EXCEPT !.state = "idle", !.seekTo = NoSeek, !.seeks = <<>>] \in DemuxRecord
    BY EmptyIs DEF DemuxRecord
  <2>5. PICK c \in DemuxRecord : c = [d EXCEPT !.state = "idle", !.seekTo = NoSeek, !.seeks = <<>>]
    BY <2>4
  <2>6. demux' = [c EXCEPT !.bufState = "none", !.reported = n, !.posted = FALSE]
    BY <2>3, <2>5 DEF DemuxRecord
  <2>. QED  BY <2>6 DEF DemuxRecord
<1>3. file' \in FileRecord /\ audioList' \in Seq(Entries) /\ tracks' \in TracksRecord
  BY <1>1, EmptyIs, NoTracksIs DEF ResetState, FileRecord
<1>4. demuxSeen' \in DemuxSeenRecord
  BY OwnSeeksIs, EntriesAre DEF DemuxRecords, DemuxSeenRecord, ResetState, Jumped
<1>. QED  BY <1>2, <1>3, <1>4

LEMMA FlushedTypes ==
    ASSUME DemuxRecords
    PROVE  FlushedTracks \in TracksRecord /\ Jumped(demuxSeen) \in DemuxSeenRecord
<1>1. FlushedTracks \in TracksRecord
  BY EmptyIs DEF DemuxRecords, TracksRecord, FlushedTracks
<1>2. Jumped(demuxSeen) \in DemuxSeenRecord
  BY DEF DemuxRecords, DemuxSeenRecord, Jumped
<1>. QED  BY <1>1, <1>2

(* Records with a field or two changed.                                     *)
LEMMA DemuxWith ==
    ASSUME NEW d \in DemuxRecord
    PROVE  /\ [d EXCEPT !.state = "preparing", !.posted = TRUE] \in DemuxRecord
           /\ [d EXCEPT !.state = "started", !.checkKey = TRUE] \in DemuxRecord
           /\ FlushedDemux(d) \in DemuxRecord
           /\ [d EXCEPT !.checkKey = FALSE] \in DemuxRecord
           /\ \A b \in {"buffering", "eos"} : [d EXCEPT !.bufState = b] \in DemuxRecord
           /\ \A ts \in SeekTimes, q \in Seq(Nat) : [d EXCEPT !.seekTo = ts, !.seeks = q] \in DemuxRecord
           /\ \A q \in Seq(Nat) : [d EXCEPT !.seekTo = NoSeek, !.seeks = q] \in DemuxRecord
           /\ [d EXCEPT !.state = "prepared"] \in DemuxRecord
           /\ [d EXCEPT !.posted = FALSE] \in DemuxRecord
           /\ \A n \in Int : [d EXCEPT !.reported = n] \in DemuxRecord
<1>1. FlushedDemux(d) \in DemuxRecord
  BY DEF DemuxRecord, FlushedDemux
<1>2. /\ [d EXCEPT !.state = "preparing", !.posted = TRUE] \in DemuxRecord
      /\ [d EXCEPT !.state = "started", !.checkKey = TRUE] \in DemuxRecord
      /\ [d EXCEPT !.checkKey = FALSE] \in DemuxRecord
      /\ [d EXCEPT !.state = "prepared"] \in DemuxRecord
      /\ [d EXCEPT !.posted = FALSE] \in DemuxRecord
  BY DEF DemuxRecord
<1>3. \A b \in {"buffering", "eos"} : [d EXCEPT !.bufState = b] \in DemuxRecord
  BY DEF DemuxRecord
<1>4. \A ts \in SeekTimes, q \in Seq(Nat) : [d EXCEPT !.seekTo = ts, !.seeks = q] \in DemuxRecord
  BY DEF DemuxRecord
<1>5. \A q \in Seq(Nat) : [d EXCEPT !.seekTo = NoSeek, !.seeks = q] \in DemuxRecord
  BY DEF DemuxRecord
<1>6. \A n \in Int : [d EXCEPT !.reported = n] \in DemuxRecord
  BY DEF DemuxRecord
<1>. QED  BY <1>1, <1>2, <1>3, <1>4, <1>5, <1>6

LEMMA ReaderWith ==
    ASSUME NEW r \in ReaderRecord
    PROVE  /\ Posts(r) \in ReaderRecord
           /\ \A b \in BOOLEAN : [r EXCEPT !.exit = b] \in ReaderRecord
           /\ \A b \in BOOLEAN : [r EXCEPT !.corked = b] \in ReaderRecord
           /\ \A b \in BOOLEAN : [r EXCEPT !.continue = b] \in ReaderRecord
           /\ \A p \in {"none", "wait", "top", "reading"} : [r EXCEPT !.at = p] \in ReaderRecord
<1>1. Posts(r) \in ReaderRecord
  BY DEF ReaderRecord, Posts
<1>2. /\ \A b \in BOOLEAN : [r EXCEPT !.exit = b] \in ReaderRecord
      /\ \A b \in BOOLEAN : [r EXCEPT !.corked = b] \in ReaderRecord
      /\ \A b \in BOOLEAN : [r EXCEPT !.continue = b] \in ReaderRecord
      /\ \A p \in {"none", "wait", "top", "reading"} : [r EXCEPT !.at = p] \in ReaderRecord
  BY DEF ReaderRecord
<1>. QED  BY <1>1, <1>2

LEMMA ReaderPosts ==
    ASSUME NEW r \in ReaderRecord
    PROVE  /\ [Posts(r) EXCEPT !.exit = TRUE, !.continue = FALSE] \in ReaderRecord
           /\ [Posts(r) EXCEPT !.corked = FALSE, !.exit = FALSE] \in ReaderRecord
           /\ [Posts(r) EXCEPT !.exit = TRUE, !.corked = TRUE] \in ReaderRecord
           /\ [Posts(r) EXCEPT !.exit = TRUE] \in ReaderRecord
           /\ [Posts(r) EXCEPT !.exit = FALSE] \in ReaderRecord
           /\ [r EXCEPT !.at = "wait", !.continue = TRUE, !.corked = TRUE, !.exit = FALSE] \in ReaderRecord
           /\ [r EXCEPT !.at = "reading", !.exit = FALSE] \in ReaderRecord
<1>1. PICK p \in ReaderRecord : p = Posts(r)
  BY ReaderWith
<1>2. /\ [p EXCEPT !.exit = TRUE, !.continue = FALSE] \in ReaderRecord
      /\ [p EXCEPT !.corked = FALSE, !.exit = FALSE] \in ReaderRecord
      /\ [p EXCEPT !.exit = TRUE, !.corked = TRUE] \in ReaderRecord
      /\ [p EXCEPT !.exit = TRUE] \in ReaderRecord
      /\ [p EXCEPT !.exit = FALSE] \in ReaderRecord
  BY DEF ReaderRecord
<1>3. [r EXCEPT !.at = "wait", !.continue = TRUE, !.corked = TRUE, !.exit = FALSE] \in ReaderRecord
  BY DEF ReaderRecord
<1>4. [r EXCEPT !.at = "reading", !.exit = FALSE] \in ReaderRecord
  BY DEF ReaderRecord
<1>. QED  BY <1>1, <1>2, <1>3, <1>4

LEMMA SeenWith ==
    ASSUME NEW h \in DemuxSeenRecord
    PROVE  /\ [h EXCEPT !.calls = @ + 1] \in DemuxSeenRecord
           /\ \A n \in Nat, m \in Nat : [h EXCEPT !.calls = n, !.asked = m] \in DemuxSeenRecord
           /\ h.calls + 1 \in Nat /\ h.asked + 1 \in Nat
           /\ [h EXCEPT !.calls = @ + 1, !.asked = @ + 1] \in DemuxSeenRecord
           /\ \A q \in SUBSET Nat : [h EXCEPT !.dropped = @ \cup q] \in DemuxSeenRecord
           /\ Jumped(h) \in DemuxSeenRecord
<1>1. h.calls + 1 \in Nat /\ h.asked + 1 \in Nat
  BY DEF DemuxSeenRecord
<1>4. \A n \in Nat, m \in Nat : [h EXCEPT !.calls = n, !.asked = m] \in DemuxSeenRecord
  BY DEF DemuxSeenRecord
<1>5. \A n \in Nat : [h EXCEPT !.calls = n] \in DemuxSeenRecord
  BY DEF DemuxSeenRecord
<1>2. ASSUME NEW q \in SUBSET Nat PROVE [h EXCEPT !.dropped = @ \cup q] \in DemuxSeenRecord
  <2>1. PICK u \in SUBSET Nat : u = h.dropped \cup q
    BY DEF DemuxSeenRecord
  <2>2. [h EXCEPT !.dropped = @ \cup q] = [h EXCEPT !.dropped = u]
    BY <2>1
  <2>. QED  BY <2>2 DEF DemuxSeenRecord
<1>3. Jumped(h) \in DemuxSeenRecord
  BY DEF DemuxSeenRecord, Jumped
<1>. QED  BY <1>1, <1>2, <1>3, <1>4, <1>5

LEMMA CallsTypes ==
    ASSUME DemuxRecords,
           \/ DemuxPrepare \/ OnDemuxPrepare \/ DemuxStart \/ DemuxFlush
           \/ \E ts \in 0 .. Duration : DemuxSeek(ts)
           \/ \E t \in VideoTracks : SelectTrack(t)
    PROVE  DemuxRecords'
<1>0. /\ demux \in DemuxRecord /\ reader \in ReaderRecord /\ tracks \in TracksRecord
      /\ audioList \in Seq(Entries) /\ file \in FileRecord /\ demuxCall \in CallRecord
      /\ demuxSeen \in DemuxSeenRecord
  BY DEF DemuxRecords
<1>1. CASE DemuxPrepare
  <2>1. demux' \in DemuxRecord /\ demuxSeen' \in DemuxSeenRecord
    BY <1>0, <1>1, DemuxWith, SeenWith DEF DemuxPrepare, Called
  <2>. QED  BY <1>0, <1>1, <2>1 DEF DemuxRecords, DemuxPrepare
<1>2. CASE OnDemuxPrepare
  <2>1. CASE ResetState /\ reader' = [Posts(reader) EXCEPT !.exit = TRUE, !.continue = FALSE]
    <3>1. reader' \in ReaderRecord /\ demuxCall' = demuxCall
      BY <1>0, <1>2, <2>1, ReaderPosts DEF OnDemuxPrepare
    <3>. QED  BY <1>0, <2>1, <3>1, ResetTypes DEF DemuxRecords
  <2>2. CASE ~(ResetState /\ reader' = [Posts(reader) EXCEPT !.exit = TRUE, !.continue = FALSE])
    <3>. USE <1>0, <1>2, <2>2
    <3>1. 1 \in 1 .. Len(File) + 1
      BY FileIs
    <3>2. reader' \in ReaderRecord
      BY ReaderPosts DEF OnDemuxPrepare
    <3>3. file' \in FileRecord
      BY <3>1 DEF FileRecord, OnDemuxPrepare
    <3>4. demux' \in DemuxRecord
      <4>1. PICK n \in Int : n = -1
        OBVIOUS
      <4>2. demux' = [demux EXCEPT !.state = "prepared", !.bufState = "buffering", !.reported = n, !.posted = FALSE]
        BY <4>1 DEF OnDemuxPrepare
      <4>. QED  BY <4>2 DEF DemuxRecord
    <3>. QED  BY <3>2, <3>3, <3>4 DEF DemuxRecords, OnDemuxPrepare
  <2>. QED  BY <2>1, <2>2
<1>3. CASE DemuxStart
  <2>1. demux' \in DemuxRecord /\ demuxSeen' \in DemuxSeenRecord /\ reader' \in ReaderRecord
    BY <1>0, <1>3, DemuxWith, SeenWith, ReaderPosts DEF DemuxStart, Called
  <2>. QED  BY <1>0, <1>3, <2>1 DEF DemuxRecords, DemuxStart
<1>4. CASE DemuxFlush
  <2>1. demux' \in DemuxRecord /\ reader' \in ReaderRecord
    BY <1>0, <1>4, DemuxWith, ReaderWith DEF DemuxFlush
  <2>2. demuxSeen' \in DemuxSeenRecord
    <3>1. PICK h \in DemuxSeenRecord : h = Jumped(demuxSeen)
      BY <1>0, SeenWith
    <3>2. demuxSeen' = [h EXCEPT !.calls = @ + 1]
      BY <1>4, <3>1 DEF DemuxFlush
    <3>. QED  BY <3>2, SeenWith
  <2>. QED  BY <1>0, <1>4, <2>1, <2>2, FlushedTypes, EmptyIs DEF DemuxRecords, DemuxFlush
<1>5. ASSUME NEW ts \in 0 .. Duration, DemuxSeek(ts) PROVE DemuxRecords'
  <2>1. demuxSeen.asked + 1 \in Nat /\ demux.seeks \in Seq(Nat)
    BY <1>0 DEF DemuxSeenRecord, DemuxRecord
  <2>2. Append(demux.seeks, demuxSeen.asked + 1) \in Seq(Nat)
    BY <2>1, AppendIs
  <2>3. demux' \in DemuxRecord
    BY <1>0, <1>5, <2>2, DemuxWith, SeekTimesAre DEF DemuxSeek
  <2>4. reader' \in ReaderRecord /\ demuxSeen' \in DemuxSeenRecord
    BY <1>0, <1>5, ReaderPosts, SeenWith DEF DemuxSeek
  <2>. QED  BY <1>0, <1>5, <2>3, <2>4 DEF DemuxRecords, DemuxSeek
<1>6. ASSUME NEW t \in VideoTracks, SelectTrack(t) PROVE DemuxRecords'
  <2>1. tracks' \in TracksRecord
    BY <1>0, <1>6, EmptyIs DEF TracksRecord, SelectTrack
  <2>2. file' \in FileRecord /\ demuxSeen' \in DemuxSeenRecord
    <3>1. file' \in FileRecord
      <4>1. PICK u \in SUBSET FileStreams : u = file.discard \ {t}
        BY <1>0 DEF FileRecord
      <4>2. file' = file \/ file' = [file EXCEPT !.discard = u]
        BY <1>6, <4>1 DEF SelectTrack
      <4>. QED  BY <1>0, <4>2 DEF FileRecord
    <3>2. demuxSeen' \in DemuxSeenRecord
      BY <1>0, <1>6, SeenWith DEF SelectTrack, Called
    <3>. QED  BY <3>1, <3>2
  <2>. QED  BY <1>0, <1>6, <2>1, <2>2 DEF DemuxRecords, SelectTrack
<1>. QED  BY <1>1, <1>2, <1>3, <1>4, <1>5, <1>6

LEMMA StopsTypes ==
    ASSUME DemuxRecords,
           \/ \E op \in {"stop", "reset"} : DemuxStop(op)
           \/ StopFlushes \/ StopDrops \/ StopIsNothing \/ ResetEndsThread \/ ResetJoined
    PROVE  DemuxRecords'
<1>0. /\ demux \in DemuxRecord /\ reader \in ReaderRecord /\ tracks \in TracksRecord
      /\ audioList \in Seq(Entries) /\ file \in FileRecord /\ demuxCall \in CallRecord
      /\ demuxSeen \in DemuxSeenRecord
  BY DEF DemuxRecords
<1>1. ASSUME NEW op \in {"stop", "reset"}, DemuxStop(op) PROVE DemuxRecords'
  <2>1. reader' \in ReaderRecord /\ demuxSeen' \in DemuxSeenRecord
    BY <1>0, <1>1, ReaderWith, SeenWith DEF DemuxStop, Called
  <2>2. demuxCall' \in CallRecord
    BY <1>1 DEF CallRecord, DemuxStop
  <2>. QED  BY <1>0, <1>1, <2>1, <2>2 DEF DemuxRecords, DemuxStop
<1>2. CASE StopFlushes
  <2>1. demux' \in DemuxRecord /\ reader' \in ReaderRecord
    BY <1>0, <1>2, DemuxWith, ReaderPosts DEF StopFlushes
  <2>2. demuxCall' \in CallRecord
    BY <1>0, <1>2 DEF StopFlushes, CallRecord
  <2>. QED  BY <1>0, <1>2, <2>1, <2>2, FlushedTypes, EmptyIs DEF DemuxRecords, StopFlushes
<1>3. CASE StopDrops
  <2>1. <<0>> \in Seq(Nat) /\ 0 \in SeekTimes
    BY SeekTimesAre
  <2>2. demux' \in DemuxRecord
    <3>1. PICK d \in DemuxRecord : d = [demux EXCEPT !.seekTo = 0, !.seeks = <<0>>]
      BY <1>0, <2>1, DemuxWith
    <3>2. demux' = [d EXCEPT !.state = "prepared"]
      BY <1>0, <1>3, <3>1 DEF StopDrops, DemuxRecord
    <3>. QED  BY <3>2, DemuxWith
  <2>3. demuxSeen' \in DemuxSeenRecord /\ demuxCall' \in CallRecord
    <3>1. demuxSeen' \in DemuxSeenRecord
      BY <1>0, <1>3, OwnSeeksIs, SeenWith DEF StopDrops
    <3>2. demuxCall' \in CallRecord
      BY <1>0, <1>3 DEF StopDrops, CallRecord
    <3>. QED  BY <3>1, <3>2
  <2>. QED  BY <1>0, <1>3, <2>2, <2>3 DEF DemuxRecords, StopDrops
<1>4. CASE StopIsNothing \/ ResetEndsThread
  <2>1. reader' \in ReaderRecord
    BY <1>0, <1>4, ReaderPosts DEF StopIsNothing, ResetEndsThread
  <2>2. demuxCall' \in CallRecord
    BY <1>0, <1>4 DEF StopIsNothing, ResetEndsThread, CallRecord
  <2>. QED  BY <1>0, <1>4, <2>1, <2>2 DEF DemuxRecords, StopIsNothing, ResetEndsThread
<1>5. CASE ResetJoined
  <2>1. demuxCall' \in CallRecord
    BY <1>5 DEF ResetJoined, CallRecord
  <2>. QED  BY <1>0, <1>5, <2>1, ResetTypes DEF DemuxRecords, ResetJoined
<1>. QED  BY <1>1, <1>2, <1>3, <1>4, <1>5

LEMMA SwitchedIs ==
    ASSUME DemuxRecords
    PROVE  Switched(tracks) \in TracksRecord
  BY EmptyIs DEF DemuxRecords, TracksRecord, Switched, Switches

LEMMA ReadsTypes ==
    ASSUME DemuxRecords, ReadVideo \/ ReadAudio
    PROVE  DemuxRecords'
<1>1. CASE ReadVideo
  <2>0. PICK t \in TracksRecord : t = Switched(tracks)
    BY SwitchedIs
  <2>1. PICK rest :
          /\ t = Switched(tracks) /\ rest = [t EXCEPT !.cur = Tail(@)]
          /\ tracks' = rest /\ AfterRead(rest, audioList)
          /\ demuxSeen' = [demuxSeen EXCEPT !.lastV = Head(t.cur), !.switched = Switches(tracks), !.jumpedV = FALSE]
    BY <1>1, <2>0 DEF ReadVideo
  <2>2. t.cur # <<>>
    <3>1. CASE Switches(tracks)
      <4>1. tracks.pend # <<>>
        BY <3>1 DEF Switches, FirstTs
      <4>. QED  BY <2>1, <3>1, <4>1 DEF Switched, DemuxRecords, TracksRecord
    <3>2. CASE ~Switches(tracks)
      BY <1>1, <2>1, <3>2 DEF Switched, ReadVideo
    <3>. QED  BY <3>1, <3>2
  <2>3. t.cur \in Seq(Entries)
    BY DEF TracksRecord
  <2>4. Tail(t.cur) \in Seq(Entries) /\ Head(t.cur) \in Entries
    BY <2>2, <2>3, TailIs
  <2>5. tracks' \in TracksRecord
    BY <2>1, <2>4 DEF TracksRecord
  <2>6. demux' \in DemuxRecord /\ reader' \in ReaderRecord
    BY <2>1, AfterReadIs
  <2>7. Switches(tracks) \in BOOLEAN
    BY DEF Switches
  <2>8. demuxSeen' \in DemuxSeenRecord
    BY <2>1, <2>4, <2>7 DEF DemuxRecords, DemuxSeenRecord
  <2>. QED  BY <1>1, <2>5, <2>6, <2>8 DEF DemuxRecords, ReadVideo
<1>2. CASE ReadAudio
  <2>1. demux' \in DemuxRecord /\ reader' \in ReaderRecord
    BY <1>2, AfterReadIs DEF ReadAudio
  <2>2. Tail(audioList) \in Seq(Entries) /\ Head(audioList) \in Entries
    BY <1>2, TailIs DEF ReadAudio, DemuxRecords
  <2>3. demuxSeen' \in DemuxSeenRecord
    BY <1>2, <2>2 DEF DemuxRecords, DemuxSeenRecord, ReadAudio
  <2>. QED  BY <1>2, <2>1, <2>2, <2>3 DEF DemuxRecords, ReadAudio
<1>. QED  BY <1>1, <1>2

LEMMA AskedIs ==
    ASSUME DemuxRecords, demux.seekTo # NoSeek
    PROVE  Asked \in SeekTimes
<1>1. demux.seekTo \in SeekTimes
  BY DEF DemuxRecords, DemuxRecord
<1>. QED  BY <1>1, DurationIs, DemuxAssumption DEF Asked, SeekTimes

LEMMA AnswersJump ==
    ASSUME DemuxRecords, NEW how
    PROVE  Answers(demuxSeen, how).jumpedV /\ Answers(demuxSeen, how).jumpedA
<1>1. PICK h \in DemuxSeenRecord : h = Jumped(demuxSeen)
  BY SeenWith DEF DemuxRecords
<1>2. h.jumpedV /\ h.jumpedA
  BY <1>1 DEF Jumped, DemuxRecords, DemuxSeenRecord
<1>3. PICK q, n, m :
        /\ q = h.answered \o OwnSeeks /\ n = IF how = "failed" THEN NoSeek ELSE Asked
        /\ m = IF how = "buffered" THEN StartTime ELSE 0
  OBVIOUS
<1>4. Answers(demuxSeen, how) = [h EXCEPT !.answered = q, !.target = n, !.shift = m]
  BY <1>1, <1>3 DEF Answers
<1>. QED  BY <1>2, <1>4 DEF DemuxSeenRecord

LEMMA AnswersTypes ==
    ASSUME DemuxRecords, demux.seekTo # NoSeek, NEW how
    PROVE  Answers(demuxSeen, how) \in DemuxSeenRecord
<1>1. PICK h \in DemuxSeenRecord : h = Jumped(demuxSeen)
  BY SeenWith DEF DemuxRecords
<1>2. h.answered \o OwnSeeks \in Seq(Nat)
  BY OwnSeeksIs DEF DemuxSeenRecord
<1>3. PICK q \in Seq(Nat), n \in {NoSeek} \cup SeekTimes, m \in Nat :
        /\ q = h.answered \o OwnSeeks /\ n = IF how = "failed" THEN NoSeek ELSE Asked
        /\ m = IF how = "buffered" THEN StartTime ELSE 0
  BY <1>2, AskedIs, DemuxAssumption
<1>4. Answers(demuxSeen, how) = [h EXCEPT !.answered = q, !.target = n, !.shift = m]
  BY <1>1, <1>3 DEF Answers
<1>. QED  BY <1>4 DEF DemuxSeenRecord

LEMMA ReadThreadTypes ==
    ASSUME DemuxRecords, ReadThread
    PROVE  DemuxRecords'
<1>0. /\ demux \in DemuxRecord /\ reader \in ReaderRecord /\ tracks \in TracksRecord
      /\ audioList \in Seq(Entries) /\ file \in FileRecord /\ demuxCall \in CallRecord
      /\ demuxSeen \in DemuxSeenRecord
  BY DEF DemuxRecords
<1>1. CASE ReaderWakes
  <2>1. reader' \in ReaderRecord
    <3>1. PICK n \in Nat, p \in {"top", "none"} :
            n = reader.sem - 1 /\ p = IF reader.continue THEN "top" ELSE "none"
      BY <1>0, <1>1 DEF ReaderWakes, ReaderRecord
    <3>2. reader' = [reader EXCEPT !.sem = n, !.at = p]
      BY <1>1, <3>1 DEF ReaderWakes
    <3>. QED  BY <1>0, <3>2 DEF ReaderRecord
  <2>. QED  BY <1>0, <1>1, <2>1 DEF DemuxRecords, ReaderWakes
<1>2. CASE ReaderEnds \/ ReadFrameBegins \/ ReadFrameFails
  <2>1. reader' \in ReaderRecord
    BY <1>0, <1>2, ReaderWith, ReaderPosts DEF ReaderEnds, ReadFrameBegins, ReadFrameFails
  <2>. QED  BY <1>0, <1>2, <2>1 DEF DemuxRecords, ReaderEnds, ReadFrameBegins, ReadFrameFails
<1>3. CASE CheckSeek
  <2>. DEFINE done == [demux EXCEPT !.seekTo = NoSeek, !.seeks = <<>>, !.bufState = "buffering"]
  <2>1. done \in DemuxRecord
    <3>1. PICK d \in DemuxRecord : d = [demux EXCEPT !.seekTo = NoSeek, !.seeks = <<>>]
      BY <1>0, DemuxWith, EmptyIs
    <3>2. done = [d EXCEPT !.bufState = "buffering"]
      BY <1>0, <3>1 DEF DemuxRecord
    <3>. QED  BY <3>2, DemuxWith
  <2>2. PICK ts \in Nat : ts = demux.seekTo
    <3>1. demux.seekTo \in SeekTimes
      BY <1>0, <1>3 DEF DemuxRecord, CheckSeek
    <3>. QED  BY <3>1, SeekTimesAre
  <2>3. /\ \/ /\ InBuffer(ts)
              /\ tracks' = [tracks EXCEPT !.cur = VideoFrom(ts)]
              /\ audioList' = AudioFrom(Ts(Head(VideoFrom(ts))))
              /\ demux' = [done EXCEPT !.checkKey = FALSE]
              /\ demuxSeen' = Answers(demuxSeen, "buffered")
              /\ reader' = reader /\ file' = file
           \/ /\ ~InBuffer(ts)
              /\ tracks' = FlushedTracks
              /\ audioList' = <<>>
              /\ \/ /\ file' = [file EXCEPT !.pos = SeekPos(ts)]
                    /\ demux' = FlushedDemux(done)
                    /\ demuxSeen' = Answers(demuxSeen, "sought")
                 \/ /\ demux' = [FlushedDemux(done) EXCEPT !.checkKey = FALSE]
                    /\ demuxSeen' = Answers(demuxSeen, "failed")
                    /\ file' = file
              /\ reader' = [Posts(reader) EXCEPT !.exit = FALSE]
        /\ demuxCall' = demuxCall
    BY <1>3, <2>2 DEF CheckSeek
  <2>. HIDE DEF done
  <2>4. PICK d \in DemuxRecord : d = done
    BY <2>1
  <2>5. FlushedDemux(d) \in DemuxRecord /\ [d EXCEPT !.checkKey = FALSE] \in DemuxRecord
    BY DemuxWith
  <2>6. [FlushedDemux(d) EXCEPT !.checkKey = FALSE] \in DemuxRecord
    <3>1. PICK c \in DemuxRecord : c = FlushedDemux(d)
      BY <2>5
    <3>. QED  BY <3>1, DemuxWith
  <2>7. demux' \in DemuxRecord /\ demuxSeen' \in DemuxSeenRecord /\ reader' \in ReaderRecord /\ demuxCall' \in CallRecord
    <3>1. demux.seekTo # NoSeek
      BY <1>3 DEF CheckSeek
    <3>2. demuxSeen' \in DemuxSeenRecord
      BY <2>3, <3>1, AnswersTypes
    <3>. QED  BY <1>0, <2>3, <2>4, <2>5, <2>6, <3>2, ReaderPosts
  <2>8. file' \in FileRecord
    BY <1>0, <2>3, SeekPosIs DEF FileRecord
  <2>9. tracks' \in TracksRecord /\ audioList' \in Seq(Entries)
    <3>1. CASE InBuffer(ts)
      <4>1. PICK n \in 2 .. Len(tracks.cur) : VideoFrom(ts) = SubSeq(tracks.cur, n, Len(tracks.cur))
        BY <3>1, VideoFromIs DEF InBuffer
      <4>2. tracks.cur \in Seq(Entries) /\ n \in 1 .. Len(tracks.cur)
        BY <1>0 DEF TracksRecord
      <4>3. VideoFrom(ts) \in Seq(Entries)
        BY <4>1, <4>2, SuffixIs
      <4>4. AudioFrom(Ts(Head(VideoFrom(ts)))) \in Seq(Entries)
        BY <1>0, AudioFromIs, SuffixIs, EmptyIs
      <4>. QED  BY <1>0, <2>3, <3>1, <4>3, <4>4 DEF TracksRecord
    <3>2. CASE ~InBuffer(ts)
      BY <2>3, <3>2, FlushedTypes, EmptyIs
    <3>. QED  BY <3>1, <3>2
  <2>. QED  BY <2>7, <2>8, <2>9 DEF DemuxRecords
<1>4. CASE ReadFrameEof
  <2>1. demux' \in DemuxRecord /\ reader' \in ReaderRecord
    BY <1>0, <1>4, DemuxWith, ReaderWith DEF ReadFrameEof
  <2>2. tracks' \in TracksRecord /\ audioList' \in Seq(Entries)
    <3>1. Eos \in Entries /\ tracks.cur \in Seq(Entries)
      BY <1>0, EntriesAre DEF TracksRecord
    <3>2. Append(tracks.cur, Eos) \in Seq(Entries) /\ Append(audioList, Eos) \in Seq(Entries)
      BY <1>0, <3>1, AppendIs
    <3>. QED  BY <1>0, <1>4, <3>2 DEF TracksRecord, ReadFrameEof
  <2>3. file' \in FileRecord
    <3>1. Len(File) + 1 \in 1 .. Len(File) + 1
      BY FileIs
    <3>. QED  BY <1>0, <1>4, <3>1 DEF FileRecord, ReadFrameEof
  <2>. QED  BY <1>0, <1>4, <2>1, <2>2, <2>3 DEF DemuxRecords, ReadFrameEof
<1>5. CASE ReadFrame
  <2>1. demux' \in DemuxRecord /\ file' \in FileRecord /\ demuxCall' = demuxCall /\ demuxSeen' = demuxSeen
    BY <1>5, ReadFrameIs
  <2>2. reader' \in ReaderRecord
    <3>1. reader' = [reader EXCEPT !.at = reader'.at] /\ reader'.at \in {"wait", "top"}
      BY <1>5, ReadFrameIs
    <3>. QED  BY <1>0, <3>1, ReaderWith
  <2>3. tracks' \in TracksRecord /\ audioList' \in Seq(Entries)
    <3>1. /\ NextPacket \in Entries
          /\ \/ tracks' = tracks
             \/ tracks' = [tracks EXCEPT !.cur = Append(@, NextPacket)]
             \/ tracks' = [tracks EXCEPT !.pend = Append(@, NextPacket), !.begun = TRUE]
          /\ audioList' = audioList \/ audioList' = Append(audioList, NextPacket)
      BY <1>5, ReadFrameIs
    <3>2. /\ Append(tracks.cur, NextPacket) \in Seq(Entries) /\ Append(tracks.pend, NextPacket) \in Seq(Entries)
          /\ Append(audioList, NextPacket) \in Seq(Entries)
      BY <1>0, <3>1, AppendIs DEF TracksRecord
    <3>. QED  BY <1>0, <3>1, <3>2 DEF TracksRecord
  <2>. QED  BY <1>0, <2>1, <2>2, <2>3 DEF DemuxRecords
<1>. QED  BY <1>1, <1>2, <1>3, <1>4, <1>5 DEF ReadThread

LEMMA DemuxTypesStep == DemuxRecords /\ [DemuxNext]_demuxVars => DemuxRecords'
<1>. SUFFICES ASSUME DemuxRecords, [DemuxNext]_demuxVars PROVE DemuxRecords'
  OBVIOUS
<1>1. CASE UNCHANGED demuxVars
  BY <1>1 DEF demuxVars, DemuxRecords
<1>2. CASE DemuxNext
  BY <1>2, CallsTypes, StopsTypes, ReadsTypes, ReadThreadTypes DEF DemuxNext
<1>. QED  BY <1>1, <1>2

-----------------------------------------------------------------------------
(* The read thread's sleep.  A seek that arrives while av_read_frame runs    *)
(* has posted the semaphore, or the thread is corked, as it is in the middle *)
(* of a stop, which posts before it leaves its own seek behind.             *)
SeekHeard ==
    /\ reader.at = "reading" /\ demux.seekTo # NoSeek => reader.sem > 0 \/ reader.corked
    /\ demuxCall.step = "drop" => reader.corked
    /\ demuxCall.step # "none" => demuxCall.op # "none"

SleepInv == NotStalled /\ SeekHeard

LEMMA SleepInit == DemuxInit => SleepInv
  BY DEF DemuxInit, SleepInv, NotStalled, SeekHeard

LEMMA PostsIs ==
    ASSUME NEW r \in ReaderRecord
    PROVE  /\ Posts(r).sem \in Nat /\ Posts(r).sem > 0
           /\ Posts(r).at = r.at /\ Posts(r).corked = r.corked
           /\ \A b \in BOOLEAN, c \in BOOLEAN :
                /\ [Posts(r) EXCEPT !.exit = b, !.continue = c].at = r.at
                /\ [Posts(r) EXCEPT !.exit = b, !.continue = c].sem = Posts(r).sem
                /\ [Posts(r) EXCEPT !.exit = b, !.continue = c].corked = r.corked
           /\ \A b \in BOOLEAN :
                /\ [Posts(r) EXCEPT !.exit = b].at = r.at
                /\ [Posts(r) EXCEPT !.exit = b].sem = Posts(r).sem
                /\ [Posts(r) EXCEPT !.exit = b].corked = r.corked
  BY DEF Posts, ReaderRecord

LEMMA CallsSleep ==
    ASSUME DemuxRecords, SleepInv,
           \/ DemuxPrepare \/ OnDemuxPrepare \/ DemuxStart \/ DemuxFlush
           \/ \E ts \in 0 .. Duration : DemuxSeek(ts)
           \/ \E t \in VideoTracks : SelectTrack(t)
    PROVE  SleepInv'
<1>0. demux \in DemuxRecord /\ reader \in ReaderRecord /\ demuxCall \in CallRecord
  BY DEF DemuxRecords
<1>1. CASE DemuxPrepare
  BY <1>0, <1>1 DEF SleepInv, NotStalled, SeekHeard, DemuxPrepare, DemuxRecord
<1>2. CASE OnDemuxPrepare
  <2>1. demuxCall' = demuxCall
    BY <1>2 DEF OnDemuxPrepare
  <2>2. CASE ResetState /\ reader' = [Posts(reader) EXCEPT !.exit = TRUE, !.continue = FALSE]
    <3>1. demux'.seekTo = NoSeek
      BY <1>0, <2>2 DEF ResetState, DemuxRecord
    <3>2. reader'.sem > 0 /\ reader'.corked = reader.corked
      BY <1>0, <2>2, PostsIs
    <3>. QED  BY <2>1, <3>1, <3>2, <1>0, PostsIs DEF SleepInv, NotStalled, SeekHeard
  <2>3. CASE ~(ResetState /\ reader' = [Posts(reader) EXCEPT !.exit = TRUE, !.continue = FALSE])
    <3>1. reader'.at = "wait" /\ reader'.corked
      BY <1>0, <1>2, <2>3 DEF OnDemuxPrepare, ReaderRecord
    <3>. QED  BY <2>1, <3>1 DEF SleepInv, NotStalled, SeekHeard
  <2>. QED  BY <2>2, <2>3
<1>3. CASE DemuxStart
  BY <1>0, <1>3 DEF SleepInv, NotStalled, SeekHeard, DemuxStart, DemuxCalls, Posts, DemuxRecord, ReaderRecord
<1>4. CASE DemuxFlush
  BY <1>0, <1>4 DEF SleepInv, NotStalled, SeekHeard, DemuxFlush, FlushedDemux, Posts, DemuxRecord, ReaderRecord
<1>5. ASSUME NEW ts \in 0 .. Duration, DemuxSeek(ts) PROVE SleepInv'
  <2>1. reader' = [Posts(reader) EXCEPT !.exit = TRUE] /\ demuxCall' = demuxCall
    BY <1>5 DEF DemuxSeek
  <2>2. reader'.sem > 0 /\ reader'.corked = reader.corked
    BY <1>0, <2>1, PostsIs
  <2>. QED  BY <2>1, <2>2, <1>0, PostsIs DEF SleepInv, NotStalled, SeekHeard
<1>6. ASSUME NEW t \in VideoTracks, SelectTrack(t) PROVE SleepInv'
  BY <1>6 DEF SleepInv, NotStalled, SeekHeard, SelectTrack
<1>. QED  BY <1>1, <1>2, <1>3, <1>4, <1>5, <1>6

LEMMA StopsSleep ==
    ASSUME DemuxRecords, SleepInv,
           \/ \E op \in {"stop", "reset"} : DemuxStop(op)
           \/ StopFlushes \/ StopDrops \/ StopIsNothing \/ ResetEndsThread \/ ResetJoined
    PROVE  SleepInv'
<1>0. demux \in DemuxRecord /\ reader \in ReaderRecord /\ demuxCall \in CallRecord
  BY DEF DemuxRecords
<1>1. ASSUME NEW op \in {"stop", "reset"}, DemuxStop(op) PROVE SleepInv'
  BY <1>0, <1>1 DEF SleepInv, NotStalled, SeekHeard, DemuxStop, CallRecord, ReaderRecord
<1>2. CASE StopFlushes
  <2>. QED  BY <1>0, <1>2 DEF SleepInv, NotStalled, SeekHeard, StopFlushes, FlushedDemux, Posts, DemuxRecord, ReaderRecord, CallRecord
<1>3. CASE StopDrops
  BY <1>0, <1>3 DEF SleepInv, NotStalled, SeekHeard, StopDrops, DemuxRecord, ReaderRecord, CallRecord
<1>4. CASE StopIsNothing
  BY <1>0, <1>4 DEF SleepInv, NotStalled, SeekHeard, StopIsNothing, CallRecord
<1>6. CASE ResetEndsThread
  <2>1. reader' = [Posts(reader) EXCEPT !.exit = TRUE, !.continue = FALSE] /\ demux' = demux
    BY <1>6 DEF ResetEndsThread
  <2>2. reader'.sem > 0
    BY <1>0, <2>1, PostsIs
  <2>3. demuxCall'.op # "none" /\ demuxCall'.step = "join"
    BY <1>0, <1>6 DEF ResetEndsThread, CallRecord
  <2>. QED  BY <2>1, <2>2, <2>3, <1>0, PostsIs DEF SleepInv, NotStalled, SeekHeard
<1>5. CASE ResetJoined
  BY <1>0, <1>5 DEF SleepInv, NotStalled, SeekHeard, ResetJoined, ResetState, CallRecord, DemuxRecord
<1>. QED  BY <1>1, <1>2, <1>3, <1>4, <1>5, <1>6

LEMMA ReadsSleep ==
    ASSUME DemuxRecords, SleepInv, ReadVideo \/ ReadAudio
    PROVE  SleepInv'
<1>0. demux \in DemuxRecord /\ reader \in ReaderRecord /\ demuxCall \in CallRecord /\ demuxCall' = demuxCall
  BY DEF DemuxRecords, ReadVideo, ReadAudio
<1>1. \/ demux' = demux /\ reader' = reader
      \/ /\ \E b \in {"buffering", "normal"} : demux' = [demux EXCEPT !.bufState = b]
         /\ reader' = [reader EXCEPT !.sem = @ + 1]
  <2>1. PICK t, a : AfterRead(t, a)
    BY DEF ReadVideo, ReadAudio
  <2>. QED  BY <2>1, AfterReadIs
<1>2. CASE demux' = demux /\ reader' = reader
  BY <1>0, <1>2 DEF SleepInv, NotStalled, SeekHeard
<1>3. CASE ~(demux' = demux /\ reader' = reader)
  BY <1>0, <1>1, <1>3 DEF SleepInv, NotStalled, SeekHeard, DemuxRecord, ReaderRecord
<1>. QED  BY <1>2, <1>3

LEMMA ReadThreadSleep ==
    ASSUME DemuxRecords, SleepInv, ReadThread
    PROVE  SleepInv'
<1>0. demux \in DemuxRecord /\ reader \in ReaderRecord /\ demuxCall \in CallRecord /\ demuxCall' = demuxCall
  <2>1. ReadFrame => demuxCall' = demuxCall
    BY DEF ReadFrame
  <2>. QED  BY <2>1 DEF DemuxRecords, ReadThread, ReaderWakes, ReaderEnds, CheckSeek, ReadFrameBegins,
                        ReadFrameFails, ReadFrameEof
<1>1. CASE ReaderWakes \/ ReaderEnds \/ ReadFrameFails
  BY <1>0, <1>1 DEF SleepInv, NotStalled, SeekHeard, ReaderWakes, ReaderEnds, ReadFrameFails, ReaderRecord
<1>2. CASE ReadFrameBegins
  BY <1>0, <1>2 DEF SleepInv, NotStalled, SeekHeard, ReadFrameBegins, ReaderRecord
<1>3. CASE CheckSeek
  <2>1. reader.at = "top" /\ (reader' = reader \/ reader' = [Posts(reader) EXCEPT !.exit = FALSE])
    BY <1>3 DEF CheckSeek
  <2>2. reader'.at = "top" /\ reader'.corked = reader.corked
    BY <1>0, <2>1 DEF Posts, ReaderRecord
  <2>. QED  BY <1>0, <2>2 DEF SleepInv, NotStalled, SeekHeard
<1>4. CASE ReadFrameEof
  BY <1>0, <1>4 DEF SleepInv, NotStalled, SeekHeard, ReadFrameEof, ReaderRecord, DemuxRecord
<1>5. CASE ReadFrame
  <2>1. /\ reader.at = "reading"
        /\ demux' = [demux EXCEPT !.bufState = demux'.bufState, !.reported = demux'.reported,
                                  !.checkKey = demux'.checkKey]
        /\ reader' = [reader EXCEPT !.at = reader'.at] /\ reader'.at \in {"wait", "top"}
        /\ reader'.at = "wait" => demux'.bufState = "full"
    BY <1>5, ReadFrameIs
  <2>2. /\ demux'.seekTo = demux.seekTo
        /\ reader'.sem = reader.sem /\ reader'.corked = reader.corked
    BY <1>0, <2>1 DEF DemuxRecord, ReaderRecord
  <2>. QED  BY <1>0, <2>1, <2>2 DEF SleepInv, NotStalled, SeekHeard, ReaderRecord
<1>. QED  BY <1>1, <1>2, <1>3, <1>4, <1>5 DEF ReadThread

LEMMA SleepStep == DemuxRecords /\ SleepInv /\ [DemuxNext]_demuxVars => SleepInv'
<1>. SUFFICES ASSUME DemuxRecords, SleepInv, [DemuxNext]_demuxVars PROVE SleepInv'
  OBVIOUS
<1>1. CASE UNCHANGED demuxVars
  BY <1>1 DEF demuxVars, SleepInv, NotStalled, SeekHeard
<1>2. CASE DemuxNext
  BY <1>2, CallsSleep, StopsSleep, ReadsSleep, ReadThreadSleep DEF DemuxNext
<1>. QED  BY <1>1, <1>2

-----------------------------------------------------------------------------
(* The seeks: the answers already given, followed by the seeks under way.   *)
Ordered(q) == \A i, j \in DOMAIN q : i < j => q[i] < q[j]

Accounted(q, asked, dropped) ==
    Ordered(q) /\ 1 .. asked = ToSet(q) \cup dropped /\ ToSet(q) \cap dropped = {}

SeeksInv ==
    /\ demux.seekTo = NoSeek <=> demux.seeks = <<>>
    /\ Accounted(demuxSeen.answered \o OwnSeeks, demuxSeen.asked, demuxSeen.dropped)

LEMMA SeeksInvIs == SeeksInv <=> SeeksAnswered
  BY DEF SeeksInv, SeeksAnswered, Accounted, Ordered

LEMMA ConcatIs ==
    ASSUME NEW s \in Seq(Nat), NEW t \in Seq(Nat)
    PROVE  /\ s \o t \in Seq(Nat) /\ Len(s \o t) = Len(s) + Len(t)
           /\ \A i \in 1 .. Len(s) : (s \o t)[i] = s[i]
           /\ \A i \in 1 .. Len(t) : (s \o t)[Len(s) + i] = t[i]
           /\ s \o <<>> = s
           /\ \A x \in Nat : s \o Append(t, x) = Append(s \o t, x)
<1>1. /\ s \o t \in Seq(Nat) /\ Len(s \o t) = Len(s) + Len(t)
      /\ \A i \in 1 .. Len(s) : (s \o t)[i] = s[i]
      /\ \A i \in 1 .. Len(t) : (s \o t)[Len(s) + i] = t[i]
  OBVIOUS
<1>2. s \o <<>> = s
  OBVIOUS
<1>3. ASSUME NEW x \in Nat PROVE s \o Append(t, x) = Append(s \o t, x)
  OBVIOUS
<1>. QED  BY <1>1, <1>2, <1>3

LEMMA TailAppend ==
    ASSUME NEW s \in Seq(Nat), s # <<>>, NEW x \in Nat
    PROVE  Append(s, x) # <<>> /\ Head(Append(s, x)) = Head(s) /\ Tail(Append(s, x)) = Append(Tail(s), x)
  BY HeadTailAppend, AppendProperties

(* Another seek comes last.                                                *)
LEMMA AccountedAppend ==
    ASSUME NEW q \in Seq(Nat), NEW asked \in Nat, NEW dropped \in SUBSET Nat, Accounted(q, asked, dropped)
    PROVE  Accounted(Append(q, asked + 1), asked + 1, dropped)
<1>. DEFINE r == Append(q, asked + 1)
<1>1. /\ r \in Seq(Nat) /\ Len(r) = Len(q) + 1 /\ Len(q) \in Nat
      /\ \A i \in 1 .. Len(q) : r[i] = q[i]
      /\ r[Len(q) + 1] = asked + 1
  OBVIOUS
<1>2. DOMAIN q = 1 .. Len(q) /\ DOMAIN r = 1 .. Len(q) + 1
  BY <1>1
<1>. HIDE DEF r
<1>3. \A i \in 1 .. Len(q) : q[i] \in Nat /\ q[i] \in 1 .. asked
  BY <1>2 DEF Accounted, ToSet
<1>4. Ordered(r)
  <2>1. SUFFICES ASSUME NEW i \in 1 .. Len(q) + 1, NEW j \in 1 .. Len(q) + 1, i < j PROVE r[i] < r[j]
    BY <1>2 DEF Ordered
  <2>2. i \in 1 .. Len(q) /\ r[i] = q[i]
    BY <1>1, <2>1
  <2>3. CASE j = Len(q) + 1
    BY <1>1, <1>3, <2>2, <2>3
  <2>4. CASE j \in 1 .. Len(q)
    BY <1>1, <1>2, <2>1, <2>2, <2>4 DEF Accounted, Ordered
  <2>. QED  BY <1>1, <2>3, <2>4
<1>5. ToSet(r) = ToSet(q) \cup {asked + 1}
  <2>1. \A x : x \in ToSet(r) <=> x \in ToSet(q) \cup {asked + 1}
    <3>1. SUFFICES ASSUME NEW x PROVE x \in ToSet(r) <=> x \in ToSet(q) \cup {asked + 1}
      OBVIOUS
    <3>2. x \in ToSet(r) => x \in ToSet(q) \cup {asked + 1}
      <4>1. SUFFICES ASSUME NEW i \in 1 .. Len(q) + 1, x = r[i] PROVE x \in ToSet(q) \cup {asked + 1}
        BY <1>2 DEF ToSet
      <4>2. i \in 1 .. Len(q) \/ i = Len(q) + 1
        BY <1>1
      <4>. QED  BY <1>1, <1>2, <4>1, <4>2 DEF ToSet
    <3>3. x \in ToSet(q) => x \in ToSet(r)
      <4>1. SUFFICES ASSUME NEW i \in 1 .. Len(q), x = q[i] PROVE x \in ToSet(r)
        BY <1>2 DEF ToSet
      <4>2. i \in 1 .. Len(q) + 1 /\ x = r[i]
        BY <1>1, <4>1
      <4>. QED  BY <1>2, <4>2 DEF ToSet
    <3>4. asked + 1 \in ToSet(r)
      <4>1. Len(q) + 1 \in 1 .. Len(q) + 1
        BY <1>1
      <4>. QED  BY <1>1, <1>2, <4>1 DEF ToSet
    <3>. QED  BY <3>2, <3>3, <3>4
  <2>. QED  BY <2>1
<1>6. 1 .. asked + 1 = (1 .. asked) \cup {asked + 1}
  OBVIOUS
<1>7. asked + 1 \notin dropped
  BY DEF Accounted
<1>8. r = Append(q, asked + 1)
  BY DEF r
<1>. QED  BY <1>4, <1>5, <1>6, <1>7, <1>8 DEF Accounted

(* The seeks under way are dropped together.                               *)
LEMMA AccountedDrop ==
    ASSUME NEW s \in Seq(Nat), NEW t \in Seq(Nat), NEW asked \in Nat, NEW dropped \in SUBSET Nat,
           Accounted(s \o t, asked, dropped)
    PROVE  Accounted(s, asked, dropped \cup ToSet(t))
<1>1. /\ s \o t \in Seq(Nat) /\ Len(s \o t) = Len(s) + Len(t) /\ Len(s) \in Nat /\ Len(t) \in Nat
      /\ \A i \in 1 .. Len(s) : (s \o t)[i] = s[i]
      /\ \A i \in 1 .. Len(t) : (s \o t)[Len(s) + i] = t[i]
  BY ConcatIs
<1>2. PICK q \in Seq(Nat) : q = s \o t
  BY <1>1
<1>3. /\ DOMAIN q = 1 .. Len(s) + Len(t) /\ DOMAIN s = 1 .. Len(s) /\ DOMAIN t = 1 .. Len(t)
      /\ \A i \in 1 .. Len(s) : q[i] = s[i]
      /\ \A i \in 1 .. Len(t) : q[Len(s) + i] = t[i]
  BY <1>1, <1>2
<1>4. Ordered(q) /\ 1 .. asked = ToSet(q) \cup dropped /\ ToSet(q) \cap dropped = {}
  BY <1>2 DEF Accounted
<1>5. \A i \in 1 .. Len(s) : i \in DOMAIN q
  BY <1>1, <1>3
<1>6. Ordered(s)
  BY <1>3, <1>4, <1>5 DEF Ordered
<1>7. ToSet(q) = ToSet(s) \cup ToSet(t)
  <2>1. ASSUME NEW x \in ToSet(q) PROVE x \in ToSet(s) \cup ToSet(t)
    <3>1. PICK i \in 1 .. Len(s) + Len(t) : x = q[i]
      BY <1>3 DEF ToSet
    <3>2. i \in 1 .. Len(s) \/ (i - Len(s) \in 1 .. Len(t) /\ i = Len(s) + (i - Len(s)))
      BY <1>1
    <3>3. CASE i \in 1 .. Len(s)
      BY <1>3, <3>1, <3>3 DEF ToSet
    <3>4. CASE i - Len(s) \in 1 .. Len(t) /\ i = Len(s) + (i - Len(s))
      <4>1. x = t[i - Len(s)]
        BY <1>3, <3>1, <3>4
      <4>. QED  BY <1>3, <3>4, <4>1 DEF ToSet
    <3>. QED  BY <3>2, <3>3, <3>4
  <2>2. ASSUME NEW x \in ToSet(s) PROVE x \in ToSet(q)
    BY <1>3, <1>5 DEF ToSet
  <2>3. ASSUME NEW x \in ToSet(t) PROVE x \in ToSet(q)
    <3>1. PICK i \in 1 .. Len(t) : x = t[i]
      BY <1>3 DEF ToSet
    <3>2. Len(s) + i \in DOMAIN q /\ q[Len(s) + i] = x
      BY <1>1, <1>3, <3>1
    <3>. QED  BY <3>2 DEF ToSet
  <2>. QED  BY <2>1, <2>2, <2>3
<1>8. ToSet(s) \cap ToSet(t) = {}
  <2>1. SUFFICES ASSUME NEW x \in ToSet(s), x \in ToSet(t) PROVE FALSE
    OBVIOUS
  <2>2. PICK i \in 1 .. Len(s), j \in 1 .. Len(t) : x = s[i] /\ x = t[j]
    BY <1>3, <2>1 DEF ToSet
  <2>3. i \in DOMAIN q /\ Len(s) + j \in DOMAIN q /\ i < Len(s) + j /\ q[i] = x /\ q[Len(s) + j] = x
    <3>1. i <= Len(s) /\ 1 <= j /\ i \in Int /\ j \in Int /\ i < Len(s) + j
      BY <1>1
    <3>2. i \in 1 .. Len(s) + Len(t) /\ Len(s) + j \in 1 .. Len(s) + Len(t)
      BY <1>1
    <3>. QED  BY <1>3, <2>2, <3>1, <3>2
  <2>4. x < x /\ x \in Nat
    BY <1>4, <2>3 DEF Ordered
  <2>. QED  BY <2>4
<1>. QED  BY <1>4, <1>6, <1>7, <1>8 DEF Accounted

(* The steps that change neither the seeks nor their history.              *)
LEMMA SeeksKept ==
    ASSUME SeeksInv, demux'.seekTo = demux.seekTo, demux'.seeks = demux.seeks,
           demuxSeen'.answered = demuxSeen.answered, demuxSeen'.asked = demuxSeen.asked,
           demuxSeen'.dropped = demuxSeen.dropped
    PROVE  SeeksInv'
<1>1. OwnSeeks' = OwnSeeks
  BY DEF OwnSeeks
<1>. QED  BY <1>1 DEF SeeksInv

(* The steps that leave no seek of the pipeline under way.                 *)
LEMMA SeeksGone ==
    ASSUME DemuxRecords, SeeksInv, demux'.seekTo = NoSeek <=> demux'.seeks = <<>>, OwnSeeks' = <<>>,
           demuxSeen'.asked = demuxSeen.asked,
           \/ /\ demuxSeen'.answered = demuxSeen.answered
              /\ demuxSeen'.dropped = demuxSeen.dropped \cup ToSet(OwnSeeks)
           \/ /\ demuxSeen'.answered = demuxSeen.answered \o OwnSeeks
              /\ demuxSeen'.dropped = demuxSeen.dropped
    PROVE  SeeksInv'
<1>1. PICK s \in Seq(Nat), t \in Seq(Nat), asked \in Nat, dropped \in SUBSET Nat :
        s = demuxSeen.answered /\ t = OwnSeeks /\ asked = demuxSeen.asked /\ dropped = demuxSeen.dropped
  BY OwnSeeksIs DEF DemuxRecords, DemuxSeenRecord
<1>2. Accounted(s \o t, asked, dropped)
  BY <1>1 DEF SeeksInv
<1>3. Accounted(s, asked, dropped \cup ToSet(t))
  BY <1>2, AccountedDrop
<1>4. s \o <<>> = s /\ (s \o t) \o <<>> = s \o t
  BY ConcatIs
<1>. QED  BY <1>1, <1>2, <1>3, <1>4 DEF SeeksInv

LEMMA SeeksInit == DemuxInit => SeeksInv
<1>. SUFFICES ASSUME DemuxInit PROVE SeeksInv
  OBVIOUS
<1>1. /\ demux.seekTo = NoSeek /\ demux.seeks = <<>> /\ OwnSeeks = <<>>
      /\ demuxSeen.answered = <<>> /\ demuxSeen.asked = 0 /\ demuxSeen.dropped = {}
  BY DEF DemuxInit, OwnSeeks
<1>2. <<>> \o <<>> = <<>> /\ DOMAIN <<>> = {}
  OBVIOUS
<1>3. ToSet(<<>>) = {} /\ Ordered(<<>>) /\ 1 .. 0 = {}
  BY <1>2 DEF ToSet, Ordered
<1>. QED  BY <1>1, <1>2, <1>3 DEF SeeksInv, Accounted

LEMMA SeekAsked ==
    ASSUME DemuxRecords, SeeksInv, NEW ts \in 0 .. Duration, DemuxSeek(ts)
    PROVE  SeeksInv'
<1>1. /\ demux'.seekTo = ts + StartTime /\ demux'.seeks = Append(demux.seeks, demuxSeen.asked + 1)
      /\ demuxSeen'.asked = demuxSeen.asked + 1
      /\ demuxSeen'.answered = demuxSeen.answered /\ demuxSeen'.dropped = demuxSeen.dropped
  BY DEF DemuxRecords, DemuxRecord, DemuxSeenRecord, DemuxSeek
<1>2. PICK q \in Seq(Nat), s \in Seq(Nat), asked \in Nat, dropped \in SUBSET Nat :
        q = demux.seeks /\ s = demuxSeen.answered /\ asked = demuxSeen.asked /\ dropped = demuxSeen.dropped
  BY DEF DemuxRecords, DemuxRecord, DemuxSeenRecord
<1>3. PICK t \in Seq(Nat) : t = OwnSeeks
  BY OwnSeeksIs
<1>4. OwnSeeks' = Append(t, asked + 1)
  <2>1. CASE q = <<>>
    <3>1. t = <<>> /\ Append(q, asked + 1) = <<asked + 1>> /\ Head(<<asked + 1>>) = asked + 1
      BY <1>2, <1>3, <2>1 DEF OwnSeeks
    <3>2. asked + 1 # 0
      OBVIOUS
    <3>. QED  BY <1>1, <1>2, <2>1, <3>1, <3>2 DEF OwnSeeks
  <2>2. CASE q # <<>>
    <3>1. /\ Append(q, asked + 1) # <<>> /\ Head(Append(q, asked + 1)) = Head(q)
          /\ Tail(Append(q, asked + 1)) = Append(Tail(q), asked + 1)
      <4>1. asked + 1 \in Nat
        OBVIOUS
      <4>2. PICK x \in Nat : x = asked + 1
        BY <4>1
      <4>3. Append(q, x) # <<>> /\ Head(Append(q, x)) = Head(q) /\ Tail(Append(q, x)) = Append(Tail(q), x)
        BY <2>2, TailAppend
      <4>. QED  BY <4>2, <4>3
    <3>. QED  BY <1>1, <1>2, <1>3, <2>2, <3>1 DEF OwnSeeks
  <2>. QED  BY <2>1, <2>2
<1>5. Accounted(s \o t, asked, dropped)
  BY <1>2, <1>3 DEF SeeksInv
<1>6. s \o t \in Seq(Nat) /\ s \o Append(t, asked + 1) = Append(s \o t, asked + 1)
  BY ConcatIs
<1>7. Accounted(s \o Append(t, asked + 1), asked + 1, dropped)
  BY <1>5, <1>6, AccountedAppend
<1>8. demux'.seeks # <<>> /\ demux'.seekTo # NoSeek
  <2>1. Append(q, asked + 1) # <<>>
    <3>1. asked + 1 \in Nat
      OBVIOUS
    <3>2. PICK x \in Nat : x = asked + 1
      BY <3>1
    <3>3. Append(q, x) # <<>>
      BY AppendProperties
    <3>. QED  BY <3>2, <3>3
  <2>2. ts + StartTime # -1
    BY DurationIs, DemuxAssumption
  <2>. QED  BY <1>1, <1>2, <2>1, <2>2 DEF NoSeek
<1>. QED  BY <1>1, <1>2, <1>4, <1>7, <1>8 DEF SeeksInv

(* resetInternal and stop drop the seeks under way.                        *)
LEMMA ResetSeeks == ASSUME DemuxRecords, SeeksInv, ResetState PROVE SeeksInv'
<1>0. demux \in DemuxRecord /\ demuxSeen \in DemuxSeenRecord
  BY DEF DemuxRecords
<1>1. demux'.seekTo = NoSeek /\ demux'.seeks = <<>>
  BY <1>0 DEF ResetState, DemuxRecord
<1>2. PICK h \in DemuxSeenRecord : h = Jumped(demuxSeen)
  BY <1>0, SeenWith
<1>3. h.answered = demuxSeen.answered /\ h.dropped = demuxSeen.dropped /\ h.asked = demuxSeen.asked
  BY <1>0, <1>2 DEF Jumped, DemuxSeenRecord
<1>4. /\ demuxSeen'.answered = h.answered /\ demuxSeen'.asked = h.asked
      /\ demuxSeen'.dropped = h.dropped \cup ToSet(OwnSeeks)
  BY <1>2 DEF ResetState, DemuxSeenRecord
<1>5. OwnSeeks' = <<>>
  BY <1>1 DEF OwnSeeks
<1>. QED  BY <1>1, <1>3, <1>4, <1>5, SeeksGone

LEMMA CallsSeeks ==
    ASSUME DemuxRecords, SeeksInv,
           \/ DemuxPrepare \/ OnDemuxPrepare \/ DemuxStart \/ DemuxFlush
           \/ \E ts \in 0 .. Duration : DemuxSeek(ts)
           \/ \E t \in VideoTracks : SelectTrack(t)
    PROVE  SeeksInv'
<1>0. demux \in DemuxRecord /\ demuxSeen \in DemuxSeenRecord
  BY DEF DemuxRecords
<1>1. CASE DemuxPrepare
  BY <1>0, <1>1, SeeksKept DEF DemuxPrepare, Called, DemuxRecord, DemuxSeenRecord
<1>2. CASE OnDemuxPrepare
  <2>1. CASE ResetState
    BY <2>1, ResetSeeks
  <2>2. CASE ~ResetState
    BY <1>0, <1>2, <2>2, SeeksKept DEF OnDemuxPrepare, DemuxRecord
  <2>. QED  BY <2>1, <2>2
<1>3. CASE DemuxStart
  BY <1>0, <1>3, SeeksKept DEF DemuxStart, Called, DemuxRecord, DemuxSeenRecord
<1>4. CASE DemuxFlush
  BY <1>0, <1>4, SeeksKept DEF DemuxFlush, FlushedDemux, Jumped, DemuxRecord, DemuxSeenRecord
<1>6. ASSUME NEW t \in VideoTracks, SelectTrack(t) PROVE SeeksInv'
  BY <1>0, <1>6, SeeksKept DEF SelectTrack, Called, DemuxSeenRecord
<1>. QED  BY <1>1, <1>2, <1>3, <1>4, <1>6, SeekAsked

LEMMA StopsSeeks ==
    ASSUME DemuxRecords, SeeksInv,
           \/ \E op \in {"stop", "reset"} : DemuxStop(op)
           \/ StopFlushes \/ StopDrops \/ StopIsNothing \/ ResetEndsThread \/ ResetJoined
    PROVE  SeeksInv'
<1>0. demux \in DemuxRecord /\ demuxSeen \in DemuxSeenRecord
  BY DEF DemuxRecords
<1>1. ASSUME NEW op \in {"stop", "reset"}, DemuxStop(op) PROVE SeeksInv'
  BY <1>0, <1>1, SeeksKept DEF DemuxStop, Called, DemuxSeenRecord
<1>2. CASE StopFlushes
  BY <1>0, <1>2, SeeksKept DEF StopFlushes, FlushedDemux, Jumped, DemuxRecord, DemuxSeenRecord
<1>3. CASE StopDrops
  <2>1. /\ demux'.seekTo = 0 /\ demux'.seeks = <<0>>
        /\ demuxSeen'.answered = demuxSeen.answered /\ demuxSeen'.asked = demuxSeen.asked
        /\ demuxSeen'.dropped = demuxSeen.dropped \cup ToSet(OwnSeeks)
    BY <1>0, <1>3 DEF StopDrops, DemuxRecord, DemuxSeenRecord
  <2>2. <<0>> # <<>> /\ Head(<<0>>) = 0 /\ Tail(<<0>>) = <<>> /\ 0 # NoSeek
    BY DEF NoSeek
  <2>3. OwnSeeks' = <<>>
    BY <2>1, <2>2 DEF OwnSeeks
  <2>. QED  BY <2>1, <2>2, <2>3, SeeksGone
<1>4. CASE StopIsNothing \/ ResetEndsThread
  BY <1>4, SeeksKept DEF StopIsNothing, ResetEndsThread
<1>5. CASE ResetJoined
  BY <1>5, ResetSeeks DEF ResetJoined
<1>. QED  BY <1>1, <1>2, <1>3, <1>4, <1>5

LEMMA ReadsSeeks ==
    ASSUME DemuxRecords, SeeksInv, ReadVideo \/ ReadAudio
    PROVE  SeeksInv'
<1>0. demux \in DemuxRecord /\ demuxSeen \in DemuxSeenRecord
  BY DEF DemuxRecords
<1>1. demux'.seekTo = demux.seekTo /\ demux'.seeks = demux.seeks
  <2>1. PICK t, a : AfterRead(t, a)
    BY DEF ReadVideo, ReadAudio
  <2>2. demux' = demux \/ \E b \in {"buffering", "normal"} : demux' = [demux EXCEPT !.bufState = b]
    BY <2>1, AfterReadIs
  <2>. QED  BY <1>0, <2>2 DEF DemuxRecord
<1>2. /\ demuxSeen'.answered = demuxSeen.answered /\ demuxSeen'.asked = demuxSeen.asked
      /\ demuxSeen'.dropped = demuxSeen.dropped
  <2>1. CASE ReadVideo
    <3>1. PICK e, b : demuxSeen' = [demuxSeen EXCEPT !.lastV = e, !.switched = b, !.jumpedV = FALSE]
      BY <2>1 DEF ReadVideo
    <3>. QED  BY <1>0, <3>1 DEF DemuxSeenRecord
  <2>2. CASE ReadAudio
    BY <1>0, <2>2 DEF ReadAudio, DemuxSeenRecord
  <2>. QED  BY <2>1, <2>2
<1>. QED  BY <1>1, <1>2, SeeksKept

LEMMA ReadThreadSeeks ==
    ASSUME DemuxRecords, SeeksInv, ReadThread
    PROVE  SeeksInv'
<1>0. demux \in DemuxRecord /\ demuxSeen \in DemuxSeenRecord
  BY DEF DemuxRecords
<1>1. CASE ReaderWakes \/ ReaderEnds \/ ReadFrameBegins \/ ReadFrameFails
  BY <1>1, SeeksKept DEF ReaderWakes, ReaderEnds, ReadFrameBegins, ReadFrameFails
<1>2. CASE CheckSeek
  <2>. DEFINE done == [demux EXCEPT !.seekTo = NoSeek, !.seeks = <<>>, !.bufState = "buffering"]
  <2>1. /\ \/ demux' = [done EXCEPT !.checkKey = FALSE]
           \/ demux' = FlushedDemux(done)
           \/ demux' = [FlushedDemux(done) EXCEPT !.checkKey = FALSE]
        /\ \E how : demuxSeen' = Answers(demuxSeen, how)
    BY <1>2 DEF CheckSeek
  <2>2. demux'.seekTo = NoSeek /\ demux'.seeks = <<>>
    BY <1>0, <2>1 DEF DemuxRecord, FlushedDemux
  <2>3. PICK h \in DemuxSeenRecord : h = Jumped(demuxSeen)
    BY <1>0, SeenWith
  <2>4. h.answered = demuxSeen.answered /\ h.dropped = demuxSeen.dropped /\ h.asked = demuxSeen.asked
    BY <1>0, <2>3 DEF Jumped, DemuxSeenRecord
  <2>5. PICK n, m : demuxSeen' = [h EXCEPT !.answered = @ \o OwnSeeks, !.target = n, !.shift = m]
    BY <2>1, <2>3 DEF Answers
  <2>6. /\ demuxSeen'.answered = h.answered \o OwnSeeks
        /\ demuxSeen'.asked = h.asked /\ demuxSeen'.dropped = h.dropped
    BY <2>5 DEF DemuxSeenRecord
  <2>7. OwnSeeks' = <<>>
    BY <2>2 DEF OwnSeeks
  <2>. QED  BY <2>2, <2>4, <2>6, <2>7, SeeksGone
<1>3. CASE ReadFrameEof
  BY <1>0, <1>3, SeeksKept DEF ReadFrameEof, DemuxRecord
<1>4. CASE ReadFrame
  <2>1. /\ demuxSeen' = demuxSeen
        /\ demux' = [demux EXCEPT !.bufState = demux'.bufState, !.reported = demux'.reported,
                                  !.checkKey = demux'.checkKey]
    BY <1>4, ReadFrameIs
  <2>2. demux'.seekTo = demux.seekTo /\ demux'.seeks = demux.seeks
    BY <1>0, <2>1 DEF DemuxRecord
  <2>. QED  BY <2>1, <2>2, SeeksKept
<1>. QED  BY <1>1, <1>2, <1>3, <1>4 DEF ReadThread

LEMMA SeeksStep == DemuxRecords /\ SeeksInv /\ [DemuxNext]_demuxVars => SeeksInv'
<1>. SUFFICES ASSUME DemuxRecords, SeeksInv, [DemuxNext]_demuxVars PROVE SeeksInv'
  OBVIOUS
<1>1. CASE UNCHANGED demuxVars
  BY <1>1, SeeksKept DEF demuxVars
<1>2. CASE DemuxNext
  BY <1>2, CallsSeeks, StopsSeeks, ReadsSeeks, ReadThreadSeeks DEF DemuxNext
<1>. QED  BY <1>1, <1>2

-----------------------------------------------------------------------------
(* What the decoders are given.  A chain: packets of the stream st in the    *)
(* order of the file, none left out, up to where FFmpeg is (pos); if the     *)
(* stream may end early, up to the end of the file at any place.  Only Eos  *)
(* follows Eos.                                                            *)
Chain(list, st, off, pos) ==
    /\ \A i \in 1 .. Len(list) : list[i] # Eos => File[list[i]].st = st
    /\ \A i \in 1 .. Len(list) - 1 :
         IF list[i] = Eos THEN list[i + 1] = Eos
         ELSE list[i + 1] = NextOf(list[i]) \/ (st \in off /\ list[i + 1] = Eos)
    /\ list # <<>> =>
         LET e == list[Len(list)]
         IN IF e = Eos THEN pos = Len(File) + 1
            ELSE e < pos /\ (st \in off \/ \A i \in e + 1 .. pos - 1 : File[i].st # st)

(* The last one given, if the list goes on from it, and the list.           *)
Given(jumped, last, list) == IF jumped THEN list ELSE <<last>> \o list

LEMMA NextOfIs ==
    ASSUME NEW e \in 1 .. Len(File)
    PROVE  /\ \A p \in e + 1 .. Len(File) :
                File[p].st = File[e].st /\ (\A i \in e + 1 .. p - 1 : File[i].st # File[e].st) => NextOf(e) = p
           /\ (\A i \in e + 1 .. Len(File) : File[i].st # File[e].st) => NextOf(e) = Eos
<1>. DEFINE after == {i \in e + 1 .. Len(File) : File[i].st = File[e].st}
<1>1. NextOf(e) = IF after = {} THEN Eos ELSE CHOOSE i \in after : \A j \in after : i <= j
  BY DEF NextOf
<1>2. Len(File) \in Nat
  BY FileIs
<1>3. ASSUME NEW p \in e + 1 .. Len(File), File[p].st = File[e].st,
             \A i \in e + 1 .. p - 1 : File[i].st # File[e].st
      PROVE  NextOf(e) = p
  <2>1. p \in after
    BY <1>3
  <2>2. ASSUME NEW j \in after PROVE p <= j
    <3>1. j \in e + 1 .. Len(File) /\ j \notin e + 1 .. p - 1
      BY <1>3
    <3>. QED  BY <1>2, <3>1
  <2>3. \A x \in after : (\A j \in after : x <= j) => x = p
    <3>1. SUFFICES ASSUME NEW x \in after, \A j \in after : x <= j PROVE x = p
      OBVIOUS
    <3>2. x <= p /\ p <= x
      BY <2>1, <2>2, <3>1
    <3>. QED  BY <1>2, <3>2
  <2>. HIDE DEF after
  <2>4. (CHOOSE i \in after : \A j \in after : i <= j) = p
    BY <2>1, <2>2, <2>3
  <2>. QED  BY <1>1, <2>1, <2>4
<1>4. ASSUME \A i \in e + 1 .. Len(File) : File[i].st # File[e].st PROVE NextOf(e) = Eos
  <2>1. after = {}
    BY <1>4
  <2>. QED  BY <1>1, <2>1
<1>. QED  BY <1>3, <1>4

LEMMA ChainEmpty == ASSUME NEW st, NEW off, NEW pos PROVE Chain(<<>>, st, off, pos)
  BY DEF Chain

LEMMA ChainTail ==
    ASSUME NEW list \in Seq(Entries), list # <<>>, NEW st, NEW off, NEW pos \in Nat,
           Chain(list, st, off, pos)
    PROVE  Chain(Tail(list), st, off, pos)
<1>1. PICK t \in Seq(Entries) : t = Tail(list)
  BY TailIs
<1>2. /\ Len(list) \in Nat /\ Len(list) > 0 /\ Len(t) = Len(list) - 1
      /\ \A i \in 1 .. Len(list) - 1 : t[i] = list[i + 1]
  BY <1>1, TailIs
<1>3. \A i \in 1 .. Len(t) : t[i] = list[i + 1] /\ i + 1 \in 1 .. Len(list)
  BY <1>2
<1>4. \A i \in 1 .. Len(t) - 1 : t[i] = list[i + 1] /\ t[i + 1] = list[i + 1 + 1] /\ i + 1 \in 1 .. Len(list) - 1
  BY <1>2
<1>5. t # <<>> => t[Len(t)] = list[Len(list)]
  BY <1>2, <1>3
<1>6. \A i \in 1 .. Len(t) : t[i] # Eos => File[t[i]].st = st
  BY <1>3 DEF Chain
<1>7. \A i \in 1 .. Len(t) - 1 :
         IF t[i] = Eos THEN t[i + 1] = Eos
         ELSE t[i + 1] = NextOf(t[i]) \/ (st \in off /\ t[i + 1] = Eos)
  BY <1>4 DEF Chain
<1>. QED  BY <1>1, <1>5, <1>6, <1>7 DEF Chain

LEMMA ChainSuffix ==
    ASSUME NEW list \in Seq(Entries), NEW n \in 1 .. Len(list), NEW st, NEW off, NEW pos \in Nat,
           Chain(list, st, off, pos)
    PROVE  Chain(SubSeq(list, n, Len(list)), st, off, pos)
<1>1. PICK t \in Seq(Entries) : t = SubSeq(list, n, Len(list))
  BY SuffixIs
<1>2. /\ Len(list) \in Nat /\ Len(t) = Len(list) - n + 1
      /\ \A i \in 1 .. Len(list) - n + 1 : t[i] = list[i + n - 1]
  BY <1>1, SuffixIs
<1>3. \A i \in 1 .. Len(t) : t[i] = list[i + n - 1] /\ i + n - 1 \in 1 .. Len(list)
  BY <1>2
<1>4. \A i \in 1 .. Len(t) - 1 :
        t[i] = list[i + n - 1] /\ t[i + 1] = list[i + n - 1 + 1] /\ i + n - 1 \in 1 .. Len(list) - 1
  BY <1>2
<1>5. t[Len(t)] = list[Len(list)] /\ list # <<>>
  BY <1>2, <1>3
<1>6. \A i \in 1 .. Len(t) : t[i] # Eos => File[t[i]].st = st
  BY <1>3 DEF Chain
<1>7. \A i \in 1 .. Len(t) - 1 :
         IF t[i] = Eos THEN t[i + 1] = Eos
         ELSE t[i + 1] = NextOf(t[i]) \/ (st \in off /\ t[i + 1] = Eos)
  BY <1>4 DEF Chain
<1>. QED  BY <1>1, <1>5, <1>6, <1>7 DEF Chain

(* Packets that are not of the stream; a stream that may end early now.     *)
LEMMA ChainGoesOn ==
    ASSUME NEW list \in Seq(Entries), NEW st, NEW off, NEW may,
           NEW pos \in Nat, NEW p \in Nat, Chain(list, st, off, pos), st \in off => st \in may,
           pos <= p, p <= Len(File) + 1, st \in may \/ \A i \in pos .. p - 1 : File[i].st # st
    PROVE  Chain(list, st, may, p)
<1>1. Len(File) \in Nat /\ Len(list) \in Nat
  BY FileIs
<1>2. \A i \in 1 .. Len(list) - 1 :
         IF list[i] = Eos THEN list[i + 1] = Eos
         ELSE list[i + 1] = NextOf(list[i]) \/ (st \in may /\ list[i + 1] = Eos)
  BY DEF Chain
<1>3. ASSUME list # <<>>
      PROVE  LET e == list[Len(list)]
             IN IF e = Eos THEN p = Len(File) + 1
                ELSE e < p /\ (st \in may \/ \A i \in e + 1 .. p - 1 : File[i].st # st)
  <2>1. Len(list) \in 1 .. Len(list)
    BY <1>1, <1>3
  <2>2. PICK e \in Entries : e = list[Len(list)]
    BY <2>1
  <2>3. IF e = Eos THEN pos = Len(File) + 1
        ELSE e < pos /\ (st \in off \/ \A i \in e + 1 .. pos - 1 : File[i].st # st)
    BY <1>3, <2>2 DEF Chain
  <2>4. CASE e = Eos
    BY <1>1, <2>2, <2>3, <2>4
  <2>5. CASE e # Eos
    <3>1. e \in Nat /\ e < p
      BY <2>3, <2>5, EntriesAre
    <3>2. ASSUME st \notin may, NEW i \in e + 1 .. p - 1 PROVE File[i].st # st
      <4>1. i \in e + 1 .. pos - 1 \/ i \in pos .. p - 1
        BY <3>1
      <4>. QED  BY <2>3, <2>5, <3>2, <4>1
    <3>. QED  BY <2>2, <2>5, <3>1, <3>2
  <2>. QED  BY <2>4, <2>5
<1>4. \A i \in 1 .. Len(list) : list[i] # Eos => File[list[i]].st = st
  BY DEF Chain
<1>. QED  BY <1>2, <1>3, <1>4 DEF Chain

(* The next packet of the stream.                                          *)
LEMMA ChainAppend ==
    ASSUME NEW list \in Seq(Entries), NEW st, NEW off, NEW may,
           NEW pos \in 1 .. Len(File) + 1, NEW p \in pos .. Len(File), Chain(list, st, off, pos), st \notin off,
           File[p].st = st, \A i \in pos .. p - 1 : File[i].st # st
    PROVE  Chain(Append(list, p), st, may, p + 1)
<1>1. Len(File) \in Nat /\ Len(list) \in Nat /\ p \in 1 .. Len(File) /\ p \in Entries /\ p # Eos
  BY FileIs, EntriesAre
<1>2. PICK t \in Seq(Entries) : t = Append(list, p)
  BY <1>1, AppendIs
<1>3. /\ Len(t) = Len(list) + 1 /\ t # <<>> /\ t[Len(list) + 1] = p
      /\ \A i \in 1 .. Len(list) : t[i] = list[i]
  BY <1>1, <1>2, AppendIs
<1>4. ASSUME NEW i \in 1 .. Len(t) PROVE t[i] # Eos => File[t[i]].st = st
  <2>1. CASE i = Len(t)
    BY <1>3, <2>1
  <2>2. CASE i \in 1 .. Len(list)
    BY <1>3, <2>2 DEF Chain
  <2>. QED  BY <1>1, <1>3, <2>1, <2>2
<1>5. ASSUME NEW i \in 1 .. Len(t) - 1
      PROVE  IF t[i] = Eos THEN t[i + 1] = Eos
             ELSE t[i + 1] = NextOf(t[i]) \/ (st \in may /\ t[i + 1] = Eos)
  <2>1. CASE i \in 1 .. Len(list) - 1
    <3>1. t[i] = list[i] /\ t[i + 1] = list[i + 1]
      BY <1>1, <1>3, <2>1
    <3>. QED  BY <2>1, <3>1 DEF Chain
  <2>2. CASE i = Len(list)
    <3>1. i \in 1 .. Len(list) /\ list # <<>>
      BY <1>1, <1>3, <2>2
    <3>2. PICK e \in Entries : e = list[i] /\ e = t[i] /\ t[i + 1] = p
      BY <1>3, <2>2, <3>1
    <3>3. IF e = Eos THEN pos = Len(File) + 1 ELSE e < pos /\ \A j \in e + 1 .. pos - 1 : File[j].st # st
      BY <2>2, <3>1, <3>2 DEF Chain
    <3>4. e # Eos /\ e \in 1 .. Len(File)
      BY <1>1, <3>3, EntriesAre
    <3>5. File[e].st = st
      BY <3>1, <3>2, <3>4 DEF Chain
    <3>6. \A j \in e + 1 .. p - 1 : File[j].st # st
      <4>1. SUFFICES ASSUME NEW j \in e + 1 .. p - 1 PROVE File[j].st # st
        OBVIOUS
      <4>2. j \in e + 1 .. pos - 1 \/ j \in pos .. p - 1
        BY <1>1, <3>4
      <4>. QED  BY <3>3, <3>4, <4>2
    <3>7. p \in e + 1 .. Len(File)
      BY <1>1, <3>3, <3>4
    <3>8. NextOf(e) = p
      BY <3>4, <3>5, <3>6, <3>7, NextOfIs
    <3>. QED  BY <3>2, <3>4, <3>8
  <2>3. i \in 1 .. Len(list) - 1 \/ i = Len(list)
    BY <1>1, <1>3
  <2>. QED  BY <2>1, <2>2, <2>3
<1>6. /\ t[Len(t)] = p /\ p < p + 1
      /\ \A i \in p + 1 .. (p + 1) - 1 : File[i].st # st
  BY <1>1, <1>3
<1>. QED  BY <1>1, <1>2, <1>4, <1>5, <1>6 DEF Chain

(* The end of the file.                                                    *)
LEMMA ChainEnds ==
    ASSUME NEW list \in Seq(Entries), NEW st, NEW off,
           NEW pos \in 1 .. Len(File) + 1, Chain(list, st, off, pos),
           st \in off \/ \A i \in pos .. Len(File) : File[i].st # st
    PROVE  Chain(Append(list, Eos), st, off, Len(File) + 1)
<1>1. Len(File) \in Nat /\ Len(list) \in Nat /\ Eos \in Entries
  BY FileIs, EntriesAre
<1>2. PICK t \in Seq(Entries) : t = Append(list, Eos)
  BY <1>1, AppendIs
<1>3. /\ Len(t) = Len(list) + 1 /\ t # <<>> /\ t[Len(list) + 1] = Eos
      /\ \A i \in 1 .. Len(list) : t[i] = list[i]
  BY <1>1, <1>2, AppendIs
<1>4. ASSUME NEW i \in 1 .. Len(t) PROVE t[i] # Eos => File[t[i]].st = st
  <2>1. CASE i = Len(t)
    BY <1>3, <2>1
  <2>2. CASE i \in 1 .. Len(list)
    BY <1>3, <2>2 DEF Chain
  <2>. QED  BY <1>1, <1>3, <2>1, <2>2
<1>5. ASSUME NEW i \in 1 .. Len(t) - 1
      PROVE  IF t[i] = Eos THEN t[i + 1] = Eos
             ELSE t[i + 1] = NextOf(t[i]) \/ (st \in off /\ t[i + 1] = Eos)
  <2>1. CASE i \in 1 .. Len(list) - 1
    <3>1. t[i] = list[i] /\ t[i + 1] = list[i + 1]
      BY <1>1, <1>3, <2>1
    <3>. QED  BY <2>1, <3>1 DEF Chain
  <2>2. CASE i = Len(list)
    <3>1. i \in 1 .. Len(list) /\ list # <<>>
      BY <1>1, <1>3, <2>2
    <3>2. PICK e \in Entries : e = list[i] /\ e = t[i] /\ t[i + 1] = Eos
      BY <1>3, <2>2, <3>1
    <3>3. IF e = Eos THEN pos = Len(File) + 1
          ELSE e < pos /\ (st \in off \/ \A j \in e + 1 .. pos - 1 : File[j].st # st)
      BY <2>2, <3>1, <3>2 DEF Chain
    <3>4. CASE e = Eos \/ st \in off
      BY <3>2, <3>4
    <3>5. CASE e # Eos /\ st \notin off
      <4>1. e \in 1 .. Len(File)
        BY <1>1, <3>5, EntriesAre
      <4>2. File[e].st = st
        BY <3>1, <3>2, <3>5 DEF Chain
      <4>3. \A j \in e + 1 .. Len(File) : File[j].st # st
        <5>1. SUFFICES ASSUME NEW j \in e + 1 .. Len(File) PROVE File[j].st # st
          OBVIOUS
        <5>2. j \in e + 1 .. pos - 1 \/ j \in pos .. Len(File)
          BY <1>1, <4>1
        <5>. QED  BY <3>3, <3>5, <5>2
      <4>4. NextOf(e) = Eos
        BY <4>1, <4>2, <4>3, NextOfIs
      <4>. QED  BY <3>2, <3>5, <4>4
    <3>. QED  BY <3>4, <3>5
  <2>3. i \in 1 .. Len(list) - 1 \/ i = Len(list)
    BY <1>1, <1>3
  <2>. QED  BY <2>1, <2>2, <2>3
<1>6. t[Len(t)] = Eos
  BY <1>3
<1>. QED  BY <1>2, <1>4, <1>5, <1>6 DEF Chain

(* A list that goes on from the last one given.                            *)
LEMMA GivenIs ==
    ASSUME NEW jumped \in BOOLEAN, NEW last \in Entries, NEW list \in Seq(Entries)
    PROVE  /\ Given(jumped, last, list) \in Seq(Entries)
           /\ Given(TRUE, last, list) = list
           /\ ~jumped => Len(Given(jumped, last, list)) = Len(list) + 1 /\ Given(jumped, last, list)[1] = last
           /\ ~jumped /\ list # <<>> => Given(jumped, last, list)[2] = list[1]
           /\ list # <<>> => Given(FALSE, Head(list), Tail(list)) = list
<1>1. /\ <<last>> \o list \in Seq(Entries) /\ Len(<<last>> \o list) = Len(list) + 1
      /\ (<<last>> \o list)[1] = last /\ <<last>> \o list # <<>>
      /\ list # <<>> => (<<last>> \o list)[2] = list[1]
  OBVIOUS
<1>2. list # <<>> => <<Head(list)>> \o Tail(list) = list
  OBVIOUS
<1>. QED  BY <1>1, <1>2 DEF Given

LEMMA GivenAppend ==
    ASSUME NEW jumped \in BOOLEAN, NEW last \in Entries, NEW list \in Seq(Entries), NEW e \in Entries
    PROVE  Given(jumped, last, Append(list, e)) = Append(Given(jumped, last, list), e)
<1>1. <<last>> \o Append(list, e) = Append(<<last>> \o list, e)
  OBVIOUS
<1>. QED  BY <1>1 DEF Given

-----------------------------------------------------------------------------
(* Where the lists may be anything but the decoders' streams: not before the *)
(* prepare, and hardly while the thread is corked, when it can still put one *)
(* packet into them that it was reading.  As long as the first key frame is  *)
(* looked for, or a stop has been there, they are empty, or will be emptied  *)
(* by a seek before the next read, or nothing is left to read.              *)
Emptied ==
    /\ tracks.cur = <<>> /\ tracks.pend = <<>> /\ audioList = <<>>
    /\ demuxSeen.jumpedV /\ demuxSeen.jumpedA

Settled == Emptied \/ (demux.seekTo # NoSeek /\ reader.at # "reading") \/ file.pos = Len(File) + 1

PhaseInv ==
    /\ demux.state \in {"idle", "preparing"} => Emptied /\ tracks = NoTracks /\ reader.at = "none"
    /\ demux.posted <=> demux.state = "preparing"
    /\ demux.state = "prepared" => reader.corked /\ (reader.at = "reading" => demux.seekTo # NoSeek)
    /\ demuxCall.step = "drop" => reader.corked /\ demux.state = "started"
    /\ demuxCall.step = "join" => demux.state = "prepared"
    /\ demuxCall.step # "none" => demuxCall.op # "none"
    /\ reader.corked =>
         Len(tracks.cur) <= 1 /\ Len(tracks.pend) <= 1 /\ (reader.at = "reading" => Emptied)
    /\ demux.checkKey \/ demux.state = "prepared" => Settled

LEMMA PhaseInit == DemuxInit => PhaseInv
<1>. SUFFICES ASSUME DemuxInit PROVE PhaseInv
  OBVIOUS
<1>1. Emptied /\ tracks = NoTracks /\ Len(tracks.cur) = 0 /\ Len(tracks.pend) = 0
  BY EmptyIs DEF DemuxInit, Emptied, NoTracks
<1>. QED  BY <1>1 DEF DemuxInit, PhaseInv, Settled

(* What a reset, a flush and a stop leave.                                 *)
LEMMA ResetEmpties ==
    ASSUME DemuxRecords, ResetState
    PROVE  /\ Emptied' /\ tracks' = NoTracks /\ Len(tracks'.cur) = 0 /\ Len(tracks'.pend) = 0
           /\ file'.discard = {} /\ file'.pos = 1
           /\ demux'.state = "idle" /\ demux'.posted = FALSE /\ demux'.checkKey = demux.checkKey
           /\ demux'.seekTo = NoSeek
<1>0. demux \in DemuxRecord /\ demuxSeen \in DemuxSeenRecord
  BY DEF DemuxRecords
<1>1. PICK h \in DemuxSeenRecord : h = Jumped(demuxSeen)
  BY <1>0, SeenWith
<1>2. h.jumpedV /\ h.jumpedA
  BY <1>0, <1>1 DEF Jumped, DemuxSeenRecord
<1>3. demuxSeen'.jumpedV = h.jumpedV /\ demuxSeen'.jumpedA = h.jumpedA
  BY <1>1 DEF ResetState, DemuxSeenRecord
<1>4. /\ tracks' = NoTracks /\ audioList' = <<>> /\ NoTracks.cur = <<>> /\ NoTracks.pend = <<>>
      /\ file'.discard = {} /\ file'.pos = 1
  BY DEF ResetState, NoTracks
<1>5. /\ demux'.state = "idle" /\ demux'.posted = FALSE /\ demux'.checkKey = demux.checkKey
      /\ demux'.seekTo = NoSeek
  BY <1>0 DEF ResetState, DemuxRecord
<1>. QED  BY <1>2, <1>3, <1>4, <1>5, EmptyIs DEF Emptied

LEMMA FlushEmpties ==
    ASSUME DemuxRecords, tracks' = FlushedTracks, audioList' = <<>>, NEW n,
           \/ demuxSeen' = Jumped(demuxSeen) \/ demuxSeen' = [Jumped(demuxSeen) EXCEPT !.calls = n]
           \/ \E how : demuxSeen' = Answers(demuxSeen, how)
    PROVE  /\ Emptied' /\ Len(tracks'.cur) = 0 /\ Len(tracks'.pend) = 0
           /\ tracks'.selected = tracks.selected /\ tracks'.pending = tracks.pending
           /\ tracks'.begun = tracks.begun
<1>0. tracks \in TracksRecord /\ demuxSeen \in DemuxSeenRecord
  BY DEF DemuxRecords
<1>1. PICK h \in DemuxSeenRecord : h = Jumped(demuxSeen)
  BY <1>0, SeenWith
<1>2. h.jumpedV /\ h.jumpedA
  BY <1>0, <1>1 DEF Jumped, DemuxSeenRecord
<1>3. demuxSeen'.jumpedV /\ demuxSeen'.jumpedA
  <2>1. CASE demuxSeen' = h \/ demuxSeen' = [h EXCEPT !.calls = n]
    BY <1>2, <2>1 DEF DemuxSeenRecord
  <2>2. ASSUME NEW how, demuxSeen' = Answers(demuxSeen, how) PROVE demuxSeen'.jumpedV /\ demuxSeen'.jumpedA
    BY <2>2, AnswersJump
  <2>. QED  BY <1>1, <2>1, <2>2
<1>4. /\ tracks'.cur = <<>> /\ tracks'.pend = <<>>
      /\ tracks'.selected = tracks.selected /\ tracks'.pending = tracks.pending
      /\ tracks'.begun = tracks.begun
  BY <1>0 DEF FlushedTracks, TracksRecord
<1>. QED  BY <1>2, <1>3, <1>4, EmptyIs DEF Emptied

LEMMA EmptiedKept ==
    ASSUME Emptied, tracks'.cur = tracks.cur, tracks'.pend = tracks.pend, audioList' = audioList,
           demuxSeen'.jumpedV = demuxSeen.jumpedV, demuxSeen'.jumpedA = demuxSeen.jumpedA
    PROVE  Emptied'
  BY DEF Emptied

LEMMA CallsPhase ==
    ASSUME DemuxRecords, PhaseInv,
           \/ DemuxPrepare \/ OnDemuxPrepare \/ DemuxStart \/ DemuxFlush
           \/ \E ts \in 0 .. Duration : DemuxSeek(ts)
           \/ \E t \in VideoTracks : SelectTrack(t)
    PROVE  PhaseInv'
<1>0. /\ demux \in DemuxRecord /\ reader \in ReaderRecord /\ tracks \in TracksRecord
      /\ audioList \in Seq(Entries) /\ file \in FileRecord /\ demuxCall \in CallRecord
      /\ demuxSeen \in DemuxSeenRecord
  BY DEF DemuxRecords
<1>1. CASE DemuxPrepare
  <2>1. /\ demux'.state = "preparing" /\ demux'.posted /\ demux'.seekTo = demux.seekTo
        /\ demux'.checkKey = demux.checkKey /\ demux.state = "idle"
        /\ demuxSeen'.jumpedV = demuxSeen.jumpedV /\ demuxSeen'.jumpedA = demuxSeen.jumpedA
        /\ UNCHANGED <<reader, tracks, audioList, file, demuxCall>>
    BY <1>0, <1>1 DEF DemuxPrepare, Called, DemuxRecord, DemuxSeenRecord
  <2>2. Emptied'
    BY <2>1, EmptiedKept DEF PhaseInv
  <2>. QED  BY <2>1, <2>2 DEF PhaseInv, Settled
<1>2. CASE OnDemuxPrepare
  <2>1. demuxCall' = demuxCall /\ demux.state = "preparing" /\ reader.at = "none" /\ Emptied /\ tracks = NoTracks
    BY <1>2 DEF OnDemuxPrepare, PhaseInv
  <2>2. CASE ResetState /\ reader' = [Posts(reader) EXCEPT !.exit = TRUE, !.continue = FALSE]
    <3>1. reader'.at = "none"
      BY <1>0, <2>1, <2>2, PostsIs
    <3>2. /\ Emptied' /\ tracks' = NoTracks /\ Len(tracks'.cur) = 0 /\ Len(tracks'.pend) = 0
          /\ demux'.state = "idle" /\ demux'.posted = FALSE
      BY <2>2, ResetEmpties
    <3>3. Len(tracks'.cur) <= 1 /\ Len(tracks'.pend) <= 1
      BY <3>2
    <3>4. demuxCall'.step # "drop" /\ demuxCall'.step # "join" /\ (demuxCall'.step # "none" => demuxCall'.op # "none")
      BY <2>1 DEF PhaseInv
    <3>. QED  BY <3>1, <3>2, <3>3, <3>4 DEF PhaseInv, Settled
  <2>3. CASE ~(ResetState /\ reader' = [Posts(reader) EXCEPT !.exit = TRUE, !.continue = FALSE])
    <3>1. reader'.at = "wait" /\ reader'.corked
      BY <1>0, <1>2, <2>3 DEF OnDemuxPrepare, ReaderRecord
    <3>2. demux'.state = "prepared" /\ demux'.posted = FALSE
      BY <1>0, <1>2, <2>3 DEF OnDemuxPrepare, DemuxRecord
    <3>3. UNCHANGED <<tracks, audioList, demuxSeen>>
      BY <1>2, <2>3 DEF OnDemuxPrepare
    <3>4. Emptied'
      BY <2>1, <3>3 DEF Emptied
    <3>5. Len(tracks'.cur) <= 1 /\ Len(tracks'.pend) <= 1
      BY <3>4, EmptyIs DEF Emptied
    <3>6. demuxCall'.step # "drop" /\ demuxCall'.step # "join" /\ (demuxCall'.step # "none" => demuxCall'.op # "none")
      BY <2>1 DEF PhaseInv
    <3>. QED  BY <3>1, <3>2, <3>4, <3>5, <3>6 DEF PhaseInv, Settled
  <2>. QED  BY <2>2, <2>3
<1>3. CASE DemuxStart
  <2>1. /\ demux'.state = "started" /\ demux'.posted = demux.posted /\ demux'.seekTo = demux.seekTo
        /\ demux.state = "prepared"
    BY <1>0, <1>3 DEF DemuxStart, DemuxRecord
  <2>2. /\ demuxSeen'.jumpedV = demuxSeen.jumpedV /\ demuxSeen'.jumpedA = demuxSeen.jumpedA
        /\ UNCHANGED <<tracks, audioList, file, demuxCall>> /\ demuxCall.op = "none"
    BY <1>0, <1>3 DEF DemuxStart, DemuxCalls, Called, DemuxSeenRecord
  <2>3. reader'.corked = FALSE /\ reader'.at = reader.at
    BY <1>0, <1>3 DEF DemuxStart, Posts, ReaderRecord
  <2>4. Settled /\ (Emptied => Emptied')
    BY <2>1, <2>2, EmptiedKept DEF PhaseInv
  <2>. QED  BY <2>1, <2>2, <2>3, <2>4 DEF PhaseInv, Settled
<1>4. CASE DemuxFlush
  <2>1. Emptied' /\ Len(tracks'.cur) = 0 /\ Len(tracks'.pend) = 0
    <3>1. /\ tracks' = FlushedTracks /\ audioList' = <<>>
          /\ \E n : demuxSeen' = [Jumped(demuxSeen) EXCEPT !.calls = n]
      BY <1>4 DEF DemuxFlush
    <3>. QED  BY <3>1, FlushEmpties
  <2>2. /\ demux'.state = "started" /\ demux'.posted = demux.posted /\ demux.state = "started"
        /\ demuxCall' = demuxCall
    BY <1>0, <1>4 DEF DemuxFlush, FlushedDemux, DemuxRecord
  <2>3. reader'.corked = reader.corked /\ reader'.at = reader.at
    BY <1>0, <1>4, PostsIs DEF DemuxFlush
  <2>. QED  BY <2>1, <2>2, <2>3 DEF PhaseInv, Settled
<1>5. ASSUME NEW ts \in 0 .. Duration, DemuxSeek(ts) PROVE PhaseInv'
  <2>1. /\ demux'.state = demux.state /\ demux'.posted = demux.posted /\ demux'.seekTo # NoSeek
        /\ demux'.checkKey = demux.checkKey /\ demux.state \in {"prepared", "started"}
    <3>1. ts + StartTime # NoSeek
      BY DurationIs, DemuxAssumption DEF NoSeek
    <3>. QED  BY <1>0, <1>5, <3>1 DEF DemuxSeek, DemuxRecord
  <2>2. /\ demuxSeen'.jumpedV = demuxSeen.jumpedV /\ demuxSeen'.jumpedA = demuxSeen.jumpedA
        /\ UNCHANGED <<tracks, audioList, file, demuxCall>>
    BY <1>0, <1>5 DEF DemuxSeek, DemuxSeenRecord
  <2>3. reader'.corked = reader.corked /\ reader'.at = reader.at
    BY <1>0, <1>5, PostsIs DEF DemuxSeek
  <2>4. Emptied => Emptied'
    BY <2>2, EmptiedKept
  <2>. QED  BY <2>1, <2>2, <2>3, <2>4 DEF PhaseInv, Settled
<1>6. ASSUME NEW t \in VideoTracks, SelectTrack(t) PROVE PhaseInv'
  <2>1. /\ demux.state \in {"prepared", "started"} /\ UNCHANGED <<demux, reader, audioList, demuxCall>>
        /\ demuxSeen'.jumpedV = demuxSeen.jumpedV /\ demuxSeen'.jumpedA = demuxSeen.jumpedA
    BY <1>0, <1>6 DEF SelectTrack, Called, DemuxSeenRecord
  <2>2. file'.pos = file.pos
    BY <1>0, <1>6 DEF SelectTrack, FileRecord
  <2>3. tracks'.cur = tracks.cur /\ (tracks'.pend = tracks.pend \/ tracks'.pend = <<>>)
    BY <1>0, <1>6 DEF SelectTrack, TracksRecord
  <2>4. Len(tracks.pend) <= 1 => Len(tracks'.pend) <= 1
    BY <2>3, EmptyIs
  <2>5. Emptied => Emptied'
    BY <2>1, <2>3 DEF Emptied
  <2>. QED  BY <2>1, <2>2, <2>3, <2>4, <2>5 DEF PhaseInv, Settled
<1>. QED  BY <1>1, <1>2, <1>3, <1>4, <1>5, <1>6

LEMMA StopsPhase ==
    ASSUME DemuxRecords, PhaseInv,
           \/ \E op \in {"stop", "reset"} : DemuxStop(op)
           \/ StopFlushes \/ StopDrops \/ StopIsNothing \/ ResetEndsThread \/ ResetJoined
    PROVE  PhaseInv'
<1>0. /\ demux \in DemuxRecord /\ reader \in ReaderRecord /\ tracks \in TracksRecord
      /\ audioList \in Seq(Entries) /\ file \in FileRecord /\ demuxCall \in CallRecord
      /\ demuxSeen \in DemuxSeenRecord
  BY DEF DemuxRecords
<1>1. ASSUME NEW op \in {"stop", "reset"}, DemuxStop(op) PROVE PhaseInv'
  <2>1. /\ UNCHANGED <<demux, tracks, audioList, file>>
        /\ demuxCall'.op # "none" /\ demuxCall'.step = "wait"
        /\ reader'.corked = reader.corked /\ reader'.at = reader.at
    BY <1>0, <1>1 DEF DemuxStop, ReaderRecord
  <2>2. demuxSeen'.jumpedV = demuxSeen.jumpedV /\ demuxSeen'.jumpedA = demuxSeen.jumpedA
    BY <1>0, <1>1 DEF DemuxStop, Called, DemuxSeenRecord
  <2>3. Emptied => Emptied'
    BY <2>1, <2>2, EmptiedKept
  <2>. QED  BY <2>1, <2>3 DEF PhaseInv, Settled
<1>2. CASE StopFlushes
  <2>1. Emptied' /\ Len(tracks'.cur) = 0 /\ Len(tracks'.pend) = 0
    BY <1>2, FlushEmpties DEF StopFlushes
  <2>2. /\ demux'.state = "started" /\ demux'.posted = demux.posted /\ demux.state = "started"
    BY <1>0, <1>2 DEF StopFlushes, FlushedDemux, DemuxRecord
  <2>3. demuxCall'.step = "drop" /\ demuxCall'.op = demuxCall.op /\ demuxCall.step = "wait"
    BY <1>0, <1>2 DEF StopFlushes, CallRecord
  <2>4. reader'.corked
    BY <1>0, <1>2 DEF StopFlushes, Posts, ReaderRecord
  <2>. QED  BY <2>1, <2>2, <2>3, <2>4 DEF PhaseInv, Settled
<1>3. CASE StopDrops
  <2>1. /\ demux'.state = "prepared" /\ demux'.posted = demux.posted /\ demux'.seekTo # NoSeek
        /\ demuxCall.step = "drop"
    BY <1>0, <1>3 DEF StopDrops, DemuxRecord, NoSeek
  <2>2. demuxCall'.step \in {"none", "wait"} /\ (demuxCall'.step = "wait" => demuxCall'.op = demuxCall.op)
    BY <1>0, <1>3 DEF StopDrops, CallRecord
  <2>3. /\ demuxSeen'.jumpedV = demuxSeen.jumpedV /\ demuxSeen'.jumpedA = demuxSeen.jumpedA
        /\ UNCHANGED <<reader, tracks, audioList, file>>
    BY <1>0, <1>3 DEF StopDrops, DemuxSeenRecord
  <2>4. Emptied => Emptied'
    BY <2>3, EmptiedKept
  <2>. QED  BY <2>1, <2>2, <2>3, <2>4 DEF PhaseInv, Settled
<1>4. CASE StopIsNothing
  <2>1. demuxCall'.step = "none" /\ UNCHANGED <<demux, reader, tracks, audioList, file, demuxSeen>>
    BY <1>4 DEF StopIsNothing
  <2>. QED  BY <2>1 DEF PhaseInv, Settled, Emptied
<1>5. CASE ResetEndsThread
  <2>1. /\ UNCHANGED <<demux, tracks, audioList, file, demuxSeen>> /\ demux.state = "prepared"
        /\ demuxCall'.step = "join" /\ demuxCall'.op # "none"
    BY <1>0, <1>5 DEF ResetEndsThread, CallRecord
  <2>2. reader'.corked = reader.corked /\ reader'.at = reader.at
    BY <1>0, <1>5, PostsIs DEF ResetEndsThread
  <2>. QED  BY <2>1, <2>2 DEF PhaseInv, Settled, Emptied
<1>6. CASE ResetJoined
  <2>1. demuxCall'.step = "none" /\ reader' = reader /\ reader.at = "none" /\ ResetState
    BY <1>6 DEF ResetJoined
  <2>2. /\ Emptied' /\ tracks' = NoTracks /\ Len(tracks'.cur) = 0 /\ Len(tracks'.pend) = 0
        /\ demux'.state = "idle" /\ demux'.posted = FALSE
    BY <2>1, ResetEmpties
  <2>3. Len(tracks'.cur) <= 1 /\ Len(tracks'.pend) <= 1
    BY <2>2
  <2>. QED  BY <2>1, <2>2, <2>3 DEF PhaseInv, Settled
<1>. QED  BY <1>1, <1>2, <1>3, <1>4, <1>5, <1>6

(* What a read takes: the next list, after the switch if there is one.      *)
LEMMA ReadVideoIs ==
    ASSUME DemuxRecords, ReadVideo
    PROVE  /\ tracks.cur # <<>> /\ demuxSeen'.jumpedV = FALSE /\ demux.state \in {"prepared", "started"}
           /\ \/ /\ ~Switches(tracks) /\ tracks' = [tracks EXCEPT !.cur = Tail(tracks.cur)]
                 /\ demuxSeen'.lastV = Head(tracks.cur) /\ demuxSeen'.switched = FALSE
              \/ /\ Switches(tracks) /\ tracks.pend # <<>>
                 /\ tracks' = [tracks EXCEPT !.cur = Tail(tracks.pend), !.pend = <<>>,
                                             !.selected = tracks.pending, !.pending = NoTrack]
                 /\ demuxSeen'.lastV = Head(tracks.pend) /\ demuxSeen'.switched = TRUE
           /\ demuxSeen'.lastA = demuxSeen.lastA /\ demuxSeen'.jumpedA = demuxSeen.jumpedA
           /\ demux' = [demux EXCEPT !.bufState = demux'.bufState]
           /\ reader' = [reader EXCEPT !.sem = reader'.sem]
           /\ UNCHANGED <<audioList, file, demuxCall>>
<1>0. tracks \in TracksRecord /\ demuxSeen \in DemuxSeenRecord
  BY DEF DemuxRecords
<1>1. PICK t, rest :
        /\ t = Switched(tracks) /\ rest = [t EXCEPT !.cur = Tail(t.cur)]
        /\ tracks' = rest /\ AfterRead(rest, audioList)
        /\ demuxSeen' = [demuxSeen EXCEPT !.lastV = Head(t.cur), !.switched = Switches(tracks), !.jumpedV = FALSE]
  BY DEF ReadVideo
<1>2. /\ tracks.cur # <<>> /\ demux.state \in {"prepared", "started"}
      /\ UNCHANGED <<audioList, file, demuxCall>>
  BY DEF ReadVideo
<1>3. /\ demux' = [demux EXCEPT !.bufState = demux'.bufState]
      /\ reader' = [reader EXCEPT !.sem = reader'.sem]
  BY <1>1, AfterReadIs
<1>4. /\ demuxSeen'.jumpedV = FALSE /\ demuxSeen'.lastV = Head(t.cur) /\ demuxSeen'.switched = Switches(tracks)
      /\ demuxSeen'.lastA = demuxSeen.lastA /\ demuxSeen'.jumpedA = demuxSeen.jumpedA
  BY <1>0, <1>1 DEF DemuxSeenRecord
<1>5. CASE Switches(tracks)
  <2>1. tracks.pend # <<>>
    BY <1>5 DEF Switches, FirstTs
  <2>2. t = [tracks EXCEPT !.cur = tracks.pend, !.pend = <<>>, !.selected = tracks.pending, !.pending = NoTrack]
    BY <1>1, <1>5 DEF Switched
  <2>3. t.cur = tracks.pend
    BY <1>0, <2>2 DEF TracksRecord
  <2>4. tracks' = [tracks EXCEPT !.cur = Tail(tracks.pend), !.pend = <<>>,
                                 !.selected = tracks.pending, !.pending = NoTrack]
    BY <1>0, <1>1, <2>2, <2>3 DEF TracksRecord
  <2>. QED  BY <1>2, <1>3, <1>4, <1>5, <2>1, <2>3, <2>4
<1>6. CASE ~Switches(tracks)
  <2>1. t = tracks
    BY <1>1, <1>6 DEF Switched
  <2>. QED  BY <1>1, <1>2, <1>3, <1>4, <1>6, <2>1
<1>. QED  BY <1>5, <1>6

LEMMA ReadAudioIs ==
    ASSUME DemuxRecords, ReadAudio
    PROVE  /\ audioList # <<>> /\ audioList' = Tail(audioList) /\ demux.state \in {"prepared", "started"}
           /\ demuxSeen'.lastA = Head(audioList) /\ demuxSeen'.jumpedA = FALSE
           /\ demuxSeen'.lastV = demuxSeen.lastV /\ demuxSeen'.jumpedV = demuxSeen.jumpedV
           /\ demux' = [demux EXCEPT !.bufState = demux'.bufState]
           /\ reader' = [reader EXCEPT !.sem = reader'.sem]
           /\ UNCHANGED <<tracks, file, demuxCall>>
<1>1. /\ demuxSeen'.lastA = Head(audioList) /\ demuxSeen'.jumpedA = FALSE
      /\ demuxSeen'.lastV = demuxSeen.lastV /\ demuxSeen'.jumpedV = demuxSeen.jumpedV
  BY DEF ReadAudio, DemuxRecords, DemuxSeenRecord
<1>2. AfterRead(tracks, Tail(audioList))
  BY DEF ReadAudio
<1>3. /\ demux' = [demux EXCEPT !.bufState = demux'.bufState]
      /\ reader' = [reader EXCEPT !.sem = reader'.sem]
  BY <1>2, AfterReadIs
<1>. QED  BY <1>1, <1>3 DEF ReadAudio

LEMMA ReadsPhase ==
    ASSUME DemuxRecords, PhaseInv, ReadVideo \/ ReadAudio
    PROVE  PhaseInv'
<1>0. /\ demux \in DemuxRecord /\ reader \in ReaderRecord /\ tracks \in TracksRecord
      /\ audioList \in Seq(Entries)
  BY DEF DemuxRecords
<1>1. /\ ~Emptied /\ demux.state \in {"prepared", "started"}
      /\ demux' = [demux EXCEPT !.bufState = demux'.bufState]
      /\ reader' = [reader EXCEPT !.sem = reader'.sem]
      /\ UNCHANGED <<file, demuxCall>>
  BY ReadVideoIs, ReadAudioIs DEF Emptied
<1>2. /\ demux'.state = demux.state /\ demux'.posted = demux.posted /\ demux'.seekTo = demux.seekTo
      /\ demux'.checkKey = demux.checkKey
  BY <1>0, <1>1 DEF DemuxRecord
<1>3. reader'.corked = reader.corked /\ reader'.at = reader.at
  BY <1>0, <1>1 DEF ReaderRecord
<1>4. Len(tracks.cur) <= 1 /\ Len(tracks.pend) <= 1 => Len(tracks'.cur) <= 1 /\ Len(tracks'.pend) <= 1
  <2>0. tracks.cur \in Seq(Entries) /\ tracks.pend \in Seq(Entries)
    BY <1>0 DEF TracksRecord
  <2>1. CASE ReadVideo
    <3>1. \/ tracks.cur # <<>> /\ tracks'.cur = Tail(tracks.cur) /\ tracks'.pend = tracks.pend
          \/ tracks.pend # <<>> /\ tracks'.cur = Tail(tracks.pend) /\ tracks'.pend = <<>>
      BY <1>0, <2>1, ReadVideoIs DEF TracksRecord
    <3>2. CASE tracks.cur # <<>> /\ tracks'.cur = Tail(tracks.cur) /\ tracks'.pend = tracks.pend
      BY <2>0, <3>2, TailIs
    <3>3. CASE tracks.pend # <<>> /\ tracks'.cur = Tail(tracks.pend) /\ tracks'.pend = <<>>
      BY <2>0, <3>3, TailIs, EmptyIs
    <3>. QED  BY <3>1, <3>2, <3>3
  <2>2. CASE ReadAudio
    BY <2>2, ReadAudioIs
  <2>. QED  BY <2>1, <2>2
<1>. QED  BY <1>1, <1>2, <1>3, <1>4 DEF PhaseInv, Settled

(* A seek in the buffers keeps the end of each list, and clears checkKey;   *)
(* any other empties them.                                                 *)
LEMMA CheckSeekIs ==
    ASSUME DemuxRecords, CheckSeek
    PROVE  /\ reader.at = "top" /\ reader'.at = "top" /\ reader'.corked = reader.corked
           /\ demux'.state = demux.state /\ demux'.posted = demux.posted /\ demuxCall' = demuxCall
           /\ \/ /\ demux'.checkKey = FALSE /\ file' = file
                 /\ demuxSeen'.jumpedV /\ demuxSeen'.jumpedA
                 /\ \E n \in 2 .. Len(tracks.cur) :
                      tracks' = [tracks EXCEPT !.cur = SubSeq(tracks.cur, n, Len(tracks.cur))]
                 /\ \/ audioList' = <<>>
                    \/ \E n \in 1 .. Len(audioList) : audioList' = SubSeq(audioList, n, Len(audioList))
              \/ /\ Emptied' /\ Len(tracks'.cur) = 0 /\ Len(tracks'.pend) = 0
                 /\ tracks'.selected = tracks.selected /\ tracks'.pending = tracks.pending
                 /\ tracks'.begun = tracks.begun /\ file'.discard = file.discard
<1>0. /\ demux \in DemuxRecord /\ reader \in ReaderRecord /\ file \in FileRecord /\ demuxSeen \in DemuxSeenRecord
  BY DEF DemuxRecords
<1>. DEFINE done == [demux EXCEPT !.seekTo = NoSeek, !.seeks = <<>>, !.bufState = "buffering"]
<1>1. PICK ts \in Nat : ts = demux.seekTo
  <2>1. demux.seekTo \in SeekTimes
    BY <1>0 DEF DemuxRecord, CheckSeek
  <2>. QED  BY <2>1, SeekTimesAre
<1>2. /\ reader.at = "top" /\ demuxCall' = demuxCall
      /\ \/ /\ InBuffer(ts)
            /\ tracks' = [tracks EXCEPT !.cur = VideoFrom(ts)]
            /\ audioList' = AudioFrom(Ts(Head(VideoFrom(ts))))
            /\ demux' = [done EXCEPT !.checkKey = FALSE]
            /\ demuxSeen' = Answers(demuxSeen, "buffered")
            /\ reader' = reader /\ file' = file
         \/ /\ ~InBuffer(ts)
            /\ tracks' = FlushedTracks
            /\ audioList' = <<>>
            /\ \/ /\ file' = [file EXCEPT !.pos = SeekPos(ts)]
                  /\ demux' = FlushedDemux(done)
                  /\ demuxSeen' = Answers(demuxSeen, "sought")
               \/ /\ demux' = [FlushedDemux(done) EXCEPT !.checkKey = FALSE]
                  /\ demuxSeen' = Answers(demuxSeen, "failed")
                  /\ file' = file
            /\ reader' = [Posts(reader) EXCEPT !.exit = FALSE]
  BY <1>1 DEF CheckSeek
<1>3. demux'.state = demux.state /\ demux'.posted = demux.posted
  BY <1>0, <1>2 DEF DemuxRecord, FlushedDemux
<1>. HIDE DEF done
<1>4. reader'.at = "top" /\ reader'.corked = reader.corked
  BY <1>0, <1>2, PostsIs
<1>5. CASE InBuffer(ts)
  <2>1. demux'.checkKey = FALSE /\ file' = file
    BY <1>0, <1>2, <1>5 DEF done, DemuxRecord
  <2>2. demuxSeen'.jumpedV /\ demuxSeen'.jumpedA
    BY <1>2, <1>5, AnswersJump
  <2>3. \E n \in 2 .. Len(tracks.cur) : tracks' = [tracks EXCEPT !.cur = SubSeq(tracks.cur, n, Len(tracks.cur))]
    <3>1. PICK n \in 2 .. Len(tracks.cur) : VideoFrom(ts) = SubSeq(tracks.cur, n, Len(tracks.cur))
      BY <1>5, VideoFromIs DEF InBuffer
    <3>. QED  BY <1>2, <1>5, <3>1
  <2>4. \/ audioList' = <<>>
        \/ \E n \in 1 .. Len(audioList) : audioList' = SubSeq(audioList, n, Len(audioList))
    BY <1>2, <1>5, AudioFromIs
  <2>. QED  BY <1>2, <1>3, <1>4, <2>1, <2>2, <2>3, <2>4
<1>6. CASE ~InBuffer(ts)
  <2>1. /\ Emptied' /\ Len(tracks'.cur) = 0 /\ Len(tracks'.pend) = 0
        /\ tracks'.selected = tracks.selected /\ tracks'.pending = tracks.pending
        /\ tracks'.begun = tracks.begun
    <3>1. /\ tracks' = FlushedTracks /\ audioList' = <<>>
          /\ \E how : demuxSeen' = Answers(demuxSeen, how)
      BY <1>2, <1>6
    <3>. QED  BY <3>1, FlushEmpties
  <2>2. file'.discard = file.discard
    BY <1>0, <1>2, <1>6 DEF FileRecord
  <2>. QED  BY <1>2, <1>3, <1>4, <2>1, <2>2
<1>. QED  BY <1>5, <1>6

LEMMA ReadThreadPhase ==
    ASSUME DemuxRecords, PhaseInv, ReadThread
    PROVE  PhaseInv'
<1>0. /\ demux \in DemuxRecord /\ reader \in ReaderRecord /\ tracks \in TracksRecord
      /\ audioList \in Seq(Entries) /\ file \in FileRecord /\ demuxCall \in CallRecord
      /\ demuxSeen \in DemuxSeenRecord
  BY DEF DemuxRecords
<1>1. CASE ReaderWakes \/ ReaderEnds \/ ReadFrameFails
  <2>1. /\ UNCHANGED <<demux, tracks, audioList, file, demuxCall, demuxSeen>>
        /\ reader'.corked = reader.corked /\ reader.at \in {"wait", "top", "reading"}
        /\ reader'.at \in {"top", "none"}
    BY <1>0, <1>1 DEF ReaderWakes, ReaderEnds, ReadFrameFails, ReaderRecord
  <2>. QED  BY <2>1 DEF PhaseInv, Settled, Emptied
<1>2. CASE ReadFrameBegins
  <2>1. /\ UNCHANGED <<demux, tracks, audioList, file, demuxCall, demuxSeen>>
        /\ reader'.corked = reader.corked /\ reader.at = "top" /\ demux.seekTo = NoSeek
        /\ reader'.at \in {"wait", "reading"} /\ (reader.corked => reader'.at = "wait")
    BY <1>0, <1>2 DEF ReadFrameBegins, ReaderRecord
  <2>. QED  BY <2>1 DEF PhaseInv, Settled, Emptied
<1>3. CASE CheckSeek
  <2>1. /\ reader.at = "top" /\ reader'.at = "top" /\ reader'.corked = reader.corked
        /\ demux'.state = demux.state /\ demux'.posted = demux.posted /\ demuxCall' = demuxCall
    BY <1>3, CheckSeekIs
  <2>2. CASE Emptied' /\ Len(tracks'.cur) = 0 /\ Len(tracks'.pend) = 0
    <3>1. demux.state \notin {"idle", "preparing"}
      BY <2>1 DEF PhaseInv
    <3>2. Len(tracks'.cur) <= 1 /\ Len(tracks'.pend) <= 1
      BY <2>2
    <3>. QED  BY <2>1, <2>2, <3>1, <3>2 DEF PhaseInv, Settled
  <2>3. CASE ~(Emptied' /\ Len(tracks'.cur) = 0 /\ Len(tracks'.pend) = 0)
    <3>1. /\ demux'.checkKey = FALSE
          /\ \E n \in 2 .. Len(tracks.cur) :
               tracks' = [tracks EXCEPT !.cur = SubSeq(tracks.cur, n, Len(tracks.cur))]
      BY <1>3, <2>3, CheckSeekIs
    <3>2. ~(Len(tracks.cur) <= 1)
      <4>1. PICK n \in 2 .. Len(tracks.cur) : TRUE
        BY <3>1
      <4>2. Len(tracks.cur) \in Nat
        BY <1>0 DEF TracksRecord
      <4>. QED  BY <4>1, <4>2
    <3>3. ~reader.corked
      BY <3>2 DEF PhaseInv
    <3>4. demux.state \notin {"idle", "preparing", "prepared"}
      BY <2>1, <3>3 DEF PhaseInv
    <3>. QED  BY <2>1, <3>1, <3>3, <3>4 DEF PhaseInv
  <2>. QED  BY <2>2, <2>3
<1>4. CASE ReadFrameEof
  <2>1. /\ reader.at = "reading" /\ reader'.at = "wait" /\ reader'.corked = reader.corked
        /\ UNCHANGED <<demuxCall, demuxSeen>> /\ file'.pos = Len(File) + 1
        /\ tracks'.cur = Append(tracks.cur, Eos) /\ tracks'.pend = tracks.pend
    BY <1>0, <1>4 DEF ReadFrameEof, ReaderRecord, TracksRecord, FileRecord
  <2>2. demux'.state = demux.state /\ demux'.posted = demux.posted
    BY <1>0, <1>4 DEF ReadFrameEof, DemuxRecord
  <2>3. reader.corked => Len(tracks'.cur) <= 1 /\ Len(tracks'.pend) <= 1
    <3>1. SUFFICES ASSUME reader.corked PROVE Len(tracks'.cur) <= 1 /\ Len(tracks'.pend) <= 1
      OBVIOUS
    <3>2. tracks.cur = <<>> /\ tracks.pend = <<>>
      BY <2>1, <3>1 DEF PhaseInv, Emptied
    <3>3. Len(Append(<<>>, Eos)) = 1 /\ Len(<<>>) = 0
      OBVIOUS
    <3>. QED  BY <2>1, <3>2, <3>3
  <2>4. demux.state \notin {"idle", "preparing"}
    BY <2>1 DEF PhaseInv
  <2>. QED  BY <2>1, <2>2, <2>3, <2>4 DEF PhaseInv, Settled
<1>5. CASE ReadFrame
  <2>1. /\ reader.at = "reading" /\ reader' = [reader EXCEPT !.at = reader'.at] /\ reader'.at \in {"wait", "top"}
        /\ demux' = [demux EXCEPT !.bufState = demux'.bufState, !.reported = demux'.reported,
                                  !.checkKey = demux'.checkKey]
        /\ demux'.checkKey => demux.checkKey
        /\ UNCHANGED <<demuxCall, demuxSeen>> /\ NextPacket \in 1 .. Len(File)
    BY <1>5, ReadFrameIs
  <2>2. /\ demux'.state = demux.state /\ demux'.posted = demux.posted /\ demux'.seekTo = demux.seekTo
    BY <1>0, <2>1 DEF DemuxRecord
  <2>3. reader'.corked = reader.corked
    BY <1>0, <2>1 DEF ReaderRecord
  <2>4. \/ tracks' = tracks /\ audioList' = audioList
        \/ ~demux.checkKey /\ tracks' = tracks
        \/ ~demux'.checkKey /\ tracks' = [tracks EXCEPT !.cur = Append(@, NextPacket)]
        \/ ~demux'.checkKey /\ tracks' = [tracks EXCEPT !.pend = Append(@, NextPacket), !.begun = TRUE]
    BY <1>5, ReadFrameIs
  <2>5. reader.corked => Len(tracks'.cur) <= 1 /\ Len(tracks'.pend) <= 1
    <3>1. SUFFICES ASSUME reader.corked PROVE Len(tracks'.cur) <= 1 /\ Len(tracks'.pend) <= 1
      OBVIOUS
    <3>2. tracks.cur = <<>> /\ tracks.pend = <<>>
      BY <2>1, <3>1 DEF PhaseInv, Emptied
    <3>3. PICK e : e = NextPacket
      OBVIOUS
    <3>4. /\ tracks'.cur = tracks.cur \/ tracks'.cur = Append(tracks.cur, e)
          /\ tracks'.pend = tracks.pend \/ tracks'.pend = Append(tracks.pend, e)
      BY <1>0, <2>4, <3>3 DEF TracksRecord
    <3>5. PICK c \in Seq(Entries), q \in Seq(Entries) : c = tracks.cur /\ q = tracks.pend /\ Len(c) = 0 /\ Len(q) = 0
      BY <1>0, <3>2, EmptyIs DEF TracksRecord
    <3>6. e \in Entries
      BY <1>5, <3>3, ReadFrameIs
    <3>7. Len(Append(c, e)) = 1 /\ Len(Append(q, e)) = 1
      BY <3>5, <3>6
    <3>8. Len(tracks'.cur) <= 1
      BY <3>4, <3>5, <3>7
    <3>9. Len(tracks'.pend) <= 1
      BY <3>4, <3>5, <3>7
    <3>. QED  BY <3>8, <3>9
  <2>6. demux.state \notin {"idle", "preparing"}
    BY <2>1 DEF PhaseInv
  <2>7. demux'.checkKey => Settled'
    <3>1. SUFFICES ASSUME demux'.checkKey PROVE Emptied'
      BY DEF Settled
    <3>2. Settled /\ demux.checkKey
      BY <2>1, <3>1 DEF PhaseInv
    <3>3. file.pos # Len(File) + 1
      <4>1. NextPacket # Eos /\ NextPacket \in file.pos .. Len(File)
        BY <1>5, NextPacketIs DEF ReadFrame
      <4>2. file.pos \in Nat /\ Len(File) \in Nat
        BY <1>0, FileIs DEF FileRecord
      <4>. QED  BY <4>1, <4>2
    <3>4. Emptied
      BY <2>1, <3>2, <3>3 DEF Settled
    <3>5. tracks' = tracks /\ audioList' = audioList
      BY <2>4, <3>1, <3>2
    <3>. QED  BY <2>1, <3>4, <3>5 DEF Emptied
  <2>8. demux'.state = "prepared" => Settled'
    BY <2>1, <2>2 DEF PhaseInv, Settled
  <2>. QED  BY <2>1, <2>2, <2>3, <2>5, <2>6, <2>7, <2>8 DEF PhaseInv
<1>. QED  BY <1>1, <1>2, <1>3, <1>4, <1>5 DEF ReadThread

LEMMA PhaseStep == DemuxRecords /\ PhaseInv /\ [DemuxNext]_demuxVars => PhaseInv'
<1>. SUFFICES ASSUME DemuxRecords, PhaseInv, [DemuxNext]_demuxVars PROVE PhaseInv'
  OBVIOUS
<1>1. CASE UNCHANGED demuxVars
  BY <1>1 DEF demuxVars, PhaseInv, Settled, Emptied
<1>2. CASE DemuxNext
  BY <1>2, CallsPhase, StopsPhase, ReadsPhase, ReadThreadPhase DEF DemuxNext
<1>. QED  BY <1>1, <1>2

(* Each list goes on from what its decoder was given last, unless a seek, a *)
(* flush or a stop came in between; what is cached of the track to switch    *)
(* to is a part of that track, with no end yet.  Only the track that is     *)
(* played may be discarded, and so end early.                              *)
StreamInv ==
    /\ Chain(Given(demuxSeen.jumpedV, demuxSeen.lastV, tracks.cur), tracks.selected, file.discard, file.pos)
    /\ Chain(Given(demuxSeen.jumpedA, demuxSeen.lastA, audioList), "a", file.discard, file.pos)
    /\ Chain(tracks.pend, tracks.pending, file.discard, file.pos)
    /\ \A i \in 1 .. Len(tracks.pend) : tracks.pend[i] # Eos
    /\ tracks.pend # <<>> => tracks.pending # NoTrack /\ tracks.begun
    /\ tracks.pending \notin file.discard /\ tracks.pending # tracks.selected /\ "a" \notin file.discard

LEMMA StreamTypes ==
    ASSUME DemuxRecords
    PROVE  /\ tracks.cur \in Seq(Entries) /\ tracks.pend \in Seq(Entries) /\ audioList \in Seq(Entries)
           /\ file.pos \in 1 .. Len(File) + 1 /\ file.pos \in Nat /\ Len(File) \in Nat
           /\ file.discard \subseteq FileStreams /\ tracks.selected \in VideoTracks
           /\ tracks.selected # "a" /\ tracks.pending # "a"
           /\ demuxSeen.jumpedV \in BOOLEAN /\ demuxSeen.jumpedA \in BOOLEAN
           /\ demuxSeen.lastV \in Entries /\ demuxSeen.lastA \in Entries
  BY FileIs DEF DemuxRecords, TracksRecord, FileRecord, DemuxSeenRecord, VideoTracks, NoTrack

LEMMA StreamKept ==
    ASSUME StreamInv, UNCHANGED <<tracks, audioList, file>>,
           demuxSeen'.jumpedV = demuxSeen.jumpedV, demuxSeen'.jumpedA = demuxSeen.jumpedA,
           demuxSeen'.lastV = demuxSeen.lastV, demuxSeen'.lastA = demuxSeen.lastA
    PROVE  StreamInv'
  BY DEF StreamInv

LEMMA StreamEmptied ==
    ASSUME Emptied', tracks'.pending \notin file'.discard, tracks'.pending # tracks'.selected,
           "a" \notin file'.discard
    PROVE  StreamInv'
<1>1. /\ Given(demuxSeen'.jumpedV, demuxSeen'.lastV, tracks'.cur) = <<>>
      /\ Given(demuxSeen'.jumpedA, demuxSeen'.lastA, audioList') = <<>>
  BY DEF Emptied, Given
<1>2. tracks'.pend = <<>> /\ \A i \in 1 .. Len(<<>>) : FALSE
  BY DEF Emptied
<1>. QED  BY <1>1, <1>2, ChainEmpty DEF StreamInv

LEMMA StreamInit == DemuxInit => StreamInv
<1>. SUFFICES ASSUME DemuxInit PROVE StreamInv
  OBVIOUS
<1>1. /\ Given(demuxSeen.jumpedV, demuxSeen.lastV, tracks.cur) = <<>>
      /\ Given(demuxSeen.jumpedA, demuxSeen.lastA, audioList) = <<>>
  BY DEF DemuxInit, NoTracks, Given
<1>2. tracks.pend = <<>> /\ \A i \in 1 .. Len(<<>>) : FALSE
  BY DEF DemuxInit, NoTracks
<1>3. tracks.pending = NoTrack /\ tracks.selected = "v" /\ file.discard = {} /\ NoTrack # "v"
  BY DEF DemuxInit, NoTracks, NoTrack
<1>. QED  BY <1>1, <1>2, <1>3, ChainEmpty DEF StreamInv

(* A list, without the last one given, is a chain itself.                  *)
LEMMA ListsChain ==
    ASSUME DemuxRecords, StreamInv
    PROVE  /\ Chain(tracks.cur, tracks.selected, file.discard, file.pos)
           /\ Chain(audioList, "a", file.discard, file.pos)
<1>1. ASSUME NEW jumped \in BOOLEAN, NEW last \in Entries, NEW list \in Seq(Entries), NEW st,
             Chain(Given(jumped, last, list), st, file.discard, file.pos)
      PROVE  Chain(list, st, file.discard, file.pos)
  <2>1. CASE jumped
    BY <1>1, <2>1 DEF Given
  <2>2. CASE ~jumped
    <3>1. /\ Given(jumped, last, list) \in Seq(Entries) /\ Given(jumped, last, list) # <<>>
          /\ Tail(Given(jumped, last, list)) = list
      <4>1. Given(jumped, last, list) = <<last>> \o list
        BY <2>2 DEF Given
      <4>2. <<last>> \o list \in Seq(Entries) /\ <<last>> \o list # <<>> /\ Tail(<<last>> \o list) = list
        OBVIOUS
      <4>. QED  BY <4>1, <4>2
    <3>2. PICK g \in Seq(Entries) : g = Given(jumped, last, list)
      BY <3>1
    <3>3. PICK off, pos : off = file.discard /\ pos = file.pos
      OBVIOUS
    <3>4. pos \in Nat
      BY <3>3, StreamTypes
    <3>5. Chain(Tail(g), st, off, pos)
      BY <1>1, <3>1, <3>2, <3>3, <3>4, ChainTail
    <3>. QED  BY <3>1, <3>2, <3>3, <3>5
  <2>. QED  BY <2>1, <2>2
<1>. QED  BY <1>1, StreamTypes DEF StreamInv

LEMMA ReadsStream ==
    ASSUME DemuxRecords, StreamInv, ReadVideo \/ ReadAudio
    PROVE  StreamInv'
<1>0. tracks \in TracksRecord
  BY DEF DemuxRecords
<1>1. CASE ReadVideo
  <2>1. /\ tracks.cur # <<>> /\ demuxSeen'.jumpedV = FALSE /\ UNCHANGED <<audioList, file>>
        /\ demuxSeen'.lastA = demuxSeen.lastA /\ demuxSeen'.jumpedA = demuxSeen.jumpedA
    BY <1>1, ReadVideoIs
  <2>2. CASE ~Switches(tracks)
    <3>1. /\ tracks'.cur = Tail(tracks.cur) /\ demuxSeen'.lastV = Head(tracks.cur)
          /\ tracks'.pend = tracks.pend /\ tracks'.pending = tracks.pending
          /\ tracks'.selected = tracks.selected /\ tracks'.begun = tracks.begun
      BY <1>0, <1>1, <2>2, ReadVideoIs DEF TracksRecord
    <3>2. Given(FALSE, Head(tracks.cur), Tail(tracks.cur)) = tracks.cur
      BY <2>1, GivenIs, StreamTypes
    <3>3. Chain(Given(demuxSeen'.jumpedV, demuxSeen'.lastV, tracks'.cur), tracks'.selected, file'.discard, file'.pos)
      BY <2>1, <3>1, <3>2, ListsChain
    <3>. QED  BY <2>1, <3>1, <3>3 DEF StreamInv
  <2>3. CASE Switches(tracks)
    <3>1. /\ tracks.pend # <<>> /\ tracks'.cur = Tail(tracks.pend) /\ demuxSeen'.lastV = Head(tracks.pend)
          /\ tracks'.pend = <<>> /\ tracks'.pending = NoTrack /\ tracks'.selected = tracks.pending
      BY <1>0, <1>1, <2>3, ReadVideoIs DEF TracksRecord
    <3>2. Given(FALSE, Head(tracks.pend), Tail(tracks.pend)) = tracks.pend
      BY <3>1, GivenIs, StreamTypes
    <3>3. Chain(Given(demuxSeen'.jumpedV, demuxSeen'.lastV, tracks'.cur), tracks'.selected, file'.discard, file'.pos)
      BY <2>1, <3>1, <3>2 DEF StreamInv
    <3>4. NoTrack \notin file.discard /\ tracks.pending # NoTrack
      BY <3>1, StreamTypes DEF StreamInv, FileStreams, VideoTracks, NoTrack
    <3>5. Chain(tracks'.pend, tracks'.pending, file'.discard, file'.pos) /\ \A i \in 1 .. Len(<<>>) : FALSE
      BY <3>1, ChainEmpty
    <3>. QED  BY <2>1, <3>1, <3>3, <3>4, <3>5 DEF StreamInv
  <2>. QED  BY <2>2, <2>3
<1>2. CASE ReadAudio
  <2>1. /\ audioList # <<>> /\ audioList' = Tail(audioList)
        /\ demuxSeen'.lastA = Head(audioList) /\ demuxSeen'.jumpedA = FALSE
        /\ demuxSeen'.lastV = demuxSeen.lastV /\ demuxSeen'.jumpedV = demuxSeen.jumpedV
        /\ UNCHANGED <<tracks, file>>
    BY <1>2, ReadAudioIs
  <2>2. Given(FALSE, Head(audioList), Tail(audioList)) = audioList
    BY <2>1, GivenIs, StreamTypes
  <2>3. Chain(Given(demuxSeen'.jumpedA, demuxSeen'.lastA, audioList'), "a", file'.discard, file'.pos)
    BY <2>1, <2>2, ListsChain
  <2>. QED  BY <2>1, <2>3 DEF StreamInv
<1>. QED  BY <1>1, <1>2

LEMMA SelectStream ==
    ASSUME DemuxRecords, StreamInv, NEW t \in VideoTracks, SelectTrack(t)
    PROVE  StreamInv'
<1>0. tracks \in TracksRecord /\ file \in FileRecord /\ demuxSeen \in DemuxSeenRecord
  BY DEF DemuxRecords
<1>1. /\ audioList' = audioList
      /\ demuxSeen'.lastV = demuxSeen.lastV /\ demuxSeen'.jumpedV = demuxSeen.jumpedV
      /\ demuxSeen'.lastA = demuxSeen.lastA /\ demuxSeen'.jumpedA = demuxSeen.jumpedA
  BY <1>0 DEF SelectTrack, Called, DemuxSeenRecord
<1>2. CASE t = tracks.pending
  <2>1. tracks' = tracks /\ file' = file
    BY <1>2 DEF SelectTrack
  <2>. QED  BY <1>1, <2>1, StreamKept
<1>3. CASE t # tracks.pending /\ t = tracks.selected
  <2>1. /\ file' = file /\ tracks'.cur = tracks.cur /\ tracks'.selected = tracks.selected
        /\ tracks'.pend = <<>> /\ tracks'.pending = NoTrack
    BY <1>0, <1>3 DEF SelectTrack, TracksRecord
  <2>2. NoTrack \notin file.discard /\ NoTrack # tracks.selected
    BY StreamTypes DEF FileStreams, VideoTracks, NoTrack
  <2>3. Chain(tracks'.pend, tracks'.pending, file'.discard, file'.pos) /\ \A i \in 1 .. Len(<<>>) : FALSE
    BY <2>1, ChainEmpty
  <2>. QED  BY <1>1, <2>1, <2>2, <2>3 DEF StreamInv
<1>4. CASE t # tracks.pending /\ t # tracks.selected
  <2>1. /\ file'.pos = file.pos /\ file'.discard = file.discard \ {t}
        /\ tracks'.cur = tracks.cur /\ tracks'.selected = tracks.selected
        /\ tracks'.pend = (IF tracks.pending # NoTrack THEN <<>> ELSE tracks.pend)
        /\ tracks'.pending = t
    BY <1>0, <1>4 DEF SelectTrack, TracksRecord, FileRecord
  <2>2. tracks'.pend = <<>> /\ \A i \in 1 .. Len(<<>>) : FALSE
    BY <2>1 DEF StreamInv
  <2>3. ASSUME NEW list \in Seq(Entries), NEW st, st # t, Chain(list, st, file.discard, file.pos)
        PROVE  Chain(list, st, file'.discard, file'.pos)
    <3>0. file.pos \in Nat /\ file.pos <= Len(File) + 1
      BY StreamTypes
    <3>1. PICK off, may, pos : off = file.discard /\ may = file'.discard /\ pos = file.pos
      OBVIOUS
    <3>2. st \in off => st \in may
      BY <2>1, <2>3, <3>1
    <3>3. pos \in Nat /\ pos <= Len(File) + 1 /\ pos <= pos /\ \A i \in pos .. pos - 1 : File[i].st # st
      BY <3>0, <3>1
    <3>4. Chain(list, st, may, pos)
      BY <2>3, <3>1, <3>2, <3>3, ChainGoesOn
    <3>. QED  BY <2>1, <3>1, <3>4
  <2>4. /\ Given(demuxSeen.jumpedV, demuxSeen.lastV, tracks.cur) \in Seq(Entries)
        /\ Given(demuxSeen.jumpedA, demuxSeen.lastA, audioList) \in Seq(Entries)
    BY GivenIs, StreamTypes
  <2>5. Chain(Given(demuxSeen.jumpedV, demuxSeen.lastV, tracks.cur), tracks.selected, file'.discard, file'.pos)
    BY <1>4, <2>3, <2>4 DEF StreamInv
  <2>6. Chain(Given(demuxSeen.jumpedA, demuxSeen.lastA, audioList), "a", file'.discard, file'.pos)
    <3>1. "a" # t
      BY DEF VideoTracks
    <3>. QED  BY <2>3, <2>4, <3>1 DEF StreamInv
  <2>7. Chain(tracks'.pend, tracks'.pending, file'.discard, file'.pos)
    BY <2>2, ChainEmpty
  <2>. QED  BY <1>1, <1>4, <2>1, <2>2, <2>5, <2>6, <2>7 DEF StreamInv
<1>. QED  BY <1>2, <1>3, <1>4

LEMMA CallsStream ==
    ASSUME DemuxRecords, PhaseInv, StreamInv,
           \/ DemuxPrepare \/ OnDemuxPrepare \/ DemuxStart \/ DemuxFlush
           \/ \E ts \in 0 .. Duration : DemuxSeek(ts)
    PROVE  StreamInv'
<1>0. tracks \in TracksRecord /\ file \in FileRecord /\ demuxSeen \in DemuxSeenRecord
  BY DEF DemuxRecords
<1>1. CASE DemuxPrepare \/ DemuxStart
  <2>1. /\ UNCHANGED <<tracks, audioList, file>>
        /\ demuxSeen' = [demuxSeen EXCEPT !.calls = demuxSeen.calls + 1]
    BY <1>1 DEF DemuxPrepare, DemuxStart, Called
  <2>. QED  BY <1>0, <2>1, StreamKept DEF DemuxSeenRecord
<1>2. CASE OnDemuxPrepare
  <2>1. CASE ResetState
    <3>1. Emptied' /\ tracks' = NoTracks /\ file'.discard = {}
      BY <2>1, ResetEmpties
    <3>2. NoTracks.pending # NoTracks.selected
      BY DEF NoTracks, NoTrack
    <3>. QED  BY <3>1, <3>2, StreamEmptied
  <2>2. CASE ~ResetState
    <3>1. /\ UNCHANGED <<tracks, audioList, demuxSeen>> /\ file'.discard = FileStreams \ {"v", "a"}
          /\ demux.posted
      BY <1>2, <2>2 DEF OnDemuxPrepare
    <3>2. Emptied /\ tracks = NoTracks
      BY <3>1 DEF PhaseInv
    <3>3. Emptied'
      BY <3>1, <3>2 DEF Emptied
    <3>4. /\ tracks'.pending = NoTrack /\ tracks'.selected = "v" /\ NoTrack # "v"
          /\ NoTrack \notin FileStreams
      BY <3>1, <3>2 DEF NoTracks, NoTrack, FileStreams, VideoTracks
    <3>. QED  BY <3>1, <3>3, <3>4, StreamEmptied
  <2>. QED  BY <2>1, <2>2
<1>3. CASE DemuxFlush
  <2>1. /\ tracks' = FlushedTracks /\ audioList' = <<>> /\ file' = file
        /\ \E n : demuxSeen' = [Jumped(demuxSeen) EXCEPT !.calls = n]
    BY <1>3 DEF DemuxFlush
  <2>2. Emptied' /\ tracks'.selected = tracks.selected /\ tracks'.pending = tracks.pending
    BY <2>1, FlushEmpties
  <2>. QED  BY <2>1, <2>2, StreamEmptied DEF StreamInv
<1>4. ASSUME NEW ts \in 0 .. Duration, DemuxSeek(ts) PROVE StreamInv'
  <2>1. /\ UNCHANGED <<tracks, audioList, file>>
        /\ demuxSeen'.jumpedV = demuxSeen.jumpedV /\ demuxSeen'.jumpedA = demuxSeen.jumpedA
        /\ demuxSeen'.lastV = demuxSeen.lastV /\ demuxSeen'.lastA = demuxSeen.lastA
    BY <1>0, <1>4 DEF DemuxSeek, DemuxSeenRecord
  <2>. QED  BY <2>1, StreamKept
<1>. QED  BY <1>1, <1>2, <1>3, <1>4

LEMMA StopsStream ==
    ASSUME DemuxRecords, StreamInv,
           \/ \E op \in {"stop", "reset"} : DemuxStop(op)
           \/ StopFlushes \/ StopDrops \/ StopIsNothing \/ ResetEndsThread \/ ResetJoined
    PROVE  StreamInv'
<1>0. tracks \in TracksRecord /\ file \in FileRecord /\ demuxSeen \in DemuxSeenRecord
  BY DEF DemuxRecords
<1>1. CASE (\E op \in {"stop", "reset"} : DemuxStop(op)) \/ StopDrops
  <2>1. /\ UNCHANGED <<tracks, audioList, file>>
        /\ \/ demuxSeen' = [demuxSeen EXCEPT !.calls = demuxSeen.calls + 1]
           \/ \E d : demuxSeen' = [demuxSeen EXCEPT !.dropped = d]
    BY <1>1 DEF DemuxStop, StopDrops, Called
  <2>. QED  BY <1>0, <2>1, StreamKept DEF DemuxSeenRecord
<1>2. CASE StopFlushes
  <2>1. tracks' = FlushedTracks /\ audioList' = <<>> /\ file' = file /\ demuxSeen' = Jumped(demuxSeen)
    BY <1>2 DEF StopFlushes
  <2>2. Emptied' /\ tracks'.selected = tracks.selected /\ tracks'.pending = tracks.pending
    BY <2>1, FlushEmpties
  <2>. QED  BY <2>1, <2>2, StreamEmptied DEF StreamInv
<1>3. CASE StopIsNothing \/ ResetEndsThread
  BY <1>3, StreamKept DEF StopIsNothing, ResetEndsThread
<1>4. CASE ResetJoined
  <2>1. Emptied' /\ tracks' = NoTracks /\ file'.discard = {}
    BY <1>4, ResetEmpties DEF ResetJoined
  <2>2. NoTracks.pending # NoTracks.selected
    BY DEF NoTracks, NoTrack
  <2>. QED  BY <2>1, <2>2, StreamEmptied
<1>. QED  BY <1>1, <1>2, <1>3, <1>4

LEMMA SeekStream ==
    ASSUME DemuxRecords, StreamInv, CheckSeek
    PROVE  StreamInv'
<1>0. tracks \in TracksRecord
  BY DEF DemuxRecords
<1>1. CASE /\ Emptied' /\ Len(tracks'.cur) = 0 /\ Len(tracks'.pend) = 0
           /\ tracks'.selected = tracks.selected /\ tracks'.pending = tracks.pending
           /\ tracks'.begun = tracks.begun /\ file'.discard = file.discard
  BY <1>1, StreamEmptied DEF StreamInv
<1>2. CASE /\ file' = file
           /\ demuxSeen'.jumpedV /\ demuxSeen'.jumpedA
           /\ \E n \in 2 .. Len(tracks.cur) :
                tracks' = [tracks EXCEPT !.cur = SubSeq(tracks.cur, n, Len(tracks.cur))]
           /\ \/ audioList' = <<>>
              \/ \E n \in 1 .. Len(audioList) : audioList' = SubSeq(audioList, n, Len(audioList))
  <2>1. PICK n \in 2 .. Len(tracks.cur) :
          tracks' = [tracks EXCEPT !.cur = SubSeq(tracks.cur, n, Len(tracks.cur))]
    BY <1>2
  <2>2. /\ tracks'.cur = SubSeq(tracks.cur, n, Len(tracks.cur)) /\ tracks'.pend = tracks.pend
        /\ tracks'.selected = tracks.selected /\ tracks'.pending = tracks.pending
        /\ tracks'.begun = tracks.begun
    BY <1>0, <2>1 DEF TracksRecord
  <2>3. n \in 1 .. Len(tracks.cur)
    <3>1. Len(tracks.cur) \in Nat
      BY StreamTypes
    <3>. QED  BY <3>1
  <2>4. ASSUME NEW list \in Seq(Entries), NEW m \in 1 .. Len(list), NEW st, Chain(list, st, file.discard, file.pos)
        PROVE  Chain(SubSeq(list, m, Len(list)), st, file.discard, file.pos)
    <3>1. PICK off, pos : off = file.discard /\ pos = file.pos
      OBVIOUS
    <3>2. pos \in Nat
      BY <3>1, StreamTypes
    <3>3. Chain(SubSeq(list, m, Len(list)), st, off, pos)
      BY <2>4, <3>1, <3>2, ChainSuffix
    <3>. QED  BY <3>1, <3>3
  <2>5. Chain(tracks'.cur, tracks'.selected, file'.discard, file'.pos)
    BY <1>2, <2>2, <2>3, <2>4, ListsChain, StreamTypes
  <2>6. Chain(audioList', "a", file'.discard, file'.pos)
    <3>1. CASE audioList' = <<>>
      BY <3>1, ChainEmpty
    <3>2. CASE \E m \in 1 .. Len(audioList) : audioList' = SubSeq(audioList, m, Len(audioList))
      BY <1>2, <2>4, <3>2, ListsChain, StreamTypes
    <3>. QED  BY <1>2, <3>1, <3>2
  <2>7. /\ Given(demuxSeen'.jumpedV, demuxSeen'.lastV, tracks'.cur) = tracks'.cur
        /\ Given(demuxSeen'.jumpedA, demuxSeen'.lastA, audioList') = audioList'
    BY <1>2 DEF Given
  <2>. QED  BY <1>2, <2>2, <2>5, <2>6, <2>7 DEF StreamInv
<1>. QED  BY <1>1, <1>2, CheckSeekIs

(* The end of the file: Eos for the decoders, not for what is cached.       *)
LEMMA EofStream ==
    ASSUME DemuxRecords, StreamInv, ReadFrameEof
    PROVE  StreamInv'
<1>0. tracks \in TracksRecord /\ file \in FileRecord
  BY DEF DemuxRecords
<1>1. /\ tracks'.cur = Append(tracks.cur, Eos) /\ tracks'.pend = tracks.pend
      /\ tracks'.selected = tracks.selected /\ tracks'.pending = tracks.pending
      /\ tracks'.begun = tracks.begun
      /\ audioList' = Append(audioList, Eos) /\ demuxSeen' = demuxSeen
      /\ file'.pos = Len(File) + 1 /\ file'.discard = file.discard
  BY <1>0 DEF ReadFrameEof, TracksRecord, FileRecord
<1>2. \A i \in file.pos .. Len(File) : File[i].st \in file.discard
  BY NextPacketIs DEF ReadFrameEof
<1>3. ASSUME NEW list \in Seq(Entries), NEW st, Chain(list, st, file.discard, file.pos)
      PROVE  Chain(Append(list, Eos), st, file.discard, Len(File) + 1)
  <2>0. file.pos \in 1 .. Len(File) + 1
    BY StreamTypes
  <2>1. PICK off, pos : off = file.discard /\ pos = file.pos
    OBVIOUS
  <2>2. pos \in 1 .. Len(File) + 1
    BY <2>0, <2>1
  <2>3. st \in off \/ \A i \in pos .. Len(File) : File[i].st # st
    BY <1>2, <2>1
  <2>4. Chain(Append(list, Eos), st, off, Len(File) + 1)
    BY <1>3, <2>1, <2>2, <2>3, ChainEnds
  <2>. QED  BY <2>1, <2>4
<1>4. ASSUME NEW jumped \in BOOLEAN, NEW last \in Entries, NEW list \in Seq(Entries), NEW st,
             Chain(Given(jumped, last, list), st, file.discard, file.pos)
      PROVE  Chain(Given(jumped, last, Append(list, Eos)), st, file.discard, Len(File) + 1)
  <2>1. PICK e \in Entries : e = Eos
    BY EntriesAre
  <2>2. Given(jumped, last, list) \in Seq(Entries)
    BY <2>1, GivenIs
  <2>3. Given(jumped, last, Append(list, e)) = Append(Given(jumped, last, list), e)
    BY GivenAppend
  <2>. QED  BY <1>3, <1>4, <2>1, <2>2, <2>3
<1>5. Chain(tracks.pend, tracks.pending, file.discard, Len(File) + 1)
  <2>1. PICK off, pos : off = file.discard /\ pos = file.pos
    OBVIOUS
  <2>2. pos \in Nat /\ pos <= Len(File) + 1 /\ Len(File) + 1 \in Nat /\ Len(File) + 1 <= Len(File) + 1
    BY <2>1, StreamTypes
  <2>3. \A i \in pos .. (Len(File) + 1) - 1 : File[i].st # tracks.pending
    <3>1. (Len(File) + 1) - 1 = Len(File)
      BY FileIs
    <3>. QED  BY <1>2, <2>1, <3>1 DEF StreamInv
  <2>4. PICK list \in Seq(Entries), p \in Nat : list = tracks.pend /\ p = Len(File) + 1
    BY <2>2, StreamTypes
  <2>5. PICK st : st = tracks.pending
    OBVIOUS
  <2>6. Chain(list, st, off, pos) /\ \A i \in pos .. p - 1 : File[i].st # st
    BY <2>1, <2>3, <2>4, <2>5 DEF StreamInv
  <2>7. pos \in Nat /\ pos <= p /\ p <= Len(File) + 1
    BY <2>2, <2>4
  <2>8. Chain(list, st, off, p)
    BY <2>6, <2>7, ChainGoesOn
  <2>. QED  BY <2>1, <2>4, <2>5, <2>8
<1>6. Chain(Given(demuxSeen'.jumpedV, demuxSeen'.lastV, tracks'.cur), tracks'.selected, file'.discard, file'.pos)
  BY <1>1, <1>4, StreamTypes DEF StreamInv
<1>7. Chain(Given(demuxSeen'.jumpedA, demuxSeen'.lastA, audioList'), "a", file'.discard, file'.pos)
  BY <1>1, <1>4, StreamTypes DEF StreamInv
<1>. QED  BY <1>1, <1>5, <1>6, <1>7 DEF StreamInv

(* A packet: it goes to the end of its list, or is of no list's stream, or  *)
(* all lists are empty.                                                    *)
LEMMA FrameStream ==
    ASSUME DemuxRecords, PhaseInv, StreamInv, ReadFrame
    PROVE  StreamInv'
<1>0. tracks \in TracksRecord
  BY DEF DemuxRecords
<1>. DEFINE VGiven(list) == Given(demuxSeen.jumpedV, demuxSeen.lastV, list)
            AGiven(list) == Given(demuxSeen.jumpedA, demuxSeen.lastA, list)
<1>1. PICK p : p = NextPacket
  OBVIOUS
<1>2. /\ p \in file.pos .. Len(File) /\ p \in 1 .. Len(File) /\ p \in Entries
      /\ File[p].st \notin file.discard
      /\ \A i \in file.pos .. p - 1 : File[i].st \in file.discard
  <2>1. NextPacket # Eos
    BY DEF ReadFrame
  <2>. QED  BY <1>1, <2>1, NextPacketIs
<1>3. PICK pos, off, may : pos = file.pos /\ off = file.discard /\ may = file'.discard
  OBVIOUS
<1>4. /\ pos \in 1 .. Len(File) + 1 /\ pos \in Nat /\ Len(File) \in Nat /\ p \in Nat
      /\ pos <= p + 1 /\ p + 1 <= Len(File) + 1 /\ p + 1 \in Nat
  <2>1. pos \in 1 .. Len(File) + 1 /\ Len(File) \in Nat
    BY <1>3, StreamTypes
  <2>. QED  BY <1>2, <1>3, <2>1
<1>5. /\ reader.at = "reading" /\ file'.pos = p + 1 /\ demuxSeen' = demuxSeen
      /\ may = off \/ (tracks.pending # NoTrack /\ may = off \cup {tracks.selected})
      /\ demux'.checkKey => demux.checkKey
  BY <1>1, <1>3, ReadFrameIs
<1>6. /\ tracks.pending \notin may /\ "a" \notin may /\ tracks.selected # "a" /\ tracks.pending # "a"
      /\ tracks.pending # tracks.selected
  BY <1>3, <1>5, StreamTypes DEF StreamInv
<1>7. ASSUME NEW list \in Seq(Entries), NEW st, Chain(list, st, off, pos), File[p].st = st
      PROVE  Chain(Append(list, p), st, may, p + 1)
  <2>1. p \in pos .. Len(File) /\ st \notin off /\ \A i \in pos .. p - 1 : File[i].st # st
    BY <1>2, <1>3, <1>7
  <2>. QED  BY <1>4, <1>7, <2>1, ChainAppend
<1>8. ASSUME NEW list \in Seq(Entries), NEW st, Chain(list, st, off, pos), File[p].st # st
      PROVE  Chain(list, st, may, p + 1)
  <2>1. st \in off => st \in may
    BY <1>5
  <2>2. ASSUME st \notin may, NEW i \in pos .. (p + 1) - 1 PROVE File[i].st # st
    <3>1. i \in pos .. p - 1 \/ i = p
      BY <1>4
    <3>. QED  BY <1>2, <1>3, <1>8, <2>1, <2>2, <3>1
  <2>3. st \in may \/ \A i \in pos .. (p + 1) - 1 : File[i].st # st
    BY <2>2
  <2>. QED  BY <1>4, <1>8, <2>1, <2>3, ChainGoesOn
<1>9. /\ VGiven(tracks.cur) \in Seq(Entries) /\ AGiven(audioList) \in Seq(Entries)
      /\ tracks.pend \in Seq(Entries)
      /\ VGiven(Append(tracks.cur, p)) = Append(VGiven(tracks.cur), p)
      /\ AGiven(Append(audioList, p)) = Append(AGiven(audioList), p)
  <2>1. /\ VGiven(tracks.cur) \in Seq(Entries) /\ AGiven(audioList) \in Seq(Entries)
        /\ tracks.pend \in Seq(Entries)
    BY StreamTypes, GivenIs
  <2>2. VGiven(Append(tracks.cur, p)) = Append(VGiven(tracks.cur), p)
    <3>1. PICK j \in BOOLEAN, l \in Entries, c \in Seq(Entries) :
            j = demuxSeen.jumpedV /\ l = demuxSeen.lastV /\ c = tracks.cur
      BY StreamTypes
    <3>2. Given(j, l, Append(c, p)) = Append(Given(j, l, c), p)
      BY <1>2, GivenAppend
    <3>. QED  BY <3>1, <3>2
  <2>3. AGiven(Append(audioList, p)) = Append(AGiven(audioList), p)
    <3>1. PICK j \in BOOLEAN, l \in Entries, c \in Seq(Entries) :
            j = demuxSeen.jumpedA /\ l = demuxSeen.lastA /\ c = audioList
      BY StreamTypes
    <3>2. Given(j, l, Append(c, p)) = Append(Given(j, l, c), p)
      BY <1>2, GivenAppend
    <3>. QED  BY <3>1, <3>2
  <2>. QED  BY <2>1, <2>2, <2>3
<1>10. /\ Chain(VGiven(tracks.cur), tracks.selected, off, pos)
       /\ Chain(AGiven(audioList), "a", off, pos)
       /\ Chain(tracks.pend, tracks.pending, off, pos)
  BY <1>3 DEF StreamInv
<1>. HIDE DEF VGiven, AGiven
<1>11. /\ File[p].st # tracks.selected => Chain(VGiven(tracks.cur), tracks.selected, may, p + 1)
       /\ File[p].st # "a" => Chain(AGiven(audioList), "a", may, p + 1)
       /\ File[p].st # tracks.pending => Chain(tracks.pend, tracks.pending, may, p + 1)
  BY <1>8, <1>9, <1>10
<1>12. SUFFICES /\ Chain(VGiven(tracks'.cur), tracks'.selected, may, p + 1)
                /\ Chain(AGiven(audioList'), "a", may, p + 1)
                /\ Chain(tracks'.pend, tracks'.pending, may, p + 1)
                /\ \A i \in 1 .. Len(tracks'.pend) : tracks'.pend[i] # Eos
                /\ tracks'.pend # <<>> => tracks'.pending # NoTrack /\ tracks'.begun
                /\ tracks'.pending = tracks.pending /\ tracks'.selected = tracks.selected
  BY <1>3, <1>5, <1>6 DEF StreamInv, VGiven, AGiven
<1>13. CASE /\ tracks' = tracks /\ audioList' = audioList
            /\ \/ demux.checkKey
               \/ ~(File[p].st \in {tracks.selected, tracks.pending, "a"})
               \/ /\ File[p].st = tracks.pending /\ File[p].st # tracks.selected
                  /\ ~tracks.begun
  <2>1. CASE demux.checkKey
    <3>1. file.pos # Len(File) + 1
      BY <1>2, <1>3, <1>4
    <3>2. Emptied
      BY <1>5, <2>1, <3>1 DEF PhaseInv, Settled
    <3>3. tracks.pend = <<>> /\ VGiven(tracks.cur) = <<>> /\ AGiven(audioList) = <<>>
      BY <3>2 DEF Emptied, VGiven, AGiven, Given
    <3>. QED  BY <1>13, <3>3, ChainEmpty DEF StreamInv
  <2>2. CASE ~(File[p].st \in {tracks.selected, tracks.pending, "a"})
    BY <1>11, <1>13, <2>2 DEF StreamInv
  <2>3. CASE File[p].st = tracks.pending /\ File[p].st # tracks.selected /\ ~tracks.begun
    <3>1. tracks.pend = <<>>
      BY <2>3 DEF StreamInv
    <3>. QED  BY <1>6, <1>11, <1>13, <2>3, <3>1, ChainEmpty DEF StreamInv
  <2>. QED  BY <1>13, <2>1, <2>2, <2>3
<1>14. CASE File[p].st = "a" /\ tracks' = tracks /\ audioList' = Append(audioList, p)
  <2>1. Chain(AGiven(audioList'), "a", may, p + 1)
    BY <1>7, <1>9, <1>10, <1>14
  <2>. QED  BY <1>6, <1>11, <1>14, <2>1 DEF StreamInv
<1>15. CASE /\ File[p].st = tracks.selected
            /\ tracks' = [tracks EXCEPT !.cur = Append(@, p)] /\ audioList' = audioList
  <2>1. /\ tracks'.cur = Append(tracks.cur, p) /\ tracks'.pend = tracks.pend
        /\ tracks'.selected = tracks.selected /\ tracks'.pending = tracks.pending
        /\ tracks'.begun = tracks.begun
    BY <1>0, <1>15 DEF TracksRecord
  <2>2. Chain(VGiven(tracks'.cur), tracks'.selected, may, p + 1)
    BY <1>7, <1>9, <1>10, <1>15, <2>1
  <2>. QED  BY <1>6, <1>11, <1>15, <2>1, <2>2 DEF StreamInv
<1>16. CASE /\ File[p].st = tracks.pending
            /\ tracks' = [tracks EXCEPT !.pend = Append(@, p), !.begun = TRUE] /\ audioList' = audioList
  <2>1. /\ tracks'.cur = tracks.cur /\ tracks'.pend = Append(tracks.pend, p)
        /\ tracks'.selected = tracks.selected /\ tracks'.pending = tracks.pending
        /\ tracks'.begun
    BY <1>0, <1>16 DEF TracksRecord
  <2>2. Chain(tracks'.pend, tracks'.pending, may, p + 1)
    BY <1>7, <1>9, <1>10, <1>16, <2>1
  <2>3. tracks.pending # NoTrack
    <3>1. File[p].st \in FileStreams
      BY <1>2, FileIs
    <3>. QED  BY <1>16, <3>1 DEF FileStreams, VideoTracks, NoTrack
  <2>4. \A i \in 1 .. Len(tracks'.pend) : tracks'.pend[i] # Eos
    <3>1. SUFFICES ASSUME NEW i \in 1 .. Len(tracks'.pend) PROVE tracks'.pend[i] # Eos
      OBVIOUS
    <3>2. PICK q \in Seq(Entries) : q = tracks.pend
      BY <1>9
    <3>3. /\ Len(Append(q, p)) = Len(q) + 1 /\ Append(q, p)[Len(q) + 1] = p /\ Len(q) \in Nat
          /\ \A j \in 1 .. Len(q) : Append(q, p)[j] = q[j]
      BY <1>2, AppendIs
    <3>4. tracks'.pend = Append(q, p) /\ p # Eos /\ \A j \in 1 .. Len(q) : q[j] # Eos
      BY <1>2, <2>1, <3>2 DEF StreamInv, Eos
    <3>5. i \in 1 .. Len(q) \/ i = Len(q) + 1
      BY <3>3, <3>4
    <3>. QED  BY <3>3, <3>4, <3>5
  <2>. QED  BY <1>6, <1>11, <1>16, <2>1, <2>2, <2>3, <2>4
<1>. QED  BY <1>1, <1>13, <1>14, <1>15, <1>16, ReadFrameIs

LEMMA StreamStep ==
    DemuxRecords /\ PhaseInv /\ StreamInv /\ [DemuxNext]_demuxVars => StreamInv'
<1>. SUFFICES ASSUME DemuxRecords, PhaseInv, StreamInv, [DemuxNext]_demuxVars PROVE StreamInv'
  OBVIOUS
<1>1. CASE UNCHANGED demuxVars
  BY <1>1, StreamKept DEF demuxVars
<1>2. CASE ReaderWakes \/ ReaderEnds \/ ReadFrameBegins \/ ReadFrameFails
  BY <1>2, StreamKept DEF ReaderWakes, ReaderEnds, ReadFrameBegins, ReadFrameFails
<1>3. CASE DemuxNext
  BY <1>2, <1>3, CallsStream, SelectStream, StopsStream, ReadsStream, SeekStream, EofStream, FrameStream
     DEF DemuxNext, ReadThread
<1>. QED  BY <1>1, <1>3

(* What a read may take: what StreamsContinue says, of one step.            *)
LEMMA ReadsContinue ==
    ASSUME DemuxRecords, StreamInv
    PROVE  /\ ReadVideo /\ ~demuxSeen.jumpedV /\ demuxSeen.lastV # Eos =>
                LET next == NextOf(demuxSeen.lastV) IN
                  \/ demuxSeen'.lastV = next
                  \/ demuxSeen'.switched /\ (next = Eos \/ Ts(demuxSeen'.lastV) <= Ts(next))
                  \/ demuxSeen'.lastV = Eos /\ tracks.selected \in file.discard
           /\ ReadAudio /\ ~demuxSeen.jumpedA /\ demuxSeen.lastA # Eos =>
                demuxSeen'.lastA = NextOf(demuxSeen.lastA)
<1>1. ASSUME NEW jumped \in BOOLEAN, NEW last \in Entries, NEW list \in Seq(Entries), NEW st, list # <<>>, ~jumped,
             last # Eos, Chain(Given(jumped, last, list), st, file.discard, file.pos)
      PROVE  Head(list) = NextOf(last) \/ (Head(list) = Eos /\ st \in file.discard)
  <2>0. PICK g \in Seq(Entries) : g = Given(jumped, last, list)
    BY GivenIs
  <2>1. PICK off, pos : g = Given(jumped, last, list) /\ off = file.discard /\ pos = file.pos
    BY <2>0
  <2>2. Len(g) = Len(list) + 1 /\ g[1] = last /\ g[2] = list[1] /\ Len(list) \in Nat /\ Len(list) > 0
    <3>1. Len(list) \in Nat /\ Len(list) > 0
      BY <1>1, TailIs
    <3>2. Given(jumped, last, list) = <<last>> \o list
      BY <1>1 DEF Given
    <3>3. /\ Len(<<last>> \o list) = Len(list) + 1 /\ (<<last>> \o list)[1] = last
          /\ (<<last>> \o list)[2] = list[1]
      BY <1>1
    <3>. QED  BY <2>1, <3>1, <3>2, <3>3
  <2>3. 1 \in 1 .. Len(g) - 1 /\ Chain(g, st, off, pos)
    BY <1>1, <2>1, <2>2
  <2>4. g[1 + 1] = NextOf(g[1]) \/ (st \in off /\ g[1 + 1] = Eos)
    BY <1>1, <2>2, <2>3 DEF Chain
  <2>5. Head(list) = list[1] /\ 1 + 1 = 2
    BY <1>1
  <2>. QED  BY <2>1, <2>2, <2>4, <2>5
<1>2. ASSUME ReadVideo, ~demuxSeen.jumpedV, demuxSeen.lastV # Eos
      PROVE  LET next == NextOf(demuxSeen.lastV) IN
               \/ demuxSeen'.lastV = next
               \/ demuxSeen'.switched /\ (next = Eos \/ Ts(demuxSeen'.lastV) <= Ts(next))
               \/ demuxSeen'.lastV = Eos /\ tracks.selected \in file.discard
  <2>1. tracks.cur # <<>>
    BY <1>2, ReadVideoIs
  <2>2. \/ Head(tracks.cur) = NextOf(demuxSeen.lastV)
        \/ Head(tracks.cur) = Eos /\ tracks.selected \in file.discard
    BY <1>1, <1>2, <2>1, StreamTypes DEF StreamInv
  <2>3. CASE ~Switches(tracks)
    BY <1>2, <2>2, <2>3, ReadVideoIs
  <2>4. CASE Switches(tracks)
    <3>1. demuxSeen'.lastV = Head(tracks.pend) /\ demuxSeen'.switched /\ tracks.pend # <<>>
      BY <1>2, <2>4, ReadVideoIs
    <3>2. Ts(Head(tracks.pend)) > 0 /\ Ts(Head(tracks.pend)) <= Ts(Head(tracks.cur))
      BY <2>1, <2>4, <3>1 DEF Switches, FirstTs
    <3>3. Head(tracks.cur) # Eos
      <4>1. Ts(Eos) = -1
        BY DEF Ts
      <4>2. PICK n \in Int : n = Ts(Head(tracks.pend))
        <5>1. Head(tracks.pend) \in Entries
          BY <3>1, StreamTypes, TailIs
        <5>. QED  BY <5>1, EntriesAre
      <4>. QED  BY <3>2, <4>1, <4>2
    <3>. QED  BY <2>2, <3>1, <3>2, <3>3
  <2>. QED  BY <2>3, <2>4
<1>3. ASSUME ReadAudio, ~demuxSeen.jumpedA, demuxSeen.lastA # Eos
      PROVE  demuxSeen'.lastA = NextOf(demuxSeen.lastA)
  <2>1. audioList # <<>> /\ demuxSeen'.lastA = Head(audioList)
    BY <1>3, ReadAudioIs
  <2>. QED  BY <1>1, <1>3, <2>1, StreamTypes DEF StreamInv
<1>. QED  BY <1>2, <1>3

-----------------------------------------------------------------------------
(* The theorems.                                                           *)
DemuxInv == DemuxRecords /\ SleepInv /\ SeeksInv /\ PhaseInv /\ StreamInv

(* The inductive invariant: the records, why the read thread may sleep,     *)
(* where every seek is, what the pipeline's calls have done up to the step  *)
(* they have reached, and that the lists are pieces of the file.            *)
THEOREM DemuxInvHolds == DemuxSpec => []DemuxInv
<1>1. DemuxInit => DemuxInv
  BY DemuxTypesInit, SleepInit, SeeksInit, PhaseInit, StreamInit DEF DemuxInv
<1>2. DemuxInv /\ [DemuxNext]_demuxVars => DemuxInv'
  BY DemuxTypesStep, SleepStep, SeeksStep, PhaseStep, StreamStep DEF DemuxInv
<1>. QED  BY <1>1, <1>2, PTL DEF DemuxSpec

(* The types, with those of the history and of the seeks under way.         *)
THEOREM DemuxTypeCorrect == DemuxSpec => []DemuxRecords
<1>1. DemuxInv => DemuxRecords
  BY DEF DemuxInv
<1>. QED  BY <1>1, DemuxInvHolds, PTL

(* The read thread does not go to sleep on its semaphore when a seek, a     *)
(* flush or a read meanwhile gave it something to do.                       *)
THEOREM NotStalledHolds == DemuxSpec => []NotStalled
<1>1. DemuxInv => NotStalled
  BY DEF DemuxInv, SleepInv
<1>. QED  BY <1>1, DemuxInvHolds, PTL

(* Each seek that was accepted is answered once and in order, or dropped by *)
(* a stop or a reset; checkSeek's assertions hold.                          *)
THEOREM SeeksAnsweredHolds == DemuxSpec => []SeeksAnswered
<1>1. DemuxInv => SeeksAnswered
  BY SeeksInvIs DEF DemuxInv
<1>. QED  BY <1>1, DemuxInvHolds, PTL

(* Reads get the packets of a stream without a gap and without a repetition *)
(* until the next seek, flush or stop, also across a switch of the track,   *)
(* although av_read_frame runs without the lock.                            *)
THEOREM StreamsContinueHolds == DemuxSpec => StreamsContinue
<1>1. DemuxInv /\ [DemuxNext]_demuxVars =>
        [/\ ReadVideo /\ ~demuxSeen.jumpedV /\ demuxSeen.lastV # Eos =>
              LET next == NextOf(demuxSeen.lastV) IN
                \/ demuxSeen'.lastV = next
                \/ demuxSeen'.switched /\ (next = Eos \/ Ts(demuxSeen'.lastV) <= Ts(next))
                \/ demuxSeen'.lastV = Eos /\ tracks.selected \in file.discard
         /\ ReadAudio /\ ~demuxSeen.jumpedA /\ demuxSeen.lastA # Eos =>
              demuxSeen'.lastA = NextOf(demuxSeen.lastA)]_demuxVars
  BY ReadsContinue DEF DemuxInv
<1>. QED  BY <1>1, DemuxInvHolds, PTL DEF DemuxSpec, StreamsContinue

=============================================================================
