--------------------------- MODULE MCPlayerParts ---------------------------
(* Instances for TLC of the video sink and of the demuxer, in one run: a    *)
(* behaviour is one of either part's, the other never moves.               *)
EXTENDS VideoSink, AVDemuxer

VARIABLE part           \* the part that moves

MCVars == <<videoVars, demuxVars, part>>

(* Two video tracks with key frames at 0 and 2, and half as much audio; the *)
(* first track ends last, so that it may be discarded before its end.      *)
At(ts) ==
    << [st |-> "v", ts |-> ts, key |-> ts % 2 = 0],
       [st |-> "w", ts |-> ts, key |-> ts % 2 = 0],
       [st |-> "a", ts |-> ts, key |-> TRUE] >>

MCFile == At(0) \o SubSeq(At(2), 1, 2) \o At(3) \o SubSeq(At(4), 1, 1)

MCInit ==
    /\ VideoInit /\ DemuxInit /\ part \in {"video", "demux"}
    /\ part = "demux" => video.owner        \* one of the video sink's, which are two

MCVideo == part = "video" /\ VideoNext /\ UNCHANGED <<demuxVars, part>>
MCDemux == part = "demux" /\ DemuxNext /\ UNCHANGED <<videoVars, part>>

MCNext == MCVideo \/ MCDemux

MCSpec == MCInit /\ [][MCNext]_MCVars

(* The types of both parts.                                                *)
PlayerPartsTypeOK == VideoTypeOK /\ DemuxTypeOK

=============================================================================
