--------------------------- MODULE MCDataThreads ---------------------------
(* Instances for TLC of the four parts of a player or recorder in which a   *)
(* thread moves data while the message thread carries out commands, in one  *)
(* run: the audio sink, an FFmpeg decoder, MediaFission and the V4L2 video  *)
(* decoder.  A behaviour is one of one part's, the others never move.       *)
EXTENDS AudioSink, DecodeThread, MediaFission, VideoDecodeV4l2

VARIABLE part           \* the part that moves

MCVars == <<sinkVars, decodeVars, fissionVars, v4l2Vars, part>>

MCInit ==
    /\ SinkInit /\ DecodeInit /\ FissionInit /\ V4l2Init
    /\ part \in {"sink", "decoder", "fission", "v4l2"}
    /\ part = "decoder" \/ ~decoder.audio
    /\ part = "fission" \/ ~fission.master

MCSink    == part = "sink"    /\ UNCHANGED <<decodeVars, fissionVars, v4l2Vars, part>>
MCDecoder == part = "decoder" /\ UNCHANGED <<sinkVars, fissionVars, v4l2Vars, part>>
MCFission == part = "fission" /\ UNCHANGED <<sinkVars, decodeVars, v4l2Vars, part>>
MCV4l2    == part = "v4l2"    /\ UNCHANGED <<sinkVars, decodeVars, fissionVars, part>>

MCNext ==
    \/ MCSink /\ SinkNext
    \/ MCDecoder /\ DecodeNext
    \/ MCFission /\ FissionNext
    \/ MCV4l2 /\ V4l2Next

MCSpec == MCInit /\ [][MCNext]_MCVars

(* What the parts' own specifications assume (SinkFairSpec, DecodeFairSpec, *)
(* FissionFairSpec, V4l2FairSpec).                                         *)
MCFairSpec ==
    /\ MCSpec
    /\ SF_MCVars(MCSink /\ SinkNext /\ MessageThread)
    /\ WF_MCVars(MCSink /\ SinkNext /\ OutputThread)
    /\ WF_MCVars(MCSink /\ SinkNext /\ DevicePlays)
    /\ WF_MCVars(MCDecoder /\ DecodeHandlers)
    /\ WF_MCVars(MCDecoder /\ DecodeLoop)
    /\ WF_MCVars(MCDecoder /\ SinkFlushed)
    /\ WF_MCVars(MCFission /\ FissionNext /\ FissionThread)
    /\ WF_MCVars(MCFission /\ FissionNext /\ PushThread)
    /\ WF_MCVars(MCV4l2 /\ V4l2Next /\ V4l2MessageThread)
    /\ WF_MCVars(MCV4l2 /\ V4l2Next /\ PollThread)
    /\ WF_MCVars(MCV4l2 /\ V4l2Next /\ CodecGoesOn)
    /\ WF_MCVars(MCV4l2 /\ V4l2Next /\ ClientReleases)

(* The types of the four.                                                  *)
DataThreadsTypeOK == SinkTypeOK /\ DecodeTypeOK /\ FissionTypeOK /\ V4l2TypeOK

(* Whatever the pipeline asks of the part is answered: the handlers take    *)
(* locks that a thread keeps while it waits, join threads that may sleep,   *)
(* and write where the reader may have stopped.  Excepted, each by name, is *)
(* where the code does get stuck: of the audio sink DrainsCorked and        *)
(* MissedExit; of MediaFission every command but stop and reset; of the     *)
(* FFmpeg video decoder the loop that writes again what the sink refuses,   *)
(* with mLock held; of the V4L2 decoder the loop of the message thread      *)
(* around a reader that has nothing at the start, and what comes after an   *)
(* assertion, a null reader, a refused reallocation or the reset.           *)
PartsAnswer ==
    LET asked ==
            \/ sinkSeen.asked # "none"
            \/ decodeSeen.asked # {}
            \/ fissionSeen.asked \in {"stop", "reset"}
            \/ pipe.op # "none"
        stuck == DrainsCorked \/ MissedExit \/ sinkSeen.poppedEmpty \/ fissionSeen.undefined
                 \/ decodeLoop.at = "refused" \/ v4l2Handler = "starves" \/ dec.over # "no"
    IN asked ~> (~asked \/ stuck)

=============================================================================
