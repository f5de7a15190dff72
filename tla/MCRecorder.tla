----------------------------- MODULE MCRecorder -----------------------------
(* Instances for TLC of the recorder's pipeline and of the muxer with the   *)
(* file sink, in one run: a behaviour is one of either part's, the other    *)
(* never moves.                                                            *)
EXTENDS RecorderPipeline, AVMuxer

VARIABLE part           \* the part that moves

MCVars == <<recVars, muxVars, part>>

(* The audio recorder, and that of a camera with a preview; that of video   *)
(* without one.                                                            *)
MCKinds == {[video |-> FALSE, preview |-> FALSE], [video |-> TRUE, preview |-> TRUE]}

MCVideoOnly == {[video |-> TRUE, preview |-> FALSE]}

(* Three packets of video, and one of audio in between.                    *)
MCPackets ==
    [v |-> <<[dts |-> 1, key |-> TRUE], [dts |-> 3, key |-> TRUE], [dts |-> 5, key |-> TRUE]>>,
     a |-> <<[dts |-> 2, key |-> TRUE]>>]

MCInit ==
    /\ RecInit /\ MuxInit
    /\ part \in {"recorder", "muxer"}
    /\ part = "muxer" => ~recKind.preview       \* one of the recorders, which are two

MCRec == part = "recorder" /\ UNCHANGED <<muxVars, part>>
MCMux == part = "muxer" /\ UNCHANGED <<recVars, part>>

MCNext ==
    \/ MCRec /\ RecNext
    \/ MCMux /\ MuxNext

MCSpec == MCInit /\ [][MCNext]_MCVars

(* What the parts' own specifications assume (RecFairSpec, MuxFairSpec).    *)
MCFairSpec ==
    /\ MCSpec
    /\ WF_MCVars(MCRec /\ RecCommandThread)
    /\ WF_MCVars(MCRec /\ RecPipelineThread)
    /\ \A c \in Parts : WF_MCVars(MCRec /\ RecDeviceGoesOn(c))
    /\ WF_MCVars(MCMux /\ ~muxSeen.orphan /\ MuxHandlers)
    /\ WF_MCVars(MCMux /\ ~muxSeen.orphan /\ MuxLoop)

(* RecorderReturns and EndIsTold in one: every command of the recorder      *)
(* returns, and when all streams have ended the muxer tells the end.        *)
RecordingEnds == CommandOwed \/ EndOwed ~> ~(CommandOwed \/ EndOwed)

=============================================================================
