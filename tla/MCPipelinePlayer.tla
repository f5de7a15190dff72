-------------------------- MODULE MCPipelinePlayer --------------------------
(* Instances of PipelinePlayer for TLC.  The decoders and sinks are        *)
(* asynchronous throughout; they are all sinks here, as the decoders do     *)
(* nothing the pipeline tells apart.                                        *)
EXTENDS PipelinePlayer

(* AVDemuxer: only prepare and seek are asynchronous.                      *)
DemuxerSync  == {1} \X {"start", "resume", "pause", "stop", "flush", "reset"}
DemuxerAsync == ({1} \X {"prepare", "seek"}) \cup (2 .. N) \X Ops

(* A source that may also succeed at once, the default of component.h.     *)
AnySourceSync == {1} \X Ops

MCSinks == 2 .. N

=============================================================================
