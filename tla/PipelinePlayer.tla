--------------------------- MODULE PipelinePlayer ---------------------------
(***************************************************************************)
(* PipelinePlayerBase, the player's pipeline of components: a source, then *)
(* decoders and sinks (cow/src/pipeline_player_base.cc, the macros and     *)
(* waitUntilCondition of pipeline.h, PipelinePlayer::prepareInternal).      *)
(*                                                                         *)
(* Three kinds of thread meet here.  The command thread (the loop of       *)
(* CowPlayer) runs one command at a time: it calls every component in turn *)
(* and, if one of them answered MM_ERROR_ASYNC, waits until all of them    *)
(* are there.  Components answer on threads of their own.  The pipeline's  *)
(* thread takes the answers in order, notes them in mComponents, advances  *)
(* mState, tells the application, and broadcasts mCondition.               *)
(*                                                                         *)
(* An action is a section under mLock, or the accesses that take no lock   *)
(* up to the next one: onComponentMessage notes the answer, sets mState    *)
(* and tells the application in three sections, and mErrorCode is touched  *)
(* without the lock.  The wait of 30000 s never times out.                  *)
(***************************************************************************)
EXTENDS Naturals, Sequences

CONSTANTS
    N,              \* the components; the first one is the source
    Sinks,          \* those that are sinks
    VideoSink,      \* the video sink, or 0
    AudioSink,      \* the audio sink, or 0
    Sync,           \* <<c, op>>: component c may complete op before the call returns
    Async,          \* <<c, op>>: component c may answer MM_ERROR_ASYNC and complete later
    Interruptible,  \* may unblock() be called?
    MaxCommands,    \* bound: commands in a behaviour
    MaxSeeks,       \* bound: seek requests in a behaviour
    MaxEos,         \* bound: end-of-stream events in a behaviour
    MaxFaults       \* bound: failures of components, and frames shown too late

Ops == {"prepare", "start", "resume", "pause", "stop", "flush", "seek", "reset"}

ASSUME PipelineAssumption ==
    /\ N \in Nat \ {0}
    /\ Sinks \subseteq 2 .. N
    /\ VideoSink \in Sinks \cup {0} /\ AudioSink \in Sinks \cup {0}
    /\ Sync \subseteq (1 .. N) \X Ops /\ Async \subseteq (1 .. N) \X Ops
    /\ Interruptible \in BOOLEAN
    /\ MaxCommands \in Nat /\ MaxSeeks \in Nat /\ MaxEos \in Nat /\ MaxFaults \in Nat

VARIABLES
    mState, mState2, mState3,
    built,          \* mComponents.size()
    state, state2,  \* mComponents[c].state, .state2
    gen,            \* history: how often the components were destroyed
    mErrorCode, mEscapeWait, mSeekPreviewDone,
    param,          \* the SeekEventParam, and whether mSeekEventParam holds it
    cmd,            \* the command thread
    queue,          \* the messages of the pipeline's thread
    p,              \* the pipeline's thread
    work,           \* per component the calls it has still to answer
    real,           \* per component the state it really is in
    previewing,     \* has the video sink been asked for a preview?
    told,           \* history: what the application was told since the command began
    seek,           \* history: seek requests posted, asked for, carried out, turned down
    used            \* how much of the bounds is used up

states   == <<mState, mState2, mState3>>
comps    == <<built, state, state2, gen>>
flags    == <<mErrorCode, mEscapeWait, mSeekPreviewDone>>
external == <<work, real, previewing>>
history  == <<told, seek, used>>
vars == <<states, comps, flags, param, cmd, queue, p, external, history>>

Comps == 1 .. N
StateOps == {"prepare", "start", "resume", "pause", "stop"}
Events == Ops \cup {"eos", "preview", "cow"}

States  == {"Null", "Preparing", "Prepared", "Play", "Playing", "Pausing", "Paused",
            "Stop", "Stopped"}
States2 == {"Invalid", "FlushComplete", "SeekComplete", "ResetComplete", "EOSComplete"}

(* STATE_ASYNC of a command, and the state an event says was reached.      *)
Doing == [prepare |-> "Preparing", start |-> "Play", resume |-> "Play",
          pause |-> "Pausing", stop |-> "Stop"]
Reached == [prepare |-> "Prepared", start |-> "Playing", resume |-> "Playing",
            pause |-> "Paused", stop |-> "Stopped", flush |-> "FlushComplete",
            seek |-> "SeekComplete", reset |-> "ResetComplete", eos |-> "EOSComplete"]

Message == [event : Events, from : 0 .. N, gen : Nat, ok : BOOLEAN]
NoMessage == [event |-> "cow", from |-> 0, gen |-> 0, ok |-> TRUE]
Idle == [at |-> "idle", msg |-> NoMessage, seeking |-> FALSE]

TypeOK ==
    /\ mState \in States /\ mState2 \in States2
    /\ mState3 \in {"Invalid", "Prepared", "Playing", "Paused"}
    /\ built \in 0 .. N /\ gen \in Nat
    /\ state \in [Comps -> States] /\ state2 \in [Comps -> States2]
    /\ mErrorCode \in {"ok", "fail"}
    /\ mEscapeWait \in BOOLEAN /\ mSeekPreviewDone \in BOOLEAN
    /\ param \in [held : BOOLEAN, pending : Nat, target : Nat]
    /\ cmd \in [top : Ops \cup {"none", "load"}, op : Ops \cup {"none", "load", "preview", "shown"},
                step : {"idle", "enter", "source", "call", "wait", "asleep", "waited",
                        "showing", "build", "clear", "returned"},
                i : 1 .. N + 1, ret : {"ok", "async", "fail", "refused"},
                building : BOOLEAN]
    /\ queue \in Seq(Message)
    /\ p \in [at : {"idle", "update", "reached", "null", "notify", "preview", "broadcast"},
              msg : Message, seeking : BOOLEAN]
    /\ work \in [Comps -> Seq(Ops)]
    /\ real \in [Comps -> States]
    /\ previewing \in BOOLEAN
    /\ told \in SUBSET ((Ops \cup {"eos"}) \X {"ok", "fail"})
    /\ seek \in [posts : Nat, asked : Nat, sought : Nat, refused : BOOLEAN]
    /\ used \in [commands : 0 .. MaxCommands, eos : 0 .. MaxEos, faults : 0 .. MaxFaults]

NoCommand == [top |-> "none", op |-> "none", step |-> "idle", i |-> 1, ret |-> "ok",
              building |-> FALSE]

Init ==
    /\ mState = "Null" /\ mState2 = "Invalid" /\ mState3 = "Invalid"
    /\ built = 0 /\ gen = 0
    /\ state = [c \in Comps |-> "Null"] /\ state2 = [c \in Comps |-> "Invalid"]
    /\ mErrorCode = "ok" /\ mEscapeWait = FALSE /\ mSeekPreviewDone = TRUE
    /\ param = [held |-> FALSE, pending |-> 0, target |-> 0]
    /\ cmd = NoCommand
    /\ queue = <<>>
    /\ p = Idle
    /\ work = [c \in Comps |-> <<>>] /\ real = [c \in Comps |-> "Null"]
    /\ previewing = FALSE
    /\ told = {}
    /\ seek = [posts |-> 0, asked |-> 0, sought |-> 0, refused |-> FALSE]
    /\ used = [commands |-> 0, eos |-> 0, faults |-> 0]

-----------------------------------------------------------------------------
(* Helpers of the command thread.                                          *)

At(op, step) == cmd.op = op /\ cmd.step = step
Goto(step) == cmd' = [cmd EXCEPT !.step = step]
Return(r) == cmd' = [cmd EXCEPT !.step = "returned", !.ret = r]
Fault == used.faults < MaxFaults /\ used' = [used EXCEPT !.faults = @ + 1]
StartCalls(r) == cmd' = [cmd EXCEPT !.step = "call", !.i = 1, !.ret = r]
Tell(event, r) == told' = told \cup {<<event, r>>}

(* The component's state that op changes, and the pipeline's.              *)
StateFor(op) == IF op \in StateOps THEN state ELSE state2
Value(op) == IF op \in StateOps THEN mState ELSE mState2
SetValue(op) ==
    IF op \in StateOps THEN mState' = Reached[op] /\ UNCHANGED mState2
                       ELSE mState2' = Reached[op] /\ UNCHANGED mState

(* What a call does to the component that completes it.                    *)
Performed(c, op) ==
    real' = IF op \in StateOps THEN [real EXCEPT ![c] = Reached[op]]
            ELSE IF op = "reset" THEN [real EXCEPT ![c] = "Null"] ELSE real

-----------------------------------------------------------------------------
(* The application, through CowPlayer.  A player is loaded once more only  *)
(* after a stop, reset after a stop (CowPlayer::reset sends both), and     *)
(* started only when it was prepared.                                       *)

Allowed(op) ==
    CASE op = "load"    -> built = 0 \/ mState = "Stopped"
      [] op = "prepare" -> built > 0
      [] op = "start"   -> mState \in {"Prepared", "Playing", "Stopped"}
      [] op = "resume"  -> mState = "Paused"
      [] op = "reset"   -> mState \in {"Stopped", "Null"}
      [] op = "seek"    -> seek.posts > 0
      [] OTHER          -> op # "flush"

(* A handler of the CowPlayer thread calls the pipeline.  onStart resumes a *)
(* paused pipeline; load() resets what the last one left.                   *)
Command(op) ==
    /\ cmd.step = "idle" /\ used.commands < MaxCommands
    /\ IF mEscapeWait THEN op = "reset" ELSE Allowed(op)
    /\ cmd' = [cmd EXCEPT !.top = op, !.step = "enter", !.building = FALSE,
                          !.op = IF op = "load" /\ built > 0 THEN "reset" ELSE op]
    /\ told' = {}
    /\ seek' = IF op = "seek" THEN [seek EXCEPT !.posts = @ - 1] ELSE seek
    /\ used' = [used EXCEPT !.commands = @ + 1]
    /\ UNCHANGED <<states, comps, flags, param, queue, p, external>>

(* A mistake: a request waiting to be carried out is not replaced.         *)
RequestSeek_KeepsFirst ==
    /\ seek.asked < MaxSeeks
    /\ mState \in {"Prepared", "Playing", "Paused", "Stopped"}
    /\ param' = IF param.pending # 0 THEN param ELSE [param EXCEPT !.pending = seek.asked + 1]
    /\ seek' = [seek EXCEPT !.asked = @ + 1, !.posts = @ + 1, !.refused = FALSE]
    /\ queue' = Append(queue, NoMessage)
    /\ UNCHANGED <<states, comps, flags, cmd, p, external, told, used>>

(* CowPlayer::seek: accepted once there is a duration.  It posts the seek   *)
(* and, through the pipeline's thread, the application's completion event.  *)
RequestSeek ==
    /\ seek.asked < MaxSeeks
    /\ mState \in {"Prepared", "Playing", "Paused", "Stopped"}
    /\ param' = [param EXCEPT !.pending = seek.asked + 1]
    /\ seek' = [seek EXCEPT !.asked = @ + 1, !.posts = @ + 1, !.refused = FALSE]
    /\ queue' = Append(queue, NoMessage)
    /\ UNCHANGED <<states, comps, flags, cmd, p, external, told, used>>

(* unblock() frees a command that blocks; what comes next is the reset it   *)
(* makes room for (CowPlayer::reset, the variant that is compiled out).      *)
Unblock ==
    /\ Interruptible /\ ~mEscapeWait
    /\ cmd.step # "idle" /\ cmd.top # "reset"
    /\ mEscapeWait' = TRUE
    /\ cmd' = IF cmd.step = "asleep" THEN [cmd EXCEPT !.step = "wait"] ELSE cmd
    /\ UNCHANGED <<states, comps, mErrorCode, mSeekPreviewDone, param, queue, p, external, history>>

-----------------------------------------------------------------------------
(* The command thread: the checks each command begins with.                *)

(* CHECK_PIPELINE_STATE and its likes: there already, or nothing to do.    *)
Already(op) ==
    CASE op = "prepare" -> mState # "Null"
      [] op \in {"start", "resume"} -> mState = "Playing"
      [] op = "pause"   -> mState \notin {"Play", "Playing"}
      [] op = "stop"    -> mState \in {"Stopped", "Null"}
      [] op = "reset"   -> mState = "Null"
      [] OTHER          -> FALSE

EnterAlready ==
    /\ cmd.step = "enter" /\ cmd.op \in Ops
    /\ Already(cmd.op)
    /\ Tell(cmd.op, "ok")
    /\ Return("ok")
    /\ UNCHANGED <<states, comps, flags, param, queue, p, external, seek, used>>

EnterChange ==
    /\ cmd.step = "enter" /\ cmd.op \in {"start", "resume", "pause", "stop"}
    /\ ~Already(cmd.op)
    /\ param' = IF cmd.op = "stop" THEN [param EXCEPT !.held = FALSE] ELSE param
    /\ StartCalls("ok")
    /\ UNCHANGED <<states, comps, flags, queue, p, external, history>>

EnterFlush ==
    /\ At("flush", "enter")
    /\ mState2' = "Invalid"
    /\ StartCalls("ok")
    /\ UNCHANGED <<mState, mState3, comps, flags, param, queue, p, external, history>>

EnterReset ==
    /\ At("reset", "enter")
    /\ ~Already("reset")
    /\ mEscapeWait' = FALSE
    /\ param' = [param EXCEPT !.held = FALSE]
    /\ IF built = 0 THEN Return("ok") /\ UNCHANGED mState2
                    ELSE StartCalls("ok") /\ mState2' = "Invalid"
    /\ UNCHANGED <<mState, mState3, comps, mErrorCode, mSeekPreviewDone, queue, p,
                   external, history>>

(* loadPreparation()                                                       *)
Load ==
    /\ At("load", "enter")
    /\ mState' = "Null"
    /\ built' = 1
    /\ state' = [state EXCEPT ![1] = "Null"] /\ state2' = [state2 EXCEPT ![1] = "Invalid"]
    /\ Return("ok")
    /\ UNCHANGED <<mState2, mState3, gen, flags, param, queue, p, external, history>>

(* seek(): the checks, and the state it will come back to.                 *)
EnterSeek ==
    /\ At("seek", "enter")
    /\ param' = [param EXCEPT !.held = TRUE]
    /\ IF mState \notin {"Playing", "Paused", "Prepared"}
       THEN Return("fail") /\ seek' = [seek EXCEPT !.refused = TRUE] /\ UNCHANGED mState3
       ELSE IF param.pending = 0
       THEN Return("ok") /\ UNCHANGED <<mState3, seek>>
       ELSE /\ mState3' = mState
            /\ cmd' = [cmd EXCEPT !.op = IF mState = "Playing" THEN "pause" ELSE "flush"]
            /\ UNCHANGED seek
    /\ UNCHANGED <<mState, mState2, comps, flags, queue, p, external, told, used>>

-----------------------------------------------------------------------------
(* prepare(): the source first, then the components its tracks ask for.    *)

EnterPrepare ==
    /\ At("prepare", "enter")
    /\ ~Already("prepare")
    /\ mState' = "Preparing"
    /\ IF built = 0 THEN Tell("prepare", "fail") /\ StartCalls("fail")
                    ELSE Goto("source") /\ UNCHANGED told
    /\ UNCHANGED <<mState2, mState3, comps, flags, param, queue, p, external, seek, used>>

PrepareSource ==
    /\ At("prepare", "source")
    /\ \/ /\ <<1, "prepare">> \in Sync
          /\ Performed(1, "prepare")
          /\ cmd' = [cmd EXCEPT !.step = "build", !.ret = "ok"]
          /\ UNCHANGED <<work, told, used>>
       \/ /\ <<1, "prepare">> \in Async
          /\ work' = [work EXCEPT ![1] = Append(@, "prepare")]
          /\ cmd' = [cmd EXCEPT !.step = "wait", !.building = TRUE]
          /\ UNCHANGED <<real, told, used>>
       \/ /\ Fault
          /\ Tell("prepare", "fail")
          /\ StartCalls("fail")
          /\ UNCHANGED <<work, real>>
    /\ UNCHANGED <<states, comps, flags, param, queue, p, previewing, seek>>

(* The other components are made and linked, unless that fails.            *)
Build ==
    /\ At("prepare", "build")
    /\ \/ /\ cmd.ret = "ok"
          /\ built' = N
          /\ state' = [c \in Comps |-> IF c = 1 THEN state[1] ELSE "Null"]
          /\ state2' = [c \in Comps |-> IF c = 1 THEN state2[1] ELSE "Invalid"]
          /\ StartCalls("ok")
          /\ UNCHANGED <<told, used>>
       \/ /\ IF cmd.ret = "ok" THEN Fault ELSE UNCHANGED used
          /\ Tell("prepare", "fail")
          /\ StartCalls("fail")
          /\ UNCHANGED <<built, state, state2>>
    /\ UNCHANGED <<states, gen, flags, param, queue, p, external, seek>>

-----------------------------------------------------------------------------
(* The command thread: one call after the other.                           *)

NextCall(r) == cmd' = [cmd EXCEPT !.i = @ + 1, !.ret = r]

Calling(c) == cmd.step = "call" /\ cmd.i = c /\ c <= built

(* Not called: it is there already, or it is the demuxer in a seek's flush. *)
Skipped(c) ==
    \/ cmd.op \in StateOps /\ state[c] = Reached[cmd.op]
    \/ cmd.op = "flush" /\ c = 1

CallSkipped(c) ==
    /\ Calling(c) /\ Skipped(c)
    /\ state2' = IF cmd.op = "flush" THEN [state2 EXCEPT ![c] = "FlushComplete"] ELSE state2
    /\ NextCall(cmd.ret)
    /\ UNCHANGED <<states, built, state, gen, flags, param, queue, p, external, history>>

(* A mistake: the progress of a flush or a reset noted in .state.          *)
NoteCall_OneField(c, op, s, s2) ==
    state' = [state EXCEPT ![c] = IF op \in StateOps THEN s ELSE s2] /\ UNCHANGED state2

NoteCall(c, op, s, s2) ==
    IF op \in StateOps THEN state' = [state EXCEPT ![c] = s] /\ UNCHANGED state2
                       ELSE state2' = [state2 EXCEPT ![c] = s2] /\ UNCHANGED state

CallCompletes(c) ==
    /\ Calling(c) /\ ~Skipped(c) /\ <<c, cmd.op>> \in Sync
    /\ NoteCall(c, cmd.op, Reached[cmd.op], Reached[cmd.op])
    /\ Performed(c, cmd.op)
    /\ NextCall(cmd.ret)
    /\ UNCHANGED <<states, built, gen, flags, param, queue, p, work, previewing, history>>

CallAsync(c) ==
    /\ Calling(c) /\ ~Skipped(c) /\ <<c, cmd.op>> \in Async
    /\ NoteCall(c, cmd.op, IF cmd.op \in StateOps THEN Doing[cmd.op] ELSE "Null", "Invalid")
    /\ work' = [work EXCEPT ![c] = Append(@, cmd.op)]
    /\ NextCall("async")
    /\ UNCHANGED <<states, built, gen, flags, param, queue, p, real, previewing, history>>

(* SET_PIPELINE_STATE gives up at once, with the target state set; reset   *)
(* goes on, and flush goes to its end.                                      *)
CallFails(c) ==
    /\ Calling(c) /\ ~Skipped(c)
    /\ Fault
    /\ NoteCall(c, cmd.op, Reached[cmd.op], IF cmd.op = "reset" THEN "ResetComplete" ELSE "Invalid")
    /\ IF cmd.op \in StateOps
       THEN mState' = Reached[cmd.op] /\ Tell(cmd.op, "fail") /\ Return("fail")
       ELSE /\ cmd' = [cmd EXCEPT !.i = IF cmd.op = "flush" THEN built + 1 ELSE @ + 1, !.ret = "fail"]
            /\ UNCHANGED <<mState, told>>
    /\ UNCHANGED <<mState2, mState3, built, gen, flags, param, queue, p, external, seek>>

(* The calls are made: wait, or tell the application.                      *)
Called ==
    /\ cmd.step = "call" /\ cmd.i > built
    /\ CASE cmd.ret = "async" -> Goto("wait") /\ UNCHANGED <<mState, mState2, told>>
         [] cmd.ret = "ok" ->
              /\ SetValue(cmd.op)
              /\ Tell(cmd.op, "ok")
              /\ IF cmd.op = "reset" THEN Goto("clear") ELSE Return("ok")
         [] cmd.ret = "fail" ->
              /\ IF cmd.op \in StateOps THEN UNCHANGED told ELSE Tell(cmd.op, "fail")
              /\ IF cmd.op = "reset" THEN Goto("clear") ELSE Return("fail")
              /\ UNCHANGED <<mState, mState2>>
    /\ mSeekPreviewDone' = (mSeekPreviewDone \/ (cmd.op = "stop" /\ cmd.ret = "ok"))
    /\ UNCHANGED <<mState3, comps, mErrorCode, mEscapeWait, param, queue, p, external, seek, used>>

-----------------------------------------------------------------------------
(* waitUntilCondition.                                                     *)

(* A mistake: one component that is there is enough.                       *)
WaitDone_Some ==
    IF cmd.building THEN state[1] = "Prepared"
    ELSE \/ Value(cmd.op) = Reached[cmd.op]
         \/ \E c \in 1 .. built : StateFor(cmd.op)[c] = Reached[cmd.op]

WaitDone ==
    IF cmd.building THEN state[1] = "Prepared"
    ELSE \/ Value(cmd.op) = Reached[cmd.op]
         \/ \A c \in 1 .. built : StateFor(cmd.op)[c] = Reached[cmd.op]

WaitEnds ==
    /\ cmd.step = "wait" /\ cmd.op \in Ops
    /\ \/ /\ WaitDone
          /\ IF cmd.building THEN UNCHANGED <<mState, mState2>> ELSE SetValue(cmd.op)
          /\ cmd' = [cmd EXCEPT !.step = "waited", !.ret = "ok"]
       \/ /\ ~WaitDone /\ mEscapeWait
          /\ UNCHANGED <<mState, mState2>>
          /\ cmd' = [cmd EXCEPT !.step = "waited", !.ret = "fail"]
    /\ UNCHANGED <<mState3, comps, flags, param, queue, p, external, history>>

(* A mistake: going to sleep on a check made before the lock was taken.    *)
WaitSleeps_Unchecked ==
    /\ cmd.step = "wait" /\ cmd.op \in Ops
    /\ ~mEscapeWait
    /\ Goto("asleep")
    /\ UNCHANGED <<states, comps, flags, param, queue, p, external, history>>

WaitSleeps ==
    /\ cmd.step = "wait" /\ cmd.op \in Ops
    /\ ~WaitDone /\ ~mEscapeWait
    /\ Goto("asleep")
    /\ UNCHANGED <<states, comps, flags, param, queue, p, external, history>>

(* A condition wait returns without a signal.                              *)
Spurious ==
    /\ \/ cmd.step = "asleep" /\ Goto("wait")
       \/ cmd.step = "showing" /\ Goto("enter")
    /\ UNCHANGED <<states, comps, flags, param, queue, p, external, history>>

(* mErrorCode is read and cleared after the lock was released; stop() ends *)
(* with resetMemberVariables().                                             *)
Waited ==
    /\ cmd.step = "waited"
    /\ mErrorCode' = "ok"
    /\ LET r == IF mErrorCode = "fail" THEN "fail" ELSE cmd.ret
       IN cmd' = [cmd EXCEPT !.ret = r, !.building = FALSE,
                             !.step = IF cmd.building THEN "build"
                                      ELSE IF cmd.op = "reset" THEN "clear" ELSE "returned"]
    /\ mSeekPreviewDone' = (mSeekPreviewDone \/ cmd.op = "stop")
    /\ UNCHANGED <<states, comps, mEscapeWait, param, queue, p, external, history>>

(* reset() ends: the components are destroyed, which joins their threads.  *)
Clear ==
    /\ At("reset", "clear")
    /\ \A c \in Comps : work[c] = <<>>
    /\ built' = 0 /\ gen' = gen + 1
    /\ real' = [c \in Comps |-> "Null"]
    /\ previewing' = FALSE
    /\ mSeekPreviewDone' = TRUE
    /\ Return(cmd.ret)
    /\ UNCHANGED <<states, state, state2, mErrorCode, mEscapeWait, param, queue, p, work, history>>

-----------------------------------------------------------------------------
(* The middle of seek().                                                   *)

(* The source is asked for the newest position: SeekEventParam::getSeekTime. *)
SeekSource ==
    /\ At("seek", "source")
    /\ state2' = [state2 EXCEPT ![1] = "Invalid"]
    /\ param' = [param EXCEPT !.target = param.pending, !.pending = 0]
    /\ seek' = [seek EXCEPT !.sought = param.pending]
    /\ \/ /\ <<1, "seek">> \in Async
          /\ work' = [work EXCEPT ![1] = Append(@, "seek")]
          /\ mState2' = "Invalid"
          /\ Goto("wait")
          /\ UNCHANGED used
       \/ /\ <<1, "seek">> \in Sync
          /\ mState2' = "SeekComplete"
          /\ Return("ok")
          /\ UNCHANGED <<work, used>>
       \/ /\ Fault
          /\ mState2' = "Invalid"
          /\ Return("refused")
          /\ UNCHANGED work
    /\ UNCHANGED <<mState, mState3, built, state, gen, flags, queue, p, real, previewing, told>>

(* Paused with a picture: play until one frame of the new position is      *)
(* shown.  The audio sink is passed off as playing.                          *)
Preview ==
    /\ At("preview", "enter")
    /\ previewing' = TRUE
    /\ state' = IF AudioSink = 0 THEN state ELSE [state EXCEPT ![AudioSink] = "Playing"]
    /\ mSeekPreviewDone' = FALSE
    /\ cmd' = [cmd EXCEPT !.op = "start"]
    /\ UNCHANGED <<states, built, state2, gen, mErrorCode, mEscapeWait, param, queue, p,
                   work, real, history>>

PreviewWait ==
    /\ At("shown", "enter")
    /\ IF mSeekPreviewDone THEN Return("ok") ELSE Goto("showing")
    /\ UNCHANGED <<states, comps, flags, param, queue, p, external, history>>

(* Ten seconds without a frame: seek() returns with the pipeline playing.  *)
PreviewTimeout ==
    /\ At("shown", "showing")
    /\ Fault
    /\ Return("fail")
    /\ UNCHANGED <<states, comps, flags, param, queue, p, external, told, seek>>

(* What follows when a command, or a part of seek() or load(), returned.   *)
Following ==
    IF mState3 = "Invalid"
    THEN IF cmd.op = "reset" /\ cmd.top = "load" THEN "load" ELSE "none"
    ELSE CASE cmd.op = "pause" /\ mState3 = "Playing" /\ cmd.ret = "ok" -> "flush"
           [] cmd.op = "flush" -> "seek"
           [] cmd.op = "seek" /\ mState3 = "Paused" /\ VideoSink # 0 /\ cmd.ret # "refused" -> "preview"
           [] cmd.op = "seek" /\ mState3 = "Playing" -> "start"
           [] cmd.op = "start" /\ mState3 = "Paused" -> "shown"
           [] cmd.op = "shown" /\ cmd.ret = "ok" -> "pause"
           [] OTHER -> "none"

Continue ==
    /\ cmd.step = "returned"
    /\ IF Following = "none"
       THEN /\ cmd' = NoCommand
            /\ told' = {}
            /\ mState3' = "Invalid"
            /\ seek' = IF cmd.op = "pause" /\ mState3 = "Playing"
                       THEN [seek EXCEPT !.refused = TRUE] ELSE seek
       ELSE /\ cmd' = [cmd EXCEPT !.op = Following,
                                  !.step = IF Following = "seek" THEN "source" ELSE "enter"]
            /\ UNCHANGED <<mState3, told, seek>>
    /\ UNCHANGED <<mState, mState2, comps, flags, param, queue, p, external, used>>

-----------------------------------------------------------------------------
(* The pipeline's thread: onComponentMessage.                              *)

From(c) == p.msg.from = c /\ p.msg.gen = gen

(* In state Null every event is ignored.                                   *)
Receive ==
    /\ p.at = "idle" /\ queue # <<>> /\ Head(queue).event # "cow"
    /\ queue' = Tail(queue)
    /\ IF mState = "Null" THEN UNCHANGED <<p, mErrorCode>>
       ELSE /\ p' = [at |-> IF Head(queue).event = "preview" THEN "preview" ELSE "update",
                     msg |-> Head(queue), seeking |-> mState3 # "Invalid"]
            /\ mErrorCode' = IF Head(queue).ok THEN mErrorCode ELSE "fail"
    /\ UNCHANGED <<states, comps, mEscapeWait, mSeekPreviewDone, param, cmd, external, history>>

(* onCowMessage: the completion event of CowPlayer::seek.                  *)
CowMessage ==
    /\ p.at = "idle" /\ queue # <<>> /\ Head(queue).event = "cow"
    /\ queue' = Tail(queue)
    /\ UNCHANGED <<states, comps, flags, param, cmd, p, external, history>>

(* Which components have to be there for the event to count.               *)
Counts(c, event) ==
    CASE event = "seek" -> c = 1
      [] event = "eos"  -> c \in Sinks
      [] OTHER          -> TRUE

Update ==
    /\ p.at = "update"
    /\ LET e == p.msg.event
           s == StateFor(e)
           done == \A c \in 1 .. built : From(c) \/ s[c] = Reached[e] \/ ~Counts(c, e)
           note(f, v) == [c \in Comps |-> IF c <= built /\ From(c) THEN v ELSE f[c]]
       IN /\ p' = [p EXCEPT !.at = IF done THEN "reached" ELSE "broadcast"]
          /\ state' = IF e \in StateOps THEN note(state, Reached[e])
                      ELSE IF e = "reset" THEN note(state, "Null") ELSE state
          /\ state2' = IF e \in StateOps THEN state2 ELSE note(state2, Reached[e])
    /\ UNCHANGED <<states, built, gen, flags, param, cmd, queue, external, history>>

(* A mistake: mState set to the state that is left.                        *)
SetReached_Doing ==
    /\ p.at = "reached"
    /\ LET e == p.msg.event IN
       IF e \in StateOps
       THEN mState' = Doing[e] /\ p' = [p EXCEPT !.at = "notify"] /\ UNCHANGED mState2
       ELSE /\ mState2' = Reached[e]
            /\ p' = [p EXCEPT !.at = IF e = "reset" THEN "null" ELSE "notify"]
            /\ UNCHANGED mState
    /\ UNCHANGED <<mState3, comps, flags, param, cmd, queue, external, history>>

(* The size of mComponents is read after the lock was released.            *)
SetReached ==
    /\ p.at = "reached"
    /\ LET e == p.msg.event IN
       IF e \in StateOps
       THEN IF built > 1
            THEN mState' = Reached[e] /\ p' = [p EXCEPT !.at = "notify"] /\ UNCHANGED mState2
            ELSE p' = [p EXCEPT !.at = "broadcast"] /\ UNCHANGED <<mState, mState2>>
       ELSE /\ mState2' = Reached[e]
            /\ p' = [p EXCEPT !.at = IF e = "reset" THEN "null" ELSE "notify"]
            /\ UNCHANGED mState
    /\ UNCHANGED <<mState3, comps, flags, param, cmd, queue, external, history>>

SetNull ==
    /\ p.at = "null"
    /\ mState' = "Null"
    /\ p' = [p EXCEPT !.at = "notify"]
    /\ UNCHANGED <<mState2, mState3, comps, flags, param, cmd, queue, external, history>>

(* State changes within a seek are not reported; its end clears the target *)
(* position instead.                                                        *)
Notify ==
    /\ p.at = "notify"
    /\ p' = [p EXCEPT !.at = "broadcast"]
    /\ LET e == p.msg.event IN
       /\ CASE e = "seek" -> UNCHANGED told
            [] e \in StateOps -> IF p.seeking THEN UNCHANGED told
                                 ELSE Tell(IF e = "resume" THEN "start" ELSE e, mErrorCode)
            [] OTHER -> Tell(e, "ok")
       /\ param' = IF e = "seek" /\ param.held THEN [param EXCEPT !.target = 0] ELSE param
       /\ mSeekPreviewDone' = (mSeekPreviewDone \/ e = "eos")
    /\ UNCHANGED <<states, comps, mErrorCode, mEscapeWait, cmd, queue, external, seek, used>>

(* kEventInfoSeekPreviewDone                                               *)
PreviewDone ==
    /\ p.at = "preview"
    /\ mSeekPreviewDone' = TRUE
    /\ p' = [p EXCEPT !.at = "broadcast"]
    /\ cmd' = IF cmd.step = "showing" THEN [cmd EXCEPT !.step = "enter"] ELSE cmd
    /\ UNCHANGED <<states, comps, mErrorCode, mEscapeWait, param, queue, external, history>>

(* A mistake: no broadcast.                                                *)
Broadcast_Silent ==
    /\ p.at = "broadcast"
    /\ p' = Idle
    /\ UNCHANGED <<states, comps, flags, param, cmd, queue, external, history>>

Broadcast ==
    /\ p.at = "broadcast"
    /\ p' = Idle
    /\ cmd' = IF cmd.step = "asleep" THEN [cmd EXCEPT !.step = "wait"] ELSE cmd
    /\ UNCHANGED <<states, comps, flags, param, queue, external, history>>

-----------------------------------------------------------------------------
(* The components.                                                         *)

Post(event, c, ok) ==
    queue' = Append(queue, [event |-> event, from |-> c, gen |-> gen, ok |-> ok])

Answer(c) ==
    /\ work[c] # <<>>
    /\ work' = [work EXCEPT ![c] = Tail(@)]
    /\ \/ Post(Head(work[c]), c, TRUE) /\ Performed(c, Head(work[c])) /\ UNCHANGED used
       \/ Post(Head(work[c]), c, FALSE) /\ Fault /\ UNCHANGED real
    /\ UNCHANGED <<states, comps, flags, param, cmd, p, previewing, told, seek>>

(* A playing sink meets the end of the stream.                             *)
EndOfStream(c) ==
    /\ c \in Sinks /\ real[c] = "Playing" /\ used.eos < MaxEos
    /\ Post("eos", c, TRUE)
    /\ used' = [used EXCEPT !.eos = @ + 1]
    /\ UNCHANGED <<states, comps, flags, param, cmd, p, external, told, seek>>

(* The video sink shows the frame of a preview.                            *)
ShowPreview ==
    /\ previewing /\ real[VideoSink] = "Playing"
    /\ previewing' = FALSE
    /\ Post("preview", VideoSink, TRUE)
    /\ UNCHANGED <<states, comps, flags, param, cmd, p, work, real, history>>

-----------------------------------------------------------------------------
CommandThread ==
    \/ EnterAlready \/ EnterChange \/ EnterFlush \/ EnterReset \/ Load \/ EnterSeek
    \/ EnterPrepare \/ PrepareSource \/ Build
    \/ \E c \in Comps : CallSkipped(c) \/ CallCompletes(c) \/ CallAsync(c) \/ CallFails(c)
    \/ Called \/ WaitEnds \/ WaitSleeps \/ Waited \/ Clear
    \/ SeekSource \/ Preview \/ PreviewWait \/ PreviewTimeout \/ Continue

PipelineThread ==
    \/ Receive \/ CowMessage \/ Update \/ SetReached \/ SetNull \/ Notify \/ PreviewDone \/ Broadcast

Next ==
    \/ \E op \in Ops \cup {"load"} : Command(op)
    \/ RequestSeek \/ Unblock \/ Spurious
    \/ CommandThread
    \/ PipelineThread
    \/ \E c \in Comps : Answer(c) \/ EndOfStream(c)
    \/ ShowPreview

Spec == Init /\ [][Next]_vars

(* Both threads run, and components answer what they were asked, with a    *)
(* frame too.                                                               *)
FairSpec ==
    /\ Spec
    /\ WF_vars(CommandThread) /\ WF_vars(PipelineThread)
    /\ \A c \in Comps : WF_vars(Answer(c))
    /\ WF_vars(ShowPreview)

-----------------------------------------------------------------------------
\* The command thread is never left asleep when it could go on: whenever the
\* condition it waits for holds, the pipeline's thread is on its way to the
\* broadcast.
NoMissedCompletion ==
    cmd.step = "asleep" =>
        /\ ~mEscapeWait
        /\ WaitDone => p.at \in {"reached", "null", "notify", "broadcast"}

\* When start, resume, pause or stop has returned success and the pipeline says
\* it is there, every component really is.  (Within the preview of a seek the
\* audio sink is passed over.)
CommandReached ==
    (cmd.step = "returned" /\ cmd.ret = "ok" /\ cmd.op \in StateOps /\ mState = Reached[cmd.op]
        /\ cmd.op # "prepare") =>
        \A c \in 1 .. built : real[c] = mState \/ (c = AudioSink /\ mState3 = "Paused")

\* When nothing is going on, mState is the state of every component.
AtRest ==
    (cmd.step = "idle" /\ p.at = "idle" /\ queue = <<>> /\ mState # "Null"
        /\ \A c \in Comps : work[c] = <<>>) =>
        \A c \in 1 .. built : real[c] = mState /\ state[c] = mState

\* The comment in CHECK_PIPELINE_RET: when a command returned success the
\* application has been told, or is about to be.
SuccessTold ==
    (cmd.step = "returned" /\ cmd.ret = "ok" /\ cmd.op = cmd.top
        /\ cmd.op \in StateOps) =>
        \/ <<cmd.op, "ok">> \in told \/ (cmd.op = "resume" /\ <<"start", "ok">> \in told)
        \/ p.at \in {"reached", "notify"} /\ p.msg.event = cmd.op

\* Of several seek requests the last one is the position the source was sent to.
LastSeekWins ==
    (cmd.step = "idle" /\ seek.posts = 0 /\ ~seek.refused) => seek.sought = seek.asked

\* A seek that succeeds leaves the pipeline in the state it found it in.
SeekRestores ==
    (cmd.step = "returned" /\ Following = "none" /\ mState3 # "Invalid" /\ cmd.ret = "ok") =>
        mState \in {mState3, "Null"}

\* A command that succeeded means what it says: its state was reached, the
\* application has been told, and a seek has left the pipeline as it found it.
SuccessIsTrue == CommandReached /\ SuccessTold /\ SeekRestores

\* A flush that has been waited for is over: no component is still at it.
FlushedTogether ==
    (cmd.op = "flush" /\ cmd.step = "returned" /\ cmd.ret = "ok") =>
        \A c \in Comps : \A i \in 1 .. Len(work[c]) : work[c][i] # "flush"

\* The application is not told that the pipeline is prepared while it is still
\* being constructed.
NotPreparedEarly ==
    (cmd.op = "prepare" /\ cmd.step \in {"source", "build", "call"}) => <<"prepare", "ok">> \notin told

\* Every command returns.
CommandReturns == cmd.step = "enter" ~> cmd.step = "idle"

\* Until a reset has destroyed the components, every command returns.
FirstCommandsReturn == (cmd.step = "enter" /\ gen = 0) ~> cmd.step = "idle"

=============================================================================
