-------------------------- MODULE RecorderPipeline --------------------------
(***************************************************************************)
(* PipelineRecorderBase with PipelineVideoRecorder and                      *)
(* PipelineAudioRecorder (cow/src/pipeline_recorder_base.cc, recorder/*.cc, *)
(* the macros and waitUntilCondition of pipeline.h), driven by CowRecorder  *)
(* (cowrecorder.cc).                                                        *)
(*                                                                         *)
(* The command thread calls one component after the other and waits;        *)
(* components answer on threads of their own; the pipeline's thread takes   *)
(* their messages in order.  What differs from the player is the end: stop  *)
(* has the sources end their streams and waits until the end has come out   *)
(* of every sink, so that the file is complete before anything is stopped.  *)
(*                                                                         *)
(* An action is a section under mLock, or the accesses without a lock up to *)
(* the next one.  One source and its encoder stand for those of audio and   *)
(* video, the preview's sink for MediaFission and it.  The wait of 30000 s  *)
(* does not time out, nobody calls unblock, and the application prepares    *)
(* before anything else.                                                    *)
(***************************************************************************)
EXTENDS Naturals, Sequences

CONSTANTS
    RecKinds,           \* recorders: [video : PipelineVideoRecorder?, preview : with a preview?]
    MaxRecCommands,     \* bounds: the application's commands and the failures of components,
    MaxRecFaults        \* and the latter alone

ASSUME RecorderAssumption ==
    /\ RecKinds \subseteq {k \in [video : BOOLEAN, preview : BOOLEAN] : k.preview => k.video}
    /\ MaxRecCommands \in Nat /\ MaxRecFaults \in Nat

VARIABLES
    recKind,    \* which recorder it is
    rec,        \* mState, mState2 (kComponentResetComplete?), mErrorCode, mConnectedStreamCount,
                \* mEOSStreamCount, mEosReceived, is mComponents filled, and are they connected?
    parts,      \* mComponents[i].state and .state2
    recCmd,     \* the command thread: the command, its step, the components to call, RET_VALUE,
                \* does a reset follow?
    recQueue,   \* the messages of the pipeline's thread
    recThread,  \* the pipeline's thread: what it has still to do with the message it took
    device,     \* each component: what it really is, the calls it has to answer, does the end of a
                \* stream have to come out of it?
    recSeen     \* history and bounds

recVars == <<recKind, rec, parts, recCmd, recQueue, recThread, device, recSeen>>

Parts == {"muxer", "fileSink", "preview", "source", "encoder"}

(* mComponents, "source components should be ahead of codec component".    *)
Order ==
    IF recKind.preview THEN <<"muxer", "fileSink", "preview", "source", "encoder">>
    ELSE <<"muxer", "fileSink", "source", "encoder">>

Built == IF recKind.preview THEN Parts ELSE Parts \ {"preview"}

EosSinks == Built \cap {"fileSink", "preview"}

(* The muxer answers stop and reset later, the file sink nothing.          *)
IsAsync(c, op) == IF c = "muxer" THEN op \in {"stop", "reset"} ELSE c # "fileSink"

Target == [prepare |-> "Prepared", start |-> "Playing", resume |-> "Playing", pause |-> "Paused",
           stop |-> "Stopped", reset |-> "Null"]

Doing == [prepare |-> "Preparing", start |-> "Play", resume |-> "Play", pause |-> "Pausing",
          stop |-> "Stop", reset |-> "Null"]

RecOps == DOMAIN Target

RecStates == {Target[op] : op \in RecOps} \cup {Doing[op] : op \in RecOps}

Free == [op |-> "none", step |-> "none", left |-> <<>>, async |-> FALSE, reset |-> FALSE]

RecTypeOK ==
    /\ recKind \in RecKinds
    /\ rec \in [state : RecStates, resetDone : BOOLEAN, error : BOOLEAN, connected : 0 .. 2,
                eosCount : Nat, eosReceived : BOOLEAN, built : BOOLEAN, graph : BOOLEAN]
    /\ parts \in [Parts -> [state : RecStates, reset : BOOLEAN]]
    /\ recCmd.op \in RecOps \cup {"none"} /\ recCmd.left \in Seq(Parts)
    /\ recCmd.step \in {"none", "begin", "source", "eos", "calls", "wait"}
    /\ \A i \in DOMAIN recQueue :
         recQueue[i] \in [c : Parts, what : RecOps \cup {"eos", "error"}, ok : BOOLEAN]
    /\ recThread \in [at : {"none", "advance", "null"}, op : RecOps]
    /\ \A c \in Parts : device[c] \in [is : RecStates, work : Seq(RecOps), owes : BOOLEAN]

NewParts == [c \in Parts |-> [state |-> "Null", reset |-> FALSE]]

NewDevices == [c \in Parts |-> [is |-> "Null", work |-> <<>>, owes |-> FALSE]]

RecInit ==
    /\ recKind \in RecKinds
    /\ rec = [state |-> "Null", resetDone |-> FALSE, error |-> FALSE, connected |-> 0, eosCount |-> 0,
              eosReceived |-> FALSE, built |-> FALSE, graph |-> FALSE]
    /\ parts = NewParts
    /\ recCmd = Free
    /\ recQueue = <<>>
    /\ recThread = [at |-> "none", op |-> "prepare"]
    /\ device = NewDevices
    /\ recSeen = [commands |-> 0, faults |-> 0, faulty |-> FALSE, signalled |-> FALSE, ended |-> {}]

-----------------------------------------------------------------------------
MoreMayHappen == recSeen.commands + recSeen.faults < MaxRecCommands

(* The application: the next command when the former has returned.  Of a    *)
(* paused recording start is resume, and reset stops first, unless stopped. *)
RecCommand(op) ==
    /\ recCmd = Free
    /\ MoreMayHappen
    /\ rec.built \/ op = "prepare"
    /\ recCmd' = CASE op = "start" /\ rec.state = "Paused" -> [Free EXCEPT !.op = "resume", !.step = "begin"]
                   [] op = "reset" /\ rec.state \notin {"Null", "Stop", "Stopped"} ->
                        [Free EXCEPT !.op = "stop", !.step = "begin", !.reset = TRUE]
                   [] OTHER -> [Free EXCEPT !.op = op, !.step = "begin"]
    /\ recSeen' = [recSeen EXCEPT !.commands = @ + 1]
    /\ UNCHANGED <<recKind, rec, parts, recQueue, recThread, device>>

At(op, step) == recCmd.op = op /\ recCmd.step = step

Returns == recCmd' = IF recCmd.reset THEN [Free EXCEPT !.op = "reset", !.step = "begin"] ELSE Free

CallsAll == recCmd' = [recCmd EXCEPT !.step = "calls", !.left = Order]

(* CHECK_PIPELINE_STATE and the like: nothing to do, which is a success.   *)
NothingToDo ==
    CASE recCmd.op = "prepare"             -> rec.state # "Null"
      [] recCmd.op \in {"start", "resume"} -> rec.state = "Playing"
      [] recCmd.op = "pause"               -> rec.state # "Playing"
      [] recCmd.op = "stop"                -> rec.state \in {"Stopped", "Null"}
      [] recCmd.op = "reset"               -> rec.state = "Null"

RecAlready ==
    /\ recCmd.step = "begin" /\ NothingToDo
    /\ Returns
    /\ UNCHANGED <<recKind, rec, parts, recQueue, recThread, device, recSeen>>

(* prepareInternal: the components are made, and the source is prepared.   *)
RecPrepare ==
    /\ At("prepare", "begin") /\ ~NothingToDo
    /\ rec' = [rec EXCEPT !.connected = 1, !.built = TRUE, !.graph = FALSE]
    /\ parts' = [NewParts EXCEPT !["source"].state = Doing.prepare]
    /\ device' = [NewDevices EXCEPT !["source"].work = <<"prepare">>]
    /\ recCmd' = [recCmd EXCEPT !.step = "source"]
    /\ recSeen' = [recSeen EXCEPT !.faulty = FALSE]
    /\ UNCHANGED <<recKind, recQueue, recThread>>

(* The wait for it, and the connections.  When it has failed that is told,  *)
(* and prepare goes on without them.                                        *)
SourcePrepared ==
    /\ recCmd.step = "source" /\ parts["source"].state = Target.prepare
    /\ rec' = [rec EXCEPT !.error = FALSE, !.graph = ~rec.error,
                          !.connected = IF recKind.preview /\ ~rec.error THEN @ + 1 ELSE @]
    /\ CallsAll
    /\ UNCHANGED <<recKind, parts, recQueue, recThread, device, recSeen>>

RecStart_KeepsEos ==
    /\ At("start", "begin") /\ ~NothingToDo
    /\ recSeen' = [recSeen EXCEPT !.signalled = FALSE, !.ended = {}]
    /\ CallsAll
    /\ UNCHANGED <<recKind, rec, parts, recQueue, recThread, device>>

RecStart ==
    /\ At("start", "begin") /\ ~NothingToDo
    /\ rec' = [rec EXCEPT !.eosReceived = FALSE]
    /\ recSeen' = [recSeen EXCEPT !.signalled = FALSE, !.ended = {}]
    /\ CallsAll
    /\ UNCHANGED <<recKind, parts, recQueue, recThread, device>>

(* resume and pause, and a stop of what never started: only the calls.     *)
RecCallsOnly ==
    /\ recCmd.step = "begin" /\ ~NothingToDo
    /\ recCmd.op \in {"resume", "pause"} \/ (recCmd.op = "stop" /\ rec.state \notin {"Playing", "Paused"})
    /\ CallsAll
    /\ UNCHANGED <<recKind, rec, parts, recQueue, recThread, device, recSeen>>

(* stopInternal: signalEOS, which reaches a source that runs; the video     *)
(* recorder gives up when an error is pending ...                           *)
SignalEos ==
    /\ At("stop", "begin") /\ rec.state \in {"Playing", "Paused"}
    /\ recSeen' = [recSeen EXCEPT !.signalled = @ \/ (rec.graph /\ device["source"].is \in {"Playing", "Paused"})]
    /\ IF recKind.video /\ rec.error THEN Returns ELSE recCmd' = [recCmd EXCEPT !.step = "eos"]
    /\ UNCHANGED <<recKind, rec, parts, recQueue, recThread, device>>

(* ... and otherwise waits for the end.                                    *)
EosCame ==
    /\ recCmd.step = "eos" /\ rec.eosReceived
    /\ rec' = [rec EXCEPT !.error = FALSE]
    /\ IF rec.error THEN Returns ELSE CallsAll
    /\ UNCHANGED <<recKind, parts, recQueue, recThread, device, recSeen>>

(* resetInternal.                                                          *)
RecReset ==
    /\ At("reset", "begin") /\ ~NothingToDo
    /\ rec' = [rec EXCEPT !.connected = 0, !.eosCount = 0, !.eosReceived = FALSE, !.resetDone = FALSE]
    /\ CallsAll
    /\ UNCHANGED <<recKind, parts, recQueue, recThread, device, recSeen>>

-----------------------------------------------------------------------------
(* The loop of SET_PIPELINE_STATE, and reset's.                            *)
Next1 == Head(recCmd.left)

Called(async) == recCmd' = [recCmd EXCEPT !.left = Tail(@), !.async = @ \/ async]

Calling == recCmd.step = "calls" /\ recCmd.left # <<>>

RecSkips ==
    /\ Calling /\ recCmd.op # "reset" /\ parts[Next1].state = Target[recCmd.op]
    /\ Called(FALSE)
    /\ UNCHANGED <<recKind, rec, parts, recQueue, recThread, device, recSeen>>

MustCall == Calling /\ (recCmd.op = "reset" \/ parts[Next1].state # Target[recCmd.op])

RecCallsAsync ==
    /\ MustCall /\ IsAsync(Next1, recCmd.op)
    /\ parts' = IF recCmd.op = "reset" THEN [parts EXCEPT ![Next1].reset = FALSE]
                ELSE [parts EXCEPT ![Next1].state = Doing[recCmd.op]]
    /\ device' = [device EXCEPT ![Next1].work = Append(@, recCmd.op)]
    /\ Called(TRUE)
    /\ UNCHANGED <<recKind, rec, recQueue, recThread, recSeen>>

(* At once.  The start of the muxer makes its thread, which ends the file   *)
(* sometime.                                                               *)
RecCallsSync ==
    /\ MustCall /\ ~IsAsync(Next1, recCmd.op)
    /\ parts' = IF recCmd.op = "reset" THEN [parts EXCEPT ![Next1].reset = TRUE]
                ELSE [parts EXCEPT ![Next1].state = Target[recCmd.op]]
    /\ device' = [device EXCEPT ![Next1].is = Target[recCmd.op],
                                !["fileSink"].owes = @ \/ (Next1 = "muxer" /\ recCmd.op = "start")]
    /\ Called(FALSE)
    /\ UNCHANGED <<recKind, rec, recQueue, recThread, recSeen>>

Fault ==
    /\ MoreMayHappen /\ recSeen.faults < MaxRecFaults
    /\ recSeen' = [recSeen EXCEPT !.faults = @ + 1, !.faulty = TRUE]

(* The file cannot be opened: the states say that it is, and no further     *)
(* component is called.                                                     *)
FileSinkFails ==
    /\ MustCall /\ Next1 = "fileSink" /\ recCmd.op = "start"
    /\ Fault
    /\ parts' = [parts EXCEPT ![Next1].state = Target.start]
    /\ rec' = [rec EXCEPT !.state = Target.start]
    /\ Returns
    /\ UNCHANGED <<recKind, recQueue, recThread, device>>

Gone == [rec EXCEPT !.state = "Null", !.resetDone = TRUE, !.error = FALSE, !.built = FALSE]

(* After the loop: without an asynchronous answer, all is done.            *)
RecCalled ==
    /\ recCmd.step = "calls" /\ recCmd.left = <<>>
    /\ IF recCmd.async THEN recCmd' = [recCmd EXCEPT !.step = "wait"] /\ UNCHANGED rec
       ELSE Returns /\ rec' = [rec EXCEPT !.state = Target[recCmd.op]]
    /\ UNCHANGED <<recKind, parts, recQueue, recThread, device, recSeen>>

WaitOver_Any ==
    IF recCmd.op = "reset" THEN rec.resetDone \/ \E c \in Built : parts[c].reset
    ELSE rec.state = Target[recCmd.op] \/ \E c \in Built : parts[c].state = Target[recCmd.op]

(* waitUntilCondition, of mState or, for a reset, of mState2.              *)
WaitOver ==
    IF recCmd.op = "reset" THEN rec.resetDone \/ \A c \in Built : parts[c].reset
    ELSE rec.state = Target[recCmd.op] \/ \A c \in Built : parts[c].state = Target[recCmd.op]

(* Whether it failed or not, the states are set and the command returns;    *)
(* a reset destroys the components.                                         *)
RecWaited ==
    /\ recCmd.step = "wait" /\ WaitOver
    /\ rec' = IF recCmd.op = "reset" THEN Gone
              ELSE [rec EXCEPT !.state = Target[recCmd.op], !.error = FALSE]
    /\ Returns
    /\ UNCHANGED <<recKind, parts, recQueue, recThread, device, recSeen>>

-----------------------------------------------------------------------------
(* onComponentMessage.                                                     *)
Receives(what) == recThread.at = "none" /\ recQueue # <<>> /\ Head(recQueue).what = what

(* An answer: the locked part; done when it is the last one.               *)
NoteAnswer(op) ==
    /\ Receives(op)
    /\ LET m    == Head(recQueue)
           done == \A c \in Built \ {m.c} :
                     IF op = "reset" THEN parts[c].reset ELSE parts[c].state = Target[op]
       IN /\ rec' = [rec EXCEPT !.error = @ \/ ~m.ok]
          /\ parts' = [parts EXCEPT ![m.c] = IF op = "reset" THEN [state |-> "Null", reset |-> TRUE]
                                             ELSE [@ EXCEPT !.state = Target[op]]]
          /\ recThread' = IF done THEN [at |-> "advance", op |-> op] ELSE recThread
    /\ recQueue' = Tail(recQueue)
    /\ UNCHANGED <<recKind, recCmd, device, recSeen>>

(* setState(mState, reachedState), or mState2 ...                          *)
Advance ==
    /\ recThread.at = "advance"
    /\ IF recThread.op = "reset"
       THEN rec' = [rec EXCEPT !.resetDone = TRUE] /\ recThread' = [recThread EXCEPT !.at = "null"]
       ELSE /\ rec' = [rec EXCEPT !.state = Target[recThread.op]]
            /\ recThread' = [recThread EXCEPT !.at = "none"]
    /\ UNCHANGED <<recKind, parts, recCmd, recQueue, device, recSeen>>

(* ... and then mState.                                                    *)
AdvanceNull ==
    /\ recThread.at = "null"
    /\ rec' = [rec EXCEPT !.state = "Null"]
    /\ recThread' = [recThread EXCEPT !.at = "none"]
    /\ UNCHANGED <<recKind, parts, recCmd, recQueue, device, recSeen>>

(* kEventEOS: the end, when it has come from every sink.                   *)
OnEos ==
    /\ Receives("eos")
    /\ rec' = IF rec.eosCount + 1 = rec.connected
              THEN [rec EXCEPT !.eosCount = 0, !.eosReceived = TRUE]
              ELSE [rec EXCEPT !.eosCount = @ + 1]
    /\ recQueue' = Tail(recQueue)
    /\ UNCHANGED <<recKind, parts, recCmd, recThread, device, recSeen>>

OnError ==
    /\ Receives("error")
    /\ rec' = [rec EXCEPT !.error = TRUE]
    /\ recQueue' = Tail(recQueue)
    /\ UNCHANGED <<recKind, parts, recCmd, recThread, device, recSeen>>

-----------------------------------------------------------------------------
(* The components.                                                         *)
Sends(c, what, ok) == recQueue' = Append(recQueue, [c |-> c, what |-> what, ok |-> ok])

HasWork(c) == c \in Built /\ device[c].work # <<>>

(* The muxer's thread has ended the file before its stop or reset is over.  *)
Answers(c) ==
    /\ HasWork(c)
    /\ c = "muxer" => ~device["fileSink"].owes
    /\ LET op == Head(device[c].work)
       IN /\ Sends(c, op, TRUE)
          /\ device' = [device EXCEPT ![c].work = Tail(@), ![c].is = Target[op],
                          ![c].owes = CASE op = "start" -> c = "preview" /\ rec.graph
                                        [] op \in {"stop", "reset"} -> FALSE
                                        [] OTHER -> @]
    /\ UNCHANGED <<recKind, rec, parts, recCmd, recThread, recSeen>>

AnswersFailed(c) ==
    /\ HasWork(c) /\ c # "muxer" /\ Head(device[c].work) # "reset"
    /\ Fault
    /\ Sends(c, Head(device[c].work), FALSE)
    /\ device' = [device EXCEPT ![c].work = Tail(@)]
    /\ UNCHANGED <<recKind, rec, parts, recCmd, recThread>>

(* kEventError of a component that runs, the source's for one.             *)
Fails(c) ==
    /\ c \in Built /\ device[c].is = "Playing"
    /\ Fault
    /\ Sends(c, "error", FALSE)
    /\ UNCHANGED <<recKind, rec, parts, recCmd, recThread, device>>

(* The end of the stream comes out of a sink: of the file when the muxer    *)
(* thinks fit (its limits) or has been given the end, of the preview when   *)
(* it has got it, and MediaFission is not paused.                           *)
Due(c) ==
    \/ recSeen.signalled /\ (c = "preview" => device[c].is = "Playing")
    \/ c = "fileSink" /\ device["muxer"].work # <<>>

Ends(c) ==
    /\ c \in EosSinks /\ device[c].owes
    /\ c = "preview" => Due(c)
    /\ Sends(c, "eos", TRUE)
    /\ device' = [device EXCEPT ![c].owes = FALSE]
    /\ recSeen' = [recSeen EXCEPT !.ended = @ \cup {c}]
    /\ UNCHANGED <<recKind, rec, parts, recCmd, recThread>>

-----------------------------------------------------------------------------
RecCommandThread ==
    \/ RecAlready \/ RecPrepare \/ SourcePrepared \/ RecStart \/ RecCallsOnly \/ SignalEos \/ EosCame
    \/ RecReset \/ RecSkips \/ RecCallsAsync \/ RecCallsSync \/ FileSinkFails \/ RecCalled \/ RecWaited

RecPipelineThread == (\E op \in RecOps : NoteAnswer(op)) \/ Advance \/ AdvanceNull \/ OnEos \/ OnError

RecNext ==
    \/ \E op \in {"prepare", "start", "pause", "stop", "reset"} : RecCommand(op)
    \/ RecCommandThread \/ RecPipelineThread
    \/ \E c \in Parts : Answers(c) \/ AnswersFailed(c) \/ Fails(c) \/ Ends(c)

RecSpec == RecInit /\ [][RecNext]_recVars

(* Both threads run, components answer, and a stream ends that has been     *)
(* told to.                                                                 *)
RecDeviceGoesOn(c) == Answers(c) \/ (Due(c) /\ Ends(c))

RecFairSpec ==
    /\ RecSpec
    /\ WF_recVars(RecCommandThread) /\ WF_recVars(RecPipelineThread)
    /\ \A c \in Parts : WF_recVars(RecDeviceGoesOn(c))

-----------------------------------------------------------------------------
(* Nothing is stopped before the recording is complete: a stop of a         *)
(* recording, also one that ended by itself or is paused, calls the         *)
(* components only when the end of this recording, and not of an earlier    *)
(* one, has come out of every sink.                                         *)
StopAfterEos ==
    [][recCmd.step = "eos" /\ recCmd'.step = "calls" /\ recSeen.faults = 0
         => recSeen.ended = EosSinks]_recVars

(* While no component fails: between commands all components really are     *)
(* where the pipeline says it is, although a command may return before the  *)
(* pipeline's thread has set mState.                                        *)
AllTogether ==
    recCmd = Free /\ rec.built /\ recSeen.faults = 0 =>
        \A c \in Built : device[c].is = rec.state /\ device[c].work = <<>>

(* Every command returns, while no component fails, but for the stop of a   *)
(* paused recording with a preview, whose end does not pass MediaFission.   *)
PausedPreview == recKind.preview /\ device["preview"].is = "Paused"

CommandOwed == recCmd.op # "none" /\ recSeen.faults = 0 /\ ~PausedPreview

RecorderReturns == CommandOwed ~> ~CommandOwed

(* "In order to support prepare->reset->prepare call sequence": after a     *)
(* reset, whatever failed before it, a recording can be stopped.            *)
StopsAgain ==
    recCmd.step = "eos" /\ ~recSeen.faulty ~> (recCmd.step # "eos" \/ recSeen.faulty \/ PausedPreview)

=============================================================================
