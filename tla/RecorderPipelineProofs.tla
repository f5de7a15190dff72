----------------------- MODULE RecorderPipelineProofs -----------------------
(***************************************************************************)
(* Proofs about RecorderPipeline, for every set of recorders and all bounds *)
(* of the application's commands and of the failures.                      *)
(***************************************************************************)
EXTENDS RecorderPipeline, TLAPS

-----------------------------------------------------------------------------
(* The records, what RecTypeOK says of them and the rest.                  *)

Steps == {"none", "begin", "source", "eos", "calls", "wait"}
OpsOrNone == RecOps \cup {"none"}
Messages == RecOps \cup {"eos", "error"}

RecRecord == [state : RecStates, resetDone : BOOLEAN, error : BOOLEAN, connected : 0 .. 2,
              eosCount : Nat, eosReceived : BOOLEAN, built : BOOLEAN, graph : BOOLEAN]
PartRecord == [state : RecStates, reset : BOOLEAN]
CmdRecord == [op : OpsOrNone, step : Steps, left : Seq(Parts), async : BOOLEAN, reset : BOOLEAN]
MessageRecord == [c : Parts, what : Messages, ok : BOOLEAN]
ThreadRecord == [at : {"none", "advance", "null"}, op : RecOps]
DeviceRecord == [is : RecStates, work : Seq(RecOps), owes : BOOLEAN]
SeenRecord == [commands : Nat, faults : Nat, faulty : BOOLEAN, signalled : BOOLEAN, ended : SUBSET Parts]

Records ==
    /\ recKind \in RecKinds
    /\ rec \in RecRecord
    /\ parts \in [Parts -> PartRecord]
    /\ recCmd \in CmdRecord
    /\ recQueue \in Seq(MessageRecord)
    /\ recThread \in ThreadRecord
    /\ device \in [Parts -> DeviceRecord]
    /\ recSeen \in SeenRecord

(* A command has an operation while it has a step, and mConnectedStreamCount *)
(* is one while the source is waited for.                                   *)
CommandShape ==
    /\ recCmd.op = "none" <=> recCmd.step = "none"
    /\ recCmd.step = "source" => rec.connected = 1

-----------------------------------------------------------------------------
(* The inductive invariant: what holds while no component has failed.      *)

Under == recCmd.step \in {"source", "calls", "wait"}    \* components are called or waited for

Calls == recCmd.step \in {"calls", "wait"}

Uncalled == IF recCmd.step = "source" THEN Parts \ {"source"}
            ELSE {recCmd.left[i] : i \in DOMAIN recCmd.left}

Reached(c, op) == IF op = "reset" THEN parts[c].reset ELSE parts[c].state = Target[op]

AllReached == \A c \in Built : Reached(c, recCmd.op)

IsAnswer(m) == m.what \in RecOps

AnswerOf(c) == \E i \in DOMAIN recQueue : recQueue[i].c = c /\ IsAnswer(recQueue[i])

(* Nothing has failed.                                                     *)
NoErrors ==
    /\ ~rec.error
    /\ \A i \in DOMAIN recQueue : recQueue[i].ok /\ recQueue[i].what # "error"

(* What is left to call ends with the encoder, which always answers later.  *)
CallsLeft ==
    /\ \A i, j \in DOMAIN recCmd.left : recCmd.left[i] = recCmd.left[j] => i = j
    /\ \A i \in DOMAIN recCmd.left : recCmd.left[i] \in Built
    /\ recCmd.left # <<>> => recCmd.left[Len(recCmd.left)] = "encoder" /\ recCmd.step = "calls"
    /\ recCmd.step = "calls" /\ recCmd.left = <<>> => recCmd.async

(* A component has one call at a time, and it is the command's.            *)
OneCall ==
    \A c \in Parts : device[c].work # <<>> =>
        /\ device[c].work = <<recCmd.op>>
        /\ Under /\ c \in Built /\ c \notin Uncalled
        /\ ~Reached(c, recCmd.op)
        /\ ~AnswerOf(c)

(* The answers in the queue are this command's, one of each component.     *)
AnswersHere ==
    /\ \A i \in DOMAIN recQueue : IsAnswer(recQueue[i]) =>
         /\ recQueue[i].what = recCmd.op
         /\ Under /\ recQueue[i].c \in Built /\ recQueue[i].c \notin Uncalled
         /\ device[recQueue[i].c].is = Target[recCmd.op]
         /\ ~Reached(recQueue[i].c, recCmd.op)
    /\ \A i, j \in DOMAIN recQueue :
         IsAnswer(recQueue[i]) /\ IsAnswer(recQueue[j]) /\ recQueue[i].c = recQueue[j].c => i = j

(* mState of a component tells the truth when it is the command's.         *)
ReachedIsTrue ==
    Under => \A c \in Built : Reached(c, recCmd.op) => device[c].is = Target[recCmd.op]

EncoderLast ==
    recCmd.step = "source" \/ recCmd.left # <<>> => ~Reached("encoder", recCmd.op)

(* Nobody is under way: the components are where the pipeline says.        *)
AtRestTogether ==
    recCmd.step \in {"none", "begin", "eos"} =>
        /\ rec.built <=> rec.state # "Null"
        /\ rec.built => \A c \in Built : /\ parts[c].state = rec.state /\ ~parts[c].reset
                                         /\ device[c].is = rec.state

(* The command at its steps.                                               *)
CommandPlace ==
    /\ rec.state \in {"Null", "Prepared", "Playing", "Paused", "Stopped"}
    /\ recCmd.step = "none" => recCmd = Free
    /\ ~rec.built => recCmd.op \in {"none", "prepare"} /\ rec.state = "Null"
    /\ recCmd.reset => recCmd.op = "stop"
    /\ recCmd.op = "reset" /\ recCmd.step = "begin" => rec.state \in {"Stopped", "Null"}
    /\ recCmd.op = "resume" /\ recCmd.step = "begin" => rec.state = "Paused"
    /\ recCmd.op = "start" /\ recCmd.step = "begin" => rec.state # "Paused"
    /\ recCmd.step = "eos" => recCmd.op = "stop" /\ rec.state \in {"Playing", "Paused"}
    /\ recCmd.step = "source" => recCmd.op = "prepare" /\ rec.state = "Null"
    /\ recCmd.op = "prepare" /\ recCmd.step # "begin" => rec.built
    /\ Calls /\ rec.state = Target[recCmd.op] => AllReached
    /\ Calls /\ recCmd.op = "reset" /\ rec.resetDone => AllReached
    /\ Under /\ recCmd.op # "reset" => \A c \in Built : ~parts[c].reset

(* What the pipeline's thread has still to set has been reached, or is      *)
(* mState already, of the command before.                                   *)
ThreadPlace ==
    /\ recThread.at = "null" => recThread.op = "reset"
    /\ recThread.at # "none" =>
         \/ /\ rec.state = Target[recThread.op]
            /\ Under => ~Reached("encoder", recCmd.op)
         \/ recThread.op = recCmd.op /\ Calls /\ AllReached

Together ==
    /\ NoErrors /\ CallsLeft /\ OneCall /\ AnswersHere /\ ReachedIsTrue /\ EncoderLast
    /\ AtRestTogether /\ CommandPlace /\ ThreadPlace

-----------------------------------------------------------------------------
(* The ends of the streams.                                                *)

(* From a start to the calls of stop.                                      *)
Recording ==
    \/ recCmd.op = "start" /\ Calls
    \/ recCmd.op \in {"resume", "pause"} /\ Calls
    \/ ~Under /\ rec.state \in {"Playing", "Paused"}

EosOf(c) == \E i \in DOMAIN recQueue : recQueue[i].c = c /\ recQueue[i].what = "eos"

Heard(c) == c \in recSeen.ended /\ ~EosOf(c)

HeardCount == (IF Heard("fileSink") THEN 1 ELSE 0) + (IF Heard("preview") THEN 1 ELSE 0)

Connected ==
    rec.built /\ recCmd.step # "source" /\ ~(recCmd.op = "reset" /\ Calls) =>
        rec.graph /\ rec.connected = IF recKind.preview THEN 2 ELSE 1

NoEnds ==
    ~Recording =>
        /\ rec.eosCount = 0
        /\ \A c \in Parts : ~device[c].owes
        /\ \A i \in DOMAIN recQueue : recQueue[i].what # "eos"

EndsOnce ==
    Recording =>
        /\ recSeen.ended \subseteq EosSinks
        /\ \A c \in Parts : device[c].owes => c \in EosSinks \ recSeen.ended
        /\ \A i \in DOMAIN recQueue : recQueue[i].what = "eos" => recQueue[i].c \in recSeen.ended
        /\ \A i, j \in DOMAIN recQueue :
             recQueue[i].what = "eos" /\ recQueue[j].what = "eos" /\ recQueue[i].c = recQueue[j].c => i = j

(* An end comes out of what has been started only.                         *)
EndsAfterStart ==
    Recording /\ recCmd.op = "start" =>
        /\ "fileSink" \in recSeen.ended \/ device["fileSink"].owes => "muxer" \notin Uncalled
        /\ "preview" \in recSeen.ended \/ device["preview"].owes =>
             "preview" \notin Uncalled /\ device["preview"].work = <<>>

EndsCounted ==
    Recording =>
        /\ rec.eosReceived => rec.eosCount = 0 /\ \A c \in EosSinks : Heard(c)
        /\ ~rec.eosReceived => rec.eosCount = HeardCount /\ HeardCount < rec.connected

Ended == Connected /\ NoEnds /\ EndsOnce /\ EndsAfterStart /\ EndsCounted

RecInv ==
    /\ Records /\ CommandShape
    /\ recSeen.faults = 0 => Together /\ Ended

-----------------------------------------------------------------------------
(* Sequences and names.                                                    *)

LEMMA AppendIs ==
    ASSUME NEW S, NEW s \in Seq(S), NEW x \in S
    PROVE  /\ Append(s, x) \in Seq(S) /\ Len(Append(s, x)) = Len(s) + 1
           /\ \A i \in 1 .. Len(s) : Append(s, x)[i] = s[i]
           /\ Append(s, x)[Len(s) + 1] = x
           /\ Append(s, x) # <<>>
  OBVIOUS

LEMMA TailIs ==
    ASSUME NEW S, NEW s \in Seq(S), s # <<>>
    PROVE  /\ Tail(s) \in Seq(S) /\ Len(s) > 0 /\ Len(Tail(s)) = Len(s) - 1
           /\ Head(s) = s[1] /\ Head(s) \in S
           /\ \A i \in 1 .. Len(s) - 1 : Tail(s)[i] = s[i + 1]
  OBVIOUS

LEMMA EmptyIs ==
    ASSUME NEW S, NEW s \in Seq(S)
    PROVE  /\ Len(s) \in Nat /\ (s = <<>> <=> Len(s) = 0)
           /\ DOMAIN s = 1 .. Len(s) /\ \A i \in DOMAIN s : s[i] \in S
  OBVIOUS

LEMMA OpsAre ==
    /\ RecOps = {"prepare", "start", "resume", "pause", "stop", "reset"}
    /\ Target.prepare = "Prepared" /\ Target.start = "Playing" /\ Target.resume = "Playing"
    /\ Target.pause = "Paused" /\ Target.stop = "Stopped" /\ Target.reset = "Null"
    /\ \A op \in RecOps : Target[op] \in RecStates /\ Doing[op] \in RecStates
    /\ \A op \in RecOps : op # "reset" => Doing[op] # Target[op]
    /\ Doing.prepare = "Preparing"
  BY DEF RecOps, Target, Doing, RecStates

LEMMA OrderIs ==
    /\ Order \in Seq(Parts)
    /\ Order # <<>> /\ Order[Len(Order)] = "encoder"
    /\ \A i, j \in DOMAIN Order : Order[i] = Order[j] => i = j
    /\ {Order[i] : i \in DOMAIN Order} = Built
    /\ Built \subseteq Parts /\ "encoder" \in Built /\ "source" \in Built /\ "muxer" \in Built
    /\ "fileSink" \in Built
<1>1. Built \subseteq Parts /\ "encoder" \in Built /\ "source" \in Built /\ "muxer" \in Built
      /\ "fileSink" \in Built
  BY DEF Built, Parts
<1>2. CASE recKind.preview
  <2>. DEFINE order == <<"muxer", "fileSink", "preview", "source", "encoder">>
  <2>1. order \in Seq(Parts) /\ order # <<>> /\ Len(order) = 5 /\ DOMAIN order = 1 .. 5
    BY DEF Parts
  <2>2. order[1] = "muxer" /\ order[2] = "fileSink" /\ order[3] = "preview" /\ order[4] = "source"
        /\ order[5] = "encoder"
    OBVIOUS
  <2>3. Order = order /\ Built = Parts
    BY <1>2 DEF Order, Built
  <2>. HIDE DEF order
  <2>4. \A i, j \in DOMAIN order : order[i] = order[j] => i = j
    BY <2>1, <2>2
  <2>5. {order[i] : i \in DOMAIN order} = Parts
    BY <2>1, <2>2 DEF Parts
  <2>6. order[Len(order)] = "encoder"
    BY <2>1, <2>2
  <2>7. {Order[i] : i \in DOMAIN Order} = Built
    BY <2>3, <2>5
  <2>8. \A i, j \in DOMAIN Order : Order[i] = Order[j] => i = j
    BY <2>3, <2>4
  <2>9. Order \in Seq(Parts) /\ Order # <<>> /\ Order[Len(Order)] = "encoder"
    BY <2>1, <2>3, <2>6
  <2>. QED  BY <1>1, <2>7, <2>8, <2>9
<1>3. CASE ~recKind.preview
  <2>. DEFINE order == <<"muxer", "fileSink", "source", "encoder">>
  <2>1. order \in Seq(Parts) /\ order # <<>> /\ Len(order) = 4 /\ DOMAIN order = 1 .. 4
    BY DEF Parts
  <2>2. order[1] = "muxer" /\ order[2] = "fileSink" /\ order[3] = "source" /\ order[4] = "encoder"
    OBVIOUS
  <2>3. Order = order /\ Built = Parts \ {"preview"}
    BY <1>3 DEF Order, Built
  <2>. HIDE DEF order
  <2>4. \A i, j \in DOMAIN order : order[i] = order[j] => i = j
    BY <2>1, <2>2
  <2>5. {order[i] : i \in DOMAIN order} = Parts \ {"preview"}
    BY <2>1, <2>2 DEF Parts
  <2>6. order[Len(order)] = "encoder"
    BY <2>1, <2>2
  <2>7. {Order[i] : i \in DOMAIN Order} = Built
    BY <2>3, <2>5
  <2>8. \A i, j \in DOMAIN Order : Order[i] = Order[j] => i = j
    BY <2>3, <2>4
  <2>9. Order \in Seq(Parts) /\ Order # <<>> /\ Order[Len(Order)] = "encoder"
    BY <2>1, <2>3, <2>6
  <2>. QED  BY <1>1, <2>7, <2>8, <2>9
<1>. QED  BY <1>2, <1>3

-----------------------------------------------------------------------------
(* The records are kept.                                                    *)

LEMMA RecActions ==
    RecNext => \/ \E op \in {"prepare", "start", "pause", "stop", "reset"} : RecCommand(op)
               \/ RecAlready \/ RecPrepare \/ SourcePrepared \/ RecStart \/ RecCallsOnly \/ SignalEos
               \/ EosCame \/ RecReset \/ RecSkips \/ RecCallsAsync \/ RecCallsSync \/ FileSinkFails
               \/ RecCalled \/ RecWaited
               \/ \E op \in RecOps : NoteAnswer(op)
               \/ Advance \/ AdvanceNull \/ OnEos \/ OnError
               \/ \E c \in Parts : Answers(c) \/ AnswersFailed(c) \/ Fails(c) \/ Ends(c)
<1>1. RecNext => \/ \E op \in {"prepare", "start", "pause", "stop", "reset"} : RecCommand(op)
                 \/ RecCommandThread \/ RecPipelineThread
                 \/ \E c \in Parts : Answers(c) \/ AnswersFailed(c) \/ Fails(c) \/ Ends(c)
  BY DEF RecNext
<1>. QED  BY <1>1 DEF RecCommandThread, RecPipelineThread

LEMMA KindType == Records /\ RecNext => recKind' = recKind
BY RecActions DEF RecCommand, RecAlready, RecPrepare, SourcePrepared, RecStart, RecCallsOnly, SignalEos,
      EosCame, RecReset, RecSkips, RecCallsAsync, RecCallsSync, FileSinkFails, RecCalled, RecWaited,
      NoteAnswer, Advance, AdvanceNull, OnEos, OnError, Answers, AnswersFailed, Fails, Ends

LEMMA RecKept ==
    RecNext => \/ rec' = rec
               \/ RecPrepare \/ SourcePrepared \/ RecStart \/ EosCame \/ RecReset \/ FileSinkFails
               \/ RecCalled \/ RecWaited
               \/ \E op \in RecOps : NoteAnswer(op)
               \/ Advance \/ AdvanceNull \/ OnEos \/ OnError
BY RecActions DEF RecCommand, RecAlready, RecCallsOnly, SignalEos, RecSkips, RecCallsAsync, RecCallsSync,
      Answers, AnswersFailed, Fails, Ends

LEMMA PartsKept ==
    RecNext => \/ parts' = parts
               \/ RecPrepare \/ RecCallsAsync \/ RecCallsSync \/ FileSinkFails
               \/ \E op \in RecOps : NoteAnswer(op)
BY RecActions DEF RecCommand, RecAlready, SourcePrepared, RecStart, RecCallsOnly, SignalEos, EosCame, RecReset,
      RecSkips, RecCalled, RecWaited, Advance, AdvanceNull, OnEos, OnError, Answers, AnswersFailed, Fails, Ends

LEMMA QueueKept ==
    RecNext => \/ recQueue' = recQueue
               \/ \E op \in RecOps : NoteAnswer(op)
               \/ OnEos \/ OnError
               \/ \E c \in Parts : Answers(c) \/ AnswersFailed(c) \/ Fails(c) \/ Ends(c)
BY RecActions DEF RecCommand, RecAlready, RecPrepare, SourcePrepared, RecStart, RecCallsOnly, SignalEos, EosCame,
      RecReset, RecSkips, RecCallsAsync, RecCallsSync, FileSinkFails, RecCalled, RecWaited, Advance, AdvanceNull

LEMMA ThreadKept ==
    RecNext => \/ recThread' = recThread
               \/ \E op \in RecOps : NoteAnswer(op)
               \/ Advance \/ AdvanceNull
BY RecActions DEF RecCommand, RecAlready, RecPrepare, SourcePrepared, RecStart, RecCallsOnly, SignalEos, EosCame,
      RecReset, RecSkips, RecCallsAsync, RecCallsSync, FileSinkFails, RecCalled, RecWaited, OnEos, OnError,
      Answers, AnswersFailed, Fails, Ends

LEMMA DeviceKept ==
    RecNext => \/ device' = device
               \/ RecPrepare \/ RecCallsAsync \/ RecCallsSync
               \/ \E c \in Parts : Answers(c) \/ AnswersFailed(c) \/ Ends(c)
BY RecActions DEF RecCommand, RecAlready, SourcePrepared, RecStart, RecCallsOnly, SignalEos, EosCame, RecReset,
      RecSkips, FileSinkFails, RecCalled, RecWaited, NoteAnswer, Advance, AdvanceNull, OnEos, OnError, Fails

LEMMA SeenKept ==
    RecNext => \/ recSeen' = recSeen
               \/ \E op \in {"prepare", "start", "pause", "stop", "reset"} : RecCommand(op)
               \/ RecPrepare \/ RecStart \/ SignalEos \/ FileSinkFails
               \/ \E c \in Parts : AnswersFailed(c) \/ Fails(c) \/ Ends(c)
BY RecActions DEF RecAlready, SourcePrepared, RecCallsOnly, EosCame, RecReset, RecSkips, RecCallsAsync,
      RecCallsSync, RecCalled, RecWaited, NoteAnswer, Advance, AdvanceNull, OnEos, OnError, Answers

LEMMA CmdKept ==
    RecNext => \/ recCmd' = recCmd
               \/ \E op \in {"prepare", "start", "pause", "stop", "reset"} : RecCommand(op)
               \/ RecAlready \/ RecPrepare \/ SourcePrepared \/ RecStart \/ RecCallsOnly \/ SignalEos
               \/ EosCame \/ RecReset \/ RecSkips \/ RecCallsAsync \/ RecCallsSync \/ FileSinkFails
               \/ RecCalled \/ RecWaited
BY RecActions DEF NoteAnswer, Advance, AdvanceNull, OnEos, OnError, Answers, AnswersFailed, Fails, Ends

LEMMA StatesAre ==
    {"Null", "Prepared", "Playing", "Paused", "Stopped", "Preparing"} \subseteq RecStates
  BY OpsAre DEF RecOps, Target, Doing, RecStates

(* A message that is taken.                                                *)
LEMMA HeadIs ==
    ASSUME Records, recQueue # <<>>
    PROVE  /\ Head(recQueue) \in MessageRecord /\ Head(recQueue) = recQueue[1] /\ Len(recQueue) > 0
           /\ Tail(recQueue) \in Seq(MessageRecord) /\ Len(Tail(recQueue)) = Len(recQueue) - 1
           /\ Len(recQueue) \in Nat
           /\ \A i \in 1 .. Len(recQueue) - 1 : Tail(recQueue)[i] = recQueue[i + 1]
<1>. DEFINE S == MessageRecord
<1>1. recQueue \in Seq(S)
  BY DEF Records
<1>. HIDE DEF S
<1>2. Head(recQueue) \in S /\ Tail(recQueue) \in Seq(S) /\ Head(recQueue) = recQueue[1] /\ Len(recQueue) > 0
      /\ Len(Tail(recQueue)) = Len(recQueue) - 1 /\ Len(recQueue) \in Nat
      /\ \A i \in 1 .. Len(recQueue) - 1 : Tail(recQueue)[i] = recQueue[i + 1]
  BY <1>1, TailIs
<1>. QED  BY <1>2 DEF S

(* The component that is called.                                           *)
LEMMA CallingIs ==
    ASSUME Records, CommandShape, Calling
    PROVE  Next1 \in Parts /\ recCmd.op \in RecOps
<1>1. recCmd.left \in Seq(Parts) /\ recCmd.left # <<>> /\ recCmd.op # "none"
  BY DEF Records, CmdRecord, Calling, CommandShape
<1>2. Head(recCmd.left) \in Parts
  BY <1>1, TailIs
<1>. QED  BY <1>1, <1>2 DEF Next1, Records, CmdRecord, OpsOrNone

LEMMA MessageIs ==
    ASSUME NEW op, Records, Receives(op)
    PROVE  /\ recQueue # <<>> /\ Head(recQueue) \in MessageRecord
           /\ Head(recQueue).c \in Parts /\ Head(recQueue).ok \in BOOLEAN /\ Head(recQueue).what = op
<1>1. recQueue # <<>> /\ Head(recQueue).what = op
  BY DEF Receives
<1>. QED  BY <1>1, HeadIs DEF MessageRecord

LEMMA RecIs ==
    ASSUME NEW r \in RecRecord, NEW n \in 0 .. 2, NEW count \in Nat, NEW graph \in BOOLEAN
    PROVE  /\ [r EXCEPT !.connected = n, !.built = TRUE, !.graph = FALSE] \in RecRecord
           /\ [r EXCEPT !.connected = n, !.eosCount = 0, !.eosReceived = FALSE, !.resetDone = FALSE] \in RecRecord
           /\ [r EXCEPT !.error = FALSE, !.graph = graph, !.connected = n] \in RecRecord
           /\ [r EXCEPT !.eosCount = count] \in RecRecord
           /\ [r EXCEPT !.eosCount = 0, !.eosReceived = TRUE] \in RecRecord
  BY DEF RecRecord

LEMMA RecType == Records /\ CommandShape /\ RecNext => rec' \in RecRecord
<1>. SUFFICES ASSUME Records, CommandShape, RecNext PROVE rec' \in RecRecord
  OBVIOUS
<1>. rec \in RecRecord /\ {0, 1} \subseteq 0 .. 2
  BY DEF Records
<1>1. CASE RecStart \/ EosCame \/ OnError
  BY <1>1 DEF RecStart, EosCame, OnError, RecRecord
<1>8. CASE RecPrepare \/ RecReset
  <2>1. \E n \in {0, 1} : rec' = [rec EXCEPT !.connected = n, !.built = TRUE, !.graph = FALSE]
          \/ rec' = [rec EXCEPT !.connected = n, !.eosCount = 0, !.eosReceived = FALSE, !.resetDone = FALSE]
    BY <1>8 DEF RecPrepare, RecReset
  <2>. QED  BY <2>1, RecIs
<1>2. CASE SourcePrepared
  <2>1. rec.connected = 1
    BY <1>2 DEF SourcePrepared, CommandShape
  <2>2. \E n \in 0 .. 2, graph \in BOOLEAN :
          rec' = [rec EXCEPT !.error = FALSE, !.graph = graph, !.connected = n]
    <3>1. (~rec.error) \in BOOLEAN /\ (IF recKind.preview /\ ~rec.error THEN rec.connected + 1 ELSE rec.connected) \in 0 .. 2
      BY <2>1 DEF RecRecord
    <3>2. rec' = [rec EXCEPT !.error = FALSE, !.graph = ~rec.error,
                    !.connected = IF recKind.preview /\ ~rec.error THEN rec.connected + 1 ELSE rec.connected]
      BY <1>2 DEF SourcePrepared
    <3>. QED  BY <3>1, <3>2
  <2>3. PICK n \in 0 .. 2, graph \in BOOLEAN :
          rec' = [rec EXCEPT !.error = FALSE, !.graph = graph, !.connected = n]
    BY <2>2
  <2>4. [rec EXCEPT !.error = FALSE, !.graph = graph, !.connected = n] \in RecRecord
    BY RecIs
  <2>. QED  BY <2>3, <2>4
<1>3. CASE FileSinkFails
  BY <1>3, OpsAre DEF FileSinkFails, RecRecord
<1>4. CASE RecCalled \/ RecWaited
  <2>1. recCmd.op \in RecOps
    BY <1>4 DEF RecCalled, RecWaited, CommandShape, Records, CmdRecord, OpsOrNone
  <2>2. Target[recCmd.op] \in RecStates
    BY <2>1, OpsAre
  <2>. QED  BY <1>4, <2>2, StatesAre DEF RecCalled, RecWaited, Gone, RecRecord
<1>5. ASSUME NEW op \in RecOps, NoteAnswer(op) PROVE rec' \in RecRecord
  <2>1. Head(recQueue).ok \in BOOLEAN
    BY <1>5, MessageIs DEF NoteAnswer
  <2>2. rec' = [rec EXCEPT !.error = rec.error \/ ~Head(recQueue).ok]
    BY <1>5 DEF NoteAnswer
  <2>. QED  BY <2>1, <2>2 DEF RecRecord
<1>6. CASE Advance \/ AdvanceNull
  <2>1. Target[recThread.op] \in RecStates
    BY OpsAre DEF Records, ThreadRecord
  <2>. QED  BY <1>6, <2>1, StatesAre DEF Advance, AdvanceNull, RecRecord
<1>7. CASE OnEos
  <2>1. rec.eosCount + 1 \in Nat
    BY DEF RecRecord
  <2>2. \/ rec' = [rec EXCEPT !.eosCount = 0, !.eosReceived = TRUE]
        \/ rec' = [rec EXCEPT !.eosCount = rec.eosCount + 1]
    BY <1>7 DEF OnEos
  <2>. QED  BY <2>1, <2>2, RecIs
<1>. QED  BY <1>1, <1>8, <1>2, <1>3, <1>4, <1>5, <1>6, <1>7, RecKept

LEMMA PartsType == Records /\ CommandShape /\ RecNext => parts' \in [Parts -> PartRecord]
<1>. SUFFICES ASSUME Records, CommandShape, RecNext PROVE parts' \in [Parts -> PartRecord]
  OBVIOUS
<1>. parts \in [Parts -> PartRecord]
  BY DEF Records
<1>1. CASE RecPrepare
  <2>1. parts' = [NewParts EXCEPT !["source"].state = "Preparing"]
    BY <1>1, OpsAre DEF RecPrepare
  <2>. QED  BY <2>1, StatesAre DEF NewParts, PartRecord
<1>2. CASE RecCallsAsync \/ RecCallsSync \/ FileSinkFails
  <2>1. Calling
    BY <1>2 DEF RecCallsAsync, RecCallsSync, FileSinkFails, MustCall
  <2>2. Next1 \in Parts /\ recCmd.op \in RecOps
    BY <2>1, CallingIs
  <2>3. Target[recCmd.op] \in RecStates /\ Doing[recCmd.op] \in RecStates /\ Target.start \in RecStates
    BY <2>2, OpsAre
  <2>. QED  BY <1>2, <2>2, <2>3 DEF RecCallsAsync, RecCallsSync, FileSinkFails, PartRecord
<1>3. ASSUME NEW op \in RecOps, NoteAnswer(op) PROVE parts' \in [Parts -> PartRecord]
  <2>1. Head(recQueue).c \in Parts
    BY <1>3, MessageIs DEF NoteAnswer
  <2>2. parts' = [parts EXCEPT ![Head(recQueue).c] = IF op = "reset" THEN [state |-> "Null", reset |-> TRUE]
                                                     ELSE [@ EXCEPT !.state = Target[op]]]
    BY <1>3 DEF NoteAnswer
  <2>. QED  BY <2>1, <2>2, OpsAre, StatesAre DEF PartRecord
<1>. QED  BY <1>1, <1>2, <1>3, PartsKept

LEMMA CmdType == Records /\ CommandShape /\ RecNext => recCmd' \in CmdRecord
<1>. SUFFICES ASSUME Records, CommandShape, RecNext PROVE recCmd' \in CmdRecord
  OBVIOUS
<1>. /\ recCmd \in CmdRecord /\ Free \in CmdRecord
     /\ {"none", "begin", "source", "eos", "calls", "wait"} \subseteq Steps
     /\ {"none", "prepare", "start", "resume", "pause", "stop", "reset"} \subseteq OpsOrNone
  BY OpsAre DEF Records, Free, CmdRecord, Steps, OpsOrNone
<1>1. ASSUME NEW op \in {"prepare", "start", "pause", "stop", "reset"}, RecCommand(op)
      PROVE  recCmd' \in CmdRecord
  <2>1. recCmd' \in {[Free EXCEPT !.op = "resume", !.step = "begin"],
                     [Free EXCEPT !.op = "stop", !.step = "begin", !.reset = TRUE],
                     [Free EXCEPT !.op = op, !.step = "begin"]}
    BY <1>1 DEF RecCommand
  <2>2. op \in OpsOrNone
    OBVIOUS
  <2>. QED  BY <2>1, <2>2 DEF CmdRecord
<1>2. ASSUME Returns PROVE recCmd' \in CmdRecord
  BY <1>2 DEF Returns, CmdRecord
<1>3. ASSUME CallsAll PROVE recCmd' \in CmdRecord
  <2>1. recCmd' = [recCmd EXCEPT !.step = "calls", !.left = Order] /\ Order \in Seq(Parts)
    BY <1>3, OrderIs DEF CallsAll
  <2>. QED  BY <2>1 DEF CmdRecord
<1>4. CASE RecSkips \/ RecCallsAsync \/ RecCallsSync
  <2>1. recCmd.left # <<>> /\ recCmd.left \in Seq(Parts)
    BY <1>4 DEF RecSkips, RecCallsAsync, RecCallsSync, MustCall, Calling, CmdRecord
  <2>2. Tail(recCmd.left) \in Seq(Parts)
    BY <2>1, TailIs
  <2>3. \E async \in BOOLEAN : recCmd' = [recCmd EXCEPT !.left = Tail(recCmd.left), !.async = async]
    BY <1>4 DEF RecSkips, RecCallsAsync, RecCallsSync, Called, CmdRecord
  <2>. QED  BY <2>2, <2>3 DEF CmdRecord
<1>5. CASE RecPrepare
  BY <1>5 DEF RecPrepare, CmdRecord
<1>6. CASE SignalEos \/ RecCalled
  BY <1>6, <1>2 DEF SignalEos, RecCalled, CmdRecord
<1>. QED  BY <1>1, <1>2, <1>3, <1>4, <1>5, <1>6, CmdKept
          DEF RecAlready, SourcePrepared, RecStart, RecCallsOnly, EosCame, RecReset, FileSinkFails, RecWaited

LEMMA QueueType == Records /\ RecNext => recQueue' \in Seq(MessageRecord)
<1>. SUFFICES ASSUME Records, RecNext PROVE recQueue' \in Seq(MessageRecord)
  OBVIOUS
<1>. recQueue \in Seq(MessageRecord)
  BY DEF Records
<1>1. ASSUME recQueue # <<>>, recQueue' = Tail(recQueue) PROVE recQueue' \in Seq(MessageRecord)
  BY <1>1, HeadIs
<1>2. ASSUME NEW op \in RecOps, NoteAnswer(op) PROVE recQueue' \in Seq(MessageRecord)
  BY <1>1, <1>2 DEF NoteAnswer, Receives
<1>3. CASE OnEos \/ OnError
  BY <1>1, <1>3 DEF OnEos, OnError, Receives
<1>4. ASSUME NEW c \in Parts, NEW what \in Messages, NEW ok \in BOOLEAN, Sends(c, what, ok)
      PROVE  recQueue' \in Seq(MessageRecord)
  <2>. DEFINE m == [c |-> c, what |-> what, ok |-> ok]
  <2>1. m \in MessageRecord /\ recQueue' = Append(recQueue, m)
    BY <1>4 DEF MessageRecord, Sends
  <2>. HIDE DEF m
  <2>. QED  BY <2>1, AppendIs
<1>5. ASSUME NEW c \in Parts, Answers(c) \/ AnswersFailed(c) \/ Fails(c) \/ Ends(c)
      PROVE  recQueue' \in Seq(MessageRecord)
  <2>1. CASE Answers(c) \/ AnswersFailed(c)
    <3>1. device[c].work # <<>> /\ device[c].work \in Seq(RecOps)
      BY <2>1 DEF Answers, AnswersFailed, HasWork, Records, DeviceRecord
    <3>2. Head(device[c].work) \in Messages
      BY <3>1, TailIs DEF Messages
    <3>. QED  BY <2>1, <3>2, <1>4 DEF Answers, AnswersFailed
  <2>2. CASE Fails(c) \/ Ends(c)
    <3>1. {"eos", "error"} \subseteq Messages
      BY DEF Messages
    <3>. QED  BY <2>2, <3>1, <1>4 DEF Fails, Ends
  <2>. QED  BY <1>5, <2>1, <2>2
<1>. QED  BY <1>2, <1>3, <1>5, QueueKept

LEMMA ThreadType == Records /\ RecNext => recThread' \in ThreadRecord
<1>. SUFFICES ASSUME Records, RecNext PROVE recThread' \in ThreadRecord
  OBVIOUS
<1>. recThread \in ThreadRecord
  BY DEF Records
<1>1. ASSUME NEW op \in RecOps, NoteAnswer(op) PROVE recThread' \in ThreadRecord
  <2>1. recThread' \in {recThread, [at |-> "advance", op |-> op]}
    BY <1>1 DEF NoteAnswer
  <2>. QED  BY <2>1 DEF ThreadRecord
<1>2. CASE Advance \/ AdvanceNull
  BY <1>2 DEF Advance, AdvanceNull, ThreadRecord
<1>. QED  BY <1>1, <1>2, ThreadKept

LEMMA DeviceType == Records /\ CommandShape /\ RecNext => device' \in [Parts -> DeviceRecord]
<1>. SUFFICES ASSUME Records, CommandShape, RecNext PROVE device' \in [Parts -> DeviceRecord]
  OBVIOUS
<1>. device \in [Parts -> DeviceRecord]
  BY DEF Records
<1>1. CASE RecPrepare
  <2>1. device' = [NewDevices EXCEPT !["source"].work = <<"prepare">>] /\ <<"prepare">> \in Seq(RecOps)
    BY <1>1, OpsAre DEF RecPrepare
  <2>2. NewDevices \in [Parts -> DeviceRecord]
    <3>1. <<>> \in Seq(RecOps) /\ "Null" \in RecStates
      BY StatesAre
    <3>. QED  BY <3>1 DEF NewDevices, DeviceRecord
  <2>. QED  BY <2>1, <2>2 DEF DeviceRecord
<1>2. CASE RecCallsAsync
  <2>1. Next1 \in Parts /\ recCmd.op \in RecOps
    BY <1>2, CallingIs DEF RecCallsAsync, MustCall
  <2>2. Append(device[Next1].work, recCmd.op) \in Seq(RecOps)
    BY <2>1, AppendIs DEF DeviceRecord
  <2>. QED  BY <1>2, <2>1, <2>2 DEF RecCallsAsync, DeviceRecord
<1>3. CASE RecCallsSync
  <2>1. Next1 \in Parts /\ recCmd.op \in RecOps
    BY <1>3, CallingIs DEF RecCallsSync, MustCall
  <2>2. Target[recCmd.op] \in RecStates
    BY <2>1, OpsAre
  <2>3. \E owes \in BOOLEAN : device' = [device EXCEPT ![Next1].is = Target[recCmd.op], !["fileSink"].owes = owes]
    BY <1>3 DEF RecCallsSync, DeviceRecord, Parts
  <2>. DEFINE mid == [device EXCEPT ![Next1].is = Target[recCmd.op]]
  <2>4. mid \in [Parts -> DeviceRecord]
    BY <2>1, <2>2 DEF DeviceRecord
  <2>5. \E owes \in BOOLEAN : device' = [mid EXCEPT !["fileSink"].owes = owes]
    BY <2>3
  <2>. HIDE DEF mid
  <2>. QED  BY <2>4, <2>5 DEF DeviceRecord
<1>4. ASSUME NEW c \in Parts, Answers(c) PROVE device' \in [Parts -> DeviceRecord]
  <2>1. device[c].work # <<>> /\ device[c].work \in Seq(RecOps)
    BY <1>4 DEF Answers, HasWork, DeviceRecord
  <2>2. Head(device[c].work) \in RecOps /\ Tail(device[c].work) \in Seq(RecOps)
    BY <2>1, TailIs
  <2>3. Target[Head(device[c].work)] \in RecStates
    BY <2>2, OpsAre
  <2>4. \E owes \in BOOLEAN : device' = [device EXCEPT ![c].work = Tail(device[c].work),
                                           ![c].is = Target[Head(device[c].work)], ![c].owes = owes]
    BY <1>4 DEF Answers, DeviceRecord, Records, RecRecord
  <2>. DEFINE mid == [device EXCEPT ![c].work = Tail(device[c].work), ![c].is = Target[Head(device[c].work)]]
  <2>5. mid \in [Parts -> DeviceRecord]
    <3>. DEFINE work == Tail(device[c].work)
                is   == Target[Head(device[c].work)]
    <3>1. work \in Seq(RecOps) /\ is \in RecStates
      BY <2>2, <2>3
    <3>. HIDE DEF work, is
    <3>2. [device EXCEPT ![c].work = work, ![c].is = is] \in [Parts -> DeviceRecord]
      BY <3>1 DEF DeviceRecord
    <3>. QED  BY <3>2 DEF work, is
  <2>6. \E owes \in BOOLEAN : device' = [mid EXCEPT ![c].owes = owes]
    BY <2>4
  <2>. HIDE DEF mid
  <2>. QED  BY <2>5, <2>6 DEF DeviceRecord
<1>5. ASSUME NEW c \in Parts, AnswersFailed(c) PROVE device' \in [Parts -> DeviceRecord]
  <2>1. device[c].work # <<>> /\ device[c].work \in Seq(RecOps)
    BY <1>5 DEF AnswersFailed, HasWork, DeviceRecord
  <2>2. Tail(device[c].work) \in Seq(RecOps)
    BY <2>1, TailIs
  <2>. QED  BY <1>5, <2>2 DEF AnswersFailed, DeviceRecord
<1>6. ASSUME NEW c \in Parts, Ends(c) PROVE device' \in [Parts -> DeviceRecord]
  BY <1>6 DEF Ends, DeviceRecord
<1>. QED  BY <1>1, <1>2, <1>3, <1>4, <1>5, <1>6, DeviceKept

LEMMA SeenType == Records /\ RecNext => recSeen' \in SeenRecord
<1>. SUFFICES ASSUME Records, RecNext PROVE recSeen' \in SeenRecord
  OBVIOUS
<1>. recSeen \in SeenRecord /\ rec \in RecRecord
  BY DEF Records
<1>1. ASSUME NEW op \in {"prepare", "start", "pause", "stop", "reset"}, RecCommand(op)
      PROVE  recSeen' \in SeenRecord
  BY <1>1 DEF RecCommand, SeenRecord
<1>2. CASE RecPrepare \/ RecStart
  BY <1>2 DEF RecPrepare, RecStart, SeenRecord
<1>3. CASE SignalEos
  BY <1>3 DEF SignalEos, SeenRecord, RecRecord
<1>4. ASSUME Fault PROVE recSeen' \in SeenRecord
  <2>1. recSeen.faults + 1 \in Nat /\ recSeen' = [recSeen EXCEPT !.faults = recSeen.faults + 1, !.faulty = TRUE]
    BY <1>4 DEF Fault, SeenRecord
  <2>. QED  BY <2>1 DEF SeenRecord
<1>5. ASSUME NEW c \in Parts, Ends(c) PROVE recSeen' \in SeenRecord
  BY <1>5 DEF Ends, SeenRecord
<1>. QED  BY <1>1, <1>2, <1>3, <1>4, <1>5, SeenKept DEF FileSinkFails, AnswersFailed, Fails

LEMMA RecordsStep == Records /\ CommandShape /\ RecNext => Records'
BY KindType, RecType, PartsType, CmdType, QueueType, ThreadType, DeviceType, SeenType DEF Records

LEMMA ShapeStep == Records /\ CommandShape /\ RecNext => CommandShape'
<1>. SUFFICES ASSUME Records, CommandShape, RecNext PROVE CommandShape'
  OBVIOUS
<1>. recCmd \in CmdRecord /\ rec \in RecRecord
  BY DEF Records
<1>1. ASSUME recCmd' = recCmd, rec'.connected = rec.connected PROVE CommandShape'
  BY <1>1 DEF CommandShape
<1>2. ASSUME recCmd'.op # "none", recCmd'.step \notin {"none", "source"} PROVE CommandShape'
  BY <1>2 DEF CommandShape
<1>3. ASSUME Returns PROVE CommandShape'
  <2>1. recCmd' = [Free EXCEPT !.op = "reset", !.step = "begin"] \/ recCmd' = Free
    BY <1>3 DEF Returns
  <2>2. Free.op = "none" /\ Free.step = "none"
    BY DEF Free
  <2>3. [Free EXCEPT !.op = "reset", !.step = "begin"].op = "reset"
        /\ [Free EXCEPT !.op = "reset", !.step = "begin"].step = "begin"
    BY DEF Free
  <2>4. recCmd'.op = "none" <=> recCmd'.step = "none"
    BY <2>1, <2>2, <2>3
  <2>5. recCmd'.step # "source"
    BY <2>1, <2>2, <2>3
  <2>. QED  BY <2>4, <2>5 DEF CommandShape
<1>4. ASSUME CallsAll, recCmd.step # "none" PROVE CommandShape'
  BY <1>2, <1>4 DEF CallsAll, CmdRecord, CommandShape
<1>5. ASSUME NEW op \in {"prepare", "start", "pause", "stop", "reset"}, RecCommand(op)
      PROVE  CommandShape'
  <2>1. recCmd' \in {[Free EXCEPT !.op = "resume", !.step = "begin"],
                     [Free EXCEPT !.op = "stop", !.step = "begin", !.reset = TRUE],
                     [Free EXCEPT !.op = op, !.step = "begin"]}
    BY <1>5 DEF RecCommand
  <2>2. recCmd'.op # "none" /\ recCmd'.step = "begin"
    BY <2>1 DEF Free
  <2>. QED  BY <2>2, <1>2
<1>6. CASE RecPrepare
  BY <1>6 DEF RecPrepare, At, CmdRecord, RecRecord, CommandShape
<1>7. CASE SourcePrepared \/ RecStart \/ RecCallsOnly \/ EosCame \/ RecReset
  BY <1>3, <1>4, <1>7 DEF SourcePrepared, RecStart, RecCallsOnly, EosCame, RecReset, At
<1>8. CASE RecSkips \/ RecCallsAsync \/ RecCallsSync
  <2>1. recCmd'.op = recCmd.op /\ recCmd'.step = recCmd.step /\ recCmd.step = "calls"
    BY <1>8 DEF RecSkips, RecCallsAsync, RecCallsSync, MustCall, Calling, Called, CmdRecord
  <2>. QED  BY <1>2, <2>1 DEF CommandShape
<1>9. CASE RecAlready \/ FileSinkFails \/ RecWaited
  BY <1>3, <1>9 DEF RecAlready, FileSinkFails, RecWaited
<1>10. CASE SignalEos
  BY <1>2, <1>3, <1>10 DEF SignalEos, At, CmdRecord
<1>11. CASE RecCalled
  BY <1>2, <1>3, <1>11 DEF RecCalled, CmdRecord, CommandShape
<1>12. ASSUME recCmd' = recCmd PROVE CommandShape'
  <2>1. CASE rec' = rec
    BY <1>1, <1>12, <2>1
  <2>2. CASE RecPrepare \/ SourcePrepared \/ RecStart \/ EosCame \/ RecReset \/ FileSinkFails \/ RecCalled \/ RecWaited
    BY <1>6, <1>7, <1>9, <1>11, <2>2
  <2>3. ASSUME NEW op \in RecOps, NoteAnswer(op) PROVE CommandShape'
    <3>1. rec' = [rec EXCEPT !.error = rec.error \/ ~Head(recQueue).ok]
      BY <2>3 DEF NoteAnswer
    <3>. QED  BY <1>1, <1>12, <3>1 DEF RecRecord
  <2>4. CASE Advance \/ AdvanceNull \/ OnEos \/ OnError
    BY <1>1, <1>12, <2>4 DEF Advance, AdvanceNull, OnEos, OnError, RecRecord
  <2>. QED  BY <2>1, <2>2, <2>3, <2>4, RecKept
<1>. QED  BY <1>5, <1>6, <1>7, <1>8, <1>9, <1>10, <1>11, <1>12, CmdKept

-----------------------------------------------------------------------------
(* While nothing fails the components are together.  Nobody is under way.   *)

Quiet ==
    /\ \A c \in Parts : device[c].work = <<>>
    /\ \A i \in DOMAIN recQueue : ~IsAnswer(recQueue[i])

LEMMA RestIsQuiet == OneCall /\ AnswersHere /\ ~Under => Quiet
BY DEF OneCall, AnswersHere, Quiet

LEMMA QuietAgain ==
    Quiet /\ device' = device /\ recQueue' = recQueue => OneCall' /\ AnswersHere'
<1>. SUFFICES ASSUME Quiet, device' = device, recQueue' = recQueue PROVE OneCall' /\ AnswersHere'
  OBVIOUS
<1>1. \A c \in Parts : device'[c].work = <<>>
  BY DEF Quiet
<1>2. \A i \in DOMAIN recQueue' : ~IsAnswer(recQueue'[i])
  BY DEF Quiet
<1>3. OneCall'
  BY <1>1 DEF OneCall
<1>4. AnswersHere'
  BY <1>2 DEF AnswersHere
<1>. QED  BY <1>3, <1>4

(* From a place at rest to another one.                                    *)
LEMMA StaysAtRest ==
    ASSUME Records, Together, ~Under, recCmd'.step \in {"none", "begin", "eos"}, recCmd'.left = <<>>,
           UNCHANGED <<recKind, rec, parts, recQueue, recThread, device>>, CommandPlace'
    PROVE  Together'
<1>1. NoErrors'
  BY DEF Together, NoErrors
<1>2. CallsLeft'
  BY DEF CallsLeft
<1>3. OneCall' /\ AnswersHere'
  BY RestIsQuiet, QuietAgain DEF Together
<1>4. ~Under' /\ ReachedIsTrue' /\ EncoderLast'
  BY DEF Under, ReachedIsTrue, EncoderLast
<1>5. recCmd.step \in {"none", "begin", "eos"}
  BY DEF Under, Records, CmdRecord, Steps
<1>6. AtRestTogether'
  BY <1>5 DEF Together, AtRestTogether, Built
<1>7. ThreadPlace'
  BY <1>4 DEF Together, ThreadPlace, Calls, Under
<1>. QED  BY <1>1, <1>2, <1>3, <1>4, <1>6, <1>7 DEF Together

LEMMA ReturnsIs ==
    ASSUME Returns
    PROVE  /\ recCmd'.left = <<>>
           /\ \/ recCmd.reset /\ recCmd'.op = "reset" /\ recCmd'.step = "begin" /\ ~recCmd'.reset
              \/ ~recCmd.reset /\ recCmd' = Free
           /\ Free.op = "none" /\ Free.step = "none" /\ ~Free.reset
<1>1. Free.op = "none" /\ Free.step = "none" /\ ~Free.reset /\ Free.left = <<>>
  BY DEF Free
<1>2. LET next == [Free EXCEPT !.op = "reset", !.step = "begin"]
      IN  next.left = <<>> /\ next.op = "reset" /\ next.step = "begin" /\ ~next.reset
  BY DEF Free
<1>. QED  BY <1>1, <1>2 DEF Returns

(* A command returns, or a reset follows its stop.                          *)
LEMMA ReturnPlace ==
    ASSUME Returns, ~recCmd.reset \/ rec'.state \in {"Stopped", "Null"}, ~rec'.built => rec'.state = "Null",
           recCmd.reset => rec'.built,
           rec'.state \in {"Null", "Prepared", "Playing", "Paused", "Stopped"}
    PROVE  CommandPlace' /\ ~Under' /\ recCmd'.step \in {"none", "begin"} /\ recCmd'.left = <<>>
<1>1. /\ recCmd'.left = <<>>
      /\ \/ recCmd.reset /\ recCmd'.op = "reset" /\ recCmd'.step = "begin" /\ ~recCmd'.reset
         \/ recCmd' = Free /\ recCmd'.op = "none" /\ recCmd'.step = "none" /\ ~recCmd'.reset
  BY ReturnsIs
<1>. QED  BY <1>1 DEF CommandPlace, Under, Calls

LEMMA CommandTogether ==
    ASSUME NEW op \in {"prepare", "start", "pause", "stop", "reset"},
           Records, CommandShape, Together, RecCommand(op)
    PROVE  Together'
<1>1. UNCHANGED <<recKind, rec, parts, recQueue, recThread, device>> /\ recCmd = Free
  BY DEF RecCommand
<1>2. rec.built \/ op = "prepare"
  BY DEF RecCommand
<1>3. ~Under
  BY <1>1 DEF Free, Under
<1>4. /\ recCmd'.step = "begin" /\ recCmd'.left = <<>>
      /\ recCmd'.op \in {"resume", "stop"} => op # "prepare"
      /\ recCmd'.op \in {"resume", "stop", op}
      /\ recCmd'.reset => recCmd'.op = "stop"
      /\ recCmd'.op = "reset" => rec.state \in {"Null", "Stop", "Stopped"}
      /\ recCmd'.op = "resume" => rec.state = "Paused"
      /\ recCmd'.op = "start" => rec.state # "Paused"
  <2>1. CASE op = "start" /\ rec.state = "Paused"
    <3>1. recCmd' = [Free EXCEPT !.op = "resume", !.step = "begin"]
      BY <2>1 DEF RecCommand
    <3>. QED  BY <2>1, <3>1 DEF Free
  <2>2. CASE op = "reset" /\ rec.state \notin {"Null", "Stop", "Stopped"}
    <3>1. recCmd' = [Free EXCEPT !.op = "stop", !.step = "begin", !.reset = TRUE]
      BY <2>2 DEF RecCommand
    <3>. QED  BY <2>2, <3>1 DEF Free
  <2>3. CASE ~(op = "start" /\ rec.state = "Paused") /\ ~(op = "reset" /\ rec.state \notin {"Null", "Stop", "Stopped"})
    <3>1. recCmd' = [Free EXCEPT !.op = op, !.step = "begin"]
      BY <2>3 DEF RecCommand
    <3>. QED  BY <2>3, <3>1 DEF Free
  <2>. QED  BY <2>1, <2>2, <2>3
<1>5. CommandPlace'
  BY <1>1, <1>2, <1>4 DEF Together, CommandPlace, Under, Calls
<1>. QED  BY <1>1, <1>3, <1>4, <1>5, StaysAtRest

LEMMA AlreadyTogether ==
    ASSUME Records, CommandShape, Together, RecAlready
    PROVE  Together'
<1>1. /\ UNCHANGED <<recKind, rec, parts, recQueue, recThread, device>> /\ recCmd.step = "begin" /\ Returns
      /\ NothingToDo
  BY DEF RecAlready
<1>2. CommandPlace
  BY DEF Together
<1>3. recCmd.reset => rec.state \in {"Stopped", "Null"}
  BY <1>1, <1>2 DEF CommandPlace, NothingToDo
<1>4. recCmd.reset => rec.built
  BY <1>2 DEF CommandPlace
<1>5. (~rec.built => rec.state = "Null") /\ rec.state \in {"Null", "Prepared", "Playing", "Paused", "Stopped"}
  BY <1>2 DEF CommandPlace
<1>6. recCmd.reset \in BOOLEAN
  BY DEF Records, CmdRecord
<1>7. CommandPlace' /\ recCmd'.step \in {"none", "begin"} /\ recCmd'.left = <<>>
  BY <1>1, <1>3, <1>4, <1>5, <1>6, ReturnPlace
<1>8. ~Under
  BY <1>1 DEF Under
<1>. QED  BY <1>1, <1>7, <1>8, StaysAtRest

LEMMA SignalTogether ==
    ASSUME Records, CommandShape, Together, SignalEos
    PROVE  Together'
<1>1. /\ UNCHANGED <<recKind, rec, parts, recQueue, recThread, device>> /\ recCmd.step = "begin"
      /\ recCmd.op = "stop" /\ rec.state \in {"Playing", "Paused"} /\ ~rec.error
  BY DEF SignalEos, At, Together, NoErrors
<1>2. recCmd' = [recCmd EXCEPT !.step = "eos"] /\ recCmd.left = <<>>
  BY <1>1 DEF SignalEos, Together, CallsLeft
<1>3. recCmd'.step = "eos" /\ recCmd'.op = "stop" /\ recCmd'.left = <<>> /\ recCmd'.reset = recCmd.reset
  BY <1>1, <1>2 DEF Records, CmdRecord
<1>4. CommandPlace'
  BY <1>1, <1>3 DEF Together, CommandPlace, Under, Calls
<1>5. ~Under
  BY <1>1 DEF Under
<1>. QED  BY <1>1, <1>3, <1>4, <1>5, StaysAtRest

(* From a place at rest to the calls.                                      *)
LEMMA CallsAllIs ==
    ASSUME Records, CallsAll
    PROVE  /\ recCmd'.op = recCmd.op /\ recCmd'.step = "calls" /\ recCmd'.left = Order
           /\ recCmd'.reset = recCmd.reset /\ recCmd'.async = recCmd.async
  BY DEF CallsAll, Records, CmdRecord

LEMMA AllLeftToCall ==
    ASSUME recCmd'.step = "calls", recCmd'.left = Order, recKind' = recKind
    PROVE  CallsLeft' /\ Under' /\ Calls'
<1>1. Built' = Built
  BY DEF Built
<1>2. \A i \in DOMAIN Order : Order[i] \in Built
  BY OrderIs
<1>3. CallsLeft'
  BY <1>1, <1>2, OrderIs DEF CallsLeft
<1>. QED  BY <1>3 DEF Under, Calls

LEMMA EntersCalls ==
    ASSUME Records, Together, recCmd.step \in {"begin", "eos"}, recCmd.op \in RecOps \ {"prepare"},
           rec.built, rec.state # Target[recCmd.op], CallsAll,
           UNCHANGED <<recKind, parts, recQueue, recThread, device>>,
           rec'.state = rec.state, rec'.built, ~rec'.error, recCmd.op = "reset" => ~rec'.resetDone
    PROVE  Together'
<1>1. /\ recCmd'.op = recCmd.op /\ recCmd'.step = "calls" /\ recCmd'.left = Order
      /\ recCmd'.reset = recCmd.reset /\ CallsLeft' /\ Under' /\ Calls'
  BY CallsAllIs, AllLeftToCall
<1>2. ~Under /\ AtRestTogether /\ CommandPlace
  BY DEF Under, Together
<1>3. Built' = Built
  BY DEF Built
<1>4. \A c \in Built : ~Reached(c, recCmd.op)'
  <2>1. \A c \in Built : parts[c].state = rec.state /\ ~parts[c].reset
    BY <1>2 DEF AtRestTogether
  <2>. QED  BY <1>1, <2>1 DEF Reached
<1>5. NoErrors'
  BY DEF Together, NoErrors
<1>6. OneCall' /\ AnswersHere'
  BY <1>2, RestIsQuiet, QuietAgain DEF Together
<1>7. ReachedIsTrue' /\ EncoderLast'
  BY <1>1, <1>3, <1>4, OrderIs DEF ReachedIsTrue, EncoderLast
<1>8. AtRestTogether'
  BY <1>1 DEF AtRestTogether
<1>9. CommandPlace'
  <2>1. \A c \in Built : ~parts[c].reset
    BY <1>2 DEF AtRestTogether
  <2>. QED  BY <1>1, <1>2, <1>3, <2>1 DEF CommandPlace
<1>10. ThreadPlace'
  BY <1>1, <1>2, <1>4, OrderIs DEF Together, ThreadPlace, Calls, Under
<1>. QED  BY <1>1, <1>5, <1>6, <1>7, <1>8, <1>9, <1>10 DEF Together

LEMMA CallsTogether ==
    ASSUME Records, CommandShape, Together, RecStart \/ RecCallsOnly \/ EosCame \/ RecReset
    PROVE  Together'
<1>. DEFINE op == recCmd.op
<1>1. CommandPlace /\ ~rec.error /\ AtRestTogether /\ rec \in RecRecord
  BY DEF Together, NoErrors, Records
<1>2. /\ recCmd.step \in {"begin", "eos"} /\ op \in RecOps \ {"prepare"} /\ rec.state # Target[op]
      /\ CallsAll /\ op # "none"
  BY <1>1, OpsAre DEF RecStart, RecCallsOnly, EosCame, RecReset, At, NothingToDo, CommandPlace
<1>3. UNCHANGED <<recKind, parts, recQueue, recThread, device>>
  BY DEF RecStart, RecCallsOnly, EosCame, RecReset
<1>4. rec'.state = rec.state /\ rec'.built = rec.built /\ ~rec'.error /\ (op = "reset" => ~rec'.resetDone)
  <2>1. CASE RecStart
    BY <1>1, <2>1 DEF RecStart, At, RecRecord
  <2>2. CASE RecCallsOnly
    BY <1>1, <2>2 DEF RecCallsOnly
  <2>3. CASE EosCame
    BY <1>1, <2>3 DEF EosCame, CommandPlace, RecRecord
  <2>4. CASE RecReset
    BY <1>1, <2>4 DEF RecReset, RecRecord
  <2>. QED  BY <2>1, <2>2, <2>3, <2>4
<1>5. rec.built
  BY <1>1, <1>2 DEF CommandPlace
<1>. QED  BY <1>2, <1>3, <1>4, <1>5, EntersCalls

LEMMA PrepareTogether ==
    ASSUME Records, CommandShape, Together, RecPrepare
    PROVE  Together'
<1>1. /\ recCmd.op = "prepare" /\ recCmd.step = "begin" /\ rec.state = "Null"
      /\ UNCHANGED <<recKind, recQueue, recThread>>
      /\ rec' = [rec EXCEPT !.connected = 1, !.built = TRUE, !.graph = FALSE]
      /\ parts' = [NewParts EXCEPT !["source"].state = "Preparing"]
      /\ device' = [NewDevices EXCEPT !["source"].work = <<"prepare">>]
      /\ recCmd' = [recCmd EXCEPT !.step = "source"]
  BY OpsAre DEF RecPrepare, At, NothingToDo
<1>2. /\ recCmd'.op = "prepare" /\ recCmd'.step = "source" /\ recCmd'.left = recCmd.left /\ recCmd'.reset = recCmd.reset
      /\ rec'.state = "Null" /\ rec'.built /\ rec'.error = rec.error /\ rec'.resetDone = rec.resetDone
  BY <1>1 DEF Records, CmdRecord, RecRecord
<1>3. /\ \A c \in Parts : ~parts'[c].reset /\ parts'[c].state \in {"Null", "Preparing"}
      /\ \A c \in Parts : c # "source" => device'[c].work = <<>>
      /\ device'["source"].work = <<"prepare">>
  BY <1>1 DEF NewParts, NewDevices, Parts
<1>4. Quiet /\ recCmd.left = <<>>
  <2>1. ~Under
    BY <1>1 DEF Under
  <2>. QED  BY <1>1, <2>1, RestIsQuiet DEF Together, CallsLeft
<1>5. Built' = Built /\ Under' /\ ~Calls'
  BY <1>1, <1>2 DEF Built, Under, Calls
<1>6. \A c \in Parts : ~Reached(c, "prepare")'
  BY <1>3, OpsAre DEF Reached
<1>7. NoErrors' /\ CallsLeft'
  BY <1>1, <1>2, <1>4 DEF Together, NoErrors, CallsLeft
<1>8. \A i \in DOMAIN recQueue' : ~IsAnswer(recQueue'[i])
  BY <1>1, <1>4 DEF Quiet
<1>9. AnswersHere'
  BY <1>8 DEF AnswersHere
<1>10. OneCall'
  <2>1. Uncalled' = Parts \ {"source"}
    BY <1>2 DEF Uncalled
  <2>2. \A c \in Parts : ~AnswerOf(c)'
    BY <1>8 DEF AnswerOf
  <2>. QED  BY <1>2, <1>3, <1>5, <1>6, <2>1, <2>2, OrderIs DEF OneCall
<1>11. ReachedIsTrue' /\ EncoderLast' /\ AtRestTogether'
  BY <1>2, <1>5, <1>6, OrderIs DEF ReachedIsTrue, EncoderLast, AtRestTogether
<1>12. CommandPlace'
  <2>1. ~recCmd'.reset
    BY <1>1, <1>2 DEF Together, CommandPlace
  <2>. QED  BY <1>2, <1>3, <1>5, <2>1, OrderIs DEF CommandPlace
<1>13. ThreadPlace'
  <2>1. recThread.at # "none" => rec.state = Target[recThread.op]
    BY <1>1 DEF Together, ThreadPlace, Calls
  <2>. QED  BY <1>1, <1>2, <1>6, <2>1, OrderIs DEF Together, ThreadPlace
<1>. QED  BY <1>7, <1>9, <1>10, <1>11, <1>12, <1>13 DEF Together

LEMMA PreparedTogether ==
    ASSUME Records, CommandShape, Together, SourcePrepared
    PROVE  Together'
<1>1. /\ recCmd.step = "source" /\ recCmd.op = "prepare" /\ parts["source"].state = "Prepared"
      /\ CallsAll /\ UNCHANGED <<recKind, parts, recQueue, recThread, device>>
  BY OpsAre DEF SourcePrepared, Together, CommandPlace
<1>2. rec'.state = rec.state /\ rec'.built = rec.built /\ ~rec'.error /\ rec'.resetDone = rec.resetDone
  BY DEF SourcePrepared, Records, RecRecord
<1>3. /\ recCmd'.op = "prepare" /\ recCmd'.step = "calls" /\ recCmd'.left = Order
      /\ recCmd'.reset = recCmd.reset /\ CallsLeft' /\ Under' /\ Calls'
  BY <1>1, CallsAllIs, AllLeftToCall
<1>4. Built' = Built /\ Under
  BY <1>1 DEF Built, Under
<1>5. Reached("source", "prepare")
  BY <1>1, OpsAre DEF Reached
<1>6. Uncalled = Parts \ {"source"}
  BY <1>1 DEF Uncalled
<1>7. Quiet
  <2>1. \A c \in Parts : device[c].work = <<>>
    BY <1>1, <1>5, <1>6 DEF Together, OneCall
  <2>2. \A i \in DOMAIN recQueue : recQueue[i].c \in Parts
    <3>. DEFINE S == MessageRecord
    <3>1. recQueue \in Seq(S)
      BY DEF Records
    <3>. HIDE DEF S
    <3>2. \A i \in DOMAIN recQueue : recQueue[i] \in S
      BY <3>1, EmptyIs
    <3>. QED  BY <3>2 DEF S, MessageRecord
  <2>3. \A i \in DOMAIN recQueue : ~IsAnswer(recQueue[i])
    BY <1>1, <1>5, <1>6, <2>2 DEF Together, AnswersHere
  <2>. QED  BY <2>1, <2>3 DEF Quiet
<1>8. NoErrors'
  BY <1>1, <1>2 DEF Together, NoErrors
<1>9. OneCall' /\ AnswersHere'
  BY <1>1, <1>7, QuietAgain
<1>10. \A c \in Built : Reached(c, "prepare")' <=> Reached(c, "prepare")
  BY <1>1 DEF Reached
<1>11. ReachedIsTrue' /\ EncoderLast' /\ AtRestTogether'
  BY <1>1, <1>3, <1>4, <1>10, OrderIs DEF Together, ReachedIsTrue, EncoderLast, AtRestTogether
<1>12. CommandPlace'
  BY <1>1, <1>2, <1>3, <1>4, OpsAre DEF Together, CommandPlace
<1>13. ThreadPlace'
  BY <1>1, <1>2, <1>3, <1>4, <1>10, OrderIs DEF Together, ThreadPlace, Calls
<1>. QED  BY <1>3, <1>8, <1>9, <1>11, <1>12, <1>13 DEF Together

-----------------------------------------------------------------------------
(* The calls.                                                              *)

LEMMA CalledIs ==
    ASSUME NEW async \in BOOLEAN, Records, CommandShape, CallsLeft, Calling, Called(async)
    PROVE  /\ recCmd'.op = recCmd.op /\ recCmd'.step = "calls" /\ recCmd'.reset = recCmd.reset
           /\ recCmd.step = "calls" /\ recCmd.op \in RecOps
           /\ recCmd'.left = Tail(recCmd.left) /\ recCmd.left # <<>> /\ recCmd'.async = (recCmd.async \/ async)
           /\ Under /\ Under' /\ Calls /\ Calls'
           /\ Next1 \in Built /\ Next1 \in Uncalled /\ Uncalled' = Uncalled \ {Next1} /\ "encoder" \in Uncalled
           /\ Uncalled \subseteq Built
           /\ recCmd'.left # <<>> => Next1 # "encoder"
           /\ recCmd'.left = <<>> => Next1 = "encoder"
<1>. DEFINE left == recCmd.left
<1>1. recCmd.step = "calls" /\ left # <<>> /\ left \in Seq(Parts) /\ recCmd.op \in RecOps
  BY CallingIs DEF Calling, Records, CmdRecord
<1>2. /\ recCmd'.op = recCmd.op /\ recCmd'.step = "calls" /\ recCmd'.reset = recCmd.reset
      /\ recCmd'.left = Tail(left) /\ recCmd'.async = (recCmd.async \/ async)
  BY <1>1 DEF Called, Records, CmdRecord
<1>3. Under /\ Under' /\ Calls /\ Calls'
  BY <1>1, <1>2 DEF Under, Calls
<1>4. /\ \A i, j \in DOMAIN left : left[i] = left[j] => i = j
      /\ \A i \in DOMAIN left : left[i] \in Built
      /\ left[Len(left)] = "encoder"
  BY <1>1 DEF CallsLeft
<1>5. /\ Tail(left) \in Seq(Parts) /\ Len(left) > 0 /\ Len(Tail(left)) = Len(left) - 1 /\ Next1 = left[1]
      /\ \A i \in 1 .. Len(left) - 1 : Tail(left)[i] = left[i + 1]
      /\ DOMAIN left = 1 .. Len(left) /\ Len(left) \in Nat
      /\ DOMAIN Tail(left) = 1 .. Len(Tail(left)) /\ (Tail(left) = <<>> <=> Len(Tail(left)) = 0)
  <2>1. Tail(left) \in Seq(Parts) /\ Len(left) > 0 /\ Len(Tail(left)) = Len(left) - 1 /\ Next1 = left[1]
        /\ \A i \in 1 .. Len(left) - 1 : Tail(left)[i] = left[i + 1]
    BY <1>1, TailIs DEF Next1
  <2>. QED  BY <1>1, <2>1, EmptyIs
<1>6. Uncalled = {left[i] : i \in DOMAIN left} /\ Uncalled' = {Tail(left)[i] : i \in DOMAIN Tail(left)}
  BY <1>1, <1>2 DEF Uncalled
<1>. HIDE DEF left
<1>7. Next1 \in Built /\ Next1 \in Uncalled /\ "encoder" \in Uncalled /\ Uncalled \subseteq Built
  BY <1>4, <1>5, <1>6
<1>8. \A c : c \in Uncalled' => c \in Uncalled /\ c # Next1
  BY <1>4, <1>5, <1>6
<1>9. ASSUME NEW c, c \in Uncalled, c # Next1 PROVE c \in Uncalled'
  <2>1. PICK i \in DOMAIN left : left[i] = c
    BY <1>6, <1>9
  <2>2. i # 1 /\ i - 1 \in DOMAIN Tail(left) /\ Tail(left)[i - 1] = c
    BY <1>5, <1>9, <2>1
  <2>. QED  BY <1>6, <2>2
<1>10. Tail(left) # <<>> => Next1 # "encoder"
  BY <1>4, <1>5
<1>11. Tail(left) = <<>> => Next1 = "encoder"
  BY <1>4, <1>5
<1>. QED  BY <1>1, <1>2, <1>3, <1>7, <1>8, <1>9, <1>10, <1>11 DEF left

LEMMA CalledLeft ==
    ASSUME NEW async \in BOOLEAN, Records, CommandShape, CallsLeft, Calling, Called(async), recKind' = recKind,
           Next1 = "encoder" => async
    PROVE  CallsLeft'
<1>. DEFINE left == recCmd.left
<1>1. /\ recCmd'.step = "calls" /\ recCmd'.left = Tail(left) /\ left # <<>> /\ left \in Seq(Parts)
      /\ recCmd'.async = (recCmd.async \/ async)
      /\ recCmd'.left = <<>> => Next1 = "encoder"
  BY CalledIs DEF Records, CmdRecord
<1>2. /\ \A i, j \in DOMAIN left : left[i] = left[j] => i = j
      /\ \A i \in DOMAIN left : left[i] \in Built
      /\ left[Len(left)] = "encoder"
  BY <1>1 DEF CallsLeft
<1>3. /\ Len(left) > 0 /\ Len(Tail(left)) = Len(left) - 1
      /\ \A i \in 1 .. Len(left) - 1 : Tail(left)[i] = left[i + 1]
      /\ DOMAIN left = 1 .. Len(left) /\ Len(left) \in Nat
      /\ DOMAIN Tail(left) = 1 .. Len(Tail(left)) /\ (Tail(left) = <<>> <=> Len(Tail(left)) = 0)
  <2>1. Tail(left) \in Seq(Parts) /\ Len(left) > 0 /\ Len(Tail(left)) = Len(left) - 1
        /\ \A i \in 1 .. Len(left) - 1 : Tail(left)[i] = left[i + 1]
    BY <1>1, TailIs
  <2>. QED  BY <1>1, <2>1, EmptyIs
<1>. HIDE DEF left
<1>4. /\ \A i, j \in DOMAIN Tail(left) : Tail(left)[i] = Tail(left)[j] => i = j
      /\ \A i \in DOMAIN Tail(left) : Tail(left)[i] \in Built
      /\ Tail(left) # <<>> => Tail(left)[Len(Tail(left))] = "encoder"
  BY <1>2, <1>3
<1>5. Built' = Built
  BY DEF Built
<1>. QED  BY <1>1, <1>4, <1>5 DEF CallsLeft

(* Some part is called or skipped: the thread of the pipeline cannot have   *)
(* anything to set for this command, because the encoder is still to come.  *)
LEMMA NotAllReached ==
    ASSUME Records, CommandShape, Together, Calling
    PROVE  /\ ~Reached("encoder", recCmd.op) /\ ~AllReached
           /\ recThread.at # "none" => rec.state = Target[recThread.op]
           /\ rec.state # Target[recCmd.op]
           /\ recCmd.op = "reset" => ~rec.resetDone
<1>1. recCmd.left # <<>> /\ recCmd.step = "calls"
  BY DEF Calling
<1>2. ~Reached("encoder", recCmd.op)
  BY <1>1 DEF Together, EncoderLast
<1>3. ~AllReached /\ Calls
  BY <1>1, <1>2, OrderIs DEF AllReached, Calls
<1>. QED  BY <1>2, <1>3 DEF Together, ThreadPlace, CommandPlace

LEMMA SkipsTogether ==
    ASSUME Records, CommandShape, Together, RecSkips
    PROVE  Together'
<1>1. /\ Calling /\ recCmd.op # "reset" /\ parts[Next1].state = Target[recCmd.op] /\ Called(FALSE)
      /\ UNCHANGED <<recKind, rec, parts, recQueue, recThread, device>>
  BY DEF RecSkips
<1>2. CallsLeft
  BY DEF Together
<1>3. /\ recCmd'.op = recCmd.op /\ recCmd'.step = "calls" /\ recCmd.step = "calls" /\ recCmd'.reset = recCmd.reset
      /\ Under /\ Under' /\ Calls /\ Calls'
      /\ Next1 \in Built /\ Uncalled' = Uncalled \ {Next1}
  BY <1>1, <1>2, CalledIs
<1>4. Next1 # "encoder"
  BY <1>1, NotAllReached DEF Reached
<1>5. CallsLeft'
  BY <1>1, <1>2, <1>4, CalledLeft
<1>6. Built' = Built /\ (\A c : Reached(c, recCmd.op)' <=> Reached(c, recCmd.op)) /\ (AllReached' <=> AllReached)
      /\ (\A c : AnswerOf(c)' <=> AnswerOf(c))
  BY <1>1, <1>3 DEF Built, Reached, AllReached, AnswerOf, IsAnswer
<1>7. NoErrors'
  BY <1>1 DEF Together, NoErrors
<1>8. OneCall'
  BY <1>1, <1>3, <1>6 DEF Together, OneCall
<1>9. AnswersHere'
  BY <1>1, <1>3, <1>6 DEF Together, AnswersHere, IsAnswer
<1>10. ReachedIsTrue' /\ EncoderLast' /\ AtRestTogether'
  BY <1>1, <1>3, <1>6, NotAllReached DEF Together, ReachedIsTrue, EncoderLast, AtRestTogether
<1>11. CommandPlace'
  BY <1>1, <1>3, <1>6 DEF Together, CommandPlace
<1>12. ThreadPlace'
  BY <1>1, <1>3, <1>6 DEF Together, ThreadPlace
<1>. QED  BY <1>5, <1>7, <1>8, <1>9, <1>10, <1>11, <1>12 DEF Together

LEMMA AsyncTogether ==
    ASSUME Records, CommandShape, Together, RecCallsAsync
    PROVE  Together'
<1>0. PICK op \in RecOps, n \in Parts : op = recCmd.op /\ n = Next1
  BY CallingIs DEF RecCallsAsync, MustCall
<1>1. /\ Calling /\ (op = "reset" \/ parts[n].state # Target[op]) /\ Called(TRUE)
      /\ parts' = IF op = "reset" THEN [parts EXCEPT ![n].reset = FALSE]
                  ELSE [parts EXCEPT ![n].state = Doing[op]]
      /\ device' = [device EXCEPT ![n].work = Append(@, op)]
      /\ UNCHANGED <<recKind, rec, recQueue, recThread>>
  BY <1>0 DEF RecCallsAsync, MustCall
<1>2. CallsLeft /\ OneCall /\ AnswersHere
  BY DEF Together
<1>3. /\ recCmd'.op = op /\ recCmd'.step = "calls" /\ recCmd.step = "calls" /\ recCmd'.reset = recCmd.reset
      /\ Under /\ Under' /\ Calls /\ Calls' /\ op \in RecOps
      /\ n \in Built /\ n \in Uncalled /\ Uncalled' = Uncalled \ {n}
  BY <1>0, <1>1, <1>2, CalledIs
<1>4. n \in Parts /\ parts \in [Parts -> PartRecord] /\ device \in [Parts -> DeviceRecord]
  BY <1>0, <1>3, OrderIs DEF Records
<1>5. CallsLeft'
  BY <1>0, <1>1, <1>2, CalledLeft
<1>6. /\ \A c \in Parts : c # n => parts'[c] = parts[c] /\ device'[c] = device[c]
      /\ \A c \in Parts : device'[c].is = device[c].is
      /\ device'[n].work = Append(device[n].work, op)
      /\ ~Reached(n, op)'
      /\ op # "reset" => \A c \in Parts : parts'[c].reset = parts[c].reset
  BY <1>0, <1>1, <1>4, <1>3, OpsAre DEF PartRecord, DeviceRecord, Reached
<1>7. device[n].work = <<>> /\ ~AnswerOf(n)
  BY <1>0, <1>2, <1>3, <1>4 DEF OneCall, AnswersHere, AnswerOf
<1>8. device'[n].work = <<op>>
  BY <1>0, <1>6, <1>7
<1>9. Built' = Built /\ Built \subseteq Parts /\ (\A c : AnswerOf(c)' <=> AnswerOf(c))
  BY <1>0, <1>1, OrderIs DEF Built, AnswerOf, IsAnswer
<1>10. \A c \in Parts : c # n => (Reached(c, op)' <=> Reached(c, op))
  BY <1>0, <1>6 DEF Reached
<1>11. /\ ~Reached("encoder", op) /\ rec.state # Target[op] /\ (op = "reset" => ~rec.resetDone)
       /\ (recThread.at # "none" => rec.state = Target[recThread.op])
  BY <1>0, <1>1, NotAllReached
<1>12. ~Reached("encoder", op)'
  BY <1>0, <1>6, <1>9, <1>10, <1>11, OrderIs
<1>13. NoErrors'
  BY <1>1 DEF Together, NoErrors
<1>14. OneCall'
  BY <1>0, <1>2, <1>3, <1>6, <1>7, <1>8, <1>9, <1>10 DEF OneCall
<1>15. AnswersHere'
  <2>1. \A i \in DOMAIN recQueue : IsAnswer(recQueue[i]) => recQueue[i].c # n
    BY <1>0, <1>7 DEF AnswerOf
  <2>. QED  BY <1>0, <1>1, <1>2, <1>3, <1>6, <1>9, <1>10, <2>1 DEF AnswersHere, IsAnswer
<1>16. ReachedIsTrue'
  BY <1>0, <1>3, <1>6, <1>9, <1>10 DEF Together, ReachedIsTrue
<1>17. EncoderLast' /\ AtRestTogether'
  BY <1>0, <1>3, <1>12 DEF EncoderLast, AtRestTogether
<1>18. CommandPlace'
  BY <1>0, <1>1, <1>3, <1>6, <1>9, <1>11 DEF Together, CommandPlace
<1>19. ThreadPlace'
  BY <1>0, <1>1, <1>3, <1>11, <1>12 DEF Together, ThreadPlace
<1>. QED  BY <1>5, <1>13, <1>14, <1>15, <1>16, <1>17, <1>18, <1>19 DEF Together

LEMMA SyncTogether ==
    ASSUME Records, CommandShape, Together, RecCallsSync
    PROVE  Together'
<1>0. PICK op \in RecOps, n \in Parts : op = recCmd.op /\ n = Next1
  BY CallingIs DEF RecCallsSync, MustCall
<1>1. /\ Calling /\ ~IsAsync(n, op) /\ Called(FALSE)
      /\ parts' = IF op = "reset" THEN [parts EXCEPT ![n].reset = TRUE]
                  ELSE [parts EXCEPT ![n].state = Target[op]]
      /\ UNCHANGED <<recKind, rec, recQueue, recThread>>
  BY <1>0 DEF RecCallsSync, MustCall
<1>2. CallsLeft /\ OneCall /\ AnswersHere
  BY DEF Together
<1>3. /\ recCmd'.op = op /\ recCmd'.step = "calls" /\ recCmd.step = "calls" /\ recCmd'.reset = recCmd.reset
      /\ Under /\ Under' /\ Calls /\ Calls' /\ op \in RecOps
      /\ n \in Built /\ n \in Uncalled /\ Uncalled' = Uncalled \ {n}
  BY <1>0, <1>1, <1>2, CalledIs
<1>4. n \in Parts /\ parts \in [Parts -> PartRecord] /\ device \in [Parts -> DeviceRecord] /\ "fileSink" \in Parts
  BY <1>0, <1>3, OrderIs DEF Records
<1>5. n # "encoder"
  BY <1>0, <1>1, <1>3, OpsAre DEF IsAsync
<1>6. CallsLeft'
  BY <1>0, <1>1, <1>2, <1>5, CalledLeft
<1>7. /\ \A c \in Parts : device'[c].work = device[c].work
      /\ \A c \in Parts : device'[c].is = IF c = n THEN Target[op] ELSE device[c].is
  <2>1. device' = [device EXCEPT ![n].is = Target[op],
                      !["fileSink"].owes = @ \/ (n = "muxer" /\ op = "start")]
    BY <1>0 DEF RecCallsSync
  <2>. QED  BY <1>4, <2>1 DEF DeviceRecord
<1>8. /\ \A c \in Parts : c # n => parts'[c] = parts[c]
      /\ op # "reset" => \A c \in Parts : parts'[c].reset = parts[c].reset
  BY <1>0, <1>1, <1>4 DEF PartRecord
<1>9. device[n].work = <<>> /\ ~AnswerOf(n)
  BY <1>0, <1>2, <1>3, <1>4 DEF OneCall, AnswersHere, AnswerOf
<1>10. Built' = Built /\ Built \subseteq Parts /\ (\A c : AnswerOf(c)' <=> AnswerOf(c))
  BY <1>0, <1>1, OrderIs DEF Built, AnswerOf, IsAnswer
<1>11. \A c \in Parts : c # n => (Reached(c, op)' <=> Reached(c, op))
  BY <1>0, <1>8 DEF Reached
<1>12. /\ ~Reached("encoder", op) /\ rec.state # Target[op] /\ (op = "reset" => ~rec.resetDone)
       /\ (recThread.at # "none" => rec.state = Target[recThread.op])
  BY <1>0, <1>1, NotAllReached
<1>13. ~Reached("encoder", op)'
  BY <1>0, <1>5, <1>10, <1>11, <1>12, OrderIs
<1>14. NoErrors'
  BY <1>1 DEF Together, NoErrors
<1>15. OneCall'
  BY <1>0, <1>2, <1>3, <1>7, <1>9, <1>10, <1>11 DEF OneCall
<1>16. AnswersHere'
  <2>1. \A i \in DOMAIN recQueue : IsAnswer(recQueue[i]) => recQueue[i].c # n
    BY <1>0, <1>9 DEF AnswerOf
  <2>. QED  BY <1>0, <1>1, <1>2, <1>3, <1>7, <1>10, <1>11, <2>1 DEF AnswersHere, IsAnswer
<1>17. ReachedIsTrue'
  BY <1>0, <1>3, <1>7, <1>10, <1>11 DEF Together, ReachedIsTrue
<1>18. EncoderLast' /\ AtRestTogether'
  BY <1>0, <1>3, <1>13 DEF EncoderLast, AtRestTogether
<1>19. CommandPlace'
  BY <1>0, <1>1, <1>3, <1>8, <1>10, <1>12 DEF Together, CommandPlace
<1>20. ThreadPlace'
  BY <1>0, <1>1, <1>3, <1>12, <1>13 DEF Together, ThreadPlace
<1>. QED  BY <1>6, <1>14, <1>15, <1>16, <1>17, <1>18, <1>19, <1>20 DEF Together

LEMMA CalledTogether ==
    ASSUME Records, CommandShape, Together, RecCalled
    PROVE  Together' /\ recCmd'.op = recCmd.op /\ Calls /\ Calls'
<1>1. recCmd.step = "calls" /\ recCmd.left = <<>> /\ recCmd.async
  BY DEF RecCalled, Together, CallsLeft
<1>2. recCmd' = [recCmd EXCEPT !.step = "wait"] /\ UNCHANGED <<recKind, rec, parts, recQueue, recThread, device>>
  BY <1>1 DEF RecCalled
<1>3. /\ recCmd'.op = recCmd.op /\ recCmd'.step = "wait" /\ recCmd'.left = <<>> /\ recCmd'.reset = recCmd.reset
  BY <1>1, <1>2 DEF Records, CmdRecord
<1>4. Under /\ Under' /\ Calls /\ Calls' /\ Uncalled' = Uncalled
  BY <1>1, <1>3 DEF Under, Calls, Uncalled
<1>5. Built' = Built /\ (\A c : Reached(c, recCmd.op)' <=> Reached(c, recCmd.op)) /\ (AllReached' <=> AllReached)
      /\ (\A c : AnswerOf(c)' <=> AnswerOf(c))
  BY <1>2, <1>3 DEF Built, Reached, AllReached, AnswerOf, IsAnswer
<1>6. NoErrors' /\ CallsLeft'
  BY <1>2, <1>3 DEF Together, NoErrors, CallsLeft
<1>7. OneCall'
  BY <1>2, <1>3, <1>4, <1>5 DEF Together, OneCall
<1>8. AnswersHere'
  BY <1>2, <1>3, <1>4, <1>5 DEF Together, AnswersHere, IsAnswer
<1>9. ReachedIsTrue' /\ EncoderLast' /\ AtRestTogether'
  BY <1>2, <1>3, <1>4, <1>5 DEF Together, ReachedIsTrue, EncoderLast, AtRestTogether
<1>10. CommandPlace'
  BY <1>1, <1>2, <1>3, <1>4, <1>5 DEF Together, CommandPlace
<1>11. ThreadPlace'
  BY <1>2, <1>3, <1>4, <1>5 DEF Together, ThreadPlace
<1>. QED  BY <1>3, <1>4, <1>6, <1>7, <1>8, <1>9, <1>10, <1>11 DEF Together

(* All have been reached: nobody has a call or owes an answer.              *)
LEMMA AllReachedIsQuiet ==
    ASSUME Records, OneCall, AnswersHere, AllReached
    PROVE  Quiet
  BY DEF OneCall, AnswersHere, AllReached, Quiet

LEMMA WaitedTogether ==
    ASSUME Records, CommandShape, Together, RecWaited
    PROVE  Together'
<1>1. /\ recCmd.step = "wait" /\ WaitOver /\ Returns
      /\ UNCHANGED <<recKind, parts, recQueue, recThread, device>>
  BY DEF RecWaited
<1>2. recCmd.op \in RecOps /\ Calls /\ Under /\ recCmd.left = <<>> /\ CommandPlace
  BY <1>1, OpsAre DEF Calls, Under, CommandShape, Records, CmdRecord, OpsOrNone, Together, CallsLeft
<1>3. AllReached
  BY <1>1, <1>2, OpsAre DEF WaitOver, CommandPlace, AllReached, Reached
<1>4. Quiet
  BY <1>3, AllReachedIsQuiet DEF Together
<1>5. /\ rec'.state = Target[recCmd.op] /\ ~rec'.error
      /\ IF recCmd.op = "reset" THEN ~rec'.built ELSE rec'.built = rec.built
  <2>1. CASE recCmd.op = "reset"
    BY <2>1, OpsAre DEF RecWaited, Gone, Records, RecRecord
  <2>2. CASE recCmd.op # "reset"
    BY <2>2 DEF RecWaited, Records, RecRecord
  <2>. QED  BY <2>1, <2>2
<1>6. rec.built /\ (recCmd.reset => recCmd.op = "stop") /\ recCmd.reset \in BOOLEAN
  BY <1>1, <1>2, OpsAre DEF CommandPlace, Records, CmdRecord
<1>7. CommandPlace' /\ ~Under' /\ recCmd'.step \in {"none", "begin"} /\ recCmd'.left = <<>>
  <2>1. ~recCmd.reset \/ rec'.state \in {"Stopped", "Null"}
    BY <1>5, <1>6, OpsAre
  <2>2. (~rec'.built => rec'.state = "Null") /\ (recCmd.reset => rec'.built)
    BY <1>5, <1>6, OpsAre
  <2>3. rec'.state \in {"Null", "Prepared", "Playing", "Paused", "Stopped"}
    BY <1>2, <1>5, OpsAre
  <2>. QED  BY <1>1, <2>1, <2>2, <2>3, ReturnPlace
<1>8. NoErrors' /\ CallsLeft'
  BY <1>1, <1>5, <1>7 DEF Together, NoErrors, CallsLeft
<1>9. OneCall' /\ AnswersHere'
  BY <1>1, <1>4, QuietAgain
<1>10. ReachedIsTrue' /\ EncoderLast'
  BY <1>7 DEF ReachedIsTrue, EncoderLast
<1>11. AtRestTogether'
  <2>1. Built' = Built
    BY <1>1 DEF Built
  <2>2. CASE recCmd.op = "reset"
    BY <1>5, <2>2, OpsAre DEF AtRestTogether
  <2>3. CASE recCmd.op # "reset"
    <3>1. rec'.built /\ rec'.state # "Null"
      BY <1>2, <1>5, <1>6, <2>3, OpsAre
    <3>2. \A c \in Built : parts[c].state = rec'.state /\ ~parts[c].reset /\ device[c].is = rec'.state
      BY <1>2, <1>3, <1>5, <2>3 DEF AllReached, Reached, Together, ReachedIsTrue, CommandPlace
    <3>. QED  BY <1>1, <2>1, <3>1, <3>2 DEF AtRestTogether
  <2>. QED  BY <2>2, <2>3
<1>12. ThreadPlace'
  <2>1. recThread.at # "none" => recThread.op = recCmd.op
    BY <1>2, <1>3, OrderIs DEF Together, ThreadPlace, AllReached
  <2>. QED  BY <1>1, <1>5, <1>7, <2>1 DEF Together, ThreadPlace
<1>. QED  BY <1>7, <1>8, <1>9, <1>10, <1>11, <1>12 DEF Together

-----------------------------------------------------------------------------
(* The pipeline's thread.                                                  *)

LEMMA TakenIs ==
    ASSUME NEW what, Records, Receives(what), recQueue' = Tail(recQueue)
    PROVE  /\ recThread.at = "none"
           /\ 1 \in DOMAIN recQueue /\ recQueue[1].what = what /\ Head(recQueue) = recQueue[1]
           /\ recQueue[1] \in MessageRecord
           /\ DOMAIN recQueue = 1 .. Len(recQueue) /\ DOMAIN recQueue' = 1 .. Len(recQueue) - 1
           /\ Len(recQueue) \in Nat \ {0}
           /\ \A i \in DOMAIN recQueue' : i + 1 \in DOMAIN recQueue /\ recQueue'[i] = recQueue[i + 1]
<1>. DEFINE S == MessageRecord
<1>1. recQueue \in Seq(S) /\ recQueue # <<>> /\ Head(recQueue).what = what /\ recThread.at = "none"
  BY DEF Receives, Records
<1>. HIDE DEF S
<1>2. /\ Tail(recQueue) \in Seq(S) /\ Len(recQueue) > 0 /\ Len(Tail(recQueue)) = Len(recQueue) - 1
      /\ Head(recQueue) = recQueue[1] /\ Head(recQueue) \in S /\ Len(recQueue) \in Nat
      /\ \A i \in 1 .. Len(recQueue) - 1 : Tail(recQueue)[i] = recQueue[i + 1]
      /\ DOMAIN recQueue = 1 .. Len(recQueue) /\ DOMAIN Tail(recQueue) = 1 .. Len(Tail(recQueue))
  BY <1>1, TailIs, EmptyIs
<1>. QED  BY <1>1, <1>2 DEF S

LEMMA NoteTogether ==
    ASSUME NEW op \in RecOps, Records, CommandShape, Together, NoteAnswer(op)
    PROVE  Together'
<1>0. PICK c \in Parts : c = Head(recQueue).c
  BY MessageIs DEF NoteAnswer
<1>. DEFINE done == \A d \in Built \ {c} : Reached(d, op)
<1>1. /\ Receives(op) /\ recQueue' = Tail(recQueue) /\ UNCHANGED <<recKind, recCmd, device>>
      /\ rec' = [rec EXCEPT !.error = @ \/ ~Head(recQueue).ok]
      /\ parts' = [parts EXCEPT ![c] = IF op = "reset" THEN [state |-> "Null", reset |-> TRUE]
                                       ELSE [@ EXCEPT !.state = Target[op]]]
      /\ recThread' = IF done THEN [at |-> "advance", op |-> op] ELSE recThread
  BY <1>0 DEF NoteAnswer, Reached
<1>2. /\ 1 \in DOMAIN recQueue /\ recQueue[1].what = op /\ Head(recQueue) = recQueue[1] /\ recThread.at = "none"
      /\ \A i \in DOMAIN recQueue' : i + 1 \in DOMAIN recQueue /\ recQueue'[i] = recQueue[i + 1]
      /\ DOMAIN recQueue' \subseteq Nat \ {0}
  BY <1>1, TakenIs
<1>3. NoErrors /\ CallsLeft /\ OneCall /\ AnswersHere /\ CommandPlace
  BY DEF Together
<1>4. IsAnswer(recQueue[1])
  BY <1>2 DEF IsAnswer
<1>5. /\ op = recCmd.op /\ Under /\ c \in Built /\ c \notin Uncalled
      /\ device[c].is = Target[op] /\ ~Reached(c, op)
  BY <1>0, <1>2, <1>3, <1>4 DEF AnswersHere
<1>6. device[c].work = <<>>
  <2>1. AnswerOf(c)
    BY <1>0, <1>2, <1>4 DEF AnswerOf
  <2>. QED  BY <1>3, <2>1 DEF OneCall
<1>7. \A i \in DOMAIN recQueue' : IsAnswer(recQueue'[i]) => recQueue'[i].c # c
  <2>1. ASSUME NEW i \in DOMAIN recQueue', IsAnswer(recQueue'[i]), recQueue'[i].c = c PROVE FALSE
    <3>1. IsAnswer(recQueue[i + 1]) /\ recQueue[i + 1].c = recQueue[1].c /\ i + 1 \in DOMAIN recQueue
      BY <1>0, <1>2, <2>1
    <3>2. i + 1 = 1
      BY <1>2, <1>3, <1>4, <3>1 DEF AnswersHere
    <3>. QED  BY <1>2, <3>2
  <2>. QED  BY <2>1
<1>8. /\ Under' /\ (Calls' <=> Calls) /\ Uncalled' = Uncalled /\ Built' = Built /\ Built \subseteq Parts
      /\ recCmd'.op = op
  BY <1>1, <1>5, OrderIs DEF Under, Calls, Uncalled, Built
<1>9. /\ \A d \in Parts : d # c => parts'[d] = parts[d]
      /\ parts'[c] = IF op = "reset" THEN [state |-> "Null", reset |-> TRUE]
                     ELSE [parts[c] EXCEPT !.state = Target[op]]
      /\ parts[c] \in PartRecord
  BY <1>1 DEF Records
<1>10. /\ Reached(c, op)'
       /\ op # "reset" => parts'[c].reset = parts[c].reset
  <2>1. CASE op = "reset"
    BY <1>9, <2>1 DEF Reached
  <2>2. CASE op # "reset"
    <3>1. parts'[c].state = Target[op] /\ parts'[c].reset = parts[c].reset
      BY <1>9, <2>2 DEF PartRecord
    <3>. QED  BY <2>2, <3>1 DEF Reached
  <2>. QED  BY <2>1, <2>2
<1>11. \A d \in Parts : d # c => (Reached(d, op)' <=> Reached(d, op))
  BY <1>9 DEF Reached
<1>12. /\ rec'.state = rec.state /\ rec'.built = rec.built /\ rec'.resetDone = rec.resetDone
       /\ ~rec'.error
  BY <1>1, <1>2, <1>3 DEF Records, RecRecord, NoErrors
<1>13. \A d \in Parts : AnswerOf(d)' => AnswerOf(d)
  BY <1>2 DEF AnswerOf, IsAnswer
<1>14. recCmd.step = "source" \/ recCmd.left # <<>> => c # "encoder" /\ "encoder" \in Uncalled
  <2>1. recCmd.step = "source" => "encoder" \in Uncalled
    BY OrderIs DEF Uncalled
  <2>2. recCmd.left # <<>> => "encoder" \in Uncalled
    <3>. SUFFICES ASSUME recCmd.left # <<>> PROVE "encoder" \in Uncalled
      OBVIOUS
    <3>1. recCmd.left \in Seq(Parts)
      BY DEF Records, CmdRecord
    <3>2. Len(recCmd.left) \in DOMAIN recCmd.left
      BY <3>1, EmptyIs
    <3>. QED  BY <1>3, <3>2 DEF CallsLeft, Uncalled
  <2>. QED  BY <1>5, <2>1, <2>2
<1>15. done => Calls /\ AllReached'
  <2>. SUFFICES ASSUME done PROVE Calls /\ AllReached'
    OBVIOUS
  <2>1. \A d \in Built : Reached(d, op)'
    BY <1>8, <1>10, <1>11
  <2>2. recCmd.step # "source"
    BY <1>5, <1>14, OrderIs DEF Together, EncoderLast
  <2>. QED  BY <1>5, <1>8, <2>1, <2>2 DEF AllReached, Under, Calls
<1>. HIDE DEF done
<1>16. AllReached => AllReached'
  BY <1>5 DEF AllReached
<1>17. NoErrors'
  BY <1>2, <1>3, <1>12 DEF NoErrors
<1>18. CallsLeft'
  BY <1>1, <1>3, <1>8 DEF CallsLeft
<1>19. OneCall'
  BY <1>1, <1>3, <1>5, <1>6, <1>8, <1>11, <1>13 DEF OneCall
<1>20. AnswersHere'
  <2>1. \A i \in DOMAIN recQueue' : IsAnswer(recQueue'[i]) =>
          /\ recQueue'[i].what = op /\ recQueue'[i].c \in Built /\ recQueue'[i].c \notin Uncalled
          /\ device[recQueue'[i].c].is = Target[op]
          /\ ~Reached(recQueue'[i].c, op)
    BY <1>2, <1>3, <1>5 DEF AnswersHere
  <2>2. \A i \in DOMAIN recQueue', d \in Parts :
          IsAnswer(recQueue'[i]) /\ recQueue'[i].c = d => ~Reached(d, op)'
    BY <1>7, <1>8, <1>11, <2>1
  <2>3. \A i, j \in DOMAIN recQueue' :
          IsAnswer(recQueue'[i]) /\ IsAnswer(recQueue'[j]) /\ recQueue'[i].c = recQueue'[j].c => i = j
    <3>1. ASSUME NEW i \in DOMAIN recQueue', NEW j \in DOMAIN recQueue', IsAnswer(recQueue'[i]),
                 IsAnswer(recQueue'[j]), recQueue'[i].c = recQueue'[j].c
          PROVE  i = j
      <4>1. i + 1 = j + 1
        BY <1>2, <1>3, <3>1 DEF AnswersHere
      <4>. QED  BY <1>2, <4>1
    <3>. QED  BY <3>1
  <2>. QED  BY <1>1, <1>8, <2>1, <2>2, <2>3 DEF AnswersHere, IsAnswer
<1>21. ReachedIsTrue'
  BY <1>1, <1>5, <1>8, <1>11 DEF Together, ReachedIsTrue
<1>22. EncoderLast'
  BY <1>1, <1>5, <1>8, <1>11, <1>14, OrderIs DEF Together, EncoderLast
<1>23. AtRestTogether'
  BY <1>8 DEF Under, AtRestTogether
<1>24. CommandPlace'
  <2>1. Under' /\ recCmd'.op # "reset" => \A d \in Built : ~parts'[d].reset
    BY <1>3, <1>5, <1>8, <1>9, <1>10 DEF CommandPlace
  <2>. QED  BY <1>1, <1>3, <1>8, <1>12, <1>16, <2>1 DEF CommandPlace
<1>25. ThreadPlace'
  BY <1>1, <1>2, <1>8, <1>15 DEF ThreadPlace
<1>. QED  BY <1>17, <1>18, <1>19, <1>20, <1>21, <1>22, <1>23, <1>24, <1>25 DEF Together

(* Nothing happens to the components but that an end comes out of one, or   *)
(* is taken: in the queue the answers are k places further on.             *)
LEMMA SameAnswers ==
    ASSUME NEW k \in {0, 1}, Records, Together, UNCHANGED <<recKind, recCmd, parts>>,
           DOMAIN recQueue' \subseteq Nat,
           \A i \in DOMAIN recQueue' : \/ i + k \in DOMAIN recQueue /\ recQueue'[i] = recQueue[i + k]
                                       \/ recQueue'[i].what = "eos" /\ recQueue'[i].ok,
           \A c \in Parts : device'[c].work = device[c].work /\ device'[c].is = device[c].is,
           rec'.error = rec.error, rec'.built = rec.built
    PROVE  /\ NoErrors' /\ CallsLeft' /\ OneCall' /\ AnswersHere' /\ ReachedIsTrue' /\ EncoderLast'
           /\ rec'.state = rec.state => AtRestTogether'
           /\ rec'.state = rec.state /\ rec'.resetDone = rec.resetDone => CommandPlace'
           /\ rec'.state = rec.state /\ recThread' = recThread => ThreadPlace'
<1>1. /\ Built' = Built /\ Built \subseteq Parts /\ Uncalled' = Uncalled /\ (Under' <=> Under) /\ (Calls' <=> Calls)
      /\ (AllReached' <=> AllReached)
      /\ \A c, op : Reached(c, op)' <=> Reached(c, op)
  BY OrderIs DEF Built, Uncalled, Under, Calls, Reached, AllReached
<1>2. \A i \in DOMAIN recQueue' : IsAnswer(recQueue'[i]) => i + k \in DOMAIN recQueue /\ recQueue'[i] = recQueue[i + k]
  BY OpsAre DEF IsAnswer
<1>3. \A c \in Parts : AnswerOf(c)' => AnswerOf(c)
  BY <1>2 DEF AnswerOf, IsAnswer
<1>4. NoErrors'
  BY DEF Together, NoErrors
<1>5. CallsLeft'
  BY <1>1 DEF Together, CallsLeft
<1>6. OneCall'
  BY <1>1, <1>3 DEF Together, OneCall
<1>7. AnswersHere'
  <2>1. AnswersHere
    BY DEF Together
  <2>2. \A i \in DOMAIN recQueue', d \in Parts : IsAnswer(recQueue'[i]) /\ recQueue'[i].c = d =>
          /\ recQueue'[i].what = recCmd.op /\ Under /\ d \in Built /\ d \notin Uncalled
          /\ device'[d].is = Target[recCmd.op] /\ ~Reached(d, recCmd.op)'
    BY <1>1, <1>2, <2>1 DEF AnswersHere
  <2>3. \A i \in DOMAIN recQueue' : IsAnswer(recQueue'[i]) => recQueue'[i].c \in Parts
    BY <1>1, <1>2, <2>1 DEF AnswersHere
  <2>4. ASSUME NEW i \in DOMAIN recQueue', NEW j \in DOMAIN recQueue', IsAnswer(recQueue'[i]),
               IsAnswer(recQueue'[j]), recQueue'[i].c = recQueue'[j].c
        PROVE  i = j
    <3>1. i + k = j + k
      BY <1>2, <2>1, <2>4 DEF AnswersHere
    <3>. QED  BY <3>1
  <2>. QED  BY <1>1, <2>2, <2>3, <2>4 DEF AnswersHere, IsAnswer
<1>8. ReachedIsTrue' /\ EncoderLast'
  BY <1>1 DEF Together, ReachedIsTrue, EncoderLast
<1>9. rec'.state = rec.state => AtRestTogether'
  BY <1>1 DEF Together, AtRestTogether
<1>10. rec'.state = rec.state /\ rec'.resetDone = rec.resetDone => CommandPlace'
  BY <1>1 DEF Together, CommandPlace
<1>11. rec'.state = rec.state /\ recThread' = recThread => ThreadPlace'
  BY <1>1 DEF Together, ThreadPlace
<1>. QED  BY <1>4, <1>5, <1>6, <1>7, <1>8, <1>9, <1>10, <1>11

LEMMA AdvanceTogether ==
    ASSUME Records, CommandShape, Together, Advance \/ AdvanceNull
    PROVE  Together'
<1>1. /\ UNCHANGED <<recKind, recCmd, parts, recQueue, device>> /\ recThread.at # "none"
      /\ rec'.error = rec.error /\ rec'.built = rec.built
  BY DEF Advance, AdvanceNull, Records, RecRecord
<1>2. DOMAIN recQueue \subseteq Nat /\ \A i \in DOMAIN recQueue : i + 0 = i
  <2>. DEFINE S == MessageRecord
  <2>1. recQueue \in Seq(S)
    BY DEF Records
  <2>. HIDE DEF S
  <2>2. DOMAIN recQueue = 1 .. Len(recQueue)
    BY <2>1, EmptyIs
  <2>. QED  BY <2>2
<1>3. /\ NoErrors' /\ CallsLeft' /\ OneCall' /\ AnswersHere' /\ ReachedIsTrue' /\ EncoderLast'
      /\ rec'.state = rec.state => AtRestTogether'
      /\ rec'.state = rec.state /\ rec'.resetDone = rec.resetDone => CommandPlace'
  <2>1. \A i \in DOMAIN recQueue' : i + 0 \in DOMAIN recQueue /\ recQueue'[i] = recQueue[i + 0]
    BY <1>1, <1>2
  <2>2. DOMAIN recQueue' \subseteq Nat
    BY <1>1, <1>2
  <2>3. \A c \in Parts : device'[c].work = device[c].work /\ device'[c].is = device[c].is
    BY <1>1
  <2>. QED  BY <1>1, <2>1, <2>2, <2>3, SameAnswers
<1>4. /\ rec.state = Target[recThread.op] /\ (Under => ~Reached("encoder", recCmd.op))
      \/ /\ recThread.op = recCmd.op /\ Calls /\ AllReached
  BY <1>1 DEF Together, ThreadPlace
<1>5. /\ Built' = Built /\ (Under' <=> Under) /\ (Calls' <=> Calls) /\ (AllReached' <=> AllReached)
      /\ \A c, op : Reached(c, op)' <=> Reached(c, op)
  BY <1>1 DEF Built, Under, Calls, Reached, AllReached
<1>6. /\ rec'.state \in {rec.state, Target[recThread.op]}
      /\ recThread'.at # "none" => rec'.state = rec.state /\ recThread'.op = recThread.op
      /\ rec'.resetDone # rec.resetDone => recThread.op = "reset" /\ rec'.state = rec.state
  <2>1. CASE Advance
    BY <2>1 DEF Advance, Records, RecRecord, ThreadRecord
  <2>2. CASE AdvanceNull
    <3>1. rec' = [rec EXCEPT !.state = "Null"] /\ recThread' = [recThread EXCEPT !.at = "none"]
      BY <2>2 DEF AdvanceNull
    <3>2. recThread.op = "reset"
      BY <2>2 DEF AdvanceNull, Together, ThreadPlace
    <3>. QED  BY <3>1, <3>2, OpsAre DEF Records, RecRecord, ThreadRecord
  <2>. QED  BY <2>1, <2>2
<1>7. recThread'.at = "null" => recThread.op = "reset"
  <2>1. CASE Advance
    BY <2>1 DEF Advance, Records, ThreadRecord
  <2>2. CASE AdvanceNull
    BY <2>2 DEF AdvanceNull, Records, ThreadRecord
  <2>. QED  BY <2>1, <2>2
<1>8. CASE rec.state = Target[recThread.op] /\ (Under => ~Reached("encoder", recCmd.op))
  <2>1. rec'.state = rec.state
    BY <1>6, <1>8
  <2>2. CommandPlace'
    BY <1>1, <1>5, <1>6, <1>8, <2>1, OpsAre DEF Together, CommandPlace
  <2>3. ThreadPlace'
    BY <1>1, <1>5, <1>6, <1>7, <1>8, <2>1 DEF ThreadPlace
  <2>. QED  BY <1>3, <2>1, <2>2, <2>3 DEF Together
<1>9. CASE recThread.op = recCmd.op /\ Calls /\ AllReached
  <2>1. AtRestTogether'
    BY <1>5, <1>9 DEF AtRestTogether, Calls
  <2>2. recCmd.op \in RecOps /\ rec'.state \in {rec.state, Target[recCmd.op]}
    BY <1>6, <1>9 DEF Records, ThreadRecord
  <2>3. rec'.state \in {"Null", "Prepared", "Playing", "Paused", "Stopped"}
    BY <2>2, OpsAre DEF Together, CommandPlace
  <2>4. rec.built /\ recCmd.step \in {"calls", "wait"}
    BY <1>9, <2>2, OpsAre DEF Together, CommandPlace, Calls
  <2>5. CommandPlace'
    BY <1>1, <1>5, <1>9, <2>3, <2>4 DEF Together, CommandPlace
  <2>6. ThreadPlace'
    BY <1>1, <1>5, <1>6, <1>7, <1>9 DEF ThreadPlace
  <2>. QED  BY <1>3, <2>1, <2>5, <2>6 DEF Together
<1>. QED  BY <1>4, <1>8, <1>9

LEMMA OnEosTogether ==
    ASSUME Records, CommandShape, Together, OnEos
    PROVE  Together'
<1>1. /\ UNCHANGED <<recKind, recCmd, parts, recThread, device>> /\ Receives("eos") /\ recQueue' = Tail(recQueue)
      /\ rec'.error = rec.error /\ rec'.built = rec.built /\ rec'.state = rec.state /\ rec'.resetDone = rec.resetDone
  BY DEF OnEos, Records, RecRecord
<1>2. /\ DOMAIN recQueue' \subseteq Nat
      /\ \A i \in DOMAIN recQueue' : i + 1 \in DOMAIN recQueue /\ recQueue'[i] = recQueue[i + 1]
  BY <1>1, TakenIs
<1>3. \A c \in Parts : device'[c].work = device[c].work /\ device'[c].is = device[c].is
  BY <1>1
<1>. QED  BY <1>1, <1>2, <1>3, SameAnswers DEF Together

LEMMA NoErrorComes == Records /\ Together => ~OnError
<1>. SUFFICES ASSUME Records, Together, OnError PROVE FALSE
  OBVIOUS
<1>1. Receives("error") /\ recQueue' = Tail(recQueue)
  BY DEF OnError
<1>2. 1 \in DOMAIN recQueue /\ recQueue[1].what = "error"
  BY <1>1, TakenIs
<1>. QED  BY <1>2 DEF Together, NoErrors

-----------------------------------------------------------------------------
(* The components.                                                         *)

LEMMA SentIs ==
    ASSUME NEW c \in Parts, NEW what \in Messages, NEW ok \in BOOLEAN, Records, Sends(c, what, ok)
    PROVE  /\ DOMAIN recQueue = 1 .. Len(recQueue) /\ Len(recQueue) \in Nat
           /\ DOMAIN recQueue' = 1 .. Len(recQueue) + 1
           /\ \A i \in DOMAIN recQueue : recQueue'[i] = recQueue[i]
           /\ recQueue'[Len(recQueue) + 1] = [c |-> c, what |-> what, ok |-> ok]
<1>. DEFINE S == MessageRecord
            m == [c |-> c, what |-> what, ok |-> ok]
<1>1. recQueue \in Seq(S) /\ m \in S /\ recQueue' = Append(recQueue, m)
  BY DEF Records, Sends, MessageRecord
<1>. HIDE DEF S, m
<1>2. /\ Append(recQueue, m) \in Seq(S) /\ Len(Append(recQueue, m)) = Len(recQueue) + 1
      /\ \A i \in 1 .. Len(recQueue) : Append(recQueue, m)[i] = recQueue[i]
      /\ Append(recQueue, m)[Len(recQueue) + 1] = m
  BY <1>1, AppendIs
<1>3. DOMAIN recQueue = 1 .. Len(recQueue) /\ Len(recQueue) \in Nat
      /\ DOMAIN Append(recQueue, m) = 1 .. Len(Append(recQueue, m))
  BY <1>1, <1>2, EmptyIs
<1>. QED  BY <1>1, <1>2, <1>3 DEF m

LEMMA EndsTogether ==
    ASSUME NEW c \in Parts, Records, CommandShape, Together, Ends(c)
    PROVE  Together'
<1>1. /\ UNCHANGED <<recKind, rec, recCmd, parts, recThread>> /\ Sends(c, "eos", TRUE)
      /\ device' = [device EXCEPT ![c].owes = FALSE]
  BY DEF Ends
<1>2. \A d \in Parts : device'[d].work = device[d].work /\ device'[d].is = device[d].is
  BY <1>1 DEF Records, DeviceRecord
<1>3. /\ DOMAIN recQueue' \subseteq Nat
      /\ \A i \in DOMAIN recQueue' : \/ i + 0 \in DOMAIN recQueue /\ recQueue'[i] = recQueue[i + 0]
                                     \/ recQueue'[i].what = "eos" /\ recQueue'[i].ok
  <2>1. "eos" \in Messages
    BY DEF Messages
  <2>2. /\ DOMAIN recQueue = 1 .. Len(recQueue) /\ Len(recQueue) \in Nat
        /\ DOMAIN recQueue' = 1 .. Len(recQueue) + 1
        /\ \A i \in DOMAIN recQueue : recQueue'[i] = recQueue[i]
        /\ recQueue'[Len(recQueue) + 1] = [c |-> c, what |-> "eos", ok |-> TRUE]
    BY <1>1, <2>1, SentIs
  <2>3. \A i \in DOMAIN recQueue' : i + 0 = i /\ (i \in DOMAIN recQueue \/ i = Len(recQueue) + 1)
    BY <2>2
  <2>. QED  BY <2>2, <2>3
<1>. QED  BY <1>1, <1>2, <1>3, SameAnswers DEF Together

LEMMA AnswersTogether ==
    ASSUME NEW c \in Parts, Records, CommandShape, Together, Answers(c)
    PROVE  Together'
<1>0. PICK op \in RecOps : op = recCmd.op /\ device[c].work = <<op>>
  <2>1. device[c].work # <<>> /\ device[c].work \in Seq(RecOps)
    BY DEF Answers, HasWork, Records, DeviceRecord
  <2>2. device[c].work = <<recCmd.op>>
    BY <2>1 DEF Together, OneCall
  <2>3. recCmd.op \in RecOps
    BY <2>1, <2>2, EmptyIs DEF CommandShape, Together, OneCall, Under, Records, CmdRecord, OpsOrNone
  <2>. QED  BY <2>2, <2>3
<1>1. /\ UNCHANGED <<recKind, rec, recCmd, parts, recThread>> /\ Sends(c, op, TRUE)
      /\ device' = [device EXCEPT ![c].work = Tail(<<op>>), ![c].is = Target[op],
                       ![c].owes = CASE op = "start" -> c = "preview" /\ rec.graph
                                     [] op \in {"stop", "reset"} -> FALSE
                                     [] OTHER -> @]
  <2>1. Head(<<op>>) = op
    OBVIOUS
  <2>. QED  BY <1>0, <2>1 DEF Answers
<1>2. /\ \A d \in Parts : d # c => device'[d] = device[d]
      /\ device'[c].work = <<>> /\ device'[c].is = Target[op]
  BY <1>1 DEF Records, DeviceRecord
<1>3. OneCall /\ AnswersHere /\ NoErrors
  BY DEF Together
<1>4. Under /\ c \in Built /\ c \notin Uncalled /\ ~Reached(c, op) /\ ~AnswerOf(c)
  <2>1. device[c].work # <<>>
    BY <1>0
  <2>. QED  BY <1>0, <1>3, <2>1 DEF OneCall
<1>5. /\ DOMAIN recQueue = 1 .. Len(recQueue) /\ Len(recQueue) \in Nat
      /\ DOMAIN recQueue' = 1 .. Len(recQueue) + 1
      /\ \A i \in DOMAIN recQueue : recQueue'[i] = recQueue[i]
      /\ recQueue'[Len(recQueue) + 1] = [c |-> c, what |-> op, ok |-> TRUE]
  <2>1. op \in Messages
    BY DEF Messages
  <2>. QED  BY <1>1, <2>1, SentIs
<1>6. PICK last \in Nat : last = Len(recQueue) + 1
  BY <1>5
<1>7. /\ \A i \in DOMAIN recQueue' : (i \in DOMAIN recQueue /\ recQueue'[i] = recQueue[i]) \/ i = last
      /\ recQueue'[last].c = c /\ recQueue'[last].what = op /\ recQueue'[last].ok
  BY <1>5, <1>6
<1>8. /\ Built' = Built /\ Built \subseteq Parts /\ Uncalled' = Uncalled /\ (Under' <=> Under) /\ (Calls' <=> Calls)
      /\ (AllReached' <=> AllReached) /\ recCmd'.op = op
      /\ \A d, o : Reached(d, o)' <=> Reached(d, o)
  BY <1>0, <1>1, OrderIs DEF Built, Uncalled, Under, Calls, Reached, AllReached
<1>9. \A d \in Parts : d # c /\ AnswerOf(d)' => AnswerOf(d)
  BY <1>7 DEF AnswerOf, IsAnswer
<1>10. op # "error"
  BY OpsAre
<1>11. NoErrors'
  BY <1>1, <1>3, <1>7, <1>10 DEF NoErrors
<1>12. CallsLeft'
  BY <1>1, <1>8 DEF Together, CallsLeft
<1>13. OneCall'
  BY <1>0, <1>1, <1>2, <1>3, <1>8, <1>9 DEF OneCall
<1>14. AnswersHere'
  <2>1. \A i \in DOMAIN recQueue' : IsAnswer(recQueue'[i]) =>
          /\ recQueue'[i].what = op /\ recQueue'[i].c \in Built /\ recQueue'[i].c \notin Uncalled
          /\ i # last => recQueue'[i].c # c /\ device[recQueue'[i].c].is = Target[op]
          /\ ~Reached(recQueue'[i].c, op)
    <3>1. ASSUME NEW i \in DOMAIN recQueue', IsAnswer(recQueue'[i]), i # last
          PROVE  /\ recQueue'[i].what = op /\ recQueue'[i].c \in Built /\ recQueue'[i].c \notin Uncalled
                 /\ recQueue'[i].c # c /\ device[recQueue'[i].c].is = Target[op]
                 /\ ~Reached(recQueue'[i].c, op)
      <4>1. i \in DOMAIN recQueue /\ recQueue'[i] = recQueue[i]
        BY <1>7, <3>1
      <4>. QED  BY <1>0, <1>3, <1>4, <3>1, <4>1 DEF AnswersHere, AnswerOf
    <3>. QED  BY <1>4, <1>7, <3>1
  <2>2. \A i \in DOMAIN recQueue', d \in Parts : IsAnswer(recQueue'[i]) /\ recQueue'[i].c = d =>
          ~Reached(d, op)' /\ device'[d].is = Target[op]
    BY <1>2, <1>7, <1>8, <2>1
  <2>3. \A i, j \in DOMAIN recQueue' :
          IsAnswer(recQueue'[i]) /\ IsAnswer(recQueue'[j]) /\ recQueue'[i].c = recQueue'[j].c => i = j
    BY <1>3, <1>7, <2>1 DEF AnswersHere
  <2>4. recCmd'.op = op /\ Under' /\ Uncalled' = Uncalled /\ Built' = Built
    BY <1>4, <1>8
  <2>5. \A i \in DOMAIN recQueue' : IsAnswer(recQueue[i])' => recQueue'[i].c \in Parts
    BY <1>8, <2>1 DEF IsAnswer
  <2>. QED  BY <2>1, <2>2, <2>3, <2>4, <2>5 DEF AnswersHere, IsAnswer
<1>15. ReachedIsTrue' /\ EncoderLast' /\ AtRestTogether'
  BY <1>0, <1>1, <1>2, <1>4, <1>8 DEF Together, ReachedIsTrue, EncoderLast, AtRestTogether, Under
<1>16. CommandPlace' /\ ThreadPlace'
  BY <1>1, <1>8 DEF Together, CommandPlace, ThreadPlace
<1>. QED  BY <1>11, <1>12, <1>13, <1>14, <1>15, <1>16 DEF Together

-----------------------------------------------------------------------------
(* The ends of the streams.  Nothing happens to them but that the messages  *)
(* in the queue are k places further on, or another one is at its end.      *)
LEMMA EndsSame ==
    ASSUME NEW k \in {0, 1}, Ended, recKind' = recKind, Recording' <=> Recording,
           recSeen'.ended = recSeen.ended, rec'.eosCount = rec.eosCount, rec'.eosReceived = rec.eosReceived,
           Recording => rec'.connected = rec.connected,
           \A c \in Parts : device'[c].owes = device[c].owes,
           DOMAIN recQueue' \subseteq Nat,
           \A i \in DOMAIN recQueue' : \/ i + k \in DOMAIN recQueue /\ recQueue'[i] = recQueue[i + k]
                                       \/ recQueue'[i].what # "eos",
           \A i \in DOMAIN recQueue : recQueue[i].what = "eos" =>
             \E j \in DOMAIN recQueue' : recQueue'[j] = recQueue[i]
    PROVE  NoEnds' /\ EndsOnce' /\ EndsCounted'
<1>1. EosSinks' = EosSinks
  BY DEF EosSinks, Built
<1>2. \A i \in DOMAIN recQueue' : recQueue'[i].what = "eos" =>
        i + k \in DOMAIN recQueue /\ recQueue'[i] = recQueue[i + k]
  OBVIOUS
<1>3. \A c : EosOf(c)' <=> EosOf(c)
  <2>1. ASSUME NEW c, EosOf(c) PROVE EosOf(c)'
    <3>1. PICK i \in DOMAIN recQueue : recQueue[i].c = c /\ recQueue[i].what = "eos"
      BY <2>1 DEF EosOf
    <3>2. PICK j \in DOMAIN recQueue' : recQueue'[j] = recQueue[i]
      BY <3>1
    <3>. QED  BY <3>1, <3>2 DEF EosOf
  <2>2. ASSUME NEW c, EosOf(c)' PROVE EosOf(c)
    BY <1>2, <2>2 DEF EosOf
  <2>. QED  BY <2>1, <2>2
<1>4. \A c : Heard(c)' <=> Heard(c)
  BY <1>3 DEF Heard
<1>5. HeardCount' = HeardCount
  BY <1>4 DEF HeardCount
<1>6. NoEnds'
  BY <1>2 DEF Ended, NoEnds
<1>7. EndsOnce'
  <2>. SUFFICES ASSUME Recording PROVE EndsOnce'
    BY DEF EndsOnce
  <2>1. EndsOnce
    BY DEF Ended
  <2>2. ASSUME NEW i \in DOMAIN recQueue', NEW j \in DOMAIN recQueue', recQueue'[i].what = "eos",
               recQueue'[j].what = "eos", recQueue'[i].c = recQueue'[j].c
        PROVE  i = j
    <3>1. i + k = j + k
      BY <1>2, <2>1, <2>2 DEF EndsOnce
    <3>. QED  BY <3>1
  <2>3. \A i \in DOMAIN recQueue' : recQueue'[i].what = "eos" => recQueue'[i].c \in recSeen.ended
    BY <1>2, <2>1 DEF EndsOnce
  <2>4. recSeen.ended \subseteq EosSinks /\ \A c \in Parts : device[c].owes => c \in EosSinks \ recSeen.ended
    BY <2>1 DEF EndsOnce
  <2>. QED  BY <1>1, <2>2, <2>3, <2>4 DEF EndsOnce
<1>8. EndsCounted'
  BY <1>1, <1>4, <1>5 DEF Ended, EndsCounted
<1>. QED  BY <1>6, <1>7, <1>8

(* Nothing happens to the queue, the ends and the counts at all.            *)
LEMMA EndsUntouched ==
    ASSUME Records, Ended, recKind' = recKind, recQueue' = recQueue, Recording' <=> Recording,
           recSeen'.ended = recSeen.ended, rec'.eosCount = rec.eosCount, rec'.eosReceived = rec.eosReceived,
           Recording => rec'.connected = rec.connected,
           \A c \in Parts : device'[c].owes = device[c].owes
    PROVE  NoEnds' /\ EndsOnce' /\ EndsCounted'
<1>1. DOMAIN recQueue' \subseteq Nat /\ \A i \in DOMAIN recQueue' : i + 0 = i
  <2>. DEFINE S == MessageRecord
  <2>1. recQueue \in Seq(S)
    BY DEF Records
  <2>. HIDE DEF S
  <2>2. DOMAIN recQueue = 1 .. Len(recQueue)
    BY <2>1, EmptyIs
  <2>. QED  BY <2>2
<1>2. \A i \in DOMAIN recQueue' : \/ i + 0 \in DOMAIN recQueue /\ recQueue'[i] = recQueue[i + 0]
                                  \/ recQueue'[i].what # "eos"
  BY <1>1
<1>3. \A i \in DOMAIN recQueue : recQueue[i].what = "eos" =>
        \E j \in DOMAIN recQueue' : recQueue'[j] = recQueue[i]
  OBVIOUS
<1>. QED  BY <1>1, <1>2, <1>3, EndsSame

LEMMA AfterStartSame ==
    ASSUME EndsAfterStart, Recording' /\ recCmd'.op = "start" => Recording /\ recCmd.op = "start",
           recSeen'.ended = recSeen.ended, Uncalled' \subseteq Uncalled,
           device'["fileSink"].owes = device["fileSink"].owes, device'["preview"].owes = device["preview"].owes,
           Recording /\ recCmd.op = "start" /\ ("preview" \in recSeen.ended \/ device["preview"].owes)
             /\ device["preview"].work = <<>> => device'["preview"].work = <<>>
    PROVE  EndsAfterStart'
  BY DEF EndsAfterStart

(* Where the command stands tells whether there is a recording.            *)
LEMMA RestRecording == ~Under => (Recording <=> rec.state \in {"Playing", "Paused"})
BY DEF Recording, Under, Calls

LEMMA UnderRecording ==
    Records /\ Together /\ Under => (Recording <=> recCmd.op \in {"start", "resume", "pause"})
BY DEF Recording, Under, Calls, Together, CommandPlace

LEMMA NotUnderUncalled == Records /\ Together /\ ~Under => Uncalled = {}
<1>. SUFFICES ASSUME Records, Together, ~Under PROVE Uncalled = {}
  OBVIOUS
<1>1. recCmd.left = <<>> /\ recCmd.step # "source"
  BY DEF Together, CallsLeft, Under
<1>. QED  BY <1>1 DEF Uncalled

(* Between two places at rest.                                             *)
LEMMA StaysAtRestEnded ==
    ASSUME Records, Together, Ended, ~Under, recCmd'.step \in {"none", "begin", "eos"}, recCmd'.left = <<>>,
           UNCHANGED <<recKind, rec, parts, recQueue, recThread, device>>, recSeen'.ended = recSeen.ended
    PROVE  Ended'
<1>1. ~Under' /\ ~Calls' /\ recCmd'.step # "source"
  BY DEF Under, Calls
<1>2. Recording' <=> Recording
  BY <1>1, RestRecording DEF Recording
<1>3. NoEnds' /\ EndsOnce' /\ EndsCounted'
  BY <1>2, EndsUntouched
<1>4. Uncalled' = {} /\ device["preview"].work = <<>>
  <2>1. Uncalled' = {}
    BY <1>1 DEF Uncalled
  <2>2. Quiet
    BY RestIsQuiet DEF Together
  <2>. QED  BY <2>1, <2>2 DEF Quiet, Parts
<1>5. EndsAfterStart'
  BY <1>4 DEF EndsAfterStart
<1>6. Connected'
  BY <1>1 DEF Ended, Connected, Under, Calls
<1>. QED  BY <1>3, <1>5, <1>6 DEF Ended

LEMMA RestEnded ==
    ASSUME Records, CommandShape, Together, Ended,
           \/ \E op \in {"prepare", "start", "pause", "stop", "reset"} : RecCommand(op)
           \/ RecAlready \/ SignalEos
    PROVE  Ended'
<1>1. CASE \E op \in {"prepare", "start", "pause", "stop", "reset"} : RecCommand(op)
  <2>1. PICK op \in {"prepare", "start", "pause", "stop", "reset"} : RecCommand(op)
    BY <1>1
  <2>2. UNCHANGED <<recKind, rec, parts, recQueue, recThread, device>> /\ ~Under
    BY <2>1 DEF RecCommand, Free, Under
  <2>3. recCmd'.step = "begin" /\ recCmd'.left = <<>>
    <3>1. recCmd' \in {[Free EXCEPT !.op = "resume", !.step = "begin"],
                       [Free EXCEPT !.op = "stop", !.step = "begin", !.reset = TRUE],
                       [Free EXCEPT !.op = op, !.step = "begin"]}
      BY <2>1 DEF RecCommand
    <3>. QED  BY <3>1 DEF Free
  <2>4. recSeen'.ended = recSeen.ended
    BY <2>1 DEF RecCommand, Records, SeenRecord
  <2>. QED  BY <2>2, <2>3, <2>4, StaysAtRestEnded
<1>2. CASE RecAlready
  <2>1. UNCHANGED <<recKind, rec, parts, recQueue, recThread, device, recSeen>> /\ ~Under /\ Returns
    BY <1>2 DEF RecAlready, Under
  <2>2. recCmd'.step \in {"none", "begin"} /\ recCmd'.left = <<>>
    BY <2>1, ReturnsIs
  <2>. QED  BY <2>1, <2>2, StaysAtRestEnded
<1>3. CASE SignalEos
  <2>1. UNCHANGED <<recKind, rec, parts, recQueue, recThread, device>> /\ recCmd.step = "begin" /\ ~rec.error
    BY <1>3 DEF SignalEos, At, Together, NoErrors
  <2>2. recCmd' = [recCmd EXCEPT !.step = "eos"] /\ recCmd.left = <<>>
    BY <1>3, <2>1 DEF SignalEos, Together, CallsLeft
  <2>3. recCmd'.step = "eos" /\ recCmd'.left = <<>> /\ ~Under
    BY <2>1, <2>2 DEF Records, CmdRecord, Under
  <2>4. recSeen'.ended = recSeen.ended
    BY <1>3 DEF SignalEos, Records, SeenRecord
  <2>. QED  BY <2>1, <2>3, <2>4, StaysAtRestEnded
<1>. QED  BY <1>1, <1>2, <1>3

LEMMA PrepareEnded ==
    ASSUME Records, CommandShape, Together, Ended, RecPrepare
    PROVE  Ended'
<1>1. /\ recCmd.op = "prepare" /\ recCmd.step = "begin" /\ rec.state = "Null"
      /\ UNCHANGED <<recKind, recQueue, recThread>>
      /\ device' = [NewDevices EXCEPT !["source"].work = <<"prepare">>]
      /\ recCmd' = [recCmd EXCEPT !.step = "source"]
  BY OpsAre DEF RecPrepare, At, NothingToDo
<1>2. recCmd'.op = "prepare" /\ recCmd'.step = "source"
  BY <1>1 DEF Records, CmdRecord
<1>3. ~Recording /\ ~Recording'
  BY <1>1, <1>2 DEF Recording, Under, Calls
<1>4. rec'.eosCount = rec.eosCount
  BY DEF RecPrepare, Records, RecRecord
<1>5. \A c \in Parts : ~device'[c].owes
  BY <1>1 DEF NewDevices, Parts
<1>6. NoEnds'
  BY <1>1, <1>3, <1>4, <1>5 DEF Ended, NoEnds
<1>. QED  BY <1>2, <1>3, <1>6 DEF Ended, Connected, EndsOnce, EndsAfterStart, EndsCounted

LEMMA PreparedEnded ==
    ASSUME Records, CommandShape, Together, Ended, SourcePrepared
    PROVE  Ended'
<1>1. /\ recCmd.step = "source" /\ recCmd.op = "prepare" /\ rec.connected = 1 /\ ~rec.error
      /\ CallsAll /\ UNCHANGED <<recKind, parts, recQueue, recThread, device, recSeen>>
      /\ rec' = [rec EXCEPT !.error = FALSE, !.graph = ~rec.error,
                            !.connected = IF recKind.preview /\ ~rec.error THEN @ + 1 ELSE @]
  BY OpsAre DEF SourcePrepared, Together, CommandPlace, CommandShape, NoErrors
<1>2. recCmd'.op = "prepare" /\ recCmd'.step = "calls"
  BY <1>1, CallsAllIs
<1>3. ~Recording /\ ~Recording'
  BY <1>1, <1>2 DEF Recording, Under
<1>4. /\ rec'.graph /\ rec'.connected = IF recKind.preview THEN 2 ELSE 1
      /\ rec'.eosCount = rec.eosCount /\ rec'.eosReceived = rec.eosReceived
  <2>. DEFINE n == IF recKind.preview /\ ~rec.error THEN rec.connected + 1 ELSE rec.connected
  <2>1. rec' = [rec EXCEPT !.error = FALSE, !.graph = ~rec.error, !.connected = n]
    BY <1>1
  <2>2. n = IF recKind.preview THEN 2 ELSE 1
    BY <1>1
  <2>. HIDE DEF n
  <2>3. /\ rec'.graph = ~rec.error /\ rec'.connected = n
        /\ rec'.eosCount = rec.eosCount /\ rec'.eosReceived = rec.eosReceived
    BY <2>1 DEF Records, RecRecord
  <2>. QED  BY <1>1, <2>2, <2>3
<1>5. NoEnds'
  BY <1>1, <1>3, <1>4 DEF Ended, NoEnds
<1>. QED  BY <1>1, <1>3, <1>4, <1>5 DEF Ended, Connected, EndsOnce, EndsAfterStart, EndsCounted

LEMMA StartEnded ==
    ASSUME Records, CommandShape, Together, Ended, RecStart
    PROVE  Ended'
<1>1. /\ recCmd.op = "start" /\ recCmd.step = "begin" /\ rec.state # "Playing" /\ CallsAll
      /\ UNCHANGED <<recKind, parts, recQueue, recThread, device>>
      /\ rec' = [rec EXCEPT !.eosReceived = FALSE]
      /\ recSeen' = [recSeen EXCEPT !.signalled = FALSE, !.ended = {}]
  BY OpsAre DEF RecStart, At, NothingToDo
<1>2. recCmd'.op = "start" /\ recCmd'.step = "calls" /\ Calls'
  BY <1>1, CallsAllIs DEF Calls
<1>3. rec.state # "Paused" /\ rec.built
  BY <1>1 DEF Together, CommandPlace
<1>4. ~Recording /\ Recording'
  BY <1>1, <1>2, <1>3 DEF Recording, Under, Calls
<1>5. /\ rec'.eosCount = rec.eosCount /\ ~rec'.eosReceived /\ rec'.connected = rec.connected
      /\ rec'.graph = rec.graph /\ rec'.built = rec.built /\ recSeen'.ended = {}
  BY <1>1 DEF Records, RecRecord, SeenRecord
<1>6. /\ rec.eosCount = 0 /\ \A c \in Parts : ~device'[c].owes
      /\ \A i \in DOMAIN recQueue' : recQueue'[i].what # "eos"
  BY <1>1, <1>4 DEF Ended, NoEnds
<1>7. rec.graph /\ rec.connected = IF recKind.preview THEN 2 ELSE 1
  BY <1>1, <1>3 DEF Ended, Connected
<1>8. HeardCount' = 0
  BY <1>5 DEF HeardCount, Heard
<1>9. Connected'
  BY <1>1, <1>5, <1>7 DEF Connected
<1>10. EndsOnce'
  BY <1>5, <1>6 DEF EndsOnce
<1>11. EndsAfterStart'
  BY <1>5, <1>6 DEF EndsAfterStart, Parts
<1>12. EndsCounted'
  <2>1. rec'.eosCount = HeardCount' /\ HeardCount' < rec'.connected
    BY <1>5, <1>6, <1>7, <1>8
  <2>. QED  BY <1>5, <2>1 DEF EndsCounted
<1>. QED  BY <1>4, <1>9, <1>10, <1>11, <1>12 DEF Ended, NoEnds

LEMMA CallsOnlyEnded ==
    ASSUME Records, CommandShape, Together, Ended, RecCallsOnly
    PROVE  Ended'
<1>1. /\ recCmd.step = "begin" /\ ~NothingToDo /\ CallsAll
      /\ recCmd.op \in {"resume", "pause"} \/ (recCmd.op = "stop" /\ rec.state \notin {"Playing", "Paused"})
      /\ UNCHANGED <<recKind, rec, parts, recQueue, recThread, device, recSeen>>
  BY DEF RecCallsOnly
<1>2. recCmd'.op = recCmd.op /\ recCmd'.step = "calls" /\ Calls' /\ Under'
  BY <1>1, CallsAllIs DEF Calls, Under
<1>3. ~Under
  BY <1>1 DEF Under
<1>4. Recording' <=> Recording
  <2>1. CASE recCmd.op = "stop" /\ rec.state \notin {"Playing", "Paused"}
    BY <1>2, <1>3, <2>1 DEF Recording, Under, Calls
  <2>2. CASE recCmd.op = "resume"
    BY <1>1, <1>2, <1>3, <2>2 DEF Recording, Together, CommandPlace
  <2>3. CASE recCmd.op = "pause"
    BY <1>1, <1>2, <1>3, <2>3 DEF Recording, NothingToDo
  <2>. QED  BY <1>1, <2>1, <2>2, <2>3
<1>5. NoEnds' /\ EndsOnce' /\ EndsCounted'
  BY <1>1, <1>4, EndsUntouched
<1>6. EndsAfterStart'
  BY <1>1, <1>2 DEF EndsAfterStart
<1>7. Connected'
  BY <1>1, <1>2 DEF Ended, Connected
<1>. QED  BY <1>5, <1>6, <1>7 DEF Ended

(* When the pipeline has heard that all have ended, there is no more to     *)
(* hear, and every sink's end has come.                                    *)
LEMMA AllHeard ==
    ASSUME Records, Ended, Recording, rec.eosReceived
    PROVE  /\ recSeen.ended = EosSinks /\ rec.eosCount = 0
           /\ \A c \in Parts : ~device[c].owes
           /\ \A i \in DOMAIN recQueue : recQueue[i].what # "eos"
<1>1. rec.eosCount = 0 /\ \A c \in EosSinks : Heard(c)
  BY DEF Ended, EndsCounted
<1>2. recSeen.ended = EosSinks
  BY <1>1 DEF Ended, EndsOnce, Heard
<1>3. \A c \in Parts : ~device[c].owes
  BY <1>2 DEF Ended, EndsOnce
<1>4. \A i \in DOMAIN recQueue : recQueue[i].what # "eos"
  BY <1>1, <1>2 DEF Ended, EndsOnce, Heard, EosOf
<1>. QED  BY <1>1, <1>2, <1>3, <1>4

LEMMA EosCameEnded ==
    ASSUME Records, CommandShape, Together, Ended, EosCame
    PROVE  Ended' /\ recSeen.ended = EosSinks
<1>1. /\ recCmd.step = "eos" /\ rec.eosReceived /\ ~rec.error /\ CallsAll
      /\ UNCHANGED <<recKind, parts, recQueue, recThread, device, recSeen>>
      /\ rec' = [rec EXCEPT !.error = FALSE]
  BY DEF EosCame, Together, NoErrors
<1>2. recCmd.op = "stop" /\ rec.state \in {"Playing", "Paused"}
  BY <1>1 DEF Together, CommandPlace
<1>3. recCmd'.op = "stop" /\ recCmd'.step = "calls"
  BY <1>1, <1>2, CallsAllIs
<1>4. Recording /\ ~Recording'
  BY <1>1, <1>2, <1>3 DEF Recording, Under
<1>5. rec'.eosCount = rec.eosCount /\ rec'.graph = rec.graph /\ rec'.connected = rec.connected /\ rec'.built = rec.built
  BY <1>1 DEF Records, RecRecord
<1>6. /\ recSeen.ended = EosSinks /\ rec.eosCount = 0
      /\ \A c \in Parts : ~device[c].owes
      /\ \A i \in DOMAIN recQueue : recQueue[i].what # "eos"
  BY <1>1, <1>4, AllHeard
<1>7. NoEnds'
  BY <1>1, <1>5, <1>6 DEF NoEnds
<1>8. Connected'
  BY <1>1, <1>2, <1>3, <1>5 DEF Ended, Connected
<1>. QED  BY <1>4, <1>6, <1>7, <1>8 DEF Ended, EndsOnce, EndsAfterStart, EndsCounted

LEMMA ResetEnded ==
    ASSUME Records, CommandShape, Together, Ended, RecReset
    PROVE  Ended'
<1>1. /\ recCmd.op = "reset" /\ recCmd.step = "begin" /\ CallsAll
      /\ UNCHANGED <<recKind, parts, recQueue, recThread, device, recSeen>>
  BY DEF RecReset, At
<1>2. rec.state \in {"Stopped", "Null"} /\ rec'.eosCount = 0
  BY <1>1 DEF Together, CommandPlace, RecReset, Records, RecRecord
<1>3. recCmd'.op = "reset" /\ recCmd'.step = "calls" /\ Calls'
  BY <1>1, CallsAllIs DEF Calls
<1>4. ~Recording /\ ~Recording'
  BY <1>1, <1>2, <1>3 DEF Recording, Under, Calls
<1>5. NoEnds'
  BY <1>1, <1>2, <1>4 DEF Ended, NoEnds
<1>. QED  BY <1>3, <1>4, <1>5 DEF Ended, Connected, EndsOnce, EndsAfterStart, EndsCounted

(* The calls.                                                              *)
LEMMA CallEnded ==
    ASSUME NEW async \in BOOLEAN, Records, CommandShape, Together, Ended, Calling, Called(async),
           UNCHANGED <<recKind, rec, recQueue, recSeen>>
    PROVE  /\ Recording' <=> Recording
           /\ Connected' /\ Uncalled' \subseteq Uncalled /\ Next1 \in Uncalled /\ recCmd'.op = recCmd.op
           /\ recCmd.step = "calls"
<1>1. /\ recCmd'.op = recCmd.op /\ recCmd'.step = "calls" /\ recCmd.step = "calls" /\ Under /\ Under' /\ Calls /\ Calls'
      /\ Next1 \in Uncalled /\ Uncalled' = Uncalled \ {Next1}
  BY CalledIs DEF Together
<1>2. Recording' <=> Recording
  BY <1>1 DEF Recording
<1>3. Connected'
  BY <1>1 DEF Ended, Connected
<1>. QED  BY <1>1, <1>2, <1>3

LEMMA SkipsEnded ==
    ASSUME Records, CommandShape, Together, Ended, RecSkips
    PROVE  Ended'
<1>1. Calling /\ Called(FALSE) /\ UNCHANGED <<recKind, rec, parts, recQueue, recThread, device, recSeen>>
  BY DEF RecSkips
<1>2. (Recording' <=> Recording) /\ Connected' /\ Uncalled' \subseteq Uncalled /\ recCmd'.op = recCmd.op
  BY <1>1, CallEnded
<1>3. NoEnds' /\ EndsOnce' /\ EndsCounted'
  BY <1>1, <1>2, EndsUntouched
<1>4. EndsAfterStart'
  BY <1>1, <1>2, AfterStartSame DEF Ended
<1>. QED  BY <1>2, <1>3, <1>4 DEF Ended

LEMMA AsyncEnded ==
    ASSUME Records, CommandShape, Together, Ended, RecCallsAsync
    PROVE  Ended'
<1>1. /\ Calling /\ Called(TRUE) /\ UNCHANGED <<recKind, rec, recQueue, recThread, recSeen>>
      /\ device' = [device EXCEPT ![Next1].work = Append(@, recCmd.op)]
  BY DEF RecCallsAsync, MustCall
<1>2. /\ Recording' <=> Recording
      /\ Connected' /\ Uncalled' \subseteq Uncalled /\ Next1 \in Uncalled /\ recCmd'.op = recCmd.op
  BY <1>1, CallEnded
<1>3. /\ \A c \in Parts : device'[c].owes = device[c].owes
      /\ \A c \in Parts : c # Next1 => device'[c].work = device[c].work
  BY <1>1 DEF Records, DeviceRecord
<1>4. NoEnds' /\ EndsOnce' /\ EndsCounted'
  BY <1>1, <1>2, <1>3, EndsUntouched
<1>5. EndsAfterStart'
  <2>1. EndsAfterStart
    BY DEF Ended
  <2>2. \A c \in {"fileSink", "preview"} : device'[c].owes = device[c].owes
    BY <1>3 DEF Parts
  <2>3. ASSUME Recording, recCmd.op = "start", "preview" \in recSeen.ended \/ device["preview"].owes
        PROVE  device'["preview"].work = device["preview"].work
    BY <1>2, <1>3, <2>1, <2>3 DEF EndsAfterStart, Parts
  <2>. QED  BY <1>1, <1>2, <2>1, <2>2, <2>3, AfterStartSame
<1>. QED  BY <1>2, <1>4, <1>5 DEF Ended

LEMMA SyncEnded ==
    ASSUME Records, CommandShape, Together, Ended, RecCallsSync
    PROVE  Ended'
<1>1. /\ Calling /\ Called(FALSE) /\ UNCHANGED <<recKind, rec, recQueue, recThread, recSeen>>
      /\ device' = [device EXCEPT ![Next1].is = Target[recCmd.op],
                      !["fileSink"].owes = @ \/ (Next1 = "muxer" /\ recCmd.op = "start")]
  BY DEF RecCallsSync, MustCall
<1>2. /\ Recording' <=> Recording
      /\ Connected' /\ Uncalled' \subseteq Uncalled /\ Next1 \in Uncalled /\ recCmd'.op = recCmd.op
      /\ recCmd.step = "calls"
  BY <1>1, CallEnded
<1>3. /\ \A c \in Parts : c # "fileSink" => device'[c].owes = device[c].owes
      /\ \A c \in Parts : device'[c].work = device[c].work
      /\ device'["fileSink"].owes = (device["fileSink"].owes \/ (Next1 = "muxer" /\ recCmd.op = "start"))
      /\ {"fileSink", "preview"} \subseteq Parts
  <2>1. Next1 \in Parts /\ {"fileSink", "preview"} \subseteq Parts
    BY <1>1, CallingIs DEF Parts
  <2>. QED  BY <1>1, <2>1 DEF Records, DeviceRecord
<1>4. CASE ~(Next1 = "muxer" /\ recCmd.op = "start")
  <2>1. \A c \in Parts : device'[c].owes = device[c].owes
    BY <1>3, <1>4 DEF Records, DeviceRecord
  <2>2. NoEnds' /\ EndsOnce' /\ EndsCounted'
    BY <1>1, <1>2, <2>1, EndsUntouched
  <2>3. EndsAfterStart'
    BY <1>1, <1>2, <1>3, <2>1, AfterStartSame DEF Ended
  <2>. QED  BY <1>2, <2>2, <2>3 DEF Ended
<1>5. CASE Next1 = "muxer" /\ recCmd.op = "start"
  <2>1. Recording /\ Recording'
    BY <1>2, <1>5 DEF Recording, Calls
  <2>2. "fileSink" \notin recSeen.ended /\ "fileSink" \in EosSinks /\ EosSinks' = EosSinks
    BY <1>1, <1>2, <1>5, <2>1, OrderIs DEF Ended, EndsAfterStart, EosSinks, Built
  <2>3. EndsOnce'
    BY <1>1, <1>3, <2>1, <2>2 DEF Ended, EndsOnce
  <2>4. EndsAfterStart'
    <3>1. "muxer" \notin Uncalled'
      BY <1>1, <1>5, CalledIs DEF Together
    <3>. QED  BY <1>1, <1>2, <1>3, <2>1, <3>1 DEF Ended, EndsAfterStart
  <2>5. EndsCounted'
    <3>1. \A c : Heard(c)' <=> Heard(c)
      BY <1>1 DEF Heard, EosOf
    <3>2. HeardCount' = HeardCount
      BY <3>1 DEF HeardCount
    <3>. QED  BY <1>1, <2>1, <2>2, <3>1, <3>2 DEF Ended, EndsCounted
  <2>. QED  BY <1>2, <2>1, <2>3, <2>4, <2>5 DEF Ended, NoEnds
<1>. QED  BY <1>4, <1>5

LEMMA CalledEnded ==
    ASSUME Records, CommandShape, Together, Ended, RecCalled
    PROVE  Ended'
<1>1. recCmd.step = "calls" /\ recCmd.left = <<>> /\ recCmd.async
  BY DEF RecCalled, Together, CallsLeft
<1>2. recCmd' = [recCmd EXCEPT !.step = "wait"] /\ UNCHANGED <<recKind, rec, parts, recQueue, recThread, device, recSeen>>
  BY <1>1 DEF RecCalled
<1>3. recCmd'.op = recCmd.op /\ recCmd'.step = "wait" /\ recCmd'.left = recCmd.left
  BY <1>1, <1>2 DEF Records, CmdRecord
<1>4. (Recording' <=> Recording) /\ Uncalled' = Uncalled /\ Calls /\ Calls'
  BY <1>1, <1>2, <1>3 DEF Recording, Calls, Under, Uncalled
<1>5. NoEnds' /\ EndsOnce' /\ EndsCounted'
  BY <1>2, <1>4, EndsUntouched
<1>6. EndsAfterStart'
  BY <1>2, <1>3, <1>4, AfterStartSame DEF Ended
<1>7. Connected'
  BY <1>1, <1>2, <1>3, <1>4 DEF Ended, Connected
<1>. QED  BY <1>5, <1>6, <1>7 DEF Ended

LEMMA WaitedEnded ==
    ASSUME Records, CommandShape, Together, Ended, RecWaited
    PROVE  Ended'
<1>1. /\ recCmd.step = "wait" /\ Returns /\ UNCHANGED <<recKind, parts, recQueue, recThread, device, recSeen>>
  BY DEF RecWaited
<1>2. recCmd.op \in RecOps /\ Under /\ Calls
  BY <1>1, OpsAre DEF Calls, Under, CommandShape, Records, CmdRecord, OpsOrNone
<1>3. /\ rec'.state = Target[recCmd.op] /\ rec'.eosCount = rec.eosCount /\ rec'.eosReceived = rec.eosReceived
      /\ rec'.connected = rec.connected /\ rec'.graph = rec.graph
      /\ IF recCmd.op = "reset" THEN ~rec'.built ELSE rec'.built = rec.built
  <2>1. CASE recCmd.op = "reset"
    BY <2>1, OpsAre DEF RecWaited, Gone, Records, RecRecord
  <2>2. CASE recCmd.op # "reset"
    BY <2>2 DEF RecWaited, Records, RecRecord
  <2>. QED  BY <2>1, <2>2
<1>4. recCmd'.step \in {"none", "begin"} /\ recCmd'.op \in {"none", "reset"} /\ ~Under' /\ ~Calls'
  BY <1>1, ReturnsIs DEF Under, Calls
<1>5. Recording' <=> Recording
  <2>1. Recording <=> recCmd.op \in {"start", "resume", "pause"}
    BY <1>2, UnderRecording
  <2>2. Recording' <=> rec'.state \in {"Playing", "Paused"}
    BY <1>4 DEF Recording
  <2>. QED  BY <1>2, <1>3, <2>1, <2>2, OpsAre
<1>6. NoEnds' /\ EndsOnce' /\ EndsCounted'
  BY <1>1, <1>3, <1>5, EndsUntouched
<1>7. EndsAfterStart'
  BY <1>4 DEF EndsAfterStart
<1>8. Connected'
  BY <1>1, <1>2, <1>3 DEF Ended, Connected
<1>. QED  BY <1>6, <1>7, <1>8 DEF Ended

(* The pipeline's thread.                                                  *)
LEMMA ThreadEnded ==
    ASSUME Records, Ended, UNCHANGED <<recKind, recCmd, device, recSeen>>,
           Under \/ rec'.state = rec.state, rec'.built = rec.built, rec'.graph = rec.graph,
           rec'.connected = rec.connected
    PROVE  (Recording' <=> Recording) /\ Connected' /\ EndsAfterStart'
<1>1. (Under' <=> Under) /\ (Calls' <=> Calls) /\ Uncalled' = Uncalled
  BY DEF Under, Calls, Uncalled
<1>2. Recording' <=> Recording
  BY <1>1 DEF Recording
<1>3. Connected'
  BY <1>1 DEF Ended, Connected
<1>4. EndsAfterStart'
  BY <1>1, <1>2, AfterStartSame DEF Ended
<1>. QED  BY <1>2, <1>3, <1>4

LEMMA NoteEnded ==
    ASSUME NEW op \in RecOps, Records, CommandShape, Together, Ended, NoteAnswer(op)
    PROVE  Ended'
<1>1. /\ Receives(op) /\ recQueue' = Tail(recQueue) /\ UNCHANGED <<recKind, recCmd, device, recSeen>>
      /\ rec' = [rec EXCEPT !.error = @ \/ ~Head(recQueue).ok]
  BY DEF NoteAnswer
<1>2. /\ rec'.state = rec.state /\ rec'.built = rec.built /\ rec'.graph = rec.graph
      /\ rec'.connected = rec.connected /\ rec'.eosCount = rec.eosCount /\ rec'.eosReceived = rec.eosReceived
  BY <1>1 DEF Records, RecRecord
<1>3. (Recording' <=> Recording) /\ Connected' /\ EndsAfterStart'
  BY <1>1, <1>2, ThreadEnded
<1>4. /\ 1 \in DOMAIN recQueue /\ recQueue[1].what = op
      /\ DOMAIN recQueue = 1 .. Len(recQueue) /\ DOMAIN recQueue' = 1 .. Len(recQueue) - 1
      /\ Len(recQueue) \in Nat \ {0}
      /\ \A i \in DOMAIN recQueue' : i + 1 \in DOMAIN recQueue /\ recQueue'[i] = recQueue[i + 1]
  BY <1>1, TakenIs
<1>5. \A i \in DOMAIN recQueue : recQueue[i].what = "eos" => \E j \in DOMAIN recQueue' : recQueue'[j] = recQueue[i]
  <2>1. ASSUME NEW i \in DOMAIN recQueue, recQueue[i].what = "eos"
        PROVE  \E j \in DOMAIN recQueue' : recQueue'[j] = recQueue[i]
    <3>1. i # 1
      BY <1>4, <2>1, OpsAre
    <3>2. i - 1 \in DOMAIN recQueue' /\ (i - 1) + 1 = i
      BY <1>4, <3>1
    <3>. QED  BY <1>4, <3>2
  <2>. QED  BY <2>1
<1>6. NoEnds' /\ EndsOnce' /\ EndsCounted'
  <2>1. DOMAIN recQueue' \subseteq Nat
    BY <1>4
  <2>2. \A c \in Parts : device'[c].owes = device[c].owes
    BY <1>1
  <2>. QED  BY <1>1, <1>2, <1>3, <1>4, <1>5, <2>1, <2>2, EndsSame
<1>. QED  BY <1>3, <1>6 DEF Ended

LEMMA AdvanceEnded ==
    ASSUME Records, CommandShape, Together, Ended, Advance \/ AdvanceNull
    PROVE  Ended'
<1>1. /\ UNCHANGED <<recKind, recCmd, parts, recQueue, device, recSeen>> /\ recThread.at # "none"
      /\ rec'.built = rec.built /\ rec'.graph = rec.graph
      /\ rec'.connected = rec.connected /\ rec'.eosCount = rec.eosCount /\ rec'.eosReceived = rec.eosReceived
  BY DEF Advance, AdvanceNull, Records, RecRecord
<1>2. Under \/ rec'.state = rec.state
  <2>. SUFFICES ASSUME ~Under PROVE rec'.state = rec.state
    OBVIOUS
  <2>1. rec.state = Target[recThread.op] /\ (recThread.at = "null" => recThread.op = "reset")
    BY <1>1 DEF Together, ThreadPlace, Calls, Under
  <2>. QED  BY <2>1, OpsAre DEF Advance, AdvanceNull, Records, RecRecord
<1>3. (Recording' <=> Recording) /\ Connected' /\ EndsAfterStart'
  BY <1>1, <1>2, ThreadEnded
<1>4. NoEnds' /\ EndsOnce' /\ EndsCounted'
  BY <1>1, <1>3, EndsUntouched
<1>. QED  BY <1>3, <1>4 DEF Ended

LEMMA HeardOne ==
    ASSUME NEW c \in {"fileSink", "preview"}, ~Heard(c), Heard(c)',
           \A d : d # c => (Heard(d)' <=> Heard(d))
    PROVE  HeardCount' = HeardCount + 1 /\ HeardCount \in Nat
<1>1. CASE c = "fileSink"
  <2>1. ~Heard("fileSink") /\ Heard("fileSink")' /\ (Heard("preview")' <=> Heard("preview"))
    BY <1>1
  <2>. QED  BY <2>1 DEF HeardCount
<1>2. CASE c = "preview"
  <2>1. ~Heard("preview") /\ Heard("preview")' /\ (Heard("fileSink")' <=> Heard("fileSink"))
    BY <1>2
  <2>. QED  BY <2>1 DEF HeardCount
<1>. QED  BY <1>1, <1>2

LEMMA SinksAre ==
    /\ recKind.preview => EosSinks = {"fileSink", "preview"}
    /\ ~recKind.preview => EosSinks = {"fileSink"}
  BY DEF EosSinks, Built, Parts

LEMMA OnEosEnded ==
    ASSUME Records, CommandShape, Together, Ended, OnEos
    PROVE  Ended'
<1>1. /\ Receives("eos") /\ recQueue' = Tail(recQueue)
      /\ UNCHANGED <<recKind, parts, recCmd, recThread, device, recSeen>>
      /\ rec' = IF rec.eosCount + 1 = rec.connected
                THEN [rec EXCEPT !.eosCount = 0, !.eosReceived = TRUE]
                ELSE [rec EXCEPT !.eosCount = @ + 1]
  BY DEF OnEos
<1>2. /\ 1 \in DOMAIN recQueue /\ recQueue[1].what = "eos"
      /\ DOMAIN recQueue = 1 .. Len(recQueue) /\ DOMAIN recQueue' = 1 .. Len(recQueue) - 1
      /\ Len(recQueue) \in Nat \ {0}
      /\ \A i \in DOMAIN recQueue' : i + 1 \in DOMAIN recQueue /\ recQueue'[i] = recQueue[i + 1]
  BY <1>1, TakenIs
<1>3. /\ rec'.state = rec.state /\ rec'.built = rec.built /\ rec'.graph = rec.graph
      /\ rec'.connected = rec.connected
      /\ rec.eosCount + 1 = rec.connected => rec'.eosCount = 0 /\ rec'.eosReceived
      /\ rec.eosCount + 1 # rec.connected => rec'.eosCount = rec.eosCount + 1 /\ rec'.eosReceived = rec.eosReceived
  BY <1>1 DEF Records, RecRecord
<1>4. (Recording' <=> Recording) /\ Connected' /\ EndsAfterStart'
  BY <1>1, <1>3, ThreadEnded
<1>5. Recording
  BY <1>2 DEF Ended, NoEnds
<1>6. ~rec.eosReceived
  BY <1>2, <1>5, AllHeard
<1>7. PICK c \in recSeen.ended : recQueue[1].c = c
  BY <1>2, <1>5 DEF Ended, EndsOnce
<1>8. recSeen.ended \subseteq EosSinks /\ c \in EosSinks /\ c \in {"fileSink", "preview"} /\ EosSinks' = EosSinks
  BY <1>1, <1>5, <1>7 DEF Ended, EndsOnce, EosSinks, Built
<1>9. \A i \in DOMAIN recQueue' : recQueue'[i].what = "eos" => recQueue'[i].c # c
  <2>1. ASSUME NEW i \in DOMAIN recQueue', recQueue'[i].what = "eos", recQueue'[i].c = c PROVE FALSE
    <3>1. recQueue[i + 1].what = "eos" /\ recQueue[i + 1].c = recQueue[1].c /\ i + 1 \in DOMAIN recQueue
      BY <1>2, <1>7, <2>1
    <3>2. i + 1 = 1
      BY <1>2, <1>5, <3>1 DEF Ended, EndsOnce
    <3>. QED  BY <1>2, <3>2
  <2>. QED  BY <2>1
<1>10. EosOf(c) /\ ~EosOf(c)'
  BY <1>2, <1>7, <1>9 DEF EosOf
<1>11. \A d : d # c => (EosOf(d)' <=> EosOf(d))
  <2>1. ASSUME NEW d, d # c, EosOf(d) PROVE EosOf(d)'
    <3>1. PICK i \in DOMAIN recQueue : recQueue[i].c = d /\ recQueue[i].what = "eos"
      BY <2>1 DEF EosOf
    <3>2. i - 1 \in DOMAIN recQueue' /\ (i - 1) + 1 = i
      BY <1>2, <1>7, <2>1, <3>1
    <3>3. recQueue'[i - 1] = recQueue[i]
      BY <1>2, <3>2
    <3>. QED  BY <3>1, <3>2, <3>3 DEF EosOf
  <2>2. ASSUME NEW d, EosOf(d)' PROVE EosOf(d)
    BY <1>2, <2>2 DEF EosOf
  <2>. QED  BY <2>1, <2>2
<1>12. ~Heard(c) /\ Heard(c)' /\ \A d : d # c => (Heard(d)' <=> Heard(d))
  BY <1>1, <1>7, <1>10, <1>11 DEF Heard
<1>13. HeardCount' = HeardCount + 1 /\ HeardCount \in Nat
  BY <1>8, <1>12, HeardOne
<1>14. rec.eosCount = HeardCount /\ HeardCount < rec.connected
  BY <1>5, <1>6 DEF Ended, EndsCounted
<1>15. EndsOnce'
  <2>1. \A i \in DOMAIN recQueue' : recQueue'[i].what = "eos" => recQueue'[i].c \in recSeen.ended
    BY <1>2, <1>5 DEF Ended, EndsOnce
  <2>2. ASSUME NEW i \in DOMAIN recQueue', NEW j \in DOMAIN recQueue', recQueue'[i].what = "eos",
               recQueue'[j].what = "eos", recQueue'[i].c = recQueue'[j].c
        PROVE  i = j
    <3>1. i + 1 = j + 1
      BY <1>2, <1>5, <2>2 DEF Ended, EndsOnce
    <3>. QED  BY <1>2, <3>1
  <2>3. recSeen.ended \subseteq EosSinks /\ \A d \in Parts : device[d].owes => d \in EosSinks \ recSeen.ended
    BY <1>5 DEF Ended, EndsOnce
  <2>. QED  BY <1>1, <1>8, <2>1, <2>2, <2>3 DEF EndsOnce
<1>16. EndsCounted'
  <2>1. CASE rec.eosCount + 1 = rec.connected
    <3>1. HeardCount' = rec.connected
      BY <1>13, <1>14, <2>1
    <3>2. rec.connected = IF recKind.preview THEN 2 ELSE 1
      <4>1. Under => recCmd.op \in {"start", "resume", "pause"} /\ Calls
        BY <1>5, UnderRecording DEF Recording
      <4>2. rec.built
        <5>1. CASE Under
          BY <4>1, <5>1 DEF Together, CommandPlace
        <5>2. CASE ~Under
          BY <1>5, <5>2, RestRecording DEF Together, CommandPlace
        <5>. QED  BY <5>1, <5>2
      <4>3. recCmd.step # "source" /\ ~(recCmd.op = "reset" /\ Calls)
        BY <4>1 DEF Under, Calls
      <4>. QED  BY <4>2, <4>3 DEF Ended, Connected
    <3>3. CASE recKind.preview
      <4>1. Heard("fileSink")' /\ Heard("preview")'
        BY <3>1, <3>2, <3>3 DEF HeardCount
      <4>. QED  BY <1>3, <1>8, <2>1, <3>3, <4>1, SinksAre DEF EndsCounted
    <3>4. CASE ~recKind.preview
      BY <1>3, <1>8, <1>12, <2>1, <3>4, SinksAre DEF EndsCounted
    <3>. QED  BY <3>3, <3>4
  <2>2. CASE rec.eosCount + 1 # rec.connected
    <3>1. rec.connected \in Nat
      BY DEF Records, RecRecord
    <3>2. rec'.eosCount = HeardCount' /\ HeardCount' < rec'.connected /\ ~rec'.eosReceived
      BY <1>3, <1>6, <1>13, <1>14, <2>2, <3>1
    <3>. QED  BY <3>2 DEF EndsCounted
  <2>. QED  BY <2>1, <2>2
<1>17. NoEnds'
  BY <1>4, <1>5 DEF NoEnds
<1>. QED  BY <1>4, <1>15, <1>16, <1>17 DEF Ended

(* The components.                                                         *)
LEMMA AnswersEnded ==
    ASSUME NEW c \in Parts, Records, CommandShape, Together, Ended, Answers(c)
    PROVE  Ended'
<1>1. PICK op \in RecOps : op = recCmd.op /\ device[c].work = <<op>>
  <2>1. device[c].work # <<>> /\ device[c].work \in Seq(RecOps)
    BY DEF Answers, HasWork, Records, DeviceRecord
  <2>2. device[c].work = <<recCmd.op>>
    BY <2>1 DEF Together, OneCall
  <2>3. recCmd.op \in RecOps
    BY <2>1, <2>2, EmptyIs DEF CommandShape, Together, OneCall, Under, Records, CmdRecord, OpsOrNone
  <2>. QED  BY <2>2, <2>3
<1>2. /\ UNCHANGED <<recKind, rec, recCmd, parts, recThread, recSeen>> /\ Sends(c, op, TRUE)
      /\ device' = [device EXCEPT ![c].work = Tail(<<op>>), ![c].is = Target[op],
                       ![c].owes = CASE op = "start" -> c = "preview" /\ rec.graph
                                     [] op \in {"stop", "reset"} -> FALSE
                                     [] OTHER -> @]
  <2>1. Head(<<op>>) = op
    OBVIOUS
  <2>. QED  BY <1>1, <2>1 DEF Answers
<1>3. /\ \A d \in Parts : d # c => device'[d] = device[d]
      /\ device'[c].work = <<>>
      /\ op = "start" => device'[c].owes = (c = "preview" /\ rec.graph)
      /\ op \in {"stop", "reset"} => ~device'[c].owes
      /\ op \notin {"start", "stop", "reset"} => device'[c].owes = device[c].owes
  <2>. DEFINE owes == CASE op = "start" -> c = "preview" /\ rec.graph
                        [] op \in {"stop", "reset"} -> FALSE
                        [] OTHER -> device[c].owes
  <2>1. device' = [device EXCEPT ![c].work = Tail(<<op>>), ![c].is = Target[op], ![c].owes = owes]
    BY <1>2
  <2>2. /\ op = "start" => owes = (c = "preview" /\ rec.graph)
        /\ op \in {"stop", "reset"} => owes = FALSE
        /\ op \notin {"start", "stop", "reset"} => owes = device[c].owes
    OBVIOUS
  <2>. HIDE DEF owes
  <2>3. /\ \A d \in Parts : d # c => device'[d] = device[d]
        /\ device'[c].work = <<>> /\ device'[c].owes = owes
    BY <2>1 DEF Records, DeviceRecord
  <2>. QED  BY <2>2, <2>3
<1>4. /\ Under /\ c \in Built /\ c \notin Uncalled /\ device[c].work # <<>>
  <2>1. device[c].work # <<>>
    BY <1>1
  <2>. QED  BY <2>1 DEF Together, OneCall
<1>5. /\ (Recording' <=> Recording) /\ Uncalled' = Uncalled /\ Connected'
      /\ EosSinks' = EosSinks /\ EosSinks \subseteq Parts
  BY <1>2, OrderIs DEF Recording, Under, Calls, Uncalled, Ended, Connected, EosSinks, Built
<1>6. Recording <=> op \in {"start", "resume", "pause"}
  BY <1>1, <1>4, UnderRecording
<1>7. /\ DOMAIN recQueue = 1 .. Len(recQueue) /\ Len(recQueue) \in Nat
      /\ DOMAIN recQueue' = 1 .. Len(recQueue) + 1
      /\ \A i \in DOMAIN recQueue : recQueue'[i] = recQueue[i]
      /\ recQueue'[Len(recQueue) + 1] = [c |-> c, what |-> op, ok |-> TRUE]
  <2>1. op \in Messages
    BY DEF Messages
  <2>. QED  BY <1>2, <2>1, SentIs
<1>8. /\ DOMAIN recQueue' \subseteq Nat
      /\ \A i \in DOMAIN recQueue' : \/ i + 0 \in DOMAIN recQueue /\ recQueue'[i] = recQueue[i + 0]
                                     \/ recQueue'[i].what # "eos"
      /\ \A i \in DOMAIN recQueue : recQueue[i].what = "eos" =>
           \E j \in DOMAIN recQueue' : recQueue'[j] = recQueue[i]
  <2>1. \A i \in DOMAIN recQueue' : i + 0 = i /\ (i \in DOMAIN recQueue \/ i = Len(recQueue) + 1)
    BY <1>7
  <2>2. \A i \in DOMAIN recQueue : i \in DOMAIN recQueue'
    BY <1>7
  <2>3. recQueue'[Len(recQueue) + 1].what # "eos"
    BY <1>7, OpsAre
  <2>. QED  BY <1>7, <2>1, <2>2, <2>3
<1>9. CASE \A d \in Parts : device'[d].owes = device[d].owes
  <2>1. NoEnds' /\ EndsOnce' /\ EndsCounted'
    BY <1>2, <1>5, <1>8, <1>9, EndsSame
  <2>2. EndsAfterStart'
    <3>1. \A d \in {"fileSink", "preview"} : /\ device'[d].owes = device[d].owes
                                             /\ device[d].work = <<>> => device'[d].work = <<>>
      BY <1>3, <1>9 DEF Parts
    <3>. QED  BY <1>2, <1>5, <3>1, AfterStartSame DEF Ended
  <2>. QED  BY <1>5, <2>1, <2>2 DEF Ended
<1>10. CASE op \in {"stop", "reset"}
  <2>1. ~Recording
    BY <1>6, <1>10
  <2>2. \A d \in Parts : ~device'[d].owes
    BY <1>3, <1>10, <2>1 DEF Ended, NoEnds
  <2>3. \A d \in Parts : ~device[d].owes
    BY <2>1 DEF Ended, NoEnds
  <2>4. \A i \in DOMAIN recQueue' : recQueue'[i].what # "eos"
    BY <1>8, <2>1 DEF Ended, NoEnds
  <2>. QED  BY <1>2, <1>5, <2>1, <2>2, <2>4 DEF Ended, NoEnds, EndsOnce, EndsAfterStart, EndsCounted
<1>11. CASE op = "start"
  <2>1. Recording /\ Recording'
    BY <1>5, <1>6, <1>11
  <2>2. c = "preview" => "preview" \notin recSeen.ended /\ "preview" \in EosSinks
    BY <1>1, <1>4, <1>11, <2>1 DEF Ended, EndsAfterStart, EosSinks
  <2>3. /\ \A i \in DOMAIN recQueue' : recQueue'[i].what = "eos" => i \in DOMAIN recQueue /\ recQueue'[i] = recQueue[i]
        /\ \A i \in DOMAIN recQueue : i \in DOMAIN recQueue' /\ recQueue'[i] = recQueue[i]
    BY <1>7, <1>8
  <2>4. EndsOnce'
    <3>1. \A d \in Parts : device'[d].owes => d \in EosSinks \ recSeen.ended
      BY <1>3, <1>11, <2>1, <2>2 DEF Ended, EndsOnce
    <3>2. recSeen.ended \subseteq EosSinks
      BY <2>1 DEF Ended, EndsOnce
    <3>3. \A i \in DOMAIN recQueue' : recQueue'[i].what = "eos" => recQueue'[i].c \in recSeen.ended
      BY <2>1, <2>3 DEF Ended, EndsOnce
    <3>4. \A i, j \in DOMAIN recQueue' :
            recQueue'[i].what = "eos" /\ recQueue'[j].what = "eos" /\ recQueue'[i].c = recQueue'[j].c => i = j
      BY <2>1, <2>3 DEF Ended, EndsOnce
    <3>. QED  BY <1>2, <1>5, <3>1, <3>2, <3>3, <3>4 DEF EndsOnce
  <2>5. EndsAfterStart'
    <3>1. {"fileSink", "preview"} \subseteq Parts
      BY DEF Parts
    <3>. QED  BY <1>1, <1>2, <1>3, <1>4, <1>5, <1>11, <2>1, <3>1 DEF Ended, EndsAfterStart
  <2>6. EndsCounted'
    <3>1. \A d : EosOf(d)' <=> EosOf(d)
      BY <2>3 DEF EosOf
    <3>2. \A d : Heard(d)' <=> Heard(d)
      BY <1>2, <3>1 DEF Heard
    <3>3. HeardCount' = HeardCount
      BY <3>2 DEF HeardCount
    <3>. QED  BY <1>2, <1>5, <2>1, <3>2, <3>3 DEF Ended, EndsCounted
  <2>. QED  BY <1>5, <2>1, <2>4, <2>5, <2>6 DEF Ended, NoEnds
<1>. QED  BY <1>3, <1>9, <1>10, <1>11

LEMMA EndsEnded ==
    ASSUME NEW c \in Parts, Records, CommandShape, Together, Ended, Ends(c)
    PROVE  Ended'
<1>1. /\ UNCHANGED <<recKind, rec, recCmd, parts, recThread>> /\ Sends(c, "eos", TRUE)
      /\ c \in EosSinks /\ device[c].owes
      /\ device' = [device EXCEPT ![c].owes = FALSE]
      /\ recSeen' = [recSeen EXCEPT !.ended = @ \cup {c}]
  BY DEF Ends
<1>2. /\ \A d \in Parts : device'[d].owes => d # c /\ device[d].owes
      /\ \A d \in Parts : device'[d].work = device[d].work
      /\ recSeen'.ended = recSeen.ended \cup {c}
  BY <1>1 DEF Records, DeviceRecord, SeenRecord
<1>3. /\ (Recording' <=> Recording) /\ Uncalled' = Uncalled /\ Connected' /\ EosSinks' = EosSinks
  BY <1>1 DEF Recording, Under, Calls, Uncalled, Ended, Connected, EosSinks, Built
<1>4. Recording /\ Recording' /\ c \notin recSeen.ended
  BY <1>1, <1>3 DEF Ended, NoEnds, EndsOnce
<1>5. /\ DOMAIN recQueue = 1 .. Len(recQueue) /\ Len(recQueue) \in Nat
      /\ DOMAIN recQueue' = 1 .. Len(recQueue) + 1
      /\ \A i \in DOMAIN recQueue : recQueue'[i] = recQueue[i]
      /\ recQueue'[Len(recQueue) + 1] = [c |-> c, what |-> "eos", ok |-> TRUE]
  <2>1. "eos" \in Messages
    BY DEF Messages
  <2>. QED  BY <1>1, <2>1, SentIs
<1>6. PICK last \in Nat : last = Len(recQueue) + 1
  BY <1>5
<1>7. /\ \A i \in DOMAIN recQueue' : (i \in DOMAIN recQueue /\ recQueue'[i] = recQueue[i]) \/ i = last
      /\ \A i \in DOMAIN recQueue : i \in DOMAIN recQueue' /\ recQueue'[i] = recQueue[i]
      /\ last \in DOMAIN recQueue' /\ recQueue'[last].c = c /\ recQueue'[last].what = "eos"
  BY <1>5, <1>6
<1>8. \A i \in DOMAIN recQueue : recQueue[i].what = "eos" => recQueue[i].c # c
  BY <1>4 DEF Ended, EndsOnce
<1>9. EosOf(c)' /\ \A d : d # c => (EosOf(d)' <=> EosOf(d))
  BY <1>7 DEF EosOf
<1>10. \A d : Heard(d)' <=> Heard(d)
  BY <1>2, <1>4, <1>9 DEF Heard
<1>11. HeardCount' = HeardCount
  BY <1>10 DEF HeardCount
<1>12. EndsOnce'
  <2>1. \A d \in Parts : device'[d].owes => d \in EosSinks \ (recSeen.ended \cup {c})
    BY <1>2, <1>4 DEF Ended, EndsOnce
  <2>2. recSeen.ended \cup {c} \subseteq EosSinks
    BY <1>1, <1>4 DEF Ended, EndsOnce
  <2>3. \A i \in DOMAIN recQueue' : recQueue'[i].what = "eos" => recQueue'[i].c \in recSeen.ended \cup {c}
    BY <1>4, <1>7 DEF Ended, EndsOnce
  <2>4. \A i, j \in DOMAIN recQueue' :
          recQueue'[i].what = "eos" /\ recQueue'[j].what = "eos" /\ recQueue'[i].c = recQueue'[j].c => i = j
    BY <1>4, <1>7, <1>8 DEF Ended, EndsOnce
  <2>. QED  BY <1>2, <1>3, <2>1, <2>2, <2>3, <2>4 DEF EndsOnce
<1>13. EndsAfterStart'
  <2>1. {"fileSink", "preview"} \subseteq Parts
    BY DEF Parts
  <2>. QED  BY <1>1, <1>2, <1>3, <1>4, <2>1 DEF Ended, EndsAfterStart
<1>14. EndsCounted'
  BY <1>1, <1>3, <1>4, <1>10, <1>11 DEF Ended, EndsCounted
<1>. QED  BY <1>3, <1>4, <1>12, <1>13, <1>14 DEF Ended, NoEnds

-----------------------------------------------------------------------------
(* The theorems.                                                           *)

LEMMA RecInitially == RecInit => RecInv
<1>. SUFFICES ASSUME RecInit PROVE RecInv
  OBVIOUS
<1>1. /\ rec = [state |-> "Null", resetDone |-> FALSE, error |-> FALSE, connected |-> 0, eosCount |-> 0,
                eosReceived |-> FALSE, built |-> FALSE, graph |-> FALSE]
      /\ parts = NewParts /\ recCmd = Free /\ recQueue = <<>>
      /\ recThread = [at |-> "none", op |-> "prepare"] /\ device = NewDevices
      /\ recSeen = [commands |-> 0, faults |-> 0, faulty |-> FALSE, signalled |-> FALSE, ended |-> {}]
      /\ recKind \in RecKinds
  BY DEF RecInit
<1>2. Records
  <2>1. rec \in RecRecord
    <3>1. 0 \in 0 .. 2
      OBVIOUS
    <3>. QED  BY <1>1, <3>1, StatesAre DEF RecRecord
  <2>2. parts \in [Parts -> PartRecord]
    BY <1>1, StatesAre DEF NewParts, PartRecord
  <2>3. recCmd \in CmdRecord
    BY <1>1 DEF Free, CmdRecord, OpsOrNone, Steps
  <2>4. recQueue \in Seq(MessageRecord)
    BY <1>1
  <2>5. recThread \in ThreadRecord
    BY <1>1, OpsAre DEF ThreadRecord
  <2>6. device \in [Parts -> DeviceRecord]
    <3>1. <<>> \in Seq(RecOps)
      OBVIOUS
    <3>. QED  BY <1>1, <3>1, StatesAre DEF NewDevices, DeviceRecord
  <2>7. recSeen \in SeenRecord
    BY <1>1 DEF SeenRecord
  <2>. QED  BY <1>1, <2>1, <2>2, <2>3, <2>4, <2>5, <2>6, <2>7 DEF Records
<1>3. recCmd.op = "none" /\ recCmd.step = "none" /\ recCmd.left = <<>> /\ ~recCmd.reset /\ ~Under /\ ~Calls
  BY <1>1 DEF Free, Under, Calls
<1>4. CommandShape
  BY <1>3 DEF CommandShape
<1>5. rec.state = "Null" /\ ~rec.built /\ ~rec.error /\ rec.eosCount = 0
  BY <1>1
<1>6. \A c \in Parts : device[c].work = <<>> /\ ~device[c].owes
  BY <1>1 DEF NewDevices
<1>7. DOMAIN recQueue = {}
  BY <1>1
<1>8. Together
  <2>1. NoErrors /\ CallsLeft
    BY <1>3, <1>5, <1>7 DEF NoErrors, CallsLeft
  <2>2. OneCall /\ AnswersHere
    BY <1>6, <1>7 DEF OneCall, AnswersHere
  <2>3. ReachedIsTrue /\ EncoderLast /\ AtRestTogether
    BY <1>3, <1>5 DEF ReachedIsTrue, EncoderLast, AtRestTogether
  <2>4. CommandPlace
    BY <1>1, <1>3, <1>5 DEF CommandPlace
  <2>5. ThreadPlace
    BY <1>1 DEF ThreadPlace
  <2>. QED  BY <2>1, <2>2, <2>3, <2>4, <2>5 DEF Together
<1>9. ~Recording
  BY <1>3, <1>5 DEF Recording
<1>10. Ended
  BY <1>5, <1>6, <1>7, <1>9 DEF Ended, Connected, NoEnds, EndsOnce, EndsAfterStart, EndsCounted
<1>. QED  BY <1>2, <1>4, <1>8, <1>10 DEF RecInv

(* Only a failure of a component counts as one.                            *)
LEMMA FailuresCount ==
    ASSUME Records, RecNext, recSeen'.faults = 0
    PROVE  /\ recSeen.faults = 0
           /\ ~FileSinkFails /\ \A c \in Parts : ~AnswersFailed(c) /\ ~Fails(c)
<1>. recSeen \in SeenRecord
  BY DEF Records
<1>1. ~Fault
  <2>. SUFFICES ASSUME Fault PROVE FALSE
    OBVIOUS
  <2>1. recSeen'.faults = recSeen.faults + 1 /\ recSeen.faults \in Nat
    BY DEF Fault, SeenRecord
  <2>. QED  BY <2>1
<1>2. ~FileSinkFails /\ \A c \in Parts : ~AnswersFailed(c) /\ ~Fails(c)
  BY <1>1 DEF FileSinkFails, AnswersFailed, Fails
<1>3. recSeen'.faults = recSeen.faults
  <2>1. ASSUME NEW op \in {"prepare", "start", "pause", "stop", "reset"}, RecCommand(op)
        PROVE  recSeen'.faults = recSeen.faults
    BY <2>1 DEF RecCommand, SeenRecord
  <2>2. CASE RecPrepare \/ RecStart \/ SignalEos
    BY <2>2 DEF RecPrepare, RecStart, SignalEos, SeenRecord
  <2>3. ASSUME NEW c \in Parts, Ends(c) PROVE recSeen'.faults = recSeen.faults
    BY <2>3 DEF Ends, SeenRecord
  <2>. QED  BY <1>2, <2>1, <2>2, <2>3, SeenKept
<1>. QED  BY <1>2, <1>3

LEMMA TogetherStep ==
    Records /\ CommandShape /\ Together /\ RecNext /\ recSeen'.faults = 0 => Together'
<1>. SUFFICES ASSUME Records, CommandShape, Together, RecNext, recSeen'.faults = 0 PROVE Together'
  OBVIOUS
<1>1. ~FileSinkFails /\ ~OnError /\ \A c \in Parts : ~AnswersFailed(c) /\ ~Fails(c)
  BY FailuresCount, NoErrorComes
<1>2. ASSUME NEW op \in {"prepare", "start", "pause", "stop", "reset"}, RecCommand(op) PROVE Together'
  BY <1>2, CommandTogether
<1>3. CASE RecAlready \/ SignalEos
  BY <1>3, AlreadyTogether, SignalTogether
<1>4. CASE RecPrepare \/ SourcePrepared
  BY <1>4, PrepareTogether, PreparedTogether
<1>5. CASE RecStart \/ RecCallsOnly \/ EosCame \/ RecReset
  BY <1>5, CallsTogether
<1>6. CASE RecSkips \/ RecCallsAsync \/ RecCallsSync
  BY <1>6, SkipsTogether, AsyncTogether, SyncTogether
<1>7. CASE RecCalled \/ RecWaited
  BY <1>7, CalledTogether, WaitedTogether
<1>8. ASSUME NEW op \in RecOps, NoteAnswer(op) PROVE Together'
  BY <1>8, NoteTogether
<1>9. CASE Advance \/ AdvanceNull \/ OnEos
  BY <1>9, AdvanceTogether, OnEosTogether
<1>10. ASSUME NEW c \in Parts, Answers(c) \/ Ends(c) PROVE Together'
  BY <1>10, AnswersTogether, EndsTogether
<1>. QED  BY <1>1, <1>2, <1>3, <1>4, <1>5, <1>6, <1>7, <1>8, <1>9, <1>10, RecActions

LEMMA EndedStep ==
    Records /\ CommandShape /\ Together /\ Ended /\ RecNext /\ recSeen'.faults = 0 => Ended'
<1>. SUFFICES ASSUME Records, CommandShape, Together, Ended, RecNext, recSeen'.faults = 0 PROVE Ended'
  OBVIOUS
<1>1. ~FileSinkFails /\ ~OnError /\ \A c \in Parts : ~AnswersFailed(c) /\ ~Fails(c)
  BY FailuresCount, NoErrorComes
<1>2. CASE (\E op \in {"prepare", "start", "pause", "stop", "reset"} : RecCommand(op)) \/ RecAlready \/ SignalEos
  BY <1>2, RestEnded
<1>3. CASE RecPrepare \/ SourcePrepared
  BY <1>3, PrepareEnded, PreparedEnded
<1>4. CASE RecStart \/ RecCallsOnly \/ EosCame \/ RecReset
  BY <1>4, StartEnded, CallsOnlyEnded, EosCameEnded, ResetEnded
<1>5. CASE RecSkips \/ RecCallsAsync \/ RecCallsSync
  BY <1>5, SkipsEnded, AsyncEnded, SyncEnded
<1>6. CASE RecCalled \/ RecWaited
  BY <1>6, CalledEnded, WaitedEnded
<1>7. ASSUME NEW op \in RecOps, NoteAnswer(op) PROVE Ended'
  BY <1>7, NoteEnded
<1>8. CASE Advance \/ AdvanceNull \/ OnEos
  BY <1>8, AdvanceEnded, OnEosEnded
<1>9. ASSUME NEW c \in Parts, Answers(c) \/ Ends(c) PROVE Ended'
  BY <1>9, AnswersEnded, EndsEnded
<1>. QED  BY <1>1, <1>2, <1>3, <1>4, <1>5, <1>6, <1>7, <1>8, <1>9, RecActions

LEMMA RecStep == RecInv /\ [RecNext]_recVars => RecInv'
<1>. SUFFICES ASSUME RecInv, [RecNext]_recVars PROVE RecInv'
  OBVIOUS
<1>1. CASE RecNext
  <2>1. Records' /\ CommandShape'
    BY <1>1, RecordsStep, ShapeStep DEF RecInv
  <2>2. recSeen'.faults = 0 => Together' /\ Ended'
    BY <1>1, FailuresCount, TogetherStep, EndedStep DEF RecInv
  <2>. QED  BY <2>1, <2>2 DEF RecInv
<1>2. CASE UNCHANGED recVars
  <2>1. UNCHANGED <<recKind, rec, parts, recCmd, recQueue, recThread, device, recSeen>>
    BY <1>2 DEF recVars
  <2>2. Records' /\ CommandShape'
    BY <2>1 DEF RecInv, Records, CommandShape
  <2>3. /\ Built' = Built /\ (Under' <=> Under) /\ (Calls' <=> Calls) /\ Uncalled' = Uncalled
        /\ (Recording' <=> Recording) /\ EosSinks' = EosSinks
        /\ \A c, op : Reached(c, op)' <=> Reached(c, op)
    BY <2>1 DEF Built, Under, Calls, Uncalled, Recording, EosSinks, Reached
  <2>4. (AllReached' <=> AllReached) /\ \A c : (AnswerOf(c)' <=> AnswerOf(c)) /\ (Heard(c)' <=> Heard(c))
    BY <2>1, <2>3 DEF AllReached, AnswerOf, IsAnswer, Heard, EosOf
  <2>5. (NoErrors => NoErrors') /\ (CallsLeft => CallsLeft') /\ (EncoderLast => EncoderLast')
    BY <2>1, <2>3 DEF NoErrors, CallsLeft, EncoderLast
  <2>6. (OneCall => OneCall') /\ (ReachedIsTrue => ReachedIsTrue')
    BY <2>1, <2>3, <2>4 DEF OneCall, ReachedIsTrue
  <2>7. AnswersHere => AnswersHere'
    BY <2>1, <2>3, <2>4 DEF AnswersHere, IsAnswer
  <2>8. (AtRestTogether => AtRestTogether') /\ (ThreadPlace => ThreadPlace')
    BY <2>1, <2>3, <2>4 DEF AtRestTogether, ThreadPlace
  <2>9. CommandPlace => CommandPlace'
    BY <2>1, <2>3, <2>4 DEF CommandPlace
  <2>10. HeardCount' = HeardCount
    BY <2>4 DEF HeardCount
  <2>11. Ended => Ended'
    BY <2>1, <2>3, <2>4, <2>10 DEF Ended, Connected, NoEnds, EndsOnce, EndsAfterStart, EndsCounted
  <2>. QED  BY <2>1, <2>2, <2>5, <2>6, <2>7, <2>8, <2>9, <2>11 DEF RecInv, Together
<1>. QED  BY <1>1, <1>2

(* What is known of the recorder's pipeline in every state.                *)
THEOREM RecInvHolds == RecSpec => []RecInv
<1>1. RecInit => RecInv
  BY RecInitially
<1>2. RecInv /\ [RecNext]_recVars => RecInv'
  BY RecStep
<1>. QED  BY <1>1, <1>2, PTL DEF RecSpec

(* The variables of the recorder's pipeline have their types, whatever      *)
(* fails: the ends of no more than two sinks are ever counted up to, and    *)
(* the command thread only ever calls components that there are.           *)
THEOREM RecTypeCorrect == RecSpec => []RecTypeOK
<1>1. RecInv => RecTypeOK
  <2>. SUFFICES ASSUME RecInv PROVE RecTypeOK
    OBVIOUS
  <2>1. Records
    BY DEF RecInv
  <2>2. \A i \in DOMAIN recQueue : recQueue[i] \in [c : Parts, what : RecOps \cup {"eos", "error"}, ok : BOOLEAN]
    <3>. DEFINE S == MessageRecord
    <3>1. recQueue \in Seq(S)
      BY <2>1 DEF Records
    <3>. HIDE DEF S
    <3>2. \A i \in DOMAIN recQueue : recQueue[i] \in S
      BY <3>1, EmptyIs
    <3>. QED  BY <3>2 DEF S, MessageRecord, Messages
  <2>3. recKind \in RecKinds /\ rec \in RecRecord /\ parts \in [Parts -> PartRecord] /\ recThread \in ThreadRecord
    BY <2>1 DEF Records
  <2>4. recCmd.op \in RecOps \cup {"none"} /\ recCmd.left \in Seq(Parts)
        /\ recCmd.step \in {"none", "begin", "source", "eos", "calls", "wait"}
    BY <2>1 DEF Records, CmdRecord, OpsOrNone, Steps
  <2>5. \A c \in Parts : device[c] \in [is : RecStates, work : Seq(RecOps), owes : BOOLEAN]
    BY <2>1 DEF Records, DeviceRecord
  <2>. QED  BY <2>2, <2>3, <2>4, <2>5 DEF RecTypeOK, RecRecord, PartRecord, ThreadRecord
<1>. QED  BY <1>1, RecInvHolds, PTL

(* While no component fails: between commands all components really are     *)
(* where the pipeline says it is (RecorderPipeline's AllTogether), in every *)
(* order of the components' answers and of the pipeline's late setState.   *)
THEOREM AllTogetherHolds == RecSpec => []AllTogether
<1>1. RecInv => AllTogether
  <2>. SUFFICES ASSUME RecInv, recCmd = Free, rec.built, recSeen.faults = 0
                PROVE  \A c \in Built : device[c].is = rec.state /\ device[c].work = <<>>
    BY DEF AllTogether
  <2>1. Together /\ recCmd.step = "none" /\ ~Under
    BY DEF RecInv, Free, Under
  <2>2. Quiet
    BY <2>1, RestIsQuiet DEF Together
  <2>3. \A c \in Built : device[c].is = rec.state
    BY <2>1 DEF Together, AtRestTogether
  <2>. QED  BY <2>2, <2>3, OrderIs DEF Quiet
<1>. QED  BY <1>1, RecInvHolds, PTL

(* Nothing is stopped before the end of this recording has come out of      *)
(* every sink (RecorderPipeline's StopAfterEos): an end of an earlier       *)
(* recording is never counted for this one.                                *)
THEOREM StopAfterEosHolds == RecSpec => StopAfterEos
<1>1. RecInv /\ [RecNext]_recVars =>
        [recCmd.step = "eos" /\ recCmd'.step = "calls" /\ recSeen.faults = 0 => recSeen.ended = EosSinks]_recVars
  <2>. SUFFICES ASSUME RecInv, RecNext, recCmd.step = "eos", recCmd'.step = "calls", recSeen.faults = 0
                PROVE  recSeen.ended = EosSinks
    BY DEF recVars
  <2>1. Records /\ CommandShape /\ Together /\ Ended
    BY DEF RecInv
  <2>2. recCmd' # recCmd /\ recCmd # Free
    BY DEF Free
  <2>3. EosCame
    <3>1. ~RecAlready /\ ~RecPrepare /\ ~SourcePrepared /\ ~RecStart /\ ~RecCallsOnly /\ ~SignalEos /\ ~RecReset
      BY DEF RecAlready, RecPrepare, SourcePrepared, RecStart, RecCallsOnly, SignalEos, RecReset, At
    <3>2. ~RecSkips /\ ~RecCallsAsync /\ ~RecCallsSync /\ ~FileSinkFails /\ ~RecCalled /\ ~RecWaited
      BY DEF RecSkips, RecCallsAsync, RecCallsSync, FileSinkFails, MustCall, Calling, RecCalled, RecWaited
    <3>3. \A op : ~RecCommand(op)
      BY <2>2 DEF RecCommand
    <3>. QED  BY <2>2, <3>1, <3>2, <3>3, CmdKept
  <2>. QED  BY <2>1, <2>3, EosCameEnded
<1>. QED  BY <1>1, RecInvHolds, PTL DEF RecSpec, StopAfterEos

=============================================================================
