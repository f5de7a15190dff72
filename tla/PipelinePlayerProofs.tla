------------------------ MODULE PipelinePlayerProofs ------------------------
(***************************************************************************)
(* Proofs about PipelinePlayer, for any number of components, whatever     *)
(* each of them does at once or later, and any bounds.                     *)
(***************************************************************************)
EXTENDS PipelinePlayer, SequenceTheorems, TLAPS

-----------------------------------------------------------------------------
(* The command thread.                                                     *)

OpNames == Ops \cup {"none", "load", "preview", "shown"}
Tops == Ops \cup {"none", "load"}
Steps == {"idle", "enter", "source", "call", "wait", "asleep", "waited",
          "showing", "build", "clear", "returned"}
Rets == {"ok", "async", "fail", "refused"}
CmdRecord == [top : Tops, op : OpNames, step : Steps, i : 1 .. N + 1, ret : Rets,
              building : BOOLEAN]

(* Past its checks a command is one the components know; and while it calls *)
(* them it has not been turned down.                                        *)
BusyOK(c) ==
    /\ c.step \in {"source", "call", "wait", "asleep", "waited", "build", "clear"} => c.op \in Ops
    /\ c.step = "call" => c.ret \in {"ok", "async", "fail"}

CmdOK(c) == c \in CmdRecord /\ BusyOK(c)

(* The assignments to cmd, with the sets left abstract.                    *)
LEMMA GotoIs ==
    ASSUME cmd \in CmdRecord, NEW s \in Steps, Goto(s)
    PROVE  cmd' \in CmdRecord /\ cmd'.step = s /\ cmd'.op = cmd.op /\ cmd'.ret = cmd.ret
BY DEF Goto, CmdRecord

LEMMA ReturnIs ==
    ASSUME cmd \in CmdRecord, NEW r \in Rets, Return(r)
    PROVE  CmdOK(cmd)' /\ cmd'.step = "returned"
<1>1. "returned" \in Steps
  BY DEF Steps
<1>2. cmd' \in CmdRecord /\ cmd'.step = "returned"
  BY <1>1 DEF Return, CmdRecord
<1>. QED  BY <1>2 DEF CmdOK, BusyOK

LEMMA StartCallsIs ==
    ASSUME cmd \in CmdRecord, cmd.op \in Ops, NEW r \in {"ok", "fail"}, StartCalls(r)
    PROVE  CmdOK(cmd)' /\ cmd'.step = "call"
<1>1. "call" \in Steps /\ r \in Rets /\ 1 \in 1 .. N + 1
  BY PipelineAssumption DEF Steps, Rets
<1>2. cmd' \in CmdRecord /\ cmd'.step = "call" /\ cmd'.op = cmd.op /\ cmd'.ret = r
  BY <1>1 DEF StartCalls, CmdRecord
<1>. QED  BY <1>2 DEF CmdOK, BusyOK

LEMMA NextCallIs ==
    ASSUME CmdOK(cmd), built \in 0 .. N, NEW r \in {"ok", "async", "fail"}, NEW c \in Comps,
           Calling(c), NextCall(r)
    PROVE  CmdOK(cmd)' /\ cmd'.step = "call"
<1>1. r \in Rets /\ cmd.i + 1 \in 1 .. N + 1 /\ cmd \in CmdRecord
  BY PipelineAssumption DEF Rets, Calling, Comps, CmdOK
<1>2. cmd' \in CmdRecord /\ cmd'.step = cmd.step /\ cmd'.op = cmd.op /\ cmd'.ret = r
  BY <1>1 DEF NextCall, CmdRecord
<1>. QED  BY <1>2 DEF CmdOK, BusyOK, Calling

LEMMA CmdStep ==
    ASSUME CmdOK(cmd), built \in 0 .. N, mErrorCode \in {"ok", "fail"}, CommandThread
    PROVE  CmdOK(cmd)' /\ (cmd'.step = "asleep" => WaitSleeps)
<1>. cmd \in CmdRecord /\ BusyOK(cmd)
  BY DEF CmdOK
<1>. {"ok", "fail", "refused"} \subseteq Rets
  BY DEF Rets
<1>1. CASE EnterAlready
  BY <1>1, ReturnIs DEF EnterAlready
<1>2. CASE EnterChange
  BY <1>2, StartCallsIs DEF EnterChange, Ops
<1>3. CASE EnterFlush
  BY <1>3, StartCallsIs DEF EnterFlush, Ops, At
<1>4. CASE EnterReset
  BY <1>4, StartCallsIs, ReturnIs DEF EnterReset, Ops, At
<1>5. CASE Load
  BY <1>5, ReturnIs DEF Load
<1>6. CASE EnterSeek
  <2>1. CASE \E r \in {"ok", "fail"} : Return(r)
    BY <2>1, ReturnIs
  <2>2. CASE cmd' = [cmd EXCEPT !.op = IF mState = "Playing" THEN "pause" ELSE "flush"]
    <3>1. "pause" \in OpNames /\ "flush" \in OpNames
      BY DEF OpNames, Ops
    <3>2. cmd' \in CmdRecord /\ cmd'.step = cmd.step
      BY <2>2, <3>1 DEF CmdRecord
    <3>. QED  BY <1>6, <3>2 DEF CmdOK, BusyOK, EnterSeek, At
  <2>. QED  BY <1>6, <2>1, <2>2 DEF EnterSeek
<1>7. CASE EnterPrepare
  <2>1. cmd.op \in Ops /\ "source" \in Steps
    BY <1>7 DEF EnterPrepare, At, Ops, Steps
  <2>. QED  BY <1>7, <2>1, StartCallsIs, GotoIs DEF EnterPrepare, CmdOK, BusyOK
<1>8. CASE PrepareSource
  <2>1. cmd.op \in Ops /\ "build" \in Steps /\ "wait" \in Steps
    BY <1>8 DEF PrepareSource, At, Ops, Steps
  <2>2. CASE StartCalls("fail")
    BY <2>1, <2>2, StartCallsIs
  <2>3. CASE cmd' = [cmd EXCEPT !.step = "build", !.ret = "ok"]
    <3>1. cmd' \in CmdRecord /\ cmd'.step = "build" /\ cmd'.op = cmd.op
      BY <2>1, <2>3 DEF CmdRecord
    <3>. QED  BY <2>1, <3>1 DEF CmdOK, BusyOK
  <2>4. CASE cmd' = [cmd EXCEPT !.step = "wait", !.building = TRUE]
    <3>1. cmd' \in CmdRecord /\ cmd'.step = "wait" /\ cmd'.op = cmd.op
      BY <2>1, <2>4 DEF CmdRecord
    <3>. QED  BY <2>1, <3>1 DEF CmdOK, BusyOK
  <2>. QED  BY <1>8, <2>2, <2>3, <2>4 DEF PrepareSource
<1>9. CASE Build
  BY <1>9, StartCallsIs DEF Build, At, Ops
<1>10. CASE Called
  <2>1. cmd.op \in Ops /\ cmd.ret \in {"ok", "async", "fail"} /\ {"wait", "clear"} \subseteq Steps
    BY <1>10 DEF Called, BusyOK, Steps
  <2>2. CASE \E r \in {"ok", "fail"} : Return(r)
    BY <2>2, ReturnIs
  <2>3. CASE \E s \in {"wait", "clear"} : Goto(s)
    BY <2>1, <2>3, GotoIs DEF CmdOK, BusyOK
  <2>. QED  BY <1>10, <2>1, <2>2, <2>3 DEF Called
<1>11. CASE WaitEnds
  <2>1. PICK r \in Rets : cmd' = [cmd EXCEPT !.step = "waited", !.ret = r]
    BY <1>11 DEF WaitEnds
  <2>2. cmd.op \in Ops /\ "waited" \in Steps
    BY <1>11 DEF WaitEnds, Steps
  <2>3. cmd' \in CmdRecord /\ cmd'.step = "waited" /\ cmd'.op = cmd.op
    BY <2>1, <2>2 DEF CmdRecord
  <2>. QED  BY <2>2, <2>3 DEF CmdOK, BusyOK
<1>12. CASE WaitSleeps
  <2>1. cmd.op \in Ops /\ "asleep" \in Steps
    BY <1>12 DEF WaitSleeps, Steps
  <2>. QED  BY <1>12, <2>1, GotoIs DEF WaitSleeps, CmdOK, BusyOK
<1>13. CASE Waited
  <2>1. PICK r \in Rets, s \in {"build", "clear", "returned"} :
          cmd' = [cmd EXCEPT !.ret = r, !.building = FALSE, !.step = s]
    <3>1. cmd.ret \in Rets
      BY DEF CmdRecord
    <3>. QED  BY <1>13, <3>1 DEF Waited
  <2>2. cmd.op \in Ops /\ {"build", "clear", "returned"} \subseteq Steps
    BY <1>13 DEF Waited, BusyOK, Steps
  <2>3. cmd' \in CmdRecord /\ cmd'.step = s /\ cmd'.op = cmd.op
    BY <2>1, <2>2 DEF CmdRecord
  <2>. QED  BY <2>2, <2>3 DEF CmdOK, BusyOK
<1>14. CASE Clear
  <2>1. cmd.ret \in Rets
    BY DEF CmdRecord
  <2>. QED  BY <1>14, <2>1, ReturnIs DEF Clear
<1>15. CASE SeekSource
  <2>1. cmd.op \in Ops /\ "wait" \in Steps
    BY <1>15 DEF SeekSource, At, Ops, Steps
  <2>. QED  BY <1>15, <2>1, ReturnIs, GotoIs DEF SeekSource, CmdOK, BusyOK
<1>16. CASE Preview
  <2>1. "start" \in OpNames
    BY DEF OpNames, Ops
  <2>2. cmd' \in CmdRecord /\ cmd'.step = cmd.step
    BY <1>16, <2>1 DEF Preview, CmdRecord
  <2>. QED  BY <1>16, <2>2 DEF Preview, At, CmdOK, BusyOK
<1>17. CASE PreviewWait
  <2>1. "showing" \in Steps
    BY DEF Steps
  <2>. QED  BY <1>17, <2>1, ReturnIs, GotoIs DEF PreviewWait, CmdOK, BusyOK
<1>18. CASE PreviewTimeout
  BY <1>18, ReturnIs DEF PreviewTimeout
<1>19. CASE Continue
  <2>1. CASE cmd' = NoCommand
    BY <2>1, PipelineAssumption
       DEF NoCommand, CmdOK, BusyOK, CmdRecord, Tops, OpNames, Steps, Rets
  <2>2. CASE /\ Following # "none"
             /\ cmd' = [cmd EXCEPT !.op = Following,
                                   !.step = IF Following = "seek" THEN "source" ELSE "enter"]
    <3>1. Following \in OpNames /\ {"source", "enter"} \subseteq Steps
      BY DEF Following, OpNames, Ops, Steps
    <3>2. /\ cmd' \in CmdRecord /\ cmd'.op = Following
          /\ cmd'.step = IF Following = "seek" THEN "source" ELSE "enter"
      BY <2>2, <3>1 DEF CmdRecord
    <3>3. "seek" \in Ops
      BY DEF Ops
    <3>. QED  BY <3>2, <3>3 DEF CmdOK, BusyOK
  <2>. QED  BY <1>19, <2>1, <2>2 DEF Continue
<1>20. CASE \E c \in Comps : CallSkipped(c) \/ CallCompletes(c)
  BY <1>20, NextCallIs DEF CallSkipped, CallCompletes, BusyOK, Calling
<1>21. CASE \E c \in Comps : CallAsync(c)
  BY <1>21, NextCallIs DEF CallAsync
<1>22. CASE \E c \in Comps : CallFails(c)
  <2>1. PICK c \in Comps : CallFails(c)
    BY <1>22
  <2>2. CASE Return("fail")
    BY <2>2, ReturnIs
  <2>3. CASE cmd' = [cmd EXCEPT !.i = IF cmd.op = "flush" THEN built + 1 ELSE @ + 1, !.ret = "fail"]
    <3>0. cmd.i \in 1 .. built /\ built \in 0 .. N
      BY <2>1 DEF CallFails, Calling, Comps
    <3>1. PICK k \in 1 .. N + 1 : cmd' = [cmd EXCEPT !.i = k, !.ret = "fail"]
      <4>1. cmd.i + 1 \in 1 .. N + 1 /\ built + 1 \in 1 .. N + 1
        BY <3>0, PipelineAssumption
      <4>. QED  BY <2>3, <4>1
    <3>2. cmd' \in CmdRecord /\ cmd'.step = cmd.step /\ cmd'.op = cmd.op /\ cmd'.ret = "fail"
      BY <3>1 DEF CmdRecord
    <3>. QED  BY <2>1, <3>2 DEF CallFails, Calling, CmdOK, BusyOK
  <2>. QED  BY <2>1, <2>2, <2>3 DEF CallFails
<1>. QED  BY <1>1, <1>2, <1>3, <1>4, <1>5, <1>6, <1>7, <1>8, <1>9, <1>10, <1>11, <1>12, <1>13,
              <1>14, <1>15, <1>16, <1>17, <1>18, <1>19, <1>20, <1>21, <1>22 DEF CommandThread

-----------------------------------------------------------------------------
(* The rest of the state, in parts that change together.                   *)

ValuesOK ==
    /\ mState \in States /\ mState2 \in States2
    /\ mState3 \in {"Invalid", "Prepared", "Playing", "Paused"}
    /\ mErrorCode \in {"ok", "fail"}
    /\ mEscapeWait \in BOOLEAN /\ mSeekPreviewDone \in BOOLEAN

CompsOK ==
    /\ built \in 0 .. N /\ gen \in Nat
    /\ state \in [Comps -> States] /\ state2 \in [Comps -> States2]

(* The events that say that something was reached.                         *)
Reports == Ops \cup {"eos"}
Places == {"idle", "update", "reached", "null", "notify", "preview", "broadcast"}

PipeOK ==
    /\ queue \in Seq(Message)
    /\ p \in [at : Places, msg : Message, seeking : BOOLEAN]
    /\ p.at \in {"update", "reached", "null", "notify"} => p.msg.event \in Reports

ExternalOK ==
    /\ work \in [Comps -> Seq(Ops)]
    /\ real \in [Comps -> States]
    /\ previewing \in BOOLEAN

HistoryOK ==
    /\ param \in [held : BOOLEAN, pending : Nat, target : Nat]
    /\ told \in SUBSET (Reports \X {"ok", "fail"})
    /\ seek \in [posts : Nat, asked : Nat, sought : Nat, refused : BOOLEAN]
    /\ used \in [commands : 0 .. MaxCommands, eos : 0 .. MaxEos, faults : 0 .. MaxFaults]

TypeInv == CmdOK(cmd) /\ ValuesOK /\ CompsOK /\ PipeOK /\ ExternalOK /\ HistoryOK

LEMMA PartsAreTypes == TypeInv => TypeOK
BY DEF TypeInv, TypeOK, CmdOK, CmdRecord, Tops, OpNames, Steps, Rets, ValuesOK, CompsOK, PipeOK,
       Reports, Places, ExternalOK, HistoryOK

LEMMA OpsAre == StateOps \subseteq Ops /\ Ops \subseteq Reports /\ Reports \subseteq Events
BY DEF StateOps, Ops, Reports, Events

LEMMA ReachedIs ==
    /\ \A op \in StateOps : Reached[op] \in States /\ Doing[op] \in States
    /\ \A op \in Reports \ StateOps : Reached[op] \in States2
<1>1. \A op \in StateOps : Reached[op] \in States /\ Doing[op] \in States
  BY DEF Reached, Doing, StateOps, States
<1>2. \A op \in Reports \ StateOps : Reached[op] \in States2
  BY DEF Reached, Reports, Ops, StateOps, States2
<1>. QED  BY <1>1, <1>2

LEMMA ValuesAre ==
    /\ {"Null", "Preparing", "Prepared", "Playing", "Paused"} \subseteq States
    /\ {"Invalid", "SeekComplete", "FlushComplete", "ResetComplete"} \subseteq States2
BY DEF States, States2

LEMMA BusyOps ==
    ASSUME CmdOK(cmd)
    PROVE  cmd.step \in {"source", "call", "wait", "asleep", "waited", "build", "clear"} => cmd.op \in Ops
BY DEF CmdOK, BusyOK

(* mState and its likes.                                                   *)
LEMMA SetValueIs ==
    ASSUME NEW op \in Ops, mState \in States, mState2 \in States2, SetValue(op)
    PROVE  mState' \in States /\ mState2' \in States2
BY OpsAre, ReachedIs DEF SetValue

LEMMA StatesFrame ==
    Next => \/ UNCHANGED states
            \/ EnterFlush \/ EnterReset \/ Load \/ EnterSeek \/ EnterPrepare \/ Called \/ WaitEnds
            \/ SeekSource \/ Continue \/ SetReached \/ SetNull
            \/ \E c \in Comps : CallFails(c)
BY DEF Next, CommandThread, PipelineThread, states, EnterAlready, EnterChange, PrepareSource,
       Build, CallSkipped, CallCompletes, CallAsync, WaitSleeps, Waited, Clear, Preview,
       PreviewWait, PreviewTimeout, Receive, CowMessage, Update, Notify, PreviewDone, Broadcast,
       Command, RequestSeek, Unblock, Spurious, Answer, EndOfStream, ShowPreview

StatesOK ==
    /\ mState \in States /\ mState2 \in States2
    /\ mState3 \in {"Invalid", "Prepared", "Playing", "Paused"}

LEMMA StatesStep ==
    ASSUME TypeInv, Next
    PROVE  StatesOK'
<1>. /\ mState \in States /\ mState2 \in States2 /\ CmdOK(cmd) /\ PipeOK
     /\ mState3 \in {"Invalid", "Prepared", "Playing", "Paused"}
  BY DEF TypeInv, ValuesOK
<1>. USE DEF StatesOK
<1>1. CASE UNCHANGED states
  BY <1>1 DEF states
<1>2. CASE EnterFlush \/ EnterReset \/ Load \/ EnterPrepare
  BY <1>2, ValuesAre DEF EnterFlush, EnterReset, Load, EnterPrepare
<1>3. CASE EnterSeek
  BY <1>3 DEF EnterSeek
<1>4. CASE Called
  <2>1. cmd.op \in Ops /\ cmd.ret \in {"ok", "async", "fail"}
    BY <1>4 DEF Called, CmdOK, BusyOK
  <2>2. mState' \in States /\ mState2' \in States2
    BY <1>4, <2>1, SetValueIs DEF Called
  <2>. QED  BY <1>4, <2>2 DEF Called
<1>5. CASE WaitEnds
  <2>1. mState' \in States /\ mState2' \in States2
    BY <1>5, SetValueIs DEF WaitEnds
  <2>. QED  BY <1>5, <2>1 DEF WaitEnds
<1>6. CASE SeekSource
  BY <1>6, ValuesAre DEF SeekSource
<1>7. CASE Continue
  BY <1>7 DEF Continue
<1>8. CASE SetReached
  <2>1. p.msg.event \in Reports
    BY <1>8 DEF SetReached, PipeOK
  <2>. QED  BY <1>8, <2>1, ReachedIs DEF SetReached
<1>9. CASE SetNull
  BY <1>9, ValuesAre DEF SetNull
<1>10. CASE \E c \in Comps : CallFails(c)
  BY <1>10, ReachedIs DEF CallFails
<1>. QED  BY <1>1, <1>2, <1>3, <1>4, <1>5, <1>6, <1>7, <1>8, <1>9, <1>10, StatesFrame

LEMMA FlagsFrame ==
    Next => \/ UNCHANGED flags
            \/ EnterReset \/ Called \/ Waited \/ Clear \/ Preview \/ Receive \/ Notify
            \/ PreviewDone \/ Unblock
BY DEF Next, CommandThread, PipelineThread, flags, EnterAlready, EnterChange, EnterFlush, Load,
       EnterSeek, EnterPrepare, PrepareSource, Build, CallSkipped, CallCompletes, CallAsync,
       CallFails, WaitEnds, WaitSleeps, SeekSource, PreviewWait, PreviewTimeout, Continue,
       CowMessage, Update, SetReached, SetNull, Broadcast, Command, RequestSeek, Spurious, Answer,
       EndOfStream, ShowPreview

LEMMA ValuesStep ==
    ASSUME TypeInv, Next
    PROVE  ValuesOK'
<1>1. mErrorCode \in {"ok", "fail"} /\ mEscapeWait \in BOOLEAN /\ mSeekPreviewDone \in BOOLEAN
  BY DEF TypeInv, ValuesOK
<1>2. (mErrorCode \in {"ok", "fail"} /\ mEscapeWait \in BOOLEAN /\ mSeekPreviewDone \in BOOLEAN)'
  <2>1. CASE UNCHANGED flags
    BY <1>1, <2>1 DEF flags
  <2>2. CASE EnterReset \/ Called \/ Waited \/ Clear
    BY <1>1, <2>2 DEF EnterReset, Called, Waited, Clear
  <2>3. CASE Preview \/ Receive \/ Notify \/ PreviewDone \/ Unblock
    BY <1>1, <2>3 DEF Preview, Receive, Notify, PreviewDone, Unblock
  <2>. QED  BY <2>1, <2>2, <2>3, FlagsFrame
<1>. QED  BY <1>2, StatesStep DEF ValuesOK, StatesOK

(* mComponents.                                                            *)
LEMMA CompsFrame ==
    Next => \/ UNCHANGED comps
            \/ Load \/ Build \/ Clear \/ SeekSource \/ Preview \/ Update
            \/ \E c \in Comps : CallSkipped(c) \/ CallCompletes(c) \/ CallAsync(c) \/ CallFails(c)
BY DEF Next, CommandThread, PipelineThread, comps, EnterAlready, EnterChange, EnterFlush,
       EnterReset, EnterSeek, EnterPrepare, PrepareSource, Called, WaitEnds, WaitSleeps, Waited,
       PreviewWait, PreviewTimeout, Continue, Receive, CowMessage, SetReached, SetNull, Notify,
       PreviewDone, Broadcast, Command, RequestSeek, Unblock, Spurious, Answer, EndOfStream,
       ShowPreview

LEMMA NoteCallIs ==
    ASSUME CompsOK, NEW c \in Comps, NEW op \in Ops, NEW s, NEW s2, NoteCall(c, op, s, s2),
           op \in StateOps => s \in States, op \notin StateOps => s2 \in States2
    PROVE  state' \in [Comps -> States] /\ state2' \in [Comps -> States2]
BY DEF NoteCall, CompsOK

LEMMA CompsStep ==
    ASSUME TypeInv, Next
    PROVE  CompsOK'
<1>. CompsOK /\ CmdOK(cmd) /\ PipeOK
  BY DEF TypeInv
<1>. 1 \in Comps /\ N \in Nat \ {0} /\ AudioSink \in Comps \cup {0}
  BY PipelineAssumption DEF Comps
<1>. USE DEF CompsOK
<1>1. CASE UNCHANGED comps
  BY <1>1 DEF comps
<1>2. CASE Load \/ Build \/ Clear \/ SeekSource \/ Preview
  BY <1>2, ValuesAre DEF Load, Build, Clear, SeekSource, Preview
<1>3. CASE Update
  <2>. DEFINE e == p.msg.event
              note(f, v) == [c \in Comps |-> IF c <= built /\ From(c) THEN v ELSE f[c]]
  <2>1. e \in Reports
    BY <1>3 DEF Update, PipeOK
  <2>2. /\ state' = IF e \in StateOps THEN note(state, Reached[e])
                    ELSE IF e = "reset" THEN note(state, "Null") ELSE state
        /\ state2' = IF e \in StateOps THEN state2 ELSE note(state2, Reached[e])
        /\ built' = built /\ gen' = gen
    BY <1>3 DEF Update
  <2>3. /\ e \in StateOps => Reached[e] \in States
        /\ e \notin StateOps => Reached[e] \in States2
    BY <2>1, ReachedIs
  <2>4. \A v \in States : note(state, v) \in [Comps -> States]
    OBVIOUS
  <2>5. \A v \in States2 : note(state2, v) \in [Comps -> States2]
    OBVIOUS
  <2>. HIDE DEF e, note
  <2>. QED  BY <2>2, <2>3, <2>4, <2>5, ValuesAre
<1>4. ASSUME NEW c \in Comps, CallSkipped(c)
      PROVE  CompsOK'
  BY <1>4, ValuesAre DEF CallSkipped
<1>5. ASSUME NEW c \in Comps, CallCompletes(c) \/ CallAsync(c) \/ CallFails(c)
      PROVE  CompsOK'
  <2>1. cmd.op \in Ops
    BY <1>5, BusyOps DEF CallCompletes, CallAsync, CallFails, Calling
  <2>2. /\ cmd.op \in StateOps => Reached[cmd.op] \in States /\ Doing[cmd.op] \in States
        /\ cmd.op \notin StateOps => Reached[cmd.op] \in States2
    BY <2>1, OpsAre, ReachedIs
  <2>3. PICK s, s2 : /\ NoteCall(c, cmd.op, s, s2)
                     /\ cmd.op \in StateOps => s \in States
                     /\ cmd.op \notin StateOps => s2 \in States2
    BY <1>5, <2>2, ValuesAre DEF CallCompletes, CallAsync, CallFails
  <2>4. state' \in [Comps -> States] /\ state2' \in [Comps -> States2]
    BY <2>1, <2>3, NoteCallIs
  <2>. QED  BY <1>5, <2>4 DEF CallCompletes, CallAsync, CallFails
<1>. QED  BY <1>1, <1>2, <1>3, <1>4, <1>5, CompsFrame

(* The pipeline's thread and its messages.                                 *)
LEMMA PipeFrame ==
    Next => \/ UNCHANGED <<queue, p>>
            \/ PipelineThread \/ RequestSeek \/ ShowPreview
            \/ \E c \in Comps : Answer(c) \/ EndOfStream(c)
BY DEF Next, CommandThread, EnterAlready, EnterChange, EnterFlush, EnterReset, Load, EnterSeek,
       EnterPrepare, PrepareSource, Build, CallSkipped, CallCompletes, CallAsync, CallFails,
       Called, WaitEnds, WaitSleeps, Waited, Clear, SeekSource, Preview, PreviewWait,
       PreviewTimeout, Continue, Command, Unblock, Spurious

LEMMA PostIs ==
    ASSUME queue \in Seq(Message), gen \in Nat, NEW e \in Events, NEW c \in 0 .. N,
           NEW ok \in BOOLEAN, Post(e, c, ok)
    PROVE  queue' \in Seq(Message)
<1>1. [event |-> e, from |-> c, gen |-> gen, ok |-> ok] \in Message
  BY DEF Message
<1>. QED  BY <1>1 DEF Post

(* Where the pipeline's thread may be once it has left place at.           *)
LEMMA PMoves ==
    ASSUME PipeOK, NEW place \in Places, p' = [p EXCEPT !.at = place]
    PROVE  /\ p' \in [at : Places, msg : Message, seeking : BOOLEAN]
           /\ p'.at = place /\ p'.msg = p.msg
BY DEF PipeOK

LEMMA PipeStep ==
    ASSUME TypeInv, Next
    PROVE  PipeOK'
<1>. PipeOK /\ gen \in Nat /\ work \in [Comps -> Seq(Ops)] /\ mState3 \in {"Invalid", "Prepared", "Playing", "Paused"}
  BY DEF TypeInv, CompsOK, ExternalOK, ValuesOK
<1>. queue \in Seq(Message) /\ p \in [at : Places, msg : Message, seeking : BOOLEAN]
  BY DEF PipeOK
<1>1. CASE UNCHANGED <<queue, p>>
  BY <1>1 DEF PipeOK
<1>2. CASE Receive
  <2>1. Head(queue) \in Message /\ Tail(queue) \in Seq(Message)
    BY <1>2, HeadTailProperties DEF Receive
  <2>2. CASE mState = "Null"
    BY <1>2, <2>1, <2>2 DEF Receive, PipeOK
  <2>3. CASE mState # "Null"
    <3>1. PICK place \in {"preview", "update"} :
            /\ p' = [at |-> place, msg |-> Head(queue), seeking |-> mState3 # "Invalid"]
            /\ place = "update" => Head(queue).event # "preview"
      BY <1>2, <2>3 DEF Receive
    <3>2. Head(queue).event \in Events /\ Head(queue).event # "cow"
      BY <1>2, <2>1 DEF Receive, Message
    <3>3. place \in Places
      BY <3>1 DEF Places
    <3>4. p' \in [at : Places, msg : Message, seeking : BOOLEAN] /\ p'.at = place /\ p'.msg = Head(queue)
      BY <2>1, <3>1, <3>3
    <3>5. place = "update" => Head(queue).event \in Reports
      BY <3>1, <3>2 DEF Events, Reports
    <3>. QED  BY <1>2, <2>1, <3>1, <3>4, <3>5 DEF Receive, PipeOK
  <2>. QED  BY <2>2, <2>3
<1>3. CASE CowMessage
  <2>1. Tail(queue) \in Seq(Message)
    BY <1>3, HeadTailProperties DEF CowMessage
  <2>. QED  BY <1>3, <2>1 DEF CowMessage, PipeOK
<1>4. CASE Update \/ SetReached \/ SetNull \/ Notify \/ PreviewDone
  <2>1. PICK place \in {"reached", "null", "notify", "broadcast"} : p' = [p EXCEPT !.at = place]
    BY <1>4 DEF Update, SetReached, SetNull, Notify, PreviewDone
  <2>2. queue' = queue
    BY <1>4 DEF Update, SetReached, SetNull, Notify, PreviewDone
  <2>3. place \in {"reached", "null", "notify"} => p.at \in {"update", "reached", "null", "notify"}
    <3>1. p'.at = place
      BY <2>1
    <3>. QED  BY <1>4, <3>1 DEF Update, SetReached, SetNull, Notify, PreviewDone
  <2>4. place \in Places
    BY DEF Places
  <2>. QED  BY <2>1, <2>2, <2>3, <2>4, PMoves DEF PipeOK
<1>5. CASE Broadcast
  <2>1. NoMessage \in Message /\ "idle" \in Places
    BY PipelineAssumption DEF NoMessage, Message, Events, Places
  <2>2. Idle \in [at : Places, msg : Message, seeking : BOOLEAN] /\ Idle.at = "idle"
    BY <2>1 DEF Idle
  <2>. QED  BY <1>5, <2>2 DEF Broadcast, PipeOK
<1>6. CASE RequestSeek
  <2>1. NoMessage \in Message
    BY PipelineAssumption DEF NoMessage, Message, Events
  <2>. QED  BY <1>6, <2>1 DEF RequestSeek, PipeOK
<1>7. CASE ShowPreview
  <2>1. "preview" \in Events /\ VideoSink \in 0 .. N
    BY PipelineAssumption DEF Events
  <2>. QED  BY <1>7, <2>1, PostIs DEF ShowPreview, PipeOK
<1>8. CASE \E c \in Comps : Answer(c)
  <2>1. PICK c \in Comps : Answer(c)
    BY <1>8
  <2>2. Head(work[c]) \in Ops
    BY <2>1 DEF Answer
  <2>3. Head(work[c]) \in Events /\ c \in 0 .. N
    BY <2>2, OpsAre DEF Comps
  <2>. QED  BY <2>1, <2>3, PostIs DEF Answer, PipeOK
<1>9. CASE \E c \in Comps : EndOfStream(c)
  <2>1. PICK c \in Comps : Post("eos", c, TRUE) /\ p' = p
    BY <1>9 DEF EndOfStream
  <2>2. "eos" \in Events /\ c \in 0 .. N
    BY DEF Events, Comps
  <2>3. queue' \in Seq(Message)
    BY <2>1, <2>2, PostIs
  <2>. QED  BY <2>1, <2>3 DEF PipeOK
<1>. QED  BY <1>1, <1>2, <1>3, <1>4, <1>5, <1>6, <1>7, <1>8, <1>9, PipeFrame DEF PipelineThread

(* The components.                                                         *)
LEMMA ExternalFrame ==
    Next => \/ UNCHANGED external
            \/ PrepareSource \/ Clear \/ SeekSource \/ Preview \/ ShowPreview
            \/ \E c \in Comps : CallCompletes(c) \/ CallAsync(c) \/ Answer(c)
BY DEF Next, CommandThread, PipelineThread, external, EnterAlready, EnterChange, EnterFlush,
       EnterReset, Load, EnterSeek, EnterPrepare, Build, CallSkipped, CallFails, Called, WaitEnds,
       WaitSleeps, Waited, PreviewWait, PreviewTimeout, Continue, Receive, CowMessage, Update,
       SetReached, SetNull, Notify, PreviewDone, Broadcast, Command, RequestSeek, Unblock,
       Spurious, EndOfStream

LEMMA PerformedIs ==
    ASSUME real \in [Comps -> States], NEW c \in Comps, NEW op \in Ops, Performed(c, op)
    PROVE  real' \in [Comps -> States]
BY ReachedIs, ValuesAre DEF Performed

LEMMA AskedIs ==
    ASSUME work \in [Comps -> Seq(Ops)], NEW c \in Comps, NEW op \in Ops,
           work' = [work EXCEPT ![c] = Append(@, op)]
    PROVE  work' \in [Comps -> Seq(Ops)]
<1>1. Append(work[c], op) \in Seq(Ops)
  OBVIOUS
<1>. QED  BY <1>1

LEMMA ExternalStep ==
    ASSUME TypeInv, Next
    PROVE  ExternalOK'
<1>. /\ work \in [Comps -> Seq(Ops)] /\ real \in [Comps -> States] /\ previewing \in BOOLEAN
     /\ CmdOK(cmd)
  BY DEF TypeInv, ExternalOK
<1>. 1 \in Comps /\ {"prepare", "seek"} \subseteq Ops
  BY PipelineAssumption DEF Comps, Ops
<1>1. CASE UNCHANGED external
  BY <1>1 DEF external, ExternalOK
<1>2. CASE PrepareSource
  <2>1. CASE Performed(1, "prepare") /\ work' = work
    BY <1>2, <2>1, PerformedIs DEF PrepareSource, ExternalOK
  <2>2. CASE real' = real /\ work' = [work EXCEPT ![1] = Append(@, "prepare")]
    BY <1>2, <2>2, AskedIs DEF PrepareSource, ExternalOK
  <2>3. CASE real' = real /\ work' = work
    BY <1>2, <2>3 DEF PrepareSource, ExternalOK
  <2>. QED  BY <1>2, <2>1, <2>2, <2>3 DEF PrepareSource
<1>3. CASE Clear
  BY <1>3, ValuesAre DEF Clear, ExternalOK
<1>4. CASE SeekSource
  <2>1. CASE work' = [work EXCEPT ![1] = Append(@, "seek")]
    BY <1>4, <2>1, AskedIs DEF SeekSource, ExternalOK
  <2>2. CASE work' = work
    BY <1>4, <2>2 DEF SeekSource, ExternalOK
  <2>. QED  BY <1>4, <2>1, <2>2 DEF SeekSource
<1>5. CASE Preview \/ ShowPreview
  BY <1>5 DEF Preview, ShowPreview, ExternalOK
<1>6. ASSUME NEW c \in Comps, CallCompletes(c) \/ CallAsync(c)
      PROVE  ExternalOK'
  <2>1. cmd.op \in Ops
    BY <1>6, BusyOps DEF CallCompletes, CallAsync, Calling
  <2>2. CASE CallCompletes(c)
    BY <2>1, <2>2, PerformedIs DEF CallCompletes, ExternalOK
  <2>3. CASE CallAsync(c)
    BY <2>1, <2>3, AskedIs DEF CallAsync, ExternalOK
  <2>. QED  BY <1>6, <2>2, <2>3
<1>7. ASSUME NEW c \in Comps, Answer(c)
      PROVE  ExternalOK'
  <2>1. Head(work[c]) \in Ops /\ Tail(work[c]) \in Seq(Ops)
    BY <1>7, HeadTailProperties DEF Answer
  <2>. QED  BY <1>7, <2>1, PerformedIs DEF Answer, ExternalOK
<1>. QED  BY <1>1, <1>2, <1>3, <1>4, <1>5, <1>6, <1>7, ExternalFrame

(* What the application asked for and was told.                            *)
LEMMA HistoryFrame ==
    Next => \/ UNCHANGED <<param, history>>
            \/ \E op \in Ops \cup {"load"} : Command(op)
            \/ RequestSeek \/ EnterAlready \/ EnterChange \/ EnterReset \/ EnterSeek
            \/ EnterPrepare \/ PrepareSource \/ Build \/ Called \/ SeekSource
            \/ PreviewTimeout \/ Continue \/ Notify
            \/ \E c \in Comps : CallFails(c) \/ Answer(c) \/ EndOfStream(c)
BY DEF Next, CommandThread, PipelineThread, history, EnterFlush, Load, CallSkipped,
       CallCompletes, CallAsync, WaitEnds, WaitSleeps, Waited, Clear, Preview, PreviewWait,
       Receive, CowMessage, Update, SetReached, SetNull, PreviewDone, Broadcast, Unblock, Spurious,
       ShowPreview

LEMMA TellIs ==
    ASSUME told \in SUBSET (Reports \X {"ok", "fail"}), NEW e \in Reports,
           NEW r \in {"ok", "fail"}, Tell(e, r)
    PROVE  told' \in SUBSET (Reports \X {"ok", "fail"})
BY DEF Tell

Budget == [commands : 0 .. MaxCommands, eos : 0 .. MaxEos, faults : 0 .. MaxFaults]

LEMMA FaultIs == ASSUME used \in Budget, Fault PROVE used' \in Budget
BY PipelineAssumption DEF Fault, Budget

SeekRecord == [posts : Nat, asked : Nat, sought : Nat, refused : BOOLEAN]
Param == [held : BOOLEAN, pending : Nat, target : Nat]

LEMMA ToldStep ==
    ASSUME TypeInv, Next
    PROVE  told' \in SUBSET (Reports \X {"ok", "fail"})
<1>. told \in SUBSET (Reports \X {"ok", "fail"}) /\ CmdOK(cmd)
  BY DEF TypeInv, HistoryOK
<1>. Ops \subseteq Reports
  BY OpsAre
<1>1. CASE UNCHANGED told
  BY <1>1
<1>2. CASE told' = {}
  BY <1>2
<1>3. CASE \E e \in Reports, r \in {"ok", "fail"} : Tell(e, r)
  BY <1>3, TellIs
<1>4. ASSUME EnterAlready \/ EnterPrepare \/ PrepareSource \/ Build
      PROVE  told' = told \/ \E e \in Reports, r \in {"ok", "fail"} : Tell(e, r)
  BY <1>4 DEF EnterAlready, EnterPrepare, PrepareSource, Build, Ops
<1>5. ASSUME Called \/ \E c \in Comps : CallFails(c)
      PROVE  told' = told \/ \E e \in Reports, r \in {"ok", "fail"} : Tell(e, r)
  <2>1. cmd.op \in Ops /\ cmd.ret \in {"ok", "async", "fail"}
    BY <1>5 DEF Called, CallFails, Calling, CmdOK, BusyOK
  <2>. QED  BY <1>5, <2>1 DEF Called, CallFails
<1>6. ASSUME Notify
      PROVE  told' = told \/ \E e \in Reports, r \in {"ok", "fail"} : Tell(e, r)
  <2>1. p.msg.event \in Reports /\ mErrorCode \in {"ok", "fail"} /\ "start" \in Reports
    BY <1>6 DEF Notify, TypeInv, PipeOK, ValuesOK, Reports, Ops
  <2>. QED  BY <1>6, <2>1 DEF Notify
<1>7. ASSUME \/ RequestSeek \/ EnterChange \/ EnterReset \/ EnterSeek \/ SeekSource
             \/ PreviewTimeout \/ Continue
             \/ \E op \in Ops \cup {"load"} : Command(op)
             \/ \E c \in Comps : Answer(c) \/ EndOfStream(c)
      PROVE  told' = told \/ told' = {}
  BY <1>7 DEF RequestSeek, EnterChange, EnterReset, EnterSeek, SeekSource, PreviewTimeout,
              Continue, Command, Answer, EndOfStream, history
<1>. QED  BY <1>1, <1>2, <1>3, <1>4, <1>5, <1>6, <1>7, HistoryFrame DEF history

LEMMA UsedStep ==
    ASSUME TypeInv, Next
    PROVE  used' \in Budget
<1>. used \in Budget
  BY DEF TypeInv, HistoryOK, Budget
<1>1. CASE Fault
  BY <1>1, FaultIs
<1>2. CASE used' = used
  BY <1>2
<1>3. CASE \E op \in Ops \cup {"load"} : Command(op)
  <2>1. used.commands < MaxCommands /\ used' = [used EXCEPT !.commands = @ + 1]
    BY <1>3 DEF Command
  <2>. QED  BY <2>1, PipelineAssumption DEF Budget
<1>4. CASE \E c \in Comps : EndOfStream(c)
  <2>1. used.eos < MaxEos /\ used' = [used EXCEPT !.eos = @ + 1]
    BY <1>4 DEF EndOfStream
  <2>. QED  BY <2>1, PipelineAssumption DEF Budget
<1>5. ASSUME \/ RequestSeek \/ EnterAlready \/ EnterChange \/ EnterReset \/ EnterSeek
             \/ EnterPrepare \/ PrepareSource \/ Build \/ Called \/ SeekSource
             \/ PreviewTimeout \/ Continue \/ Notify
             \/ \E c \in Comps : CallFails(c) \/ Answer(c)
      PROVE  Fault \/ used' = used
  BY <1>5 DEF RequestSeek, EnterAlready, EnterChange, EnterReset, EnterSeek, EnterPrepare,
              PrepareSource, Build, Called, SeekSource, PreviewTimeout, Continue, Notify,
              CallFails, Answer, history
<1>. QED  BY <1>1, <1>2, <1>3, <1>4, <1>5, HistoryFrame DEF history

LEMMA SeekStep ==
    ASSUME TypeInv, Next
    PROVE  param' \in Param /\ seek' \in SeekRecord
<1>. param \in Param /\ seek \in SeekRecord
  BY DEF TypeInv, HistoryOK, Param, SeekRecord
<1>1. CASE UNCHANGED <<param, history>>
  BY <1>1 DEF history
<1>2. CASE \E op \in Ops \cup {"load"} : Command(op)
  <2>1. CASE seek' = seek
    BY <1>2, <2>1 DEF Command
  <2>2. CASE Allowed("seek") /\ seek' = [seek EXCEPT !.posts = @ - 1]
    <3>1. seek.posts > 0
      BY <2>2 DEF Allowed
    <3>2. seek' \in SeekRecord
      BY <2>2, <3>1 DEF SeekRecord
    <3>. QED  BY <1>2, <3>2 DEF Command
  <2>. QED  BY <1>2, <2>1, <2>2 DEF Command
<1>3. CASE RequestSeek
  <2>1. param' \in Param
    BY <1>3 DEF RequestSeek, Param, SeekRecord
  <2>2. /\ seek' = [seek EXCEPT !.asked = seek.asked + 1, !.posts = seek.posts + 1, !.refused = FALSE]
        /\ seek.asked + 1 \in Nat /\ seek.posts + 1 \in Nat
    BY <1>3 DEF RequestSeek, SeekRecord
  <2>3. seek' \in SeekRecord
    BY <2>2 DEF SeekRecord
  <2>. QED  BY <2>1, <2>3
<1>4. CASE EnterAlready \/ EnterPrepare \/ PrepareSource \/ Build \/ Called \/ PreviewTimeout
  BY <1>4 DEF EnterAlready, EnterPrepare, PrepareSource, Build, Called, PreviewTimeout
<1>5. CASE EnterChange \/ EnterReset
  BY <1>5 DEF EnterChange, EnterReset, history, Param
<1>6. CASE EnterSeek
  BY <1>6 DEF EnterSeek, Param, SeekRecord
<1>7. CASE SeekSource
  BY <1>7 DEF SeekSource, Param, SeekRecord
<1>8. CASE Continue
  BY <1>8 DEF Continue, SeekRecord
<1>9. CASE Notify
  BY <1>9 DEF Notify, Param
<1>10. CASE \E c \in Comps : CallFails(c) \/ Answer(c) \/ EndOfStream(c)
  BY <1>10 DEF CallFails, Answer, EndOfStream
<1>. QED  BY <1>1, <1>2, <1>3, <1>4, <1>5, <1>6, <1>7, <1>8, <1>9, <1>10, HistoryFrame

LEMMA CmdKept ==
    ASSUME CmdOK(cmd), Next
    PROVE  \/ CommandThread
           \/ cmd' = cmd
           \/ \E op \in Ops \cup {"load"} : Command(op)
           \/ \E s \in {"wait", "enter"} :
                /\ cmd' = [cmd EXCEPT !.step = s]
                /\ cmd.step = IF s = "wait" THEN "asleep" ELSE "showing"
BY DEF Next, PipelineThread, RequestSeek, Unblock, Spurious, Goto, Receive, CowMessage, Update,
       SetReached, SetNull, Notify, PreviewDone, Broadcast, Answer, EndOfStream, ShowPreview

LEMMA TypeInit == Init => TypeInv
<1>. SUFFICES ASSUME Init PROVE TypeInv
  OBVIOUS
<1>1. CmdOK(cmd)
  BY PipelineAssumption
     DEF Init, NoCommand, CmdOK, BusyOK, CmdRecord, Tops, OpNames, Steps, Rets
<1>2. ValuesOK /\ CompsOK
  <2>1. ValuesOK
    BY ValuesAre DEF Init, ValuesOK
  <2>2. "Null" \in States /\ "Invalid" \in States2
    BY ValuesAre
  <2>3. state \in [Comps -> States] /\ state2 \in [Comps -> States2]
    BY <2>2 DEF Init
  <2>4. built \in 0 .. N /\ gen \in Nat
    BY PipelineAssumption DEF Init
  <2>. QED  BY <2>1, <2>3, <2>4 DEF CompsOK
<1>3. PipeOK
  <2>1. NoMessage \in Message /\ "idle" \in Places
    BY PipelineAssumption DEF NoMessage, Message, Events, Places
  <2>2. Idle \in [at : Places, msg : Message, seeking : BOOLEAN] /\ Idle.at = "idle"
    BY <2>1 DEF Idle
  <2>. QED  BY <2>2 DEF Init, PipeOK
<1>4. ExternalOK
  <2>1. "Null" \in States /\ <<>> \in Seq(Ops)
    BY ValuesAre
  <2>2. work \in [Comps -> Seq(Ops)] /\ real \in [Comps -> States] /\ previewing \in BOOLEAN
    BY <2>1 DEF Init
  <2>. QED  BY <2>2 DEF ExternalOK
<1>5. HistoryOK
  BY PipelineAssumption DEF Init, HistoryOK
<1>. QED  BY <1>1, <1>2, <1>3, <1>4, <1>5 DEF TypeInv

LEMMA TypeStep == TypeInv /\ [Next]_vars => TypeInv'
<1>. SUFFICES ASSUME TypeInv, [Next]_vars PROVE TypeInv'
  OBVIOUS
<1>1. CASE Next
  <2>1. CmdOK(cmd)'
    <3>. CmdOK(cmd) /\ built \in 0 .. N /\ mErrorCode \in {"ok", "fail"}
      BY DEF TypeInv, CompsOK, ValuesOK
    <3>1. CASE CommandThread
      BY <3>1, CmdStep
    <3>2. CASE cmd' = cmd
      BY <3>2
    <3>3. CASE \E op \in Ops \cup {"load"} : Command(op)
      <4>1. PICK t \in Tops, o \in OpNames :
              cmd' = [cmd EXCEPT !.top = t, !.step = "enter", !.building = FALSE, !.op = o]
        BY <3>3 DEF Command, Tops, OpNames, Ops
      <4>2. "enter" \in Steps
        BY DEF Steps
      <4>3. cmd' \in CmdRecord /\ cmd'.step = "enter"
        BY <4>1, <4>2 DEF CmdOK, CmdRecord
      <4>. QED  BY <4>3 DEF CmdOK, BusyOK
    <3>4. ASSUME NEW s \in {"wait", "enter"}, cmd' = [cmd EXCEPT !.step = s],
                 cmd.step = IF s = "wait" THEN "asleep" ELSE "showing"
          PROVE  CmdOK(cmd)'
      <4>1. s \in Steps
        BY DEF Steps
      <4>2. cmd' \in CmdRecord /\ cmd'.step = s /\ cmd'.op = cmd.op
        BY <3>4, <4>1 DEF CmdOK, CmdRecord
      <4>. QED  BY <3>4, <4>2 DEF CmdOK, BusyOK
    <3>. QED  BY <1>1, <3>1, <3>2, <3>3, <3>4, CmdKept
  <2>2. HistoryOK'
    BY <1>1, ToldStep, UsedStep, SeekStep DEF HistoryOK, Budget, Param, SeekRecord
  <2>. QED  BY <1>1, <2>1, <2>2, ValuesStep, CompsStep, PipeStep, ExternalStep DEF TypeInv
<1>2. CASE UNCHANGED vars
  BY <1>2 DEF vars, states, comps, flags, external, history, TypeInv, CmdOK, BusyOK, ValuesOK,
              CompsOK, PipeOK, ExternalOK, HistoryOK
<1>. QED  BY <1>1, <1>2

LEMMA TypeInvariant == Spec => []TypeInv
BY TypeInit, TypeStep, PTL DEF Spec

\* TypeOK for any components: in particular no field is ever given a value of
\* another field's kind (the two states of a component, the two of the
\* pipeline), whatever answer comes when.
THEOREM PlayerTypeCorrect == Spec => []TypeOK
BY TypeInvariant, PartsAreTypes, PTL

-----------------------------------------------------------------------------
(* Waiting.                                                                *)

(* What the wait looks at.                                                 *)
LEMMA WaitSame ==
    ASSUME cmd'.op = cmd.op, cmd'.building = cmd.building,
           UNCHANGED <<mState, mState2, built, state, state2>>
    PROVE  WaitDone' <=> WaitDone
BY DEF WaitDone, Value, StateFor

LEMMA CompletionStep ==
    TypeInv /\ NoMissedCompletion /\ [Next]_vars => NoMissedCompletion'
<1>. SUFFICES ASSUME TypeInv, NoMissedCompletion, [Next]_vars, cmd'.step = "asleep"
              PROVE  /\ ~mEscapeWait'
                     /\ WaitDone' => p'.at \in {"reached", "null", "notify", "broadcast"}
  BY DEF NoMissedCompletion
<1>. CmdOK(cmd) /\ PipeOK /\ built \in 0 .. N /\ mErrorCode \in {"ok", "fail"}
  BY DEF TypeInv, CompsOK, ValuesOK
<1>1. CASE CommandThread
  <2>1. WaitSleeps
    BY <1>1, CmdStep
  <2>2. cmd'.op = cmd.op /\ cmd'.building = cmd.building
    BY <2>1 DEF WaitSleeps, Goto, CmdOK, CmdRecord
  <2>. QED  BY <2>1, <2>2, WaitSame DEF WaitSleeps, states, comps, flags
<1>2. CASE cmd' = cmd /\ (UNCHANGED vars \/ Next) /\ ~CommandThread
  <2>0. ~mEscapeWait /\ (WaitDone => p.at \in {"reached", "null", "notify", "broadcast"})
    BY <1>2 DEF NoMissedCompletion
  <2>1. CASE UNCHANGED <<states, comps, p, mEscapeWait>>
    BY <1>2, <2>0, <2>1, WaitSame DEF states, comps
  <2>2. CASE Receive
    BY <1>2, <2>0, <2>2, WaitSame DEF Receive, states, comps
  <2>3. CASE Update \/ SetReached \/ SetNull \/ Notify \/ PreviewDone
    <3>1. PICK place \in {"reached", "null", "notify", "broadcast"} : p' = [p EXCEPT !.at = place]
      BY <2>3 DEF Update, SetReached, SetNull, Notify, PreviewDone
    <3>2. mEscapeWait' = mEscapeWait
      BY <2>3 DEF Update, SetReached, SetNull, Notify, PreviewDone, flags
    <3>. QED  BY <2>0, <3>1, <3>2 DEF PipeOK
  <2>4. CASE Broadcast \/ Unblock
    BY <1>2, <2>4 DEF Broadcast, Unblock, CmdOK, CmdRecord
  <2>5. CASE \E op \in Ops \cup {"load"} : Command(op)
    BY <1>2, <2>5 DEF Command
  <2>6. CASE \/ UNCHANGED vars \/ RequestSeek \/ Spurious \/ CowMessage \/ ShowPreview
             \/ \E c \in Comps : Answer(c) \/ EndOfStream(c)
    BY <1>2, <2>1, <2>6 DEF vars, flags, RequestSeek, Spurious, CowMessage, ShowPreview, Answer,
                            EndOfStream
  <2>. QED  BY <1>2, <2>2, <2>3, <2>4, <2>5, <2>6 DEF Next, PipelineThread
<1>3. CASE \E op \in Ops \cup {"load"} : Command(op)
  BY <1>3 DEF Command, CmdOK, CmdRecord
<1>4. CASE \E s \in {"wait", "enter"} : cmd' = [cmd EXCEPT !.step = s]
  BY <1>4 DEF CmdOK, CmdRecord
<1>. QED  BY <1>1, <1>2, <1>3, <1>4, CmdKept DEF vars

\* However many components answer at once or later, fail, end their stream or
\* are interrupted by unblock(): waitUntilCondition never sleeps on when what it
\* waits for is there, unless the broadcast that wakes it is still to come.
THEOREM CompletionIsNotMissed == Spec => []NoMissedCompletion
<1>1. Init => NoMissedCompletion
  BY DEF Init, NoCommand, NoMissedCompletion
<1>. QED  BY <1>1, TypeInvariant, CompletionStep, PTL DEF Spec

-----------------------------------------------------------------------------
(* Seeking.                                                                *)

(* A seek() that has found a position to go to and has not yet asked the   *)
(* source for it.                                                          *)
InHand ==
    \/ cmd.op = "seek" /\ cmd.step = "source"
    \/ cmd.op = "pause" /\ mState3 = "Playing"
    \/ cmd.op = "flush" /\ mState3 # "Invalid"

OnItsWay == InHand \/ (cmd.op = "seek" /\ cmd.step = "enter")

(* The newest request is the one the source was sent to, or it is pending  *)
(* and somebody will see to it or has turned it down.                      *)
SeekInv ==
    /\ cmd.step = "idle" => mState3 = "Invalid" /\ cmd.op = "none"
    /\ cmd.op = "shown" => mState3 = "Paused"
    /\ InHand => param.pending # 0
    /\ IF param.pending = 0 THEN seek.sought = seek.asked
       ELSE param.pending = seek.asked /\ (seek.posts > 0 \/ seek.refused \/ OnItsWay)

(* A step of a command that seeking has nothing to do with.                *)
Aside ==
    /\ UNCHANGED <<mState3, seek>> /\ param'.pending = param.pending
    /\ cmd'.op = cmd.op /\ cmd'.step # "idle"
    /\ cmd.op = "seek" => cmd.step \notin {"enter", "source"} /\ cmd'.step # "source"

LEMMA AsideKeeps == SeekInv /\ Aside => SeekInv'
BY DEF SeekInv, Aside, InHand, OnItsWay

LEMMA AsideSteps ==
    ASSUME TypeInv, CommandThread
    PROVE  EnterSeek \/ SeekSource \/ Preview \/ Continue \/ Aside
<1>. cmd \in CmdRecord /\ param \in Param
  BY DEF TypeInv, CmdOK, HistoryOK, Param
<1>. USE DEF Aside, states, flags, history
<1>1. CASE EnterAlready \/ EnterChange \/ EnterFlush \/ EnterReset \/ Load
  <2>1. UNCHANGED <<mState3, seek>> /\ param'.pending = param.pending
    BY <1>1 DEF EnterAlready, EnterChange, EnterFlush, EnterReset, Load, Param
  <2>2. cmd.op # "seek"
    BY <1>1 DEF EnterAlready, EnterChange, EnterFlush, EnterReset, Load, Already, At
  <2>3. cmd'.op = cmd.op /\ cmd'.step \in {"returned", "call"}
    BY <1>1 DEF EnterAlready, EnterChange, EnterFlush, EnterReset, Load, Return, StartCalls, CmdRecord
  <2>. QED  BY <2>1, <2>2, <2>3
<1>2. CASE EnterPrepare \/ PrepareSource \/ Build
  <2>1. UNCHANGED <<mState3, seek, param>> /\ cmd.op = "prepare"
    BY <1>2 DEF EnterPrepare, PrepareSource, Build, At
  <2>2. cmd'.op = cmd.op /\ cmd'.step \in {"source", "call", "build", "wait"}
    BY <1>2 DEF EnterPrepare, PrepareSource, Build, Goto, StartCalls, CmdRecord
  <2>. QED  BY <2>1, <2>2
<1>3. CASE \E c \in Comps : CallSkipped(c) \/ CallCompletes(c) \/ CallAsync(c) \/ CallFails(c)
  <2>1. UNCHANGED <<mState3, seek, param>> /\ cmd.step = "call"
    BY <1>3 DEF CallSkipped, CallCompletes, CallAsync, CallFails, Calling
  <2>2. cmd'.op = cmd.op /\ cmd'.step \in {"call", "returned"}
    BY <1>3, <2>1 DEF CallSkipped, CallCompletes, CallAsync, CallFails, NextCall, Return, CmdRecord
  <2>. QED  BY <2>1, <2>2
<1>4. CASE Called
  <2>1. cmd.step = "call" /\ cmd.ret \in {"ok", "async", "fail"} /\ UNCHANGED <<mState3, seek, param>>
    BY <1>4 DEF Called, TypeInv, CmdOK, BusyOK
  <2>2. cmd'.op = cmd.op /\ cmd'.step \in {"wait", "clear", "returned"}
    BY <1>4, <2>1 DEF Called, Goto, Return, CmdRecord
  <2>. QED  BY <2>1, <2>2
<1>5. CASE WaitEnds \/ WaitSleeps \/ Waited \/ Clear
  <2>1. UNCHANGED <<mState3, seek, param>> /\ cmd.step \in {"wait", "waited", "clear"}
    BY <1>5 DEF WaitEnds, WaitSleeps, Waited, Clear, At
  <2>2. cmd'.op = cmd.op /\ cmd'.step \in {"waited", "asleep", "build", "clear", "returned"}
    BY <1>5 DEF WaitEnds, WaitSleeps, Waited, Clear, Goto, Return, CmdRecord
  <2>. QED  BY <2>1, <2>2
<1>6. CASE PreviewWait \/ PreviewTimeout
  <2>1. UNCHANGED <<mState3, seek, param>> /\ cmd.op = "shown"
    BY <1>6 DEF PreviewWait, PreviewTimeout, At
  <2>2. cmd'.op = cmd.op /\ cmd'.step \in {"returned", "showing"}
    BY <1>6 DEF PreviewWait, PreviewTimeout, Goto, Return, CmdRecord
  <2>. QED  BY <2>1, <2>2
<1>. QED  BY <1>1, <1>2, <1>3, <1>4, <1>5, <1>6 DEF CommandThread

LEMMA SeekInvStep == TypeInv /\ SeekInv /\ [Next]_vars => SeekInv'
<1>. SUFFICES ASSUME TypeInv, SeekInv, [Next]_vars PROVE SeekInv'
  OBVIOUS
<1>. /\ cmd \in CmdRecord /\ CmdOK(cmd) /\ param \in Param /\ seek \in SeekRecord
     /\ mState3 \in {"Invalid", "Prepared", "Playing", "Paused"}
  BY DEF TypeInv, CmdOK, HistoryOK, Param, SeekRecord, ValuesOK
<1>1. CASE Aside
  BY <1>1, AsideKeeps
<1>2. CASE EnterSeek
  <2>1. /\ cmd.op = "seek" /\ cmd.step = "enter"
        /\ param'.pending = param.pending
    BY <1>2 DEF EnterSeek, At, Param
  <2>2. CASE Return("fail") /\ seek' = [seek EXCEPT !.refused = TRUE]
    <3>1. cmd'.op = "seek" /\ cmd'.step = "returned"
      BY <2>1, <2>2 DEF Return, CmdRecord
    <3>2. seek'.refused /\ seek'.sought = seek.sought /\ seek'.asked = seek.asked
      BY <2>2 DEF SeekRecord
    <3>. QED  BY <2>1, <3>1, <3>2 DEF SeekInv, InHand
  <2>3. CASE Return("ok") /\ param.pending = 0 /\ seek' = seek
    <3>1. cmd'.op = "seek" /\ cmd'.step = "returned"
      BY <2>1, <2>3 DEF Return, CmdRecord
    <3>. QED  BY <2>1, <2>3, <3>1 DEF SeekInv, InHand
  <2>4. CASE /\ param.pending # 0 /\ seek' = seek
             /\ mState \in {"Playing", "Paused", "Prepared"} /\ mState3' = mState
             /\ cmd' = [cmd EXCEPT !.op = IF mState = "Playing" THEN "pause" ELSE "flush"]
    <3>1. cmd'.op = (IF mState = "Playing" THEN "pause" ELSE "flush") /\ cmd'.step = "enter"
      BY <2>1, <2>4 DEF CmdRecord
    <3>. QED  BY <2>1, <2>4, <3>1 DEF SeekInv, InHand, OnItsWay
  <2>. QED  BY <1>2, <2>2, <2>3, <2>4 DEF EnterSeek
<1>3. CASE SeekSource
  <2>1. cmd.op = "seek" /\ cmd.step = "source"
    BY <1>3 DEF SeekSource, At
  <2>2. cmd'.op = "seek" /\ cmd'.step \in {"wait", "returned"}
    BY <1>3, <2>1 DEF SeekSource, Goto, Return, CmdRecord
  <2>3. param'.pending = 0 /\ seek'.sought = param.pending /\ seek'.asked = seek.asked
    BY <1>3 DEF SeekSource, Param, SeekRecord
  <2>. QED  BY <2>1, <2>2, <2>3 DEF SeekInv, InHand
<1>4. CASE Preview
  <2>1. /\ UNCHANGED <<mState3, param, seek>> /\ cmd.op = "preview" /\ cmd.step = "enter"
        /\ cmd'.op = "start" /\ cmd'.step = "enter"
    BY <1>4 DEF Preview, At, states, history, CmdRecord
  <2>. QED  BY <2>1 DEF SeekInv, InHand, OnItsWay
<1>5. CASE Continue
  <2>1. cmd.step = "returned" /\ param' = param
    BY <1>5 DEF Continue
  <2>2. CASE Following = "none"
    <3>1. cmd' = NoCommand /\ mState3' = "Invalid"
      BY <1>5, <2>2 DEF Continue
    <3>2. cmd'.step = "idle" /\ cmd'.op = "none"
      BY <3>1 DEF NoCommand
    <3>3. OnItsWay => cmd.op = "pause" /\ mState3 = "Playing"
      BY <2>1, <2>2 DEF OnItsWay, InHand, Following
    <3>4. /\ seek'.sought = seek.sought /\ seek'.asked = seek.asked /\ seek'.posts = seek.posts
          /\ seek'.refused = (seek.refused \/ (cmd.op = "pause" /\ mState3 = "Playing"))
      BY <1>5, <2>2 DEF Continue, SeekRecord
    <3>. QED  BY <2>1, <3>1, <3>2, <3>3, <3>4 DEF SeekInv, InHand
  <2>3. CASE Following # "none"
    <3>1. UNCHANGED <<mState3, seek>>
      BY <1>5, <2>3 DEF Continue
    <3>2. /\ cmd'.op = Following
          /\ cmd'.step = IF Following = "seek" THEN "source" ELSE "enter"
      BY <1>5, <2>3 DEF Continue, CmdRecord
    <3>3. Following = "flush" => cmd.op = "pause" /\ mState3 = "Playing"
      BY DEF Following
    <3>4. Following = "seek" => cmd.op = "flush" /\ mState3 # "Invalid"
      BY DEF Following
    <3>5. Following = "pause" => cmd.op = "shown"
      BY DEF Following
    <3>6. Following = "shown" => mState3 = "Paused"
      BY DEF Following
    <3>7. OnItsWay => Following \in {"flush", "seek"}
      BY <2>1, <2>3 DEF Following, OnItsWay, InHand
    <3>. QED  BY <2>1, <3>1, <3>2, <3>3, <3>4, <3>5, <3>6, <3>7 DEF SeekInv, InHand, OnItsWay
  <2>. QED  BY <2>2, <2>3
<1>6. ASSUME NEW op \in Ops \cup {"load"}, Command(op)
      PROVE  SeekInv'
  <2>1. cmd.step = "idle" /\ UNCHANGED <<mState3, param>>
    BY <1>6 DEF Command, states
  <2>2. op # "flush"
    BY <1>6 DEF Command, Allowed
  <2>3. cmd'.step = "enter" /\ cmd'.op = IF op = "load" /\ built > 0 THEN "reset" ELSE op
    BY <1>6 DEF Command, CmdRecord
  <2>4. CASE op = "seek"
    <3>1. seek'.sought = seek.sought /\ seek'.asked = seek.asked
      BY <1>6, <2>4 DEF Command, SeekRecord
    <3>. QED  BY <2>1, <2>3, <2>4, <3>1 DEF SeekInv, InHand, OnItsWay
  <2>5. CASE op # "seek"
    <3>1. seek' = seek /\ op # "shown"
      BY <1>6, <2>5 DEF Command, Ops
    <3>. QED  BY <2>1, <2>2, <2>3, <2>5, <3>1 DEF SeekInv, InHand, OnItsWay
  <2>. QED  BY <2>4, <2>5
<1>7. CASE RequestSeek
  <2>1. UNCHANGED <<mState3, cmd>> /\ param'.pending = seek.asked + 1
    BY <1>7 DEF RequestSeek, states, Param
  <2>2. seek'.asked = seek.asked + 1 /\ seek'.posts = seek.posts + 1
    BY <1>7 DEF RequestSeek, SeekRecord
  <2>3. seek.asked \in Nat /\ seek.posts \in Nat
    BY DEF SeekRecord
  <2>. QED  BY <2>1, <2>2, <2>3 DEF SeekInv, InHand, OnItsWay
<1>8. ASSUME UNCHANGED <<mState3, seek>>, param'.pending = param.pending,
             \/ cmd' = cmd
             \/ \E s \in {"wait", "enter"} :
                  /\ cmd' = [cmd EXCEPT !.step = s]
                  /\ cmd.step = IF s = "wait" THEN "asleep" ELSE "showing"
      PROVE  SeekInv'
  <2>1. CASE cmd' = cmd
    BY <1>8, <2>1 DEF SeekInv, InHand, OnItsWay
  <2>2. CASE cmd' # cmd
    <3>1. /\ cmd'.op = cmd.op /\ cmd'.step \in {"wait", "enter"}
          /\ cmd.step \in {"asleep", "showing"}
      BY <1>8, <2>2 DEF CmdRecord
    <3>. QED  BY <1>8, <3>1 DEF SeekInv, InHand, OnItsWay
  <2>. QED  BY <2>1, <2>2
<1>9. ASSUME \/ UNCHANGED vars \/ Unblock \/ Spurious \/ PipelineThread \/ ShowPreview
             \/ \E c \in Comps : Answer(c) \/ EndOfStream(c)
      PROVE  UNCHANGED <<mState3, seek>> /\ param'.pending = param.pending
  BY <1>9 DEF vars, states, history, Unblock, Spurious, PipelineThread, Receive, CowMessage,
              Update, SetReached, SetNull, Notify, PreviewDone, Broadcast, ShowPreview, Answer,
              EndOfStream, Param
<1>. QED
  <2>1. CASE CommandThread
    BY <2>1, <1>1, <1>2, <1>3, <1>4, <1>5, AsideSteps
  <2>2. CASE UNCHANGED vars
    BY <2>2, <1>8, <1>9 DEF vars
  <2>3. CASE \/ Unblock \/ Spurious \/ PipelineThread \/ ShowPreview
             \/ \E c \in Comps : Answer(c) \/ EndOfStream(c)
    <3>1. Next
      BY <2>3 DEF Next
    <3>. QED  BY <2>3, <3>1, <1>6, <1>8, <1>9, <2>1, CmdKept
  <2>. QED  BY <2>1, <2>2, <2>3, <1>6, <1>7 DEF Next

\* Of any number of seeks that overlap, whatever components answer, fail or are
\* interrupted: when none is left to be carried out and none was turned down, the
\* source was sent to the position asked for last.
THEOREM TheLastSeekWins == Spec => []LastSeekWins
<1>1. Init => SeekInv
  BY DEF Init, NoCommand, SeekInv, InHand
<1>2. SeekInv => LastSeekWins
  <2>. SUFFICES ASSUME SeekInv, cmd.step = "idle", seek.posts = 0, ~seek.refused
                PROVE  seek.sought = seek.asked
    BY DEF LastSeekWins
  <2>1. ~OnItsWay
    BY DEF SeekInv, OnItsWay, InHand
  <2>. QED  BY <2>1 DEF SeekInv
<1>. QED  BY <1>1, <1>2, TypeInvariant, SeekInvStep, PTL DEF Spec

=============================================================================
