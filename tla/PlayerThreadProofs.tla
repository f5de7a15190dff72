------------------------- MODULE PlayerThreadProofs -------------------------
(***************************************************************************)
(* Proofs about the threads of a player that decode and show: DecodeThread, *)
(* AudioSink and VideoSink with the Clock they share, for every value of    *)
(* their constants.                                                        *)
(***************************************************************************)
EXTENDS VideoSink, AudioSink, DecodeThread, SequenceTheorems, FiniteSetTheorems, WellFoundedInduction, TLAPS

-----------------------------------------------------------------------------
(* Sequences.                                                              *)

LEMMA AppendIs ==
    ASSUME NEW S, NEW s \in Seq(S), NEW x \in S
    PROVE  /\ Append(s, x) \in Seq(S) /\ Len(Append(s, x)) = Len(s) + 1
           /\ \A i \in 1 .. Len(s) : Append(s, x)[i] = s[i]
           /\ Append(s, x)[Len(s) + 1] = x
  OBVIOUS

LEMMA TailIs ==
    ASSUME NEW S, NEW s \in Seq(S), s # <<>>
    PROVE  /\ Tail(s) \in Seq(S) /\ Len(s) > 0 /\ Len(Tail(s)) = Len(s) - 1
           /\ Head(s) = s[1] /\ Head(s) \in S
           /\ \A i \in 1 .. Len(s) - 1 : Tail(s)[i] = s[i + 1]
  OBVIOUS

LEMMA EmptyIs ==
    ASSUME NEW S, NEW s \in Seq(S)
    PROVE  /\ Len(s) \in Nat /\ (s = <<>> <=> Len(s) = 0)
           /\ DOMAIN s = 1 .. Len(s)
           /\ \A i \in 1 .. Len(s) : s[i] \in S
  OBVIOUS

LEMMA NothingIn == ASSUME NEW S PROVE <<>> \in Seq(S) /\ Len(<<>>) = 0
  OBVIOUS

-----------------------------------------------------------------------------
(* The FFmpeg decoder.                                                     *)

Decoders ==
    [audio : BOOLEAN, paused : BOOLEAN, needFlush : BOOLEAN, codec : BOOLEAN,
     thread : BOOLEAN, continue : BOOLEAN, monitor : BOOLEAN,
     state : {"initialized", "prepared", "started", "stopped"}]

DecodeHistories ==
    [asked : SUBSET DecodeOps, last : DecodeOps \cup {"none"},
     commands : Nat, packets : Nat, flushes : Nat]

Monitors == [pending : Nat, escape : BOOLEAN]

(* The types, with those of the history.                                   *)
DecodeTypes ==
    /\ decoder \in Decoders
    /\ decodeLoop \in [at : {"over", "top", "asleep", "decode", "full", "refused"}, frames : 0 .. MaxOfOne, eos : BOOLEAN]
    /\ monitors \in Seq(Monitors)
    /\ codecHolds \in Int
    /\ decodeMsgs \in Seq(DecodeOps)
    /\ decodeHandler \in [op : DecodeOps \cup {"none"}, step : {"none", "lock", "join"}]
    /\ decodeSeen \in DecodeHistories

(* What is queued was asked and is queued once; before the first command is *)
(* answered there is no other.                                             *)
CommandsAsked ==
    /\ \A i \in 1 .. Len(decodeMsgs) : decodeMsgs[i] \in decodeSeen.asked
    /\ \A i, j \in 1 .. Len(decodeMsgs) : decodeMsgs[i] = decodeMsgs[j] => i = j
    /\ decodeHandler.op # "none" =>
         /\ decoder.paused
         /\ decodeHandler.op \in decodeSeen.asked
         /\ \A i \in 1 .. Len(decodeMsgs) : decodeMsgs[i] # decodeHandler.op
    /\ decodeSeen.last = "none" => decodeSeen.asked \subseteq {"prepare"} /\ decodeHandler.op = "none"
    /\ "prepare" \in decodeSeen.asked => decodeSeen.last = "none"

(* Every flush was a command.                                              *)
FlushesCounted ==
    /\ decodeSeen.flushes + (IF "flush" \in decodeSeen.asked THEN 1 ELSE 0) <= decodeSeen.commands
    /\ decodeSeen.commands <= MaxDecodeCommands
    /\ codecHolds = Empty \/ codecHolds \in 0 .. decodeSeen.flushes

(* Nothing is in the codec that was fed before the last flush, unless it is *)
(* to be flushed before the next packet; the audio decoder, which takes no  *)
(* note of a flush when it is not started, has nothing there at that time.  *)
CodecFresh ==
    /\ ~decoder.needFlush => codecHolds = Empty \/ codecHolds = decodeSeen.flushes
    /\ decodeLoop.at \in {"decode", "full"} => ~decoder.needFlush
    /\ decoder.audio /\ decoder.state # "started" =>
         codecHolds = Empty /\ decoder.paused /\ DecodeLockFree
    /\ decodeSeen.last = "none" => codecHolds = Empty /\ decoder.paused /\ decodeLoop.at = "over"

(* There is a monitor once there is a thread to wait on it.                *)
MonitorThere ==
    decoder.monitor \/ decoder.thread \/ decodeLoop.at # "over" => Len(monitors) > 0

DecodeInv == DecodeTypes /\ CommandsAsked /\ FlushesCounted /\ CodecFresh /\ MonitorThere

(* How full the current monitor is: below the high bar unless its pause has *)
(* come or the thread waits for just that, and never fuller than the rest of *)
(* the packet makes it.                                                    *)
CurrentMonitor ==
    /\ DecodeLockFree => decodeLoop.frames = 0
    /\ Len(monitors) > 0 =>
         LET m == monitors[Len(monitors)]
         IN /\ m.escape => decoder.paused
            /\ ~m.escape /\ decodeLoop.at # "full" => m.pending < DecodeHighBar
            /\ ~m.escape => m.pending <= DecodeHighBar
            /\ m.pending + decodeLoop.frames <= DecodeHighBar + MaxOfOne

InFlightInv == CurrentMonitor /\ InFlightBounded

LEMMA DecodeTypesGive ==
    DecodeInv => DecodeTypeOK
<1>1. DecodeTypes /\ FlushesCounted => codecHolds \in {Empty} \cup 0 .. MaxDecodeCommands
  BY DecodeAssumption DEF DecodeTypes, FlushesCounted, Empty, DecodeHistories
<1>2. DecodeTypes => DecodeTypeOK \/ codecHolds \notin {Empty} \cup 0 .. MaxDecodeCommands
  BY DEF DecodeTypes, DecodeTypeOK, Monitors, Decoders
<1>. QED  BY <1>1, <1>2 DEF DecodeInv

(* What the message thread takes is asked, and nothing like it is queued.   *)
LEMMA DecodeTakeIs ==
    ASSUME DecodeTypes, CommandsAsked, NEW op \in DecodeOps, TakesDecode(op)
    PROVE  /\ op \in decodeSeen.asked
           /\ decodeHandler.op = "none"
           /\ decodeMsgs' \in Seq(DecodeOps)
           /\ \A i \in 1 .. Len(decodeMsgs') : decodeMsgs'[i] \in decodeSeen.asked /\ decodeMsgs'[i] # op
           /\ \A i, j \in 1 .. Len(decodeMsgs') : decodeMsgs'[i] = decodeMsgs'[j] => i = j
<1>1. /\ decodeMsgs \in Seq(DecodeOps) /\ decodeMsgs # <<>>
      /\ Head(decodeMsgs) = op /\ decodeMsgs' = Tail(decodeMsgs)
      /\ decodeHandler.op = "none"
  BY DEF TakesDecode, DecodeTypes
<1>2. /\ decodeMsgs' \in Seq(DecodeOps) /\ Len(decodeMsgs) \in Nat /\ Len(decodeMsgs) > 0
      /\ Len(decodeMsgs') = Len(decodeMsgs) - 1 /\ op = decodeMsgs[1]
      /\ \A i \in 1 .. Len(decodeMsgs) - 1 : decodeMsgs'[i] = decodeMsgs[i + 1]
  BY <1>1, TailIs
<1>. QED  BY <1>1, <1>2 DEF CommandsAsked

LEMMA DecodeCommandKeeps ==
    ASSUME DecodeInv, InFlightInv, NEW op \in DecodeOps, DecodeCommand(op)
    PROVE  DecodeInv' /\ InFlightInv'
<1> USE DEF DecodeInv, InFlightInv
<1>1. /\ decodeSeen' = [decodeSeen EXCEPT !.asked = {op}, !.commands = @ + 1]
      /\ decodeMsgs' = Append(decodeMsgs, op)
      /\ UNCHANGED <<decoder, decodeLoop, monitors, codecHolds, decodeHandler>>
      /\ decodeSeen.commands < MaxDecodeCommands /\ op # "reset" /\ decodeSeen.asked = {} /\ op \in Order(decodeSeen.last)
  BY DEF DecodeCommand
<1>2. decodeMsgs \in Seq(DecodeOps) /\ decodeSeen \in DecodeHistories
  BY DEF DecodeTypes
<1>3. /\ decodeSeen'.asked = {op} /\ decodeSeen'.commands = decodeSeen.commands + 1
      /\ decodeSeen'.last = decodeSeen.last /\ decodeSeen'.flushes = decodeSeen.flushes
      /\ decodeSeen' \in DecodeHistories
  <2>1. {op} \in SUBSET DecodeOps /\ decodeSeen.commands + 1 \in Nat
    BY <1>2 DEF DecodeHistories
  <2>. QED  BY <1>1, <1>2, <2>1 DEF DecodeHistories
<1>4. Len(decodeMsgs) = 0
  BY <1>1, <1>2, EmptyIs DEF CommandsAsked, DecodeHistories
<1>5. decodeMsgs' \in Seq(DecodeOps) /\ Len(decodeMsgs') = 1 /\ decodeMsgs'[1] = op
  BY <1>1, <1>2, <1>4, AppendIs
<1>6. /\ op = "prepare" => decodeSeen.last = "none"
      /\ decodeSeen.last = "none" => op = "prepare"
  BY <1>1, <1>2 DEF DecodeHistories, Order, DecodeOps
<1>7. decodeHandler.op = "none"
  BY <1>1, <1>2 DEF CommandsAsked
<1>8. DecodeTypes'
  BY <1>1, <1>3, <1>5 DEF DecodeTypes
<1>9. CommandsAsked'
  BY <1>1, <1>3, <1>5, <1>6, <1>7 DEF CommandsAsked
<1>10. FlushesCounted'
  BY <1>1, <1>2, <1>3, DecodeAssumption, SMTT(30) DEF FlushesCounted, DecodeHistories
<1>11. CodecFresh' /\ MonitorThere' /\ InFlightInv'
  BY <1>1, <1>3 DEF CodecFresh, MonitorThere, CurrentMonitor, InFlightBounded, DecodeLockFree
<1>. QED  BY <1>8, <1>9, <1>10, <1>11

(* The answer of a handler that has taken its command at once, and of one   *)
(* that has waited for the decode thread.                                  *)
LEMMA AnsweredDecodeIs ==
    ASSUME DecodeTypes, NEW op \in DecodeOps, AnsweredDecode(op)
    PROVE  /\ decodeSeen' \in DecodeHistories
           /\ decodeSeen'.asked = decodeSeen.asked \ {op}
           /\ op # "none" /\ decodeSeen'.last = IF op = "flush" THEN decodeSeen.last ELSE op
           /\ decodeSeen'.commands = decodeSeen.commands
           /\ decodeSeen'.flushes = decodeSeen.flushes + (IF op = "flush" THEN 1 ELSE 0)
           /\ decodeHandler' = [op |-> "none", step |-> "none"]
           /\ decodeHandler'.op = "none"
           /\ decodeHandler' \in [op : DecodeOps \cup {"none"}, step : {"none", "lock", "join"}]
<1> DEFINE n == IF op = "flush" THEN 1 ELSE 0
           l == IF op = "flush" THEN decodeSeen.last ELSE op
<1>3. decodeSeen \in DecodeHistories
  BY DEF DecodeTypes
<1>1. n \in Nat /\ l \in DecodeOps \cup {"none"}
  BY <1>3 DEF DecodeHistories
<1>2. decodeSeen' = [decodeSeen EXCEPT !.asked = @ \ {op}, !.last = l, !.flushes = @ + n]
  BY DEF AnsweredDecode
<1> HIDE DEF n, l
<1>4. /\ decodeSeen' \in DecodeHistories
      /\ decodeSeen'.asked = decodeSeen.asked \ {op} /\ decodeSeen'.last = l
      /\ decodeSeen'.commands = decodeSeen.commands
      /\ decodeSeen'.flushes = decodeSeen.flushes + n
  <2>1. decodeSeen.asked \ {op} \in SUBSET DecodeOps /\ decodeSeen.flushes + n \in Nat
    BY <1>1, <1>3 DEF DecodeHistories
  <2>. QED  BY <1>1, <1>2, <1>3, <2>1 DEF DecodeHistories
<1>5. op # "none"
  BY DEF DecodeOps
<1>6. decodeHandler' = [op |-> "none", step |-> "none"]
  BY DEF AnsweredDecode
<1>. QED  BY <1>4, <1>5, <1>6 DEF n, l

LEMMA TakenAndAnswered ==
    ASSUME DecodeInv, NEW op \in DecodeOps, TakesDecode(op), AnsweredDecode(op)
    PROVE  /\ CommandsAsked'
           /\ UNCHANGED codecHolds => FlushesCounted'
           /\ decodeMsgs' \in Seq(DecodeOps)
           /\ decodeSeen.last = "none" <=> op = "prepare"
<1> USE DEF DecodeInv
<1>1. CommandsAsked'
  BY DecodeTakeIs, AnsweredDecodeIs DEF CommandsAsked
<1>2. UNCHANGED codecHolds => FlushesCounted'
  <2>1. decodeSeen \in DecodeHistories /\ codecHolds \in Int
    BY DEF DecodeTypes
  <2>2. op \in decodeSeen.asked
    BY DecodeTakeIs
  <2>. QED  BY <2>1, <2>2, AnsweredDecodeIs DEF FlushesCounted, DecodeHistories
<1>3. decodeSeen.last = "none" <=> op = "prepare"
  BY DecodeTakeIs DEF CommandsAsked
<1>. QED  BY <1>1, <1>2, <1>3, DecodeTakeIs

LEMMA WaitedAndAnswered ==
    ASSUME DecodeInv, NEW op \in DecodeOps, decodeHandler.op = op, AnsweredDecode(op), UNCHANGED decodeMsgs
    PROVE  CommandsAsked' /\ (op # "flush" /\ (UNCHANGED codecHolds \/ codecHolds' = Empty) => FlushesCounted')
<1> USE DEF DecodeInv
<1>1. op # "none" /\ op \in decodeSeen.asked
  BY DEF CommandsAsked, DecodeOps
<1>2. CommandsAsked'
  BY <1>1, AnsweredDecodeIs DEF CommandsAsked
<1>3. decodeSeen \in DecodeHistories /\ codecHolds \in Int
  BY DEF DecodeTypes
<1>4. op # "flush" /\ (UNCHANGED codecHolds \/ codecHolds' = Empty) => FlushesCounted'
  BY <1>1, <1>3, AnsweredDecodeIs DEF FlushesCounted, DecodeHistories
<1>. QED  BY <1>2, <1>4

LEMMA UnblockedIs ==
    ASSUME DecodeTypes
    PROVE  /\ Unblocked \in Seq(Monitors) /\ Len(Unblocked) = Len(monitors)
           /\ \A i \in 1 .. Len(monitors) :
                /\ Unblocked[i].pending = monitors[i].pending
                /\ monitors[i].escape => Unblocked[i].escape
                /\ i # Len(monitors) => Unblocked[i] = monitors[i]
<1>1. monitors \in Seq(Monitors) /\ DOMAIN monitors = 1 .. Len(monitors) /\ Len(monitors) \in Nat
  BY EmptyIs DEF DecodeTypes
<1>2. CASE decoder.monitor
  <2> DEFINE u == [monitors EXCEPT ![Len(monitors)].escape = TRUE]
  <2>1. Unblocked = u
    BY <1>2 DEF Unblocked
  <2>2. \A i \in 1 .. Len(monitors) :
          /\ u[i] \in Monitors
          /\ u[i].pending = monitors[i].pending
          /\ monitors[i].escape => u[i].escape
          /\ i # Len(monitors) => u[i] = monitors[i]
    <3>1. \A i \in 1 .. Len(monitors) : monitors[i] \in Monitors
      BY <1>1, EmptyIs
    <3>2. \A m \in Monitors : /\ [m EXCEPT !.escape = TRUE] \in Monitors
                              /\ [m EXCEPT !.escape = TRUE].pending = m.pending
                              /\ [m EXCEPT !.escape = TRUE].escape
      BY DEF Monitors
    <3>3. \A i \in 1 .. Len(monitors) :
            u[i] = IF i = Len(monitors) THEN [monitors[i] EXCEPT !.escape = TRUE] ELSE monitors[i]
      BY <1>1
    <3> HIDE DEF u
    <3>. QED  BY <3>1, <3>2, <3>3
  <2>3. u \in Seq(Monitors) /\ Len(u) = Len(monitors)
    <3>1. DOMAIN u = 1 .. Len(monitors)
      BY <1>1
    <3>2. u = [i \in 1 .. Len(monitors) |-> u[i]]
      BY <1>1
    <3> HIDE DEF u
    <3>3. u \in [1 .. Len(monitors) -> Monitors]
      BY <3>2, <2>2
    <3>. QED  BY <1>1, <3>3
  <2>. QED  BY <2>1, <2>2, <2>3
<1>3. CASE ~decoder.monitor
  BY <1>1, <1>3 DEF Unblocked
<1>. QED  BY <1>2, <1>3

(* A pause, whether or not it unblocks the thread.                         *)
LEMMA PauseUnblocks ==
    ASSUME DecodeInv, InFlightInv,
           decoder' = [decoder EXCEPT !.paused = TRUE], monitors' = monitors \/ monitors' = Unblocked,
           UNCHANGED codecHolds,
           \/ decodeLoop' = decodeLoop
           \/ decodeLoop.at = "top" /\ decodeLoop' = [decodeLoop EXCEPT !.at = "over"],
           decodeSeen'.last = decodeSeen.last, decodeSeen'.flushes = decodeSeen.flushes
    PROVE  /\ decoder' \in Decoders
           /\ decoder'.paused /\ monitors' \in Seq(Monitors)
           /\ CodecFresh' /\ MonitorThere' /\ InFlightInv'
<1> USE DEF DecodeInv, InFlightInv
<1>1. /\ monitors' \in Seq(Monitors) /\ Len(monitors') = Len(monitors)
      /\ \A i \in 1 .. Len(monitors) :
                /\ monitors'[i].pending = monitors[i].pending
                /\ monitors[i].escape => monitors'[i].escape
                /\ i # Len(monitors) => monitors'[i] = monitors[i]
  <2>1. monitors \in Seq(Monitors)
    BY DEF DecodeTypes
  <2>. QED  BY <2>1, UnblockedIs
<1>2. /\ decoder' \in Decoders
      /\ decoder'.paused /\ decoder'.audio = decoder.audio /\ decoder'.needFlush = decoder.needFlush
      /\ decoder'.state = decoder.state /\ decoder'.thread = decoder.thread /\ decoder'.monitor = decoder.monitor
  BY DEF DecodeTypes, Decoders
<1>7. /\ decodeLoop'.frames = decodeLoop.frames /\ (DecodeLockFree <=> DecodeLockFree')
      /\ \/ decodeLoop'.at = decodeLoop.at
         \/ decodeLoop.at = "top" /\ decodeLoop'.at = "over"
  <2>1. CASE decodeLoop' = decodeLoop
    BY <2>1 DEF DecodeLockFree
  <2>2. CASE decodeLoop.at = "top" /\ decodeLoop' = [decodeLoop EXCEPT !.at = "over"]
    <3>1. decodeLoop'.at = "over" /\ decodeLoop'.frames = decodeLoop.frames
      BY <2>2 DEF DecodeTypes
    <3>. QED  BY <2>2, <3>1 DEF DecodeLockFree
  <2>. QED  BY <2>1, <2>2
<1>3. CodecFresh' /\ MonitorThere'
  BY <1>1, <1>2, <1>7 DEF CodecFresh, MonitorThere
<1>4. /\ Len(monitors) \in Nat /\ DOMAIN monitors = 1 .. Len(monitors) /\ DOMAIN monitors' = 1 .. Len(monitors)
      /\ \A i \in 1 .. Len(monitors) : monitors[i] \in Monitors /\ monitors'[i] \in Monitors
  BY <1>1, EmptyIs DEF DecodeTypes
<1>5. InFlightBounded'
  BY <1>1, <1>4, DecodeAssumption DEF InFlightBounded, Monitors
<1>6. CurrentMonitor'
  BY <1>1, <1>2, <1>4, <1>7 DEF CurrentMonitor, Monitors
<1>. QED  BY <1>1, <1>2, <1>3, <1>5, <1>6

LEMMA DecodeResetKeeps ==
    ASSUME DecodeInv, InFlightInv, DecodeReset
    PROVE  DecodeInv' /\ InFlightInv'
<1> USE DEF DecodeInv, InFlightInv
<1>1. /\ decodeSeen' = [decodeSeen EXCEPT !.asked = @ \cup {"reset"}]
      /\ decodeMsgs' = Append(decodeMsgs, "reset")
      /\ decoder' = [decoder EXCEPT !.paused = TRUE]
      /\ monitors' = Unblocked
      /\ UNCHANGED <<decodeLoop, codecHolds, decodeHandler>>
      /\ "reset" \notin decodeSeen.asked /\ decodeSeen.last \notin {"none", "reset"}
  BY DEF DecodeReset
<1>2. decodeMsgs \in Seq(DecodeOps) /\ decodeSeen \in DecodeHistories
  BY DEF DecodeTypes
<1>3. /\ decodeSeen'.asked = decodeSeen.asked \cup {"reset"} /\ decodeSeen'.commands = decodeSeen.commands
      /\ decodeSeen'.last = decodeSeen.last /\ decodeSeen'.flushes = decodeSeen.flushes
      /\ decodeSeen' \in DecodeHistories
  <2>1. decodeSeen.asked \cup {"reset"} \in SUBSET DecodeOps
    BY <1>2 DEF DecodeHistories, DecodeOps
  <2>. QED  BY <1>1, <1>2, <2>1 DEF DecodeHistories
<1>4. /\ decodeMsgs' \in Seq(DecodeOps) /\ Len(decodeMsgs) \in Nat
      /\ Len(decodeMsgs') = Len(decodeMsgs) + 1 /\ decodeMsgs'[Len(decodeMsgs) + 1] = "reset"
      /\ \A i \in 1 .. Len(decodeMsgs) : decodeMsgs'[i] = decodeMsgs[i]
  <2>1. "reset" \in DecodeOps
    BY DEF DecodeOps
  <2>. QED  BY <1>1, <1>2, <2>1, AppendIs
<1>5. CommandsAsked'
  <2>1. \A i \in 1 .. Len(decodeMsgs') : \/ i \in 1 .. Len(decodeMsgs) /\ decodeMsgs'[i] = decodeMsgs[i]
                                         \/ i = Len(decodeMsgs) + 1 /\ decodeMsgs'[i] = "reset"
    BY <1>4
  <2>2. decoder'.paused
    BY <1>1 DEF DecodeTypes, Decoders
  <2>3. \A i \in 1 .. Len(decodeMsgs) : decodeMsgs[i] # "reset"
    BY <1>1 DEF CommandsAsked
  <2>. QED  BY <1>1, <1>3, <2>1, <2>2, <2>3 DEF CommandsAsked
<1>6. /\ CodecFresh' /\ MonitorThere' /\ InFlightInv' /\ monitors' \in Seq(Monitors)
      /\ decoder' \in Decoders
  BY <1>1, <1>3, PauseUnblocks
<1>7. DecodeTypes'
  BY <1>1, <1>3, <1>4, <1>6 DEF DecodeTypes
<1>8. FlushesCounted'
  BY <1>1, <1>3 DEF FlushesCounted
<1>. QED  BY <1>5, <1>6, <1>7, <1>8

LEMMA OnDecodePrepareKeeps ==
    ASSUME DecodeInv, InFlightInv, OnDecodePrepare
    PROVE  DecodeInv' /\ InFlightInv'
<1> USE DEF DecodeInv, InFlightInv
<1>1. /\ TakesDecode("prepare") /\ AnsweredDecode("prepare") /\ "prepare" \in DecodeOps
      /\ decoder' = [decoder EXCEPT !.state = "prepared"]
      /\ UNCHANGED <<decodeLoop, monitors, codecHolds>>
  BY DEF OnDecodePrepare, DecodeOps
<1>2. /\ CommandsAsked' /\ FlushesCounted' /\ decodeMsgs' \in Seq(DecodeOps) /\ decodeSeen.last = "none"
      /\ decodeSeen' \in DecodeHistories /\ decodeSeen'.last = "prepare"
      /\ decodeSeen'.flushes = decodeSeen.flushes
      /\ decodeHandler' \in [op : DecodeOps \cup {"none"}, step : {"none", "lock", "join"}]
  <2>1. decodeSeen \in DecodeHistories
    BY DEF DecodeTypes
  <2>2. decodeSeen.flushes + 0 = decodeSeen.flushes
    BY <2>1 DEF DecodeHistories
  <2>. QED  BY <1>1, <2>2, TakenAndAnswered, AnsweredDecodeIs
<1>3. /\ decoder' \in Decoders /\ decoder'.paused = decoder.paused /\ decoder'.audio = decoder.audio
      /\ decoder'.needFlush = decoder.needFlush /\ decoder'.thread = decoder.thread
      /\ decoder'.monitor = decoder.monitor
  BY <1>1 DEF DecodeTypes, Decoders
<1>4. DecodeTypes'
  BY <1>1, <1>2, <1>3 DEF DecodeTypes
<1>5. CodecFresh'
  BY <1>1, <1>2, <1>3 DEF CodecFresh, DecodeLockFree
<1>6. MonitorThere' /\ InFlightInv'
  BY <1>1, <1>3 DEF MonitorThere, CurrentMonitor, DecodeLockFree, InFlightBounded
<1>. QED  BY <1>2, <1>4, <1>5, <1>6

(* A new monitor: nobody waits on the former one, since the lock is free.   *)
LEMMA NewMonitor ==
    ASSUME DecodeInv, InFlightInv, DecodeLockFree,
           monitors' = Append(monitors, [pending |-> 0, escape |-> FALSE]),
           decodeLoop' = SignalDecode(decodeLoop) \/ decodeLoop' = [decodeLoop EXCEPT !.at = "top"]
    PROVE  /\ monitors' \in Seq(Monitors) /\ Len(monitors') > 0
           /\ decodeLoop' \in [at : {"over", "top", "asleep", "decode", "full", "refused"}, frames : 0 .. MaxOfOne, eos : BOOLEAN]
           /\ decodeLoop'.at \in {"over", "top"} /\ InFlightInv'
<1> USE DEF DecodeInv, InFlightInv
<1>1. [pending |-> 0, escape |-> FALSE] \in Monitors /\ monitors \in Seq(Monitors) /\ Len(monitors) \in Nat
  BY EmptyIs DEF Monitors, DecodeTypes
<1>2. /\ monitors' \in Seq(Monitors) /\ Len(monitors') = Len(monitors) + 1
      /\ \A i \in 1 .. Len(monitors) : monitors'[i] = monitors[i]
      /\ monitors'[Len(monitors) + 1] = [pending |-> 0, escape |-> FALSE]
  BY <1>1, AppendIs
<1>3. /\ decodeLoop' \in [at : {"over", "top", "asleep", "decode", "full", "refused"}, frames : 0 .. MaxOfOne, eos : BOOLEAN]
      /\ decodeLoop'.at \in {"over", "top"} /\ decodeLoop'.frames = decodeLoop.frames
  BY DEF DecodeTypes, SignalDecode, DecodeLockFree
<1>4. decodeLoop.frames = 0
  BY DEF CurrentMonitor, DecodeLockFree, DecodeTypes
<1>5. CurrentMonitor'
  <2>1. monitors'[Len(monitors')].pending = 0 /\ ~monitors'[Len(monitors')].escape
    BY <1>2
  <2>. QED  BY <1>3, <1>4, <2>1, DecodeAssumption DEF CurrentMonitor
<1>6. InFlightBounded'
  <2>1. \A i \in 1 .. Len(monitors) + 1 :
          \/ i \in 1 .. Len(monitors) /\ monitors'[i] = monitors[i]
          \/ i = Len(monitors) + 1 /\ monitors'[i].pending = 0 /\ ~monitors'[i].escape
    BY <1>1, <1>2
  <2>2. DOMAIN monitors' = 1 .. Len(monitors) + 1 /\ DOMAIN monitors = 1 .. Len(monitors)
    BY <1>1, <1>2, EmptyIs
  <2>. QED  BY <2>1, <2>2, DecodeAssumption DEF InFlightBounded
<1>. QED  BY <1>1, <1>2, <1>3, <1>5, <1>6

LEMMA OnDecodeStartKeeps ==
    ASSUME DecodeInv, InFlightInv, OnDecodeStart
    PROVE  DecodeInv' /\ InFlightInv'
<1> USE DEF DecodeInv, InFlightInv
<1>1. /\ TakesDecode("start") /\ AnsweredDecode("start") /\ "start" \in DecodeOps /\ DecodeLockFree
      /\ decoder' = [decoder EXCEPT !.codec = TRUE, !.thread = TRUE, !.paused = FALSE, !.monitor = TRUE,
                                  !.continue = IF decoder.thread THEN @ ELSE TRUE, !.state = "started"]
      /\ decodeLoop' = SignalDecode(decodeLoop) \/ decodeLoop' = [decodeLoop EXCEPT !.at = "top"]
      /\ monitors' = Append(monitors, [pending |-> 0, escape |-> FALSE])
      /\ UNCHANGED codecHolds
  BY DEF OnDecodeStart, DecodeOps
<1>2. /\ CommandsAsked' /\ FlushesCounted' /\ decodeMsgs' \in Seq(DecodeOps) /\ decodeSeen.last # "none"
      /\ decodeSeen' \in DecodeHistories /\ decodeSeen'.last = "start"
      /\ decodeSeen'.flushes = decodeSeen.flushes
      /\ decodeHandler' \in [op : DecodeOps \cup {"none"}, step : {"none", "lock", "join"}]
  <2>1. decodeSeen \in DecodeHistories
    BY DEF DecodeTypes
  <2>2. decodeSeen.flushes + 0 = decodeSeen.flushes
    BY <2>1 DEF DecodeHistories
  <2>. QED  BY <1>1, <2>2, TakenAndAnswered, AnsweredDecodeIs
<1>3. /\ decoder' \in Decoders /\ decoder'.audio = decoder.audio /\ decoder'.state = "started"
      /\ decoder'.needFlush = decoder.needFlush
  <2>1. decoder \in Decoders /\ (IF decoder.thread THEN decoder.continue ELSE TRUE) \in BOOLEAN
    BY DEF DecodeTypes, Decoders
  <2>. QED  BY <1>1, <2>1 DEF Decoders
<1>4. /\ monitors' \in Seq(Monitors) /\ Len(monitors') > 0
      /\ decodeLoop' \in [at : {"over", "top", "asleep", "decode", "full", "refused"}, frames : 0 .. MaxOfOne, eos : BOOLEAN]
      /\ decodeLoop'.at \in {"over", "top"} /\ InFlightInv'
  BY <1>1, NewMonitor
<1>5. DecodeTypes'
  BY <1>1, <1>2, <1>3, <1>4 DEF DecodeTypes
<1>6. CodecFresh' /\ MonitorThere'
  BY <1>1, <1>2, <1>3, <1>4 DEF CodecFresh, MonitorThere
<1>. QED  BY <1>2, <1>4, <1>5, <1>6

LEMMA OnDecodeResumeKeeps ==
    ASSUME DecodeInv, InFlightInv, OnDecodeResume
    PROVE  DecodeInv' /\ InFlightInv'
<1> USE DEF DecodeInv, InFlightInv
<1>1. /\ TakesDecode("resume") /\ AnsweredDecode("resume") /\ "resume" \in DecodeOps /\ DecodeLockFree
      /\ UNCHANGED codecHolds
  BY DEF OnDecodeResume, DecodeOps
<1>2. /\ CommandsAsked' /\ FlushesCounted' /\ decodeMsgs' \in Seq(DecodeOps) /\ decodeSeen.last # "none"
      /\ decodeSeen' \in DecodeHistories /\ decodeSeen'.last = "resume"
      /\ decodeSeen'.flushes = decodeSeen.flushes
      /\ decodeHandler' \in [op : DecodeOps \cup {"none"}, step : {"none", "lock", "join"}]
  <2>1. decodeSeen \in DecodeHistories
    BY DEF DecodeTypes
  <2>2. decodeSeen.flushes + 0 = decodeSeen.flushes
    BY <2>1 DEF DecodeHistories
  <2>. QED  BY <1>1, <2>2, TakenAndAnswered, AnsweredDecodeIs
<1>3. CASE decoder.audio /\ decoder.state # "started"
  <2>1. UNCHANGED <<decoder, decodeLoop, monitors, codecHolds>>
    BY <1>3 DEF OnDecodeResume
  <2>. QED
    BY <1>1, <1>2, <2>1 DEF DecodeTypes, CodecFresh, MonitorThere, CurrentMonitor, InFlightBounded, DecodeLockFree
<1>4. CASE ~(decoder.audio /\ decoder.state # "started")
  <2>1. /\ decoder' = [decoder EXCEPT !.paused = FALSE]
        /\ decodeLoop' = SignalDecode(decodeLoop)
        /\ monitors' = Append(monitors, [pending |-> 0, escape |-> FALSE])
    BY <1>4 DEF OnDecodeResume
  <2>2. /\ decoder' \in Decoders /\ decoder'.audio = decoder.audio /\ decoder'.state = decoder.state
        /\ decoder'.needFlush = decoder.needFlush
    BY <2>1 DEF DecodeTypes, Decoders
  <2>3. /\ monitors' \in Seq(Monitors) /\ Len(monitors') > 0
        /\ decodeLoop' \in [at : {"over", "top", "asleep", "decode", "full", "refused"}, frames : 0 .. MaxOfOne, eos : BOOLEAN]
        /\ decodeLoop'.at \in {"over", "top"} /\ InFlightInv'
    BY <1>1, <2>1, NewMonitor
  <2>4. DecodeTypes'
    BY <1>1, <1>2, <2>2, <2>3 DEF DecodeTypes
  <2>5. CodecFresh' /\ MonitorThere'
    BY <1>1, <1>2, <1>4, <2>2, <2>3 DEF CodecFresh, MonitorThere
  <2>. QED  BY <1>2, <2>3, <2>4, <2>5
<1>. QED  BY <1>3, <1>4

LEMMA OnDecodeFlushKeeps ==
    ASSUME DecodeInv, InFlightInv, OnDecodeFlush
    PROVE  DecodeInv' /\ InFlightInv'
<1> USE DEF DecodeInv, InFlightInv
<1>1. /\ TakesDecode("flush") /\ AnsweredDecode("flush") /\ "flush" \in DecodeOps /\ DecodeLockFree
      /\ decoder' = [decoder EXCEPT !.needFlush = @ \/ ~decoder.audio \/ decoder.state = "started"]
      /\ UNCHANGED <<decodeLoop, monitors, codecHolds>>
  BY DEF OnDecodeFlush, DecodeOps
<1>2. /\ CommandsAsked' /\ FlushesCounted' /\ decodeMsgs' \in Seq(DecodeOps) /\ decodeSeen.last # "none"
      /\ decodeSeen' \in DecodeHistories /\ decodeSeen'.last = decodeSeen.last
      /\ decodeHandler' \in [op : DecodeOps \cup {"none"}, step : {"none", "lock", "join"}]
  BY <1>1, TakenAndAnswered, AnsweredDecodeIs
<1>3. /\ decoder' \in Decoders /\ decoder'.audio = decoder.audio /\ decoder'.state = decoder.state
      /\ decoder'.paused = decoder.paused /\ decoder'.thread = decoder.thread /\ decoder'.monitor = decoder.monitor
      /\ ~decoder'.needFlush => decoder.audio /\ decoder.state # "started"
  BY <1>1 DEF DecodeTypes, Decoders
<1>4. DecodeTypes'
  BY <1>1, <1>2, <1>3 DEF DecodeTypes
<1>5. CodecFresh'
  BY <1>1, <1>2, <1>3 DEF CodecFresh, DecodeLockFree
<1>6. MonitorThere' /\ InFlightInv'
  BY <1>1, <1>3 DEF MonitorThere, CurrentMonitor, InFlightBounded
<1>. QED  BY <1>2, <1>4, <1>5, <1>6

LEMMA UnblocksKeeps ==
    ASSUME DecodeInv, InFlightInv, NEW op \in {"pause", "stop", "reset"}, Unblocks(op)
    PROVE  DecodeInv' /\ InFlightInv'
<1> USE DEF DecodeInv, InFlightInv
<1>1. /\ TakesDecode(op) /\ op \in DecodeOps
      /\ decoder' = [decoder EXCEPT !.paused = TRUE]
      /\ monitors' = monitors \/ monitors' = Unblocked
      /\ decodeHandler' = [op |-> op, step |-> "lock"]
      /\ UNCHANGED <<decodeLoop, codecHolds, decodeSeen>>
  BY DEF Unblocks, DecodeOps
<1>2. /\ decoder' \in Decoders /\ decoder'.paused /\ monitors' \in Seq(Monitors)
      /\ CodecFresh' /\ MonitorThere' /\ InFlightInv'
  BY <1>1, PauseUnblocks
<1>3. /\ op \in decodeSeen.asked /\ decodeMsgs' \in Seq(DecodeOps)
      /\ \A i \in 1 .. Len(decodeMsgs') : decodeMsgs'[i] \in decodeSeen.asked /\ decodeMsgs'[i] # op
      /\ \A i, j \in 1 .. Len(decodeMsgs') : decodeMsgs'[i] = decodeMsgs'[j] => i = j
  BY <1>1, DecodeTakeIs
<1>4. decodeHandler'.op = op /\ decodeHandler' \in [op : DecodeOps \cup {"none"}, step : {"none", "lock", "join"}]
  BY <1>1
<1>5. CommandsAsked'
  BY <1>1, <1>2, <1>3, <1>4 DEF CommandsAsked
<1>6. DecodeTypes' /\ FlushesCounted'
  BY <1>1, <1>2, <1>3, <1>4 DEF DecodeTypes, FlushesCounted
<1>. QED  BY <1>2, <1>5, <1>6

LEMMA OnDecodePauseKeeps ==
    ASSUME DecodeInv, InFlightInv, OnDecodePause
    PROVE  DecodeInv' /\ InFlightInv'
<1> USE DEF DecodeInv, InFlightInv
<1>1. /\ decodeHandler.op = "pause" /\ AnsweredDecode("pause") /\ "pause" \in DecodeOps
      /\ UNCHANGED <<decoder, decodeLoop, monitors, codecHolds, decodeMsgs>>
  BY DEF OnDecodePause, DecodeOps
<1>2. /\ CommandsAsked' /\ FlushesCounted'
      /\ decodeSeen' \in DecodeHistories /\ decodeSeen'.last = "pause" /\ decodeSeen'.flushes = decodeSeen.flushes
      /\ decodeHandler' \in [op : DecodeOps \cup {"none"}, step : {"none", "lock", "join"}]
  <2>1. decodeSeen \in DecodeHistories
    BY DEF DecodeTypes
  <2>2. decodeSeen.flushes + 0 = decodeSeen.flushes
    BY <2>1 DEF DecodeHistories
  <2>. QED  BY <1>1, <2>2, WaitedAndAnswered, AnsweredDecodeIs
<1>3. DecodeTypes'
  BY <1>1, <1>2 DEF DecodeTypes
<1>4. CodecFresh' /\ MonitorThere' /\ InFlightInv'
  BY <1>1, <1>2 DEF CodecFresh, MonitorThere, CurrentMonitor, InFlightBounded, DecodeLockFree
<1>. QED  BY <1>2, <1>3, <1>4

LEMMA OnDecodeStopKeeps ==
    ASSUME DecodeInv, InFlightInv, OnDecodeStop
    PROVE  DecodeInv' /\ InFlightInv'
<1> USE DEF DecodeInv, InFlightInv
<1>1. /\ decodeHandler.op = "stop" /\ AnsweredDecode("stop") /\ "stop" \in DecodeOps /\ DecodeLockFree
      /\ decoder' = [decoder EXCEPT !.needFlush = TRUE, !.codec = FALSE, !.state = "stopped"]
      /\ codecHolds' = Empty
      /\ UNCHANGED <<decodeLoop, monitors, decodeMsgs>>
  BY DEF OnDecodeStop, DecodeOps
<1>2. /\ CommandsAsked' /\ FlushesCounted' /\ decodeSeen'.last = "stop"
      /\ decodeSeen' \in DecodeHistories
      /\ decodeHandler' \in [op : DecodeOps \cup {"none"}, step : {"none", "lock", "join"}]
  BY <1>1, WaitedAndAnswered, AnsweredDecodeIs
<1>3. /\ decoder' \in Decoders /\ decoder'.needFlush /\ decoder'.paused = decoder.paused
      /\ decoder'.thread = decoder.thread /\ decoder'.monitor = decoder.monitor
  BY <1>1 DEF DecodeTypes, Decoders
<1>4. decoder.paused /\ Empty \in Int
  BY <1>1 DEF CommandsAsked, Empty
<1>5. DecodeTypes'
  BY <1>1, <1>2, <1>3, <1>4 DEF DecodeTypes
<1>6. CodecFresh' /\ MonitorThere' /\ InFlightInv'
  BY <1>1, <1>2, <1>3, <1>4 DEF CodecFresh, MonitorThere, CurrentMonitor, InFlightBounded, DecodeLockFree
<1>. QED  BY <1>2, <1>5, <1>6

LEMMA DecodeSignalExitKeeps ==
    ASSUME DecodeInv, InFlightInv, DecodeSignalExit
    PROVE  DecodeInv' /\ InFlightInv'
<1> USE DEF DecodeInv, InFlightInv
<1>1. /\ decodeHandler = [op |-> "reset", step |-> "lock"] /\ DecodeLockFree
      /\ decoder' = [decoder EXCEPT !.continue = FALSE]
      /\ decodeLoop' = SignalDecode(decodeLoop)
      /\ decodeHandler' = [decodeHandler EXCEPT !.step = "join"]
      /\ UNCHANGED <<monitors, codecHolds, decodeMsgs, decodeSeen>>
  BY DEF DecodeSignalExit
<1>2. /\ decoder' \in Decoders /\ decoder'.needFlush = decoder.needFlush /\ decoder'.paused = decoder.paused
      /\ decoder'.thread = decoder.thread /\ decoder'.monitor = decoder.monitor
      /\ decoder'.state = decoder.state /\ decoder'.audio = decoder.audio
  BY <1>1 DEF DecodeTypes, Decoders
<1>3. /\ decodeLoop' \in [at : {"over", "top", "asleep", "decode", "full", "refused"}, frames : 0 .. MaxOfOne, eos : BOOLEAN]
      /\ decodeLoop'.at \in {"over", "top"} /\ decodeLoop'.frames = decodeLoop.frames
      /\ decodeLoop.at = "over" <=> decodeLoop'.at = "over"
      /\ decodeLoop.at # "full"
  BY <1>1 DEF DecodeTypes, SignalDecode, DecodeLockFree
<1>4. /\ decodeHandler' \in [op : DecodeOps \cup {"none"}, step : {"none", "lock", "join"}]
      /\ decodeHandler'.op = "reset" /\ decodeHandler.op = "reset"
  BY <1>1 DEF DecodeTypes
<1>5. DecodeTypes' /\ CommandsAsked' /\ FlushesCounted'
  BY <1>1, <1>2, <1>3, <1>4 DEF DecodeTypes, CommandsAsked, FlushesCounted
<1>6. CodecFresh' /\ MonitorThere'
  BY <1>1, <1>2, <1>3 DEF CodecFresh, MonitorThere, DecodeLockFree
<1>7. InFlightInv'
  <2>1. decodeLoop.frames = 0
    BY <1>1 DEF CurrentMonitor, DecodeLockFree, DecodeTypes
  <2>. QED  BY <1>1, <1>2, <1>3, <2>1 DEF CurrentMonitor, InFlightBounded
<1>. QED  BY <1>5, <1>6, <1>7

LEMMA DecodeJoinedKeeps ==
    ASSUME DecodeInv, InFlightInv, DecodeJoined
    PROVE  DecodeInv' /\ InFlightInv'
<1> USE DEF DecodeInv, InFlightInv
<1>1. /\ decodeHandler.op = "reset" /\ AnsweredDecode("reset") /\ "reset" \in DecodeOps
      /\ decodeLoop.at = "over"
      /\ decoder' = [decoder EXCEPT !.thread = FALSE, !.monitor = FALSE]
      /\ UNCHANGED <<decodeLoop, monitors, codecHolds, decodeMsgs>>
  BY DEF DecodeJoined, DecodeOps
<1>2. /\ CommandsAsked' /\ FlushesCounted' /\ decodeSeen'.last = "reset"
      /\ decodeSeen' \in DecodeHistories /\ decodeSeen'.flushes = decodeSeen.flushes
      /\ decodeHandler' \in [op : DecodeOps \cup {"none"}, step : {"none", "lock", "join"}]
  <2>1. decodeSeen \in DecodeHistories
    BY DEF DecodeTypes
  <2>2. decodeSeen.flushes + 0 = decodeSeen.flushes
    BY <2>1 DEF DecodeHistories
  <2>. QED  BY <1>1, <2>2, WaitedAndAnswered, AnsweredDecodeIs
<1>3. /\ decoder' \in Decoders /\ decoder'.needFlush = decoder.needFlush /\ decoder'.paused = decoder.paused
      /\ decoder'.state = decoder.state /\ decoder'.audio = decoder.audio /\ ~decoder'.thread /\ ~decoder'.monitor
  BY <1>1 DEF DecodeTypes, Decoders
<1>4. DecodeTypes'
  BY <1>1, <1>2, <1>3 DEF DecodeTypes
<1>5. CodecFresh' /\ MonitorThere' /\ InFlightInv'
  BY <1>1, <1>2, <1>3 DEF CodecFresh, MonitorThere, CurrentMonitor, InFlightBounded, DecodeLockFree
<1>. QED  BY <1>2, <1>4, <1>5

(* The decode thread leaves the queue, the handler and the history alone,   *)
(* but for the number of packets.                                          *)
LEMMA LoopKeepsCommands ==
    ASSUME DecodeInv, UNCHANGED <<decodeMsgs, decodeHandler>>,
           decodeSeen' = decodeSeen \/ decodeSeen' = [decodeSeen EXCEPT !.packets = @ + 1],
           decodeHandler.op = "none" \/ decoder'.paused
    PROVE  /\ CommandsAsked' /\ decodeSeen' \in DecodeHistories
           /\ decodeSeen'.flushes = decodeSeen.flushes /\ decodeSeen'.last = decodeSeen.last
           /\ decodeSeen'.commands = decodeSeen.commands
           /\ UNCHANGED codecHolds => FlushesCounted'
<1> USE DEF DecodeInv
<1>1. decodeSeen \in DecodeHistories
  BY DEF DecodeTypes
<1>2. /\ decodeSeen' \in DecodeHistories /\ decodeSeen'.asked = decodeSeen.asked
      /\ decodeSeen'.flushes = decodeSeen.flushes /\ decodeSeen'.last = decodeSeen.last
      /\ decodeSeen'.commands = decodeSeen.commands
  <2>1. decodeSeen.packets + 1 \in Nat
    BY <1>1 DEF DecodeHistories
  <2>. QED  BY <1>1, <2>1 DEF DecodeHistories
<1>. QED  BY <1>2 DEF CommandsAsked, FlushesCounted

DecodeLoops == [at : {"over", "top", "asleep", "decode", "full", "refused"}, frames : 0 .. MaxOfOne, eos : BOOLEAN]

(* The steps that only move the decode thread between places without work.  *)
LEMMA LoopMoves ==
    ASSUME DecodeInv, InFlightInv, UNCHANGED <<decoder, monitors, codecHolds, decodeMsgs, decodeHandler, decodeSeen>>,
           decodeLoop' \in DecodeLoops, decodeLoop'.frames = 0, decodeLoop'.at \in {"over", "top", "asleep"},
           decodeLoop.at # "over", decodeLoop.at # "full"
    PROVE  DecodeInv' /\ InFlightInv'
<1> USE DEF DecodeInv, InFlightInv
<1>1. DecodeTypes' /\ CommandsAsked' /\ FlushesCounted' /\ InFlightBounded'
  BY DEF DecodeTypes, CommandsAsked, FlushesCounted, InFlightBounded, DecodeLoops
<1>2. CodecFresh' /\ MonitorThere'
  BY DEF CodecFresh, MonitorThere, DecodeLockFree
<1>3. CurrentMonitor'
  <2>1. Len(monitors) > 0 => monitors[Len(monitors)] \in Monitors
    BY EmptyIs DEF DecodeTypes
  <2>2. MaxOfOne \in Nat /\ DecodeHighBar \in Nat /\ decodeLoop.frames \in Nat
    BY DecodeAssumption DEF DecodeTypes
  <2>. QED  BY <2>1, <2>2 DEF CurrentMonitor, Monitors
<1>. QED  BY <1>1, <1>2, <1>3

LEMMA DecodeStopsKeeps ==
    ASSUME DecodeInv, InFlightInv, DecodeStops \/ DecodeSpurious \/ WriteRefused
    PROVE  DecodeInv' /\ InFlightInv'
<1>1. UNCHANGED <<decoder, monitors, codecHolds, decodeMsgs, decodeHandler, decodeSeen>>
  BY DEF DecodeStops, DecodeSpurious, WriteRefused
<1>2. /\ decodeLoop' \in DecodeLoops /\ decodeLoop'.frames = 0 /\ decodeLoop'.at \in {"over", "top", "asleep"}
      /\ decodeLoop.at # "over" /\ decodeLoop.at # "full"
  <2>1. decodeLoop \in DecodeLoops /\ 0 \in 0 .. MaxOfOne
    BY DecodeAssumption DEF DecodeInv, DecodeTypes, DecodeLoops
  <2>2. decodeLoop.at \in {"top", "asleep"} => decodeLoop.frames = 0
    BY DEF InFlightInv, CurrentMonitor, DecodeLockFree
  <2>3. CASE DecodeStops
    BY <2>1, <2>2, <2>3 DEF DecodeStops, DecodeLoops
  <2>4. CASE DecodeSpurious
    BY <2>1, <2>2, <2>4 DEF DecodeSpurious, SignalDecode, DecodeLoops
  <2>5. CASE WriteRefused
    BY <2>1, <2>5 DEF WriteRefused, HasFrame, DecodeLoops
  <2>. QED  BY <2>3, <2>4, <2>5
<1>. QED  BY <1>1, <1>2, LoopMoves

(* A refused write keeps the frames and the lock.                          *)
LEMMA WriteRepeatsKeeps ==
    ASSUME DecodeInv, InFlightInv, WriteRepeats
    PROVE  DecodeInv' /\ InFlightInv'
<1> USE DEF DecodeInv, InFlightInv
<1>1. /\ decodeLoop.at = "decode" /\ ~decoder.audio
      /\ decodeLoop' = [decodeLoop EXCEPT !.at = "refused"]
      /\ UNCHANGED <<decoder, monitors, codecHolds, decodeMsgs, decodeHandler, decodeSeen>>
  BY DEF WriteRepeats, HasFrame
<1>2. decodeLoop' \in DecodeLoops /\ decodeLoop'.at = "refused" /\ decodeLoop'.frames = decodeLoop.frames
  BY <1>1 DEF DecodeTypes, DecodeLoops
<1>3. DecodeTypes' /\ CommandsAsked' /\ FlushesCounted' /\ InFlightBounded'
  BY <1>1, <1>2 DEF DecodeTypes, CommandsAsked, FlushesCounted, InFlightBounded, DecodeLoops
<1>4. CodecFresh' /\ MonitorThere' /\ CurrentMonitor'
  BY <1>1, <1>2 DEF CodecFresh, MonitorThere, CurrentMonitor, DecodeLockFree
<1>. QED  BY <1>3, <1>4

LEMMA ReadsEndOfAudioKeeps ==
    ASSUME DecodeInv, InFlightInv, NEW refused \in BOOLEAN, ReadsEndOfAudio(refused)
    PROVE  DecodeInv' /\ InFlightInv'
<1> USE DEF DecodeInv, InFlightInv
<1>1. /\ decoder' = [decoder EXCEPT !.paused = TRUE]
      /\ decodeSeen' = [decodeSeen EXCEPT !.packets = @ + 1]
      /\ \/ decodeLoop' = decodeLoop
         \/ decodeLoop.at = "top" /\ decodeLoop' = [decodeLoop EXCEPT !.at = "over"]
      /\ UNCHANGED <<monitors, codecHolds, decodeMsgs, decodeHandler>>
  BY DEF ReadsEndOfAudio, MayRead
<1>6. decodeLoop' \in DecodeLoops
  BY <1>1 DEF DecodeTypes, DecodeLoops
<1>2. decoder' \in Decoders /\ decoder'.paused
  BY <1>1 DEF DecodeTypes, Decoders
<1>3. /\ CommandsAsked' /\ decodeSeen' \in DecodeHistories /\ FlushesCounted'
      /\ decodeSeen'.flushes = decodeSeen.flushes /\ decodeSeen'.last = decodeSeen.last
  BY <1>1, <1>2, LoopKeepsCommands
<1>4. CodecFresh' /\ MonitorThere' /\ InFlightInv'
  BY <1>1, <1>3, PauseUnblocks
<1>5. DecodeTypes'
  BY <1>1, <1>2, <1>3, <1>6 DEF DecodeTypes, DecodeLoops
<1>. QED  BY <1>3, <1>4, <1>5

LEMMA ReadsPacketKeeps ==
    ASSUME DecodeInv, InFlightInv, NEW frames \in 0 .. MaxOfOne, NEW eos \in BOOLEAN, ReadsPacket(frames, eos)
    PROVE  DecodeInv' /\ InFlightInv'
<1> USE DEF DecodeInv, InFlightInv
<1>1. /\ decodeLoop.at = "top" /\ ~decoder.paused
      /\ decodeLoop' = [at |-> "decode", frames |-> frames, eos |-> eos]
      /\ decoder' = [decoder EXCEPT !.needFlush = FALSE]
      /\ codecHolds' = IF eos THEN IF decoder.needFlush THEN Empty ELSE codecHolds
                     ELSE IF decoder.needFlush \/ codecHolds = Empty THEN decodeSeen.flushes ELSE codecHolds
      /\ decodeSeen' = [decodeSeen EXCEPT !.packets = @ + 1]
      /\ UNCHANGED <<monitors, decodeMsgs, decodeHandler>>
  BY DEF ReadsPacket, MayRead
<1>2. /\ decoder' \in Decoders /\ ~decoder'.needFlush /\ decoder'.paused = decoder.paused
      /\ decoder'.audio = decoder.audio /\ decoder'.state = decoder.state
      /\ decoder'.thread = decoder.thread /\ decoder'.monitor = decoder.monitor
  BY <1>1 DEF DecodeTypes, Decoders
<1>3. decodeHandler.op = "none"
  BY <1>1 DEF CommandsAsked
<1>4. /\ CommandsAsked' /\ decodeSeen' \in DecodeHistories /\ decodeSeen'.commands = decodeSeen.commands
      /\ decodeSeen'.flushes = decodeSeen.flushes /\ decodeSeen'.last = decodeSeen.last
  BY <1>1, <1>3, LoopKeepsCommands
<1>5. decodeSeen \in DecodeHistories /\ codecHolds \in Int /\ decodeSeen.flushes \in Nat
  BY DEF DecodeTypes, DecodeHistories
<1>6. codecHolds' = Empty \/ codecHolds' = decodeSeen.flushes
  BY <1>1 DEF CodecFresh
<1>7. decodeLoop' \in DecodeLoops /\ decodeLoop'.at = "decode" /\ decodeLoop'.frames = frames
  BY <1>1 DEF DecodeLoops
<1>8. DecodeTypes'
  BY <1>1, <1>2, <1>4, <1>5, <1>6, <1>7 DEF DecodeTypes, DecodeLoops, Empty
<1>9. FlushesCounted'
  <2>1. decodeSeen'.asked = decodeSeen.asked
    BY <1>1, <1>5 DEF DecodeHistories
  <2>. QED  BY <1>4, <1>5, <1>6, <2>1 DEF FlushesCounted
<1>10. CodecFresh'
  BY <1>1, <1>2, <1>4, <1>6, <1>7 DEF CodecFresh, DecodeLockFree
<1>11. MonitorThere' /\ InFlightBounded'
  BY <1>1, <1>2, <1>7 DEF MonitorThere, InFlightBounded
<1>12. CurrentMonitor'
  <2>1. Len(monitors) > 0 => monitors[Len(monitors)] \in Monitors
    BY EmptyIs DEF DecodeTypes
  <2>2. MaxOfOne \in Nat /\ DecodeHighBar \in Nat
    BY DecodeAssumption
  <2>. QED  BY <1>1, <1>2, <1>7, <2>1, <2>2 DEF CurrentMonitor, DecodeLockFree, Monitors
<1>. QED  BY <1>4, <1>8, <1>9, <1>10, <1>11, <1>12

(* A change of one monitor's count.                                        *)
LEMMA MonitorCountIs ==
    ASSUME DecodeTypes, NEW k \in 1 .. Len(monitors), NEW m \in Monitors, monitors' = [monitors EXCEPT ![k] = m]
    PROVE  /\ monitors' \in Seq(Monitors) /\ Len(monitors') = Len(monitors) /\ Len(monitors) \in Nat
           /\ DOMAIN monitors' = 1 .. Len(monitors) /\ DOMAIN monitors = 1 .. Len(monitors)
           /\ \A i \in 1 .. Len(monitors) : monitors'[i] = IF i = k THEN m ELSE monitors[i]
  BY EmptyIs DEF DecodeTypes

LEMMA WritesFrameKeeps ==
    ASSUME DecodeInv, InFlightInv, WritesFrame
    PROVE  DecodeInv' /\ InFlightInv'
<1> USE DEF DecodeInv, InFlightInv
<1> DEFINE n == Len(monitors)
           m == [monitors[n] EXCEPT !.pending = @ + 1]
           waits == m.pending >= DecodeHighBar /\ ~m.escape
<1>1. /\ decodeLoop.at = "decode" /\ decodeLoop.frames > 0
      /\ monitors' = [monitors EXCEPT ![n] = m]
      /\ decodeLoop' = [decodeLoop EXCEPT !.frames = @ - 1, !.at = IF waits THEN "full" ELSE @]
      /\ UNCHANGED <<decoder, codecHolds, decodeMsgs, decodeHandler, decodeSeen>>
  BY DEF WritesFrame, HasFrame, Last
<1>2. n \in Nat /\ n > 0 /\ n \in 1 .. n /\ monitors[n] \in Monitors
  <2>1. n > 0
    BY <1>1 DEF MonitorThere
  <2>. QED  BY <2>1, EmptyIs DEF DecodeTypes
<1>3. m \in Monitors /\ m.pending = monitors[n].pending + 1 /\ m.escape = monitors[n].escape
  BY <1>2 DEF Monitors
<1> HIDE DEF n, m
<1>4. /\ monitors' \in Seq(Monitors) /\ Len(monitors') = n
      /\ DOMAIN monitors' = 1 .. n /\ DOMAIN monitors = 1 .. n
      /\ \A i \in 1 .. n : monitors'[i] = IF i = n THEN m ELSE monitors[i]
  BY <1>1, <1>2, <1>3, MonitorCountIs DEF n
<1>5. /\ decodeLoop' \in DecodeLoops /\ decodeLoop'.frames = decodeLoop.frames - 1
      /\ decodeLoop'.at = IF waits THEN "full" ELSE "decode"
  <2>1. decodeLoop.frames - 1 \in 0 .. MaxOfOne /\ (IF waits THEN "full" ELSE decodeLoop.at) \in {"decode", "full"}
    BY <1>1, DecodeAssumption DEF DecodeTypes
  <2>. QED  BY <1>1, <2>1 DEF DecodeTypes, DecodeLoops
<1>6. DecodeTypes' /\ CommandsAsked' /\ FlushesCounted'
  BY <1>1, <1>4, <1>5 DEF DecodeTypes, CommandsAsked, FlushesCounted, DecodeLoops
<1>7. CodecFresh' /\ MonitorThere'
  BY <1>1, <1>2, <1>4, <1>5 DEF CodecFresh, MonitorThere, DecodeLockFree
<1>8. /\ monitors'[n].pending = monitors[n].pending + 1 /\ monitors'[n].escape = monitors[n].escape
      /\ monitors[n].pending \in Nat /\ monitors[n].escape \in BOOLEAN
  BY <1>2, <1>3, <1>4 DEF Monitors
<1>9. /\ monitors[n].escape => decoder.paused
      /\ ~monitors[n].escape => monitors[n].pending < DecodeHighBar
      /\ monitors[n].pending + decodeLoop.frames <= DecodeHighBar + MaxOfOne
  BY <1>1, <1>2 DEF CurrentMonitor, n
<1>10. decodeLoop.frames \in Nat /\ DecodeHighBar \in Nat /\ MaxOfOne \in Nat
  BY DecodeAssumption DEF DecodeTypes
<1>11. CurrentMonitor'
  BY <1>1, <1>3, <1>4, <1>5, <1>8, <1>9, <1>10 DEF CurrentMonitor, DecodeLockFree
<1>12. InFlightBounded'
  <2>1. monitors'[n].pending <= DecodeHighBar + (IF monitors'[n].escape THEN MaxOfOne ELSE 0)
    BY <1>1, <1>8, <1>9, <1>10
  <2>. QED  BY <1>4, <2>1 DEF InFlightBounded
<1>. QED  BY <1>6, <1>7, <1>11, <1>12

LEMMA DecodeWokenKeeps ==
    ASSUME DecodeInv, InFlightInv, DecodeWoken
    PROVE  DecodeInv' /\ InFlightInv'
<1> USE DEF DecodeInv, InFlightInv
<1>1. /\ decodeLoop.at = "full" /\ decodeLoop' = [decodeLoop EXCEPT !.at = "decode"]
      /\ monitors[Len(monitors)].pending <= DecodeLowBar \/ monitors[Len(monitors)].escape
      /\ UNCHANGED <<decoder, monitors, codecHolds, decodeMsgs, decodeHandler, decodeSeen>>
  BY DEF DecodeWoken, Last
<1>2. decodeLoop' \in DecodeLoops /\ decodeLoop'.at = "decode" /\ decodeLoop'.frames = decodeLoop.frames
  BY <1>1 DEF DecodeTypes, DecodeLoops
<1>3. DecodeTypes' /\ CommandsAsked' /\ FlushesCounted' /\ InFlightBounded'
  BY <1>1, <1>2 DEF DecodeTypes, CommandsAsked, FlushesCounted, InFlightBounded, DecodeLoops
<1>4. CodecFresh' /\ MonitorThere'
  BY <1>1, <1>2 DEF CodecFresh, MonitorThere, DecodeLockFree
<1>5. CurrentMonitor'
  <2>1. Len(monitors) > 0 => monitors[Len(monitors)] \in Monitors
    BY EmptyIs DEF DecodeTypes
  <2>. QED  BY <1>1, <1>2, <2>1, DecodeAssumption DEF CurrentMonitor, DecodeLockFree, Monitors
<1>. QED  BY <1>3, <1>4, <1>5

LEMMA PacketDoneKeeps ==
    ASSUME DecodeInv, InFlightInv, PacketDone
    PROVE  DecodeInv' /\ InFlightInv'
<1> USE DEF DecodeInv, InFlightInv
<1>1. /\ decodeLoop.at = "decode"
      /\ decoder' = IF decodeLoop.eos THEN [decoder EXCEPT !.paused = TRUE] ELSE decoder
      /\ decodeLoop' = [at |-> "top", frames |-> 0, eos |-> FALSE]
      /\ UNCHANGED <<monitors, codecHolds, decodeMsgs, decodeHandler, decodeSeen>>
  BY DEF PacketDone
<1>2. /\ decoder' \in Decoders /\ decoder'.needFlush = decoder.needFlush
      /\ decoder.paused => decoder'.paused
      /\ decoder'.state = decoder.state /\ decoder'.audio = decoder.audio
      /\ decoder'.thread = decoder.thread /\ decoder'.monitor = decoder.monitor
  BY <1>1 DEF DecodeTypes, Decoders
<1>3. decodeLoop' \in DecodeLoops /\ decodeLoop'.at = "top" /\ decodeLoop'.frames = 0
  BY <1>1, DecodeAssumption DEF DecodeLoops
<1>4. DecodeTypes' /\ CommandsAsked' /\ FlushesCounted' /\ InFlightBounded'
  BY <1>1, <1>2, <1>3 DEF DecodeTypes, CommandsAsked, FlushesCounted, InFlightBounded, DecodeLoops
<1>5. CodecFresh' /\ MonitorThere'
  BY <1>1, <1>2, <1>3 DEF CodecFresh, MonitorThere, DecodeLockFree
<1>6. CurrentMonitor'
  <2>1. Len(monitors) > 0 => monitors[Len(monitors)] \in Monitors
    BY EmptyIs DEF DecodeTypes
  <2>2. MaxOfOne \in Nat /\ DecodeHighBar \in Nat /\ decodeLoop.frames \in Nat
    BY DecodeAssumption DEF DecodeTypes
  <2>. QED  BY <1>1, <1>2, <1>3, <2>1, <2>2 DEF CurrentMonitor, Monitors
<1>. QED  BY <1>4, <1>5, <1>6

LEMMA SinkReleasesKeeps ==
    ASSUME DecodeInv, InFlightInv, SinkReleases
    PROVE  DecodeInv' /\ InFlightInv'
<1> USE DEF DecodeInv, InFlightInv
<1>1. PICK k \in 1 .. Len(monitors) :
        /\ monitors[k].pending > 0
        /\ monitors' = [monitors EXCEPT ![k].pending = @ - 1]
        /\ UNCHANGED <<decoder, decodeLoop, codecHolds, decodeMsgs, decodeHandler, decodeSeen>>
  <2>1. DOMAIN monitors = 1 .. Len(monitors)
    BY EmptyIs DEF DecodeTypes
  <2>. QED  BY <2>1 DEF SinkReleases
<1> DEFINE m == [monitors[k] EXCEPT !.pending = @ - 1]
<1>2. monitors[k] \in Monitors
  BY EmptyIs DEF DecodeTypes
<1>3. m \in Monitors /\ m.pending = monitors[k].pending - 1 /\ m.escape = monitors[k].escape
  BY <1>1, <1>2 DEF Monitors
<1>4. monitors' = [monitors EXCEPT ![k] = m]
  BY <1>1
<1> HIDE DEF m
<1>5. /\ monitors' \in Seq(Monitors) /\ Len(monitors') = Len(monitors) /\ Len(monitors) \in Nat
      /\ DOMAIN monitors' = 1 .. Len(monitors) /\ DOMAIN monitors = 1 .. Len(monitors)
      /\ \A i \in 1 .. Len(monitors) : monitors'[i] = IF i = k THEN m ELSE monitors[i]
  BY <1>3, <1>4, MonitorCountIs
<1>6. \A i \in 1 .. Len(monitors) :
        /\ monitors[i].pending \in Nat /\ monitors'[i].pending \in Nat
        /\ monitors'[i].pending <= monitors[i].pending /\ monitors'[i].escape = monitors[i].escape
  <2>1. \A i \in 1 .. Len(monitors) : monitors[i] \in Monitors
    BY EmptyIs DEF DecodeTypes
  <2>2. \A i \in 1 .. Len(monitors) : monitors[i].pending \in Nat
    BY <2>1 DEF Monitors
  <2>3. m.pending \in Nat /\ m.pending <= monitors[k].pending
    BY <1>2, <1>3 DEF Monitors
  <2>. QED  BY <1>3, <1>5, <2>2, <2>3
<1>7. DecodeTypes' /\ CommandsAsked' /\ FlushesCounted'
  BY <1>1, <1>5 DEF DecodeTypes, CommandsAsked, FlushesCounted
<1>8. CodecFresh' /\ MonitorThere'
  BY <1>1, <1>5 DEF CodecFresh, MonitorThere, DecodeLockFree
<1>9. InFlightBounded'
  <2>1. MaxOfOne \in Nat /\ DecodeHighBar \in Nat
    BY DecodeAssumption
  <2>. QED  BY <1>5, <1>6, <2>1 DEF InFlightBounded
<1>10. CurrentMonitor'
  <2>1. MaxOfOne \in Nat /\ DecodeHighBar \in Nat /\ decodeLoop.frames \in Nat
    BY DecodeAssumption DEF DecodeTypes
  <2>2. Len(monitors) > 0 => Len(monitors) \in 1 .. Len(monitors)
    BY <1>5
  <2>. QED  BY <1>1, <1>5, <1>6, <2>1, <2>2 DEF CurrentMonitor, DecodeLockFree
<1>. QED  BY <1>7, <1>8, <1>9, <1>10

LEMMA DecodeStep ==
    ASSUME DecodeInv, InFlightInv, [DecodeNext]_decodeVars
    PROVE  DecodeInv' /\ InFlightInv'
<1>1. CASE DecodeHandlers
  BY <1>1, OnDecodePrepareKeeps, OnDecodeStartKeeps, OnDecodeResumeKeeps, OnDecodeFlushKeeps, UnblocksKeeps,
     OnDecodePauseKeeps, OnDecodeStopKeeps, DecodeSignalExitKeeps, DecodeJoinedKeeps DEF DecodeHandlers
<1>2. CASE DecodeLoop \/ DecodeReads \/ WriteRefused \/ WriteRepeats \/ SinkReleases \/ DecodeSpurious
  BY <1>2, DecodeStopsKeeps, WriteRepeatsKeeps, WritesFrameKeeps, DecodeWokenKeeps, PacketDoneKeeps, ReadsEndOfAudioKeeps,
     ReadsPacketKeeps, SinkReleasesKeeps DEF DecodeLoop, DecodeReads
<1>3. CASE DecodeReset \/ \E op \in DecodeOps : DecodeCommand(op)
  BY <1>3, DecodeResetKeeps, DecodeCommandKeeps
<1>4. CASE UNCHANGED decodeVars
  BY <1>4 DEF decodeVars, DecodeInv, InFlightInv, DecodeTypes, CommandsAsked, FlushesCounted, CodecFresh,
     MonitorThere, CurrentMonitor, InFlightBounded, DecodeLockFree
<1>. QED  BY <1>1, <1>2, <1>3, <1>4 DEF DecodeNext

LEMMA DecodeStarts == DecodeInit => DecodeInv /\ InFlightInv
<1> SUFFICES ASSUME DecodeInit PROVE DecodeInv /\ InFlightInv
  OBVIOUS
<1>1. /\ monitors = <<>> /\ decodeMsgs = <<>> /\ codecHolds = Empty
      /\ decodeHandler = [op |-> "none", step |-> "none"]
      /\ decodeLoop = [at |-> "over", frames |-> 0, eos |-> FALSE]
      /\ decodeSeen = [asked |-> {}, last |-> "none", commands |-> 0, packets |-> 0, flushes |-> 0]
  BY DEF DecodeInit
<1>2. PICK audio \in BOOLEAN :
         decoder = [audio |-> audio, paused |-> TRUE, needFlush |-> FALSE, codec |-> FALSE,
                    thread |-> FALSE, continue |-> FALSE, monitor |-> FALSE, state |-> "initialized"]
  BY DEF DecodeInit
<1>3. /\ monitors \in Seq(Monitors) /\ Len(monitors) = 0 /\ DOMAIN monitors = 1 .. 0
      /\ decodeMsgs \in Seq(DecodeOps) /\ Len(decodeMsgs) = 0
  BY <1>1, NothingIn, EmptyIs
<1>4. DecodeTypes
  BY <1>1, <1>2, <1>3, DecodeAssumption DEF DecodeTypes, Decoders, DecodeHistories, Empty
<1>5. CommandsAsked /\ FlushesCounted
  BY <1>1, <1>2, <1>3, DecodeAssumption DEF CommandsAsked, FlushesCounted
<1>6. CodecFresh /\ MonitorThere /\ InFlightInv
  BY <1>1, <1>2, <1>3, DecodeAssumption DEF CodecFresh, MonitorThere, InFlightInv, CurrentMonitor, InFlightBounded, DecodeLockFree
<1>. QED  BY <1>4, <1>5, <1>6 DEF DecodeInv

(* The decoder's types, for every monitor, number of frames and bound.      *)
THEOREM DecoderTypes == DecodeSpec => []DecodeTypeOK
<1>1. DecodeInv /\ InFlightInv /\ [DecodeNext]_decodeVars => (DecodeInv /\ InFlightInv)'
  BY DecodeStep
<1>. QED  BY <1>1, DecodeStarts, DecodeTypesGive, PTL DEF DecodeSpec

(* A frame is made only of what was fed after the last flush that was       *)
(* answered: onFlush leaves a flag, which the decode thread looks at with   *)
(* the next packet, and the packet it is decoding keeps the lock until its   *)
(* last frame is written.                                                  *)
THEOREM DecoderFlushed == DecodeSpec => NothingOldAfterFlush
<1>1. DecodeInv /\ InFlightInv /\ [DecodeNext]_decodeVars => (DecodeInv /\ InFlightInv)'
  BY DecodeStep
<1>2. DecodeInv /\ [DecodeNext]_decodeVars => [WritesFrame => codecHolds = decodeSeen.flushes]_decodeVars
  BY DEF DecodeInv, CodecFresh, WritesFrame, HasFrame
<1>. QED  BY <1>1, <1>2, DecodeStarts, PTL DEF DecodeSpec, NothingOldAfterFlush

(* No monitor ever has more than its high bar in flight, and, once a pause   *)
(* or a reset has let its thread go, the rest of one packet.                *)
THEOREM DecoderInFlight == DecodeSpec => []InFlightBounded
<1>1. DecodeInv /\ InFlightInv /\ [DecodeNext]_decodeVars => (DecodeInv /\ InFlightInv)'
  BY DecodeStep
<1>2. InFlightInv => InFlightBounded
  BY DEF InFlightInv
<1>. QED  BY <1>1, <1>2, DecodeStarts, PTL DEF DecodeSpec

-----------------------------------------------------------------------------
(* The clock: what its methods do to its members.                          *)

LEMMA NewClockIs ==
    NewClock \in ClockStates /\ ~NewClock.paused /\ ~HasAnchor(NewClock)
  BY ClockAssumption DEF NewClock, ClockStates, Times, Unset, HasAnchor

LEMMA WithAnchorIs ==
    ASSUME NEW c \in ClockStates, NEW a \in Int, NEW b \in Int, NEW d \in Int
    PROVE  LET n == WithAnchor(c, a, b, d)
           IN /\ n \in ClockStates /\ n.media = a /\ n.real = b /\ n.max = d
              /\ n.paused = c.paused /\ n.pausedAt = c.pausedAt /\ n.pausePos = c.pausePos /\ n.rate = c.rate
  BY DEF WithAnchor, ClockStates, Times

LEMMA AnchoredIs ==
    ASSUME NEW c \in ClockStates, NEW a \in Int, NEW b \in Int, NEW d \in Int
    PROVE  LET n == Anchored(c, a, b, d)
           IN /\ n \in ClockStates /\ n.paused = c.paused /\ n.rate = c.rate
              /\ c.paused => n = c
  BY WithAnchorIs DEF Anchored

LEMMA WithMaxIs ==
    ASSUME NEW c \in ClockStates, NEW d \in Int
    PROVE  LET n == WithMax(c, d)
           IN /\ n \in ClockStates /\ n.media = c.media /\ n.real = c.real /\ n.max = d
              /\ n.paused = c.paused /\ n.pausedAt = c.pausedAt /\ n.pausePos = c.pausePos /\ n.rate = c.rate
  BY DEF WithMax, ClockStates, Times

LEMMA ClockFlushedIs ==
    ASSUME NEW c \in ClockStates
    PROVE  LET n == ClockFlushed(c)
           IN /\ n \in ClockStates /\ n.paused = c.paused /\ n.rate = c.rate
              /\ n.media = Unset /\ n.pausedAt = Unset /\ n.pausePos = Unset
<1>1. Unset \in Int
  BY DEF Unset
<1> DEFINE w == WithAnchor(c, Unset, Unset, Unset)
<1>2. /\ w \in ClockStates /\ w.paused = c.paused /\ w.rate = c.rate /\ w.media = Unset
  BY <1>1, WithAnchorIs
<1>3. ClockFlushed(c) = [w EXCEPT !.pausedAt = Unset, !.pausePos = Unset]
  BY DEF ClockFlushed
<1> HIDE DEF w
<1>. QED  BY <1>1, <1>2, <1>3 DEF ClockStates, Times

LEMMA RateSetIs ==
    ASSUME NEW c \in ClockStates, NEW r \in Nat \ {0}
    PROVE  LET n == RateSet(c, r)
           IN /\ n \in ClockStates /\ n.paused = c.paused /\ n.rate = r
              /\ n = c \/ (n.media = Unset /\ n.pausedAt = Unset /\ n.pausePos = Unset)
<1> DEFINE d == [c EXCEPT !.rate = r]
<1>1. d \in ClockStates /\ d.paused = c.paused /\ d.rate = r
  BY DEF ClockStates
<1>2. RateSet(c, r) = IF c.rate = r THEN c ELSE ClockFlushed(d)
  BY DEF RateSet
<1> HIDE DEF d
<1>. QED  BY <1>1, <1>2, ClockFlushedIs

LEMMA FromAnchorIs ==
    ASSUME NEW c \in ClockStates, NEW t \in Int
    PROVE  FromAnchor(c, t) \in Nat
  BY DEF FromAnchor, ClockStates, Times

LEMMA ClockPausedIs ==
    ASSUME NEW c \in ClockStates, NEW t \in Int
    PROVE  LET n == ClockPaused(c, t)
           IN /\ n \in ClockStates /\ n.paused /\ n.rate = c.rate
              /\ c.paused => n = c
              /\ ~c.paused =>
                   /\ n.media = c.media /\ n.real = c.real /\ n.max = c.max /\ n.pausedAt = t
                   /\ n.pausePos = IF HasAnchor(c) THEN FromAnchor(c, t) ELSE Unset
<1> DEFINE p == IF HasAnchor(c) THEN FromAnchor(c, t) ELSE Unset
<1>1. p \in Int
  BY FromAnchorIs DEF Unset
<1> HIDE DEF p
<1>2. ClockPaused(c, t) = IF c.paused THEN c ELSE [c EXCEPT !.pausePos = p, !.pausedAt = t, !.paused = TRUE]
  BY DEF ClockPaused, p
<1>3. CASE c.paused
  BY <1>2, <1>3
<1>4. CASE ~c.paused
  <2>1. [c EXCEPT !.pausePos = p, !.pausedAt = t, !.paused = TRUE] \in ClockStates
    BY <1>1 DEF ClockStates, Times
  <2>. QED  BY <1>2, <1>4, <2>1 DEF ClockStates, p
<1>. QED  BY <1>3, <1>4

LEMMA ClockResumedIs ==
    ASSUME NEW c \in ClockStates, NEW t \in Int
    PROVE  LET n == ClockResumed(c, t)
           IN /\ n \in ClockStates /\ ~n.paused /\ n.rate = c.rate
              /\ ~c.paused => n = c
              /\ c.paused /\ c.pausedAt = Unset =>
                   n.media = c.media /\ n.real = c.real /\ n.max = c.max
              /\ c.paused /\ c.pausedAt # Unset =>
                   n.media = c.media /\ n.real = c.real + t - c.pausedAt /\ n.max = Unset
<1>1. CASE ~c.paused
  BY <1>1 DEF ClockResumed
<1>2. CASE c.paused /\ c.pausedAt = Unset
  <2>1. ClockResumed(c, t) = [c EXCEPT !.paused = FALSE]
    BY <1>2 DEF ClockResumed
  <2>. QED  BY <1>2, <2>1 DEF ClockStates
<1>3. CASE c.paused /\ c.pausedAt # Unset
  <2> DEFINE b == c.real + t - c.pausedAt
             w == WithAnchor(c, c.media, b, Unset)
  <2>1. b \in Int /\ Unset \in Int /\ c.media \in Int
    BY DEF ClockStates, Times, Unset
  <2> HIDE DEF b
  <2>2. w \in ClockStates /\ w.media = c.media /\ w.real = b /\ w.max = Unset /\ w.rate = c.rate
    BY <2>1, WithAnchorIs
  <2>3. ClockResumed(c, t) = [w EXCEPT !.paused = FALSE, !.pausedAt = Unset, !.pausePos = Unset]
    BY <1>3 DEF ClockResumed, b
  <2> HIDE DEF w
  <2>. QED  BY <1>3, <2>1, <2>2, <2>3 DEF ClockStates, Times, b
<1>. QED  BY <1>1, <1>2, <1>3 DEF ClockStates

-----------------------------------------------------------------------------
(* The audio sink.                                                         *)

Sinks == [paused : BOOLEAN, state : {"idle", "prepared", "started", "paused", "stopped"},
          draining : BOOLEAN, thread : BOOLEAN, continue : BOOLEAN]

AnyBuffer == [id : 0 .. MaxSinkWrites, size : {0, Size}, eos : BOOLEAN]

SinkMessages == [op : SinkOps \cup {"write"}, buf : AnyBuffer]

Handlers == [op : SinkOps \cup {"none"},
             step : {"none", "join", "joined", "uncork", "cork", "flush", "clear"}]

OutPlaces == {"over", "top", "toWait", "asleep", "took", "write",
              "full", "fullWoken", "eos", "drain", "pop"}

Outs == [at : OutPlaces, cur : AnyBuffer, left : 0 .. Size, room : 0 .. Room]

Streams == [filled : 0 .. Room, corked : BOOLEAN, callbacks : BOOLEAN]

SinkHistories ==
    [asked : SinkOps \cup {"none"}, last : SinkOps \cup {"none", "error"}, commands : Nat, writes : Nat,
     played : Seq(Nat), flushes : Nat, wrongPops : Nat, stale : Nat, poppedEmpty : BOOLEAN,
     flushedUpTo : Int]

(* The output thread has a buffer, and may still write of it.              *)
HasBuffer == out.at \in {"took", "write", "full", "fullWoken", "eos", "drain", "pop"}
HasUnwritten == out.at \in {"took", "write", "full", "fullWoken"}

SinkTypes ==
    /\ sink \in Sinks
    /\ sinkMsgs \in Seq(SinkMessages)
    /\ handler \in Handlers
    /\ sourceBufs \in Seq(Buffers)
    /\ out \in Outs
    /\ stream \in Streams
    /\ sinkSeen \in SinkHistories
    /\ clock \in ClockStates
    /\ now \in Int

(* What goes with what: buffers with writes, the sections of a handler with *)
(* its command, the room the thread counts on with what the stream has.     *)
SinkFits ==
    /\ \A i \in 1 .. Len(sinkMsgs) : IF sinkMsgs[i].op = "write" THEN sinkMsgs[i].buf \in Buffers
                                     ELSE sinkMsgs[i].buf = NoBuffer
    /\ out.cur \in Buffers \/ (out.cur = NoBuffer /\ ~HasBuffer)
    /\ out.at \in {"took", "write"} => out.room + stream.filled <= Room
    /\ out.at \in {"full", "fullWoken"} => out.room = 0
    /\ sinkSeen.writes <= MaxSinkWrites

HandlerFits ==
    CASE handler.op \in {"start", "resume"} -> handler.step = "uncork"
      [] handler.op = "pause"               -> handler.step = "cork"
      [] handler.op \in {"flush", "seek"}   -> handler.step \in {"flush", "clear"}
      [] handler.op \in {"stop", "reset"}   -> handler.step \in {"join", "joined", "cork"}
      [] handler.op = "none"                -> handler.step = "none"
      [] OTHER                              -> FALSE

(* One command at a time, which is as legal when it is carried out as it    *)
(* was when it was given; none after an error.                             *)
SinkCommanded ==
    /\ handler.op # "none" =>
         /\ sinkSeen.asked = handler.op
         /\ \A i \in 1 .. Len(sinkMsgs) : sinkMsgs[i].op = "write"
    /\ \A i \in 1 .. Len(sinkMsgs) :
         sinkMsgs[i].op # "write" =>
            /\ sinkSeen.asked = sinkMsgs[i].op /\ Legal(sinkMsgs[i].op)
            /\ \A j \in 1 .. Len(sinkMsgs) : j # i => sinkMsgs[j].op = "write"
    /\ sinkSeen.last = "error" => sinkSeen.asked = "none"

(* The output thread: there or not, draining or not.                       *)
OutThread ==
    /\ sink.draining <=> out.at = "drain"
    /\ ~sink.thread => out.at = "over"
    /\ handler.op \in {"stop", "reset"} /\ handler.step # "join" => ~sink.thread
    /\ handler.op \notin {"start"} /\ sinkSeen.last # "error" /\ sink.state \in {"idle", "stopped"} => ~sink.thread

(* SinkClockStreamAgree, inside the handlers as well, and what the sink     *)
(* believes of its pause before it is started.                             *)
StatesAgree ==
    /\ sink.state = "started" => ~stream.corked /\ ~clock.paused
    /\ sink.state = "paused" => stream.corked /\ clock.paused
    /\ sink.state # "started" => sink.paused
    /\ handler.op \notin {"none", "flush", "seek"} => sink.paused

SinkInv == SinkTypes /\ SinkFits /\ HandlerFits /\ SinkCommanded /\ OutThread /\ StatesAgree

(* The buffers of the sink in the order of their writing: what was played,  *)
(* what the output thread has, the queue, the messages; what was written    *)
(* before the last flush is not in the queues any more.                    *)
QueuesInOrder ==
    /\ \A i, j \in 1 .. Len(sourceBufs) : i < j => sourceBufs[i].id < sourceBufs[j].id
    /\ \A i, j \in 1 .. Len(sinkMsgs) :
         i < j /\ sinkMsgs[i].op = "write" /\ sinkMsgs[j].op = "write" => sinkMsgs[i].buf.id < sinkMsgs[j].buf.id
    /\ \A i \in 1 .. Len(sourceBufs), j \in 1 .. Len(sinkMsgs) :
         sinkMsgs[j].op = "write" => sourceBufs[i].id < sinkMsgs[j].buf.id
    /\ \A j \in 1 .. Len(sinkMsgs) :
         sinkMsgs[j].op = "write" =>
            sinkMsgs[j].buf.id <= sinkSeen.writes /\ sinkMsgs[j].buf.id >= sinkSeen.writes + j - Len(sinkMsgs)
    /\ \A i \in 1 .. Len(sourceBufs) : sourceBufs[i].id <= sinkSeen.writes

AfterFlush ==
    /\ sinkSeen.flushedUpTo <= sinkSeen.writes
    /\ \A i \in 1 .. Len(sourceBufs) : sourceBufs[i].id > sinkSeen.flushedUpTo
    /\ \A j \in 1 .. Len(sinkMsgs) : sinkMsgs[j].op = "write" => sinkMsgs[j].buf.id > sinkSeen.flushedUpTo
    /\ sinkSeen.stale <= sinkSeen.flushes
    /\ HasUnwritten => out.cur.id > sinkSeen.flushedUpTo \/ sinkSeen.stale + 1 <= sinkSeen.flushes

(* The thread's buffer is the front of the queue, or a flush has taken that  *)
(* from under it.                                                          *)
FrontIsCurrent ==
    /\ sinkSeen.wrongPops <= sinkSeen.flushes
    /\ HasBuffer =>
         \/ Len(sourceBufs) > 0 /\ sourceBufs[1] = out.cur
         \/ /\ sinkSeen.wrongPops + 1 <= sinkSeen.flushes
            /\ \A i \in 1 .. Len(sourceBufs) : out.cur.id < sourceBufs[i].id
    /\ HasBuffer =>
         /\ out.cur.id <= sinkSeen.writes
         /\ \A j \in 1 .. Len(sinkMsgs) : sinkMsgs[j].op = "write" => out.cur.id < sinkMsgs[j].buf.id

PlayedInOrder ==
    LET played == sinkSeen.played
    IN /\ \A i, j \in 1 .. Len(played) : i < j => played[i] < played[j]
       /\ \A k \in 1 .. Len(played) :
            /\ played[k] <= sinkSeen.writes
            /\ \A j \in 1 .. Len(sinkMsgs) : sinkMsgs[j].op = "write" => played[k] < sinkMsgs[j].buf.id
            /\ \A i \in 1 .. Len(sourceBufs) :
                 \/ played[k] < sourceBufs[i].id
                 \/ HasBuffer /\ ~HasUnwritten /\ i = 1 /\ sourceBufs[1] = out.cur /\ played[k] = out.cur.id
            /\ HasUnwritten => played[k] < out.cur.id
            /\ HasBuffer => played[k] <= out.cur.id

OutputInv == QueuesInOrder /\ AfterFlush /\ FrontIsCurrent /\ PlayedInOrder

LEMMA SinkInvGives ==
    SinkInv => SinkTypeOK /\ SinkClockStreamAgree
<1> SUFFICES ASSUME SinkInv PROVE SinkTypeOK /\ SinkClockStreamAgree
  OBVIOUS
<1> USE DEF SinkInv
<1>1. \A i \in DOMAIN sinkMsgs : sinkMsgs[i] \in [op : SinkOps \cup {"write"}, buf : Buffers \cup {NoBuffer}]
  <2>1. DOMAIN sinkMsgs = 1 .. Len(sinkMsgs) /\ \A i \in 1 .. Len(sinkMsgs) : sinkMsgs[i] \in SinkMessages
    BY EmptyIs DEF SinkTypes
  <2>. QED  BY <2>1 DEF SinkFits, SinkMessages
<1>2. \A i \in DOMAIN sourceBufs : sourceBufs[i] \in Buffers
  BY EmptyIs DEF SinkTypes
<1>3. SinkTypeOK
  BY <1>1, <1>2 DEF SinkTypes, SinkFits, Sinks, Handlers, Outs, OutPlaces, Streams, SinkTypeOK
<1>4. handler = Idle => handler.op = "none"
  BY DEF Idle
<1>5. SinkClockStreamAgree
  BY <1>4 DEF SinkClockStreamAgree, StatesAgree, OutThread
<1>. QED  BY <1>3, <1>5

LEMMA OutputInvGives == SinkTypes /\ OutputInv => OutputIntact
<1> SUFFICES ASSUME SinkTypes, OutputInv PROVE OutputIntact
  OBVIOUS
<1>1. DOMAIN sinkSeen.played = 1 .. Len(sinkSeen.played)
  BY EmptyIs DEF SinkTypes, SinkHistories
<1>. QED  BY <1>1 DEF OutputInv, PlayedInOrder, AfterFlush, FrontIsCurrent, OutputIntact

LEMMA NoBufferIs ==
    /\ NoBuffer \in AnyBuffer /\ Buffers \subseteq AnyBuffer
    /\ \A b \in Buffers : b.id \in Nat /\ b.id > 0 /\ b.id <= MaxSinkWrites /\ b.size \in {0, Size} /\ b.eos \in BOOLEAN
  BY SinkAssumption DEF NoBuffer, AnyBuffer, Buffers

LEMMA SignalledIs ==
    ASSUME NEW o \in Outs
    PROVE  LET n == Signalled(o)
           IN /\ n \in Outs /\ n.cur = o.cur /\ n.left = o.left /\ n.room = o.room
              /\ n.at = IF o.at = "asleep" THEN "top" ELSE IF o.at = "full" THEN "fullWoken" ELSE o.at
  BY DEF Signalled, Outs, OutPlaces

(* A signal changes nothing that the invariants speak of.                  *)
LEMMA SignalKeepsBuffer ==
    ASSUME out \in Outs, out' = Signalled(out) \/ out' = out
    PROVE  /\ out' \in Outs /\ out'.cur = out.cur /\ out'.room = out.room
           /\ HasBuffer' = HasBuffer /\ HasUnwritten' = HasUnwritten
           /\ out'.at = "drain" <=> out.at = "drain"
           /\ out.at = "over" <=> out'.at = "over"
           /\ out'.at \in {"took", "write"} <=> out.at \in {"took", "write"}
           /\ out'.at \in {"full", "fullWoken"} <=> out.at \in {"full", "fullWoken"}
  BY SignalledIs DEF HasBuffer, HasUnwritten, Outs, OutPlaces

SameBuffer ==
    /\ HasBuffer => out'.cur = out.cur
    /\ HasBuffer' = HasBuffer /\ HasUnwritten' = HasUnwritten

SameHistory ==
    /\ sinkSeen'.writes = sinkSeen.writes /\ sinkSeen'.played = sinkSeen.played
    /\ sinkSeen'.flushes = sinkSeen.flushes /\ sinkSeen'.wrongPops = sinkSeen.wrongPops
    /\ sinkSeen'.stale = sinkSeen.stale /\ sinkSeen'.flushedUpTo = sinkSeen.flushedUpTo

(* The writes in the queue of messages are where they were, or move up by s. *)
WritesMoveUp(s) ==
    /\ sinkMsgs' \in Seq(SinkMessages)
    /\ Len(sinkMsgs') >= Len(sinkMsgs) - s
    /\ \A j \in 1 .. Len(sinkMsgs') :
         sinkMsgs'[j].op = "write" => j + s \in 1 .. Len(sinkMsgs) /\ sinkMsgs'[j] = sinkMsgs[j + s]

LEMMA SinkNumbers ==
    ASSUME SinkTypes
    PROVE  /\ sinkSeen.writes \in Nat /\ sinkSeen.flushes \in Nat /\ sinkSeen.wrongPops \in Nat
           /\ sinkSeen.stale \in Nat /\ sinkSeen.flushedUpTo \in Int
           /\ Len(sinkMsgs) \in Nat /\ Len(sourceBufs) \in Nat /\ Len(sinkSeen.played) \in Nat
           /\ \A k \in 1 .. Len(sinkSeen.played) : sinkSeen.played[k] \in Nat
           /\ \A i \in 1 .. Len(sourceBufs) : sourceBufs[i] \in Buffers /\ sourceBufs[i].id \in Nat
           /\ \A j \in 1 .. Len(sinkMsgs) : sinkMsgs[j] \in SinkMessages /\ sinkMsgs[j].buf.id \in Nat
           /\ out.cur.id \in Nat
<1>1. /\ \A b \in AnyBuffer : b.id \in Nat
      /\ \A m \in SinkMessages : m.buf \in AnyBuffer
  BY DEF AnyBuffer, SinkMessages
<1>2. \A j \in 1 .. Len(sinkMsgs) : sinkMsgs[j] \in SinkMessages
  BY EmptyIs DEF SinkTypes
<1>3. \A i \in 1 .. Len(sourceBufs) : sourceBufs[i] \in Buffers
  BY EmptyIs DEF SinkTypes
<1>4. \A k \in 1 .. Len(sinkSeen.played) : sinkSeen.played[k] \in Nat
  BY EmptyIs DEF SinkTypes, SinkHistories
<1>5. out.cur \in AnyBuffer
  BY DEF SinkTypes, Outs
<1>6. Len(sinkMsgs) \in Nat /\ Len(sourceBufs) \in Nat /\ Len(sinkSeen.played) \in Nat
  BY EmptyIs DEF SinkTypes, SinkHistories
<1>. QED  BY <1>1, <1>2, <1>3, <1>4, <1>5, <1>6, NoBufferIs DEF SinkTypes, SinkHistories

LEMMA OutputKept ==
    ASSUME SinkTypes, OutputInv, SameBuffer, SameHistory, UNCHANGED sourceBufs, NEW s \in Nat, WritesMoveUp(s)
    PROVE  OutputInv'
<1>1. Len(sinkMsgs') \in Nat /\ (HasUnwritten => HasBuffer)
  BY EmptyIs DEF WritesMoveUp, HasBuffer, HasUnwritten
<1>2. QueuesInOrder'
  <2> DEFINE n == Len(sinkMsgs)
             k == Len(sinkMsgs')
  <2>1. /\ \A j \in 1 .. k : sinkMsgs'[j].op = "write" => j + s \in 1 .. n /\ sinkMsgs'[j] = sinkMsgs[j + s]
        /\ k >= n - s /\ n \in Nat /\ k \in Nat /\ sinkSeen.writes \in Nat
        /\ \A j \in 1 .. n : sinkMsgs[j].buf.id \in Nat
    BY <1>1, SinkNumbers DEF WritesMoveUp
  <2>2. \A i, j \in 1 .. k :
         i < j /\ sinkMsgs'[i].op = "write" /\ sinkMsgs'[j].op = "write" => sinkMsgs'[i].buf.id < sinkMsgs'[j].buf.id
    <3> SUFFICES ASSUME NEW i \in 1 .. k, NEW j \in 1 .. k, i < j,
                        sinkMsgs'[i].op = "write", sinkMsgs'[j].op = "write"
                 PROVE  sinkMsgs'[i].buf.id < sinkMsgs'[j].buf.id
      OBVIOUS
    <3>1. /\ i + s \in 1 .. n /\ sinkMsgs'[i] = sinkMsgs[i + s]
          /\ j + s \in 1 .. n /\ sinkMsgs'[j] = sinkMsgs[j + s]
      BY <2>1
    <3>2. i + s < j + s
      BY <2>1
    <3>. QED  BY <3>1, <3>2 DEF OutputInv, QueuesInOrder
  <2>3. \A j \in 1 .. k : sinkMsgs'[j].op = "write" =>
            sinkMsgs'[j].buf.id <= sinkSeen.writes /\ sinkMsgs'[j].buf.id >= sinkSeen.writes + j - k
    <3> SUFFICES ASSUME NEW j \in 1 .. k, sinkMsgs'[j].op = "write"
                 PROVE  sinkMsgs'[j].buf.id <= sinkSeen.writes /\ sinkMsgs'[j].buf.id >= sinkSeen.writes + j - k
      OBVIOUS
    <3>1. j + s \in 1 .. n /\ sinkMsgs'[j] = sinkMsgs[j + s]
      BY <2>1
    <3>2. /\ sinkMsgs[j + s].buf.id <= sinkSeen.writes
          /\ sinkMsgs[j + s].buf.id >= sinkSeen.writes + (j + s) - n
      BY <3>1 DEF OutputInv, QueuesInOrder
    <3> HIDE DEF n, k
    <3>3. sinkMsgs[j + s].buf.id \in Nat
      BY <2>1, <3>1
    <3>. QED  BY <2>1, <3>1, <3>2, <3>3
  <2>4. /\ \A i, j \in 1 .. Len(sourceBufs') : i < j => sourceBufs'[i].id < sourceBufs'[j].id
        /\ \A i \in 1 .. Len(sourceBufs') : sourceBufs'[i].id <= sinkSeen'.writes
        /\ \A i \in 1 .. Len(sourceBufs'), j \in 1 .. k :
              sinkMsgs'[j].op = "write" => sourceBufs'[i].id < sinkMsgs'[j].buf.id
    BY <2>1, SMTT(30) DEF OutputInv, QueuesInOrder, SameHistory
  <2>5. sinkSeen'.writes = sinkSeen.writes
    BY DEF SameHistory
  <2>. QED  BY <2>2, <2>3, <2>4, <2>5 DEF QueuesInOrder
<1>3. AfterFlush'
  BY <1>1, SinkNumbers DEF OutputInv, AfterFlush, SameHistory, SameBuffer, WritesMoveUp
<1>4. FrontIsCurrent'
  BY <1>1, SinkNumbers DEF OutputInv, FrontIsCurrent, SameHistory, SameBuffer, WritesMoveUp
<1>5. PlayedInOrder'
  <2> DEFINE p == sinkSeen.played
  <2>1. ASSUME NEW k \in 1 .. Len(p), NEW j \in 1 .. Len(sinkMsgs'), sinkMsgs'[j].op = "write"
        PROVE  p[k] < sinkMsgs'[j].buf.id
    <3>1. j + s \in 1 .. Len(sinkMsgs) /\ sinkMsgs'[j] = sinkMsgs[j + s]
      BY <1>1, <2>1 DEF WritesMoveUp
    <3>2. p[k] < sinkMsgs[j + s].buf.id
      BY <2>1, <3>1 DEF OutputInv, PlayedInOrder
    <3>. QED  BY <3>1, <3>2
  <2>2. sinkSeen'.played = p /\ sinkSeen'.writes = sinkSeen.writes
    BY DEF SameHistory
  <2>3. /\ HasBuffer' = HasBuffer /\ HasUnwritten' = HasUnwritten /\ (HasUnwritten => HasBuffer)
        /\ (HasBuffer => out'.cur = out.cur) /\ sourceBufs' = sourceBufs
    BY <1>1 DEF SameBuffer
  <2>4. /\ \A i, j \in 1 .. Len(p) : i < j => p[i] < p[j]
        /\ \A k \in 1 .. Len(p) :
            /\ p[k] <= sinkSeen.writes
            /\ \A i \in 1 .. Len(sourceBufs) :
                 \/ p[k] < sourceBufs[i].id
                 \/ HasBuffer /\ ~HasUnwritten /\ i = 1 /\ sourceBufs[1] = out.cur /\ p[k] = out.cur.id
            /\ HasUnwritten => p[k] < out.cur.id
            /\ HasBuffer => p[k] <= out.cur.id
    BY DEF OutputInv, PlayedInOrder
  <2> HIDE DEF p
  <2>. QED  BY <2>1, <2>2, <2>3, <2>4 DEF PlayedInOrder
<1>. QED  BY <1>2, <1>3, <1>4, <1>5 DEF OutputInv

(* What the message thread takes is the one command there is.              *)
LEMMA SinkTakeIs ==
    ASSUME SinkTypes, SinkCommanded, SinkFits, NEW op \in SinkOps, Takes(op), sinkMsgs' = Tail(sinkMsgs)
    PROVE  /\ sinkSeen.asked = op /\ Legal(op) /\ handler.op = "none" /\ sinkSeen.last # "error"
           /\ WritesMoveUp(1)
           /\ \A i \in 1 .. Len(sinkMsgs') : sinkMsgs'[i].op = "write" /\ sinkMsgs'[i].buf \in Buffers
<1>1. sinkMsgs \in Seq(SinkMessages) /\ sinkMsgs # <<>> /\ Head(sinkMsgs).op = op /\ handler = Idle
  BY DEF SinkTypes, Takes
<1>2. /\ sinkMsgs' \in Seq(SinkMessages) /\ Len(sinkMsgs) > 0 /\ Len(sinkMsgs) \in Nat
      /\ Len(sinkMsgs') = Len(sinkMsgs) - 1 /\ sinkMsgs[1].op = op
      /\ \A i \in 1 .. Len(sinkMsgs) - 1 : sinkMsgs'[i] = sinkMsgs[i + 1]
  BY <1>1, TailIs, EmptyIs
<1>3. op # "write" /\ op # "none"
  BY DEF SinkOps
<1>4. sinkSeen.asked = op /\ Legal(op) /\ \A j \in 1 .. Len(sinkMsgs) : j # 1 => sinkMsgs[j].op = "write"
  BY <1>2, <1>3 DEF SinkCommanded
<1>5. \A i \in 1 .. Len(sinkMsgs) - 1 : i + 1 \in 1 .. Len(sinkMsgs) /\ i + 1 # 1
  BY <1>2
<1>6. WritesMoveUp(1)
  BY <1>2, <1>5 DEF WritesMoveUp
<1>7. handler.op = "none"
  BY <1>1 DEF Idle
<1>8. sinkSeen.last # "error"
  BY <1>3, <1>4 DEF SinkCommanded
<1>. QED  BY <1>2, <1>4, <1>5, <1>6, <1>7, <1>8 DEF SinkFits

(* The queue stays, and so do the commands in it.                          *)
LEMMA SinkMessagesStay ==
    ASSUME SinkTypes, UNCHANGED sinkMsgs
    PROVE  WritesMoveUp(0)
<1>1. Len(sinkMsgs) \in Nat /\ \A j \in 1 .. Len(sinkMsgs) : j + 0 = j
  BY EmptyIs DEF SinkTypes
<1>. QED  BY <1>1 DEF SinkTypes, WritesMoveUp

(* The answer to a command.                                                *)
LEMMA SinkAnsweredIs ==
    ASSUME SinkTypes, NEW result \in SinkOps \cup {"error"}, Answered(result)
    PROVE  /\ handler' \in Handlers /\ handler'.op = "none" /\ handler'.step = "none"
           /\ sinkSeen' \in SinkHistories /\ sinkSeen'.asked = "none" /\ sinkSeen'.last = result
           /\ SameHistory
<1>1. handler' = [op |-> "none", step |-> "none"]
  BY DEF Answered, Idle
<1>2. sinkSeen' = [sinkSeen EXCEPT !.asked = "none", !.last = result]
  BY DEF Answered
<1>. QED  BY <1>1, <1>2 DEF SinkTypes, SinkHistories, Handlers, SameHistory

(* What follows from a step of a handler after which no command is queued.  *)
LEMMA NoCommandQueued ==
    ASSUME \A i \in 1 .. Len(sinkMsgs') : sinkMsgs'[i].op = "write",
           handler'.op # "none" => sinkSeen'.asked = handler'.op,
           sinkSeen'.last = "error" => sinkSeen'.asked = "none"
    PROVE  SinkCommanded'
  BY DEF SinkCommanded

LEMMA SinkCommandKeeps ==
    ASSUME SinkInv, OutputInv, NEW op \in SinkOps, SinkCommand(op)
    PROVE  SinkInv' /\ OutputInv'
<1> USE DEF SinkInv
<1>1. /\ sinkSeen.asked = "none" /\ sinkSeen.last # "error" /\ Legal(op)
      /\ sinkMsgs' = Append(sinkMsgs, [op |-> op, buf |-> NoBuffer])
      /\ sinkSeen' = [sinkSeen EXCEPT !.asked = op, !.commands = @ + 1]
      /\ UNCHANGED <<sink, handler, sourceBufs, out, stream, clock, now>>
  BY DEF SinkCommand, clockVars
<1>2. op # "none" /\ op # "write" /\ [op |-> op, buf |-> NoBuffer] \in SinkMessages
  BY NoBufferIs DEF SinkOps, SinkMessages
<1>3. /\ sinkMsgs' \in Seq(SinkMessages) /\ Len(sinkMsgs) \in Nat /\ Len(sinkMsgs') = Len(sinkMsgs) + 1
      /\ \A i \in 1 .. Len(sinkMsgs) : sinkMsgs'[i] = sinkMsgs[i]
      /\ sinkMsgs'[Len(sinkMsgs) + 1] = [op |-> op, buf |-> NoBuffer]
  BY <1>1, <1>2, AppendIs, EmptyIs DEF SinkTypes
<1>4. /\ sinkSeen' \in SinkHistories /\ sinkSeen'.asked = op /\ sinkSeen'.last = sinkSeen.last /\ SameHistory
  <2>1. sinkSeen.commands + 1 \in Nat /\ op \in SinkOps \cup {"none"} /\ sinkSeen \in SinkHistories
    BY DEF SinkTypes, SinkHistories
  <2>. QED  BY <1>1, <2>1 DEF SinkHistories, SameHistory
<1>5. handler.op = "none" /\ \A i \in 1 .. Len(sinkMsgs) : sinkMsgs[i].op = "write"
  <2>1. \A i \in 1 .. Len(sinkMsgs) : sinkMsgs[i].op \in SinkOps \cup {"write"}
    <3>1. \A i \in 1 .. Len(sinkMsgs) : sinkMsgs[i] \in SinkMessages
      BY EmptyIs DEF SinkTypes
    <3>. QED  BY <3>1 DEF SinkMessages
  <2>2. "none" \notin SinkOps
    BY DEF SinkOps
  <2>. QED  BY <1>1, <2>1, <2>2 DEF SinkCommanded
<1>6. \A i \in 1 .. Len(sinkMsgs') :
        \/ i \in 1 .. Len(sinkMsgs) /\ sinkMsgs'[i] = sinkMsgs[i] /\ sinkMsgs'[i].op = "write"
        \/ i = Len(sinkMsgs) + 1 /\ sinkMsgs'[i].op = op /\ sinkMsgs'[i].buf = NoBuffer
  BY <1>3, <1>5
<1>7. Legal(op)'
  BY <1>1 DEF Legal
<1>8. SinkCommanded'
  BY <1>1, <1>2, <1>3, <1>4, <1>5, <1>6, <1>7 DEF SinkCommanded, Legal
<1>9. SinkTypes' /\ HandlerFits' /\ OutThread' /\ StatesAgree'
  BY <1>1, <1>3, <1>4 DEF SinkTypes, HandlerFits, OutThread, StatesAgree
<1>10. SinkFits'
  BY <1>1, <1>2, <1>4, <1>6 DEF SinkFits, SameHistory, HasBuffer
<1>11. WritesMoveUp(0)
  <2>1. \A i \in 1 .. Len(sinkMsgs) : i + 0 = i
    OBVIOUS
  <2>. QED  BY <1>2, <1>3, <1>6, <2>1 DEF WritesMoveUp
<1>12. OutputInv'
  <2>1. SameBuffer
    BY <1>1 DEF SameBuffer, HasBuffer, HasUnwritten
  <2>. QED  BY <1>1, <1>4, <1>11, <2>1, OutputKept
<1>. QED  BY <1>8, <1>9, <1>10, <1>12

LEMMA SinkWriteKeeps ==
    ASSUME SinkInv, OutputInv, NEW size \in {0, Size}, NEW eos \in BOOLEAN, SinkWrite(size, eos)
    PROVE  SinkInv' /\ OutputInv'
<1> USE DEF SinkInv
<1> DEFINE b == [id |-> sinkSeen.writes + 1, size |-> size, eos |-> eos]
           w == [op |-> "write", buf |-> b]
           n == Len(sinkMsgs)
<1>1. /\ sinkMsgs' = Append(sinkMsgs, w)
      /\ sinkSeen' = [sinkSeen EXCEPT !.writes = @ + 1]
      /\ sinkSeen.writes < MaxSinkWrites
      /\ UNCHANGED <<sink, handler, sourceBufs, out, stream, clock, now>>
  BY DEF SinkWrite, clockVars
<1>2. b \in Buffers /\ w \in SinkMessages
  <2>1. sinkSeen.writes + 1 \in 1 .. MaxSinkWrites
    BY <1>1, SinkAssumption, SMTT(30) DEF SinkTypes, SinkHistories
  <2>2. b \in Buffers
    BY <2>1 DEF Buffers
  <2>. QED  BY <2>2, NoBufferIs DEF SinkMessages
<1>3. w.op = "write" /\ w.buf = b /\ b.id = sinkSeen.writes + 1
  OBVIOUS
<1> HIDE DEF b, w
<1>4. /\ sinkMsgs' \in Seq(SinkMessages) /\ n \in Nat /\ Len(sinkMsgs') = n + 1
      /\ \A i \in 1 .. n : sinkMsgs'[i] = sinkMsgs[i]
      /\ sinkMsgs'[n + 1] = w
  BY <1>1, <1>2, AppendIs, EmptyIs DEF SinkTypes
<1>5. /\ sinkSeen' \in SinkHistories /\ sinkSeen'.asked = sinkSeen.asked /\ sinkSeen'.last = sinkSeen.last
      /\ sinkSeen'.writes = sinkSeen.writes + 1 /\ sinkSeen'.played = sinkSeen.played
      /\ sinkSeen'.flushes = sinkSeen.flushes /\ sinkSeen'.wrongPops = sinkSeen.wrongPops
      /\ sinkSeen'.stale = sinkSeen.stale /\ sinkSeen'.flushedUpTo = sinkSeen.flushedUpTo
  <2>1. sinkSeen.writes + 1 \in Nat /\ sinkSeen \in SinkHistories
    BY DEF SinkTypes, SinkHistories
  <2>. QED  BY <1>1, <2>1 DEF SinkHistories
<1>6. \A i \in 1 .. n + 1 :
        \/ i \in 1 .. n /\ sinkMsgs'[i] = sinkMsgs[i]
        \/ i = n + 1 /\ sinkMsgs'[i].op = "write" /\ sinkMsgs'[i].buf = b
  BY <1>3, <1>4
<1>7. SinkTypes' /\ HandlerFits' /\ OutThread' /\ StatesAgree'
  BY <1>1, <1>4, <1>5 DEF SinkTypes, HandlerFits, OutThread, StatesAgree
<1>8. SinkFits'
  <2>1. sinkSeen'.writes <= MaxSinkWrites
    BY <1>1, <1>5, SinkNumbers, SinkAssumption
  <2>2. \A i \in 1 .. n + 1 : IF sinkMsgs'[i].op = "write" THEN sinkMsgs'[i].buf \in Buffers
                                     ELSE sinkMsgs'[i].buf = NoBuffer
    BY <1>2, <1>6 DEF SinkFits
  <2>. QED  BY <1>1, <1>4, <2>1, <2>2 DEF SinkFits, HasBuffer
<1>9. SinkCommanded'
  <2>1. \A op \in SinkOps : Legal(op)' <=> Legal(op)
    BY <1>1 DEF Legal
  <2>2. \A i \in 1 .. n : sinkMsgs[i].op # "write" => sinkMsgs[i].op \in SinkOps
    <3>1. \A i \in 1 .. n : sinkMsgs[i] \in SinkMessages
      BY EmptyIs DEF SinkTypes
    <3>. QED  BY <3>1 DEF SinkMessages
  <2> HIDE DEF n
  <2>3. handler'.op # "none" =>
         /\ sinkSeen'.asked = handler'.op
         /\ \A i \in 1 .. n + 1 : sinkMsgs'[i].op = "write"
    BY <1>1, <1>5, <1>6 DEF SinkCommanded, n
  <2>4. \A i \in 1 .. n + 1 : sinkMsgs'[i].op # "write" =>
            /\ sinkSeen'.asked = sinkMsgs'[i].op /\ sinkMsgs'[i].op \in SinkOps /\ Legal(sinkMsgs[i].op)
            /\ sinkMsgs'[i] = sinkMsgs[i]
            /\ \A j \in 1 .. n + 1 : j # i => sinkMsgs'[j].op = "write"
    BY <1>5, <1>6, <2>2 DEF SinkCommanded, n
  <2>5. \A i \in 1 .. n + 1 : sinkMsgs'[i].op # "write" => Legal(sinkMsgs[i].op)'
    BY <1>1, <2>4 DEF Legal
  <2>. QED  BY <1>4, <1>5, <2>3, <2>4, <2>5 DEF SinkCommanded, n
<1>10. QueuesInOrder'
  <2>1. \A i \in 1 .. n : sinkMsgs[i].op = "write" => sinkMsgs[i].buf.id <= sinkSeen.writes
    BY DEF OutputInv, QueuesInOrder
  <2>2. /\ n \in Nat /\ sinkSeen.writes \in Nat
        /\ \A i \in 1 .. n : sinkMsgs[i].buf.id \in Nat
        /\ \A i \in 1 .. Len(sourceBufs) : sourceBufs[i].id \in Nat
    BY SinkNumbers
  <2> HIDE DEF n
  <2>3. \A i, j \in 1 .. n + 1 :
         i < j /\ sinkMsgs'[i].op = "write" /\ sinkMsgs'[j].op = "write" => sinkMsgs'[i].buf.id < sinkMsgs'[j].buf.id
    <3> SUFFICES ASSUME NEW i \in 1 .. n + 1, NEW j \in 1 .. n + 1, i < j,
                        sinkMsgs'[i].op = "write", sinkMsgs'[j].op = "write"
                 PROVE  sinkMsgs'[i].buf.id < sinkMsgs'[j].buf.id
      OBVIOUS
    <3>1. i \in 1 .. n /\ sinkMsgs'[i] = sinkMsgs[i]
      BY <1>6, <2>2
    <3>2. CASE j \in 1 .. n /\ sinkMsgs'[j] = sinkMsgs[j]
      BY <3>1, <3>2 DEF OutputInv, QueuesInOrder, n
    <3>3. CASE j = n + 1 /\ sinkMsgs'[j].buf = b
      <4>1. sinkMsgs[i].buf.id <= sinkSeen.writes /\ sinkMsgs[i].buf.id \in Nat
        BY <2>1, <2>2, <3>1
      <4>. QED  BY <1>3, <2>2, <3>1, <3>3, <4>1
    <3>. QED  BY <1>6, <3>2, <3>3
  <2>4. \A i \in 1 .. Len(sourceBufs'), j \in 1 .. n + 1 :
         sinkMsgs'[j].op = "write" => sourceBufs'[i].id < sinkMsgs'[j].buf.id
    BY <1>1, <1>3, <1>6, <2>2, SMTT(30) DEF OutputInv, QueuesInOrder, n
  <2>5. \A j \in 1 .. n + 1 : sinkMsgs'[j].op = "write" =>
            sinkMsgs'[j].buf.id <= sinkSeen'.writes /\ sinkMsgs'[j].buf.id >= sinkSeen'.writes + j - (n + 1)
    <3> SUFFICES ASSUME NEW j \in 1 .. n + 1, sinkMsgs'[j].op = "write"
                 PROVE  sinkMsgs'[j].buf.id <= sinkSeen'.writes /\ sinkMsgs'[j].buf.id >= sinkSeen'.writes + j - (n + 1)
      OBVIOUS
    <3>1. CASE j \in 1 .. n /\ sinkMsgs'[j] = sinkMsgs[j]
      <4>1. sinkMsgs[j].buf.id <= sinkSeen.writes /\ sinkMsgs[j].buf.id >= sinkSeen.writes + j - n
        BY <3>1 DEF OutputInv, QueuesInOrder, n
      <4>. QED  BY <1>5, <2>2, <3>1, <4>1
    <3>2. CASE j = n + 1 /\ sinkMsgs'[j].buf = b
      BY <1>3, <1>5, <2>2, <3>2
    <3>. QED  BY <1>6, <3>1, <3>2
  <2>6. /\ \A i, j \in 1 .. Len(sourceBufs') : i < j => sourceBufs'[i].id < sourceBufs'[j].id
        /\ \A i \in 1 .. Len(sourceBufs') : sourceBufs'[i].id <= sinkSeen'.writes
    BY <1>1, <1>5, <2>2 DEF OutputInv, QueuesInOrder
  <2>. QED  BY <1>4, <2>3, <2>4, <2>5, <2>6 DEF QueuesInOrder, n
<1>11. AfterFlush' /\ FrontIsCurrent' /\ PlayedInOrder'
  <2>1. HasBuffer' = HasBuffer /\ HasUnwritten' = HasUnwritten
    BY <1>1 DEF HasBuffer, HasUnwritten
  <2> HIDE DEF n
  <2>2. AfterFlush'
    BY <1>1, <1>3, <1>4, <1>5, <1>6, <2>1, SinkNumbers DEF OutputInv, AfterFlush, n
  <2>3. FrontIsCurrent'
    <3>1. HasBuffer => out.cur.id <= sinkSeen'.writes
      BY <1>5, SinkNumbers DEF OutputInv, FrontIsCurrent
    <3>2. ASSUME NEW j \in 1 .. n + 1, HasBuffer, sinkMsgs'[j].op = "write" PROVE out.cur.id < sinkMsgs'[j].buf.id
      <4>1. CASE j \in 1 .. n /\ sinkMsgs'[j] = sinkMsgs[j]
        BY <3>2, <4>1 DEF OutputInv, FrontIsCurrent, n
      <4>2. CASE j = n + 1 /\ sinkMsgs'[j].buf = b
        BY <1>3, <3>2, <4>2, SinkNumbers, SMTT(30) DEF OutputInv, FrontIsCurrent
      <4>. QED  BY <1>6, <4>1, <4>2
    <3>. QED  BY <1>1, <1>4, <1>5, <2>1, <3>1, <3>2 DEF OutputInv, FrontIsCurrent, n
  <2>4. PlayedInOrder'
    <3> DEFINE p == sinkSeen.played
    <3>1. ASSUME NEW k \in 1 .. Len(p), NEW j \in 1 .. n + 1, sinkMsgs'[j].op = "write" PROVE p[k] < sinkMsgs'[j].buf.id
      <4>1. CASE j \in 1 .. n /\ sinkMsgs'[j] = sinkMsgs[j]
        BY <3>1, <4>1 DEF OutputInv, PlayedInOrder, n
      <4>2. CASE j = n + 1 /\ sinkMsgs'[j].buf = b
        <5>1. p[k] <= sinkSeen.writes /\ p[k] \in Nat /\ sinkSeen.writes \in Nat
          BY SinkNumbers DEF OutputInv, PlayedInOrder
        <5>. QED  BY <1>3, <4>2, <5>1
      <4>. QED  BY <1>6, <3>1, <4>1, <4>2
    <3>2. \A k \in 1 .. Len(p) : p[k] <= sinkSeen'.writes
      <4>1. ASSUME NEW k \in 1 .. Len(p) PROVE p[k] <= sinkSeen.writes /\ p[k] \in Nat
        BY <4>1, SinkNumbers DEF OutputInv, PlayedInOrder
      <4>2. sinkSeen.writes \in Nat /\ sinkSeen'.writes = sinkSeen.writes + 1
        BY <1>5, SinkNumbers
      <4> HIDE DEF p
      <4>. QED  BY <4>1, <4>2
    <3>3. /\ \A i, j \in 1 .. Len(p) : i < j => p[i] < p[j]
          /\ \A k \in 1 .. Len(p) :
            /\ \A i \in 1 .. Len(sourceBufs) :
                 \/ p[k] < sourceBufs[i].id
                 \/ HasBuffer /\ ~HasUnwritten /\ i = 1 /\ sourceBufs[1] = out.cur /\ p[k] = out.cur.id
            /\ HasUnwritten => p[k] < out.cur.id
            /\ HasBuffer => p[k] <= out.cur.id
      BY DEF OutputInv, PlayedInOrder
    <3> HIDE DEF p
    <3>4. sinkSeen'.played = p
      BY <1>5 DEF p
    <3>. QED  BY <1>1, <1>4, <2>1, <3>1, <3>2, <3>3, <3>4 DEF PlayedInOrder, n
  <2>. QED  BY <2>2, <2>3, <2>4
<1>. QED  BY <1>7, <1>8, <1>9, <1>10, <1>11 DEF OutputInv

LEMMA OnWriteKeeps ==
    ASSUME SinkInv, OutputInv, OnWrite
    PROVE  SinkInv' /\ OutputInv'
<1> USE DEF SinkInv
<1> DEFINE n == Len(sinkMsgs)
           m == Len(sourceBufs)
           b == sinkMsgs[1].buf
<1>1. /\ handler = Idle /\ sinkMsgs # <<>> /\ Head(sinkMsgs).op = "write" /\ sinkMsgs' = Tail(sinkMsgs)
      /\ sourceBufs' = Append(sourceBufs, Head(sinkMsgs).buf)
      /\ out' = Signalled(out)
      /\ UNCHANGED <<sink, handler, stream, sinkSeen, clock, now>>
  BY DEF OnWrite, Takes, clockVars
<1>2. /\ sinkMsgs' \in Seq(SinkMessages) /\ n > 0 /\ n \in Nat /\ Len(sinkMsgs') = n - 1
      /\ sinkMsgs[1].op = "write" /\ Head(sinkMsgs) = sinkMsgs[1]
      /\ \A i \in 1 .. n - 1 : sinkMsgs'[i] = sinkMsgs[i + 1]
  BY <1>1, TailIs, EmptyIs DEF SinkTypes
<1>3. b \in Buffers
  BY <1>2 DEF SinkFits
<1>4. /\ sourceBufs' \in Seq(Buffers) /\ m \in Nat /\ Len(sourceBufs') = m + 1
      /\ \A i \in 1 .. m : sourceBufs'[i] = sourceBufs[i]
      /\ sourceBufs'[m + 1] = b
  BY <1>1, <1>2, <1>3, AppendIs, EmptyIs DEF SinkTypes
<1>5. /\ out' \in Outs /\ out'.cur = out.cur /\ out'.room = out.room
      /\ HasBuffer' = HasBuffer /\ HasUnwritten' = HasUnwritten
      /\ out'.at = "drain" <=> out.at = "drain"
      /\ out.at = "over" <=> out'.at = "over"
      /\ out'.at \in {"took", "write"} <=> out.at \in {"took", "write"}
      /\ out'.at \in {"full", "fullWoken"} <=> out.at \in {"full", "fullWoken"}
  BY <1>1, SignalKeepsBuffer DEF SinkTypes
<1>6. \A i \in 1 .. n - 1 : i + 1 \in 1 .. n /\ i + 1 > 1 /\ sinkMsgs'[i] = sinkMsgs[i + 1]
  BY <1>2
<1>7. \A i \in 1 .. m + 1 : \/ i \in 1 .. m /\ sourceBufs'[i] = sourceBufs[i]
                            \/ i = m + 1 /\ sourceBufs'[i] = b
  BY <1>4
<1>8. handler.op = "none"
  BY <1>1 DEF Idle
<1>9. SinkTypes' /\ HandlerFits' /\ OutThread' /\ StatesAgree'
  BY <1>1, <1>2, <1>4, <1>5 DEF SinkTypes, HandlerFits, OutThread, StatesAgree
<1>10. SinkFits'
  BY <1>1, <1>2, <1>5, <1>6 DEF SinkFits
<1>11. SinkCommanded'
  <2>1. \A i \in 1 .. n - 1 : sinkMsgs'[i].op # "write" => Legal(sinkMsgs[i].op)'
    BY <1>1, <1>6 DEF Legal, SinkCommanded
  <2> HIDE DEF n
  <2>2. \A i, j \in 1 .. n - 1 : i # j => i + 1 # j + 1
    BY <1>2
  <2>3. \A i \in 1 .. n - 1 : sinkMsgs'[i].op # "write" =>
            /\ sinkSeen'.asked = sinkMsgs'[i].op
            /\ \A j \in 1 .. n - 1 : j # i => sinkMsgs'[j].op = "write"
    BY <1>1, <1>6, <2>2 DEF SinkCommanded, n
  <2>4. sinkSeen'.last = "error" => sinkSeen'.asked = "none"
    BY <1>1 DEF SinkCommanded
  <2>5. handler'.op = "none" /\ Len(sinkMsgs') = n - 1
    BY <1>1, <1>2, <1>8 DEF n
  <2>. QED  BY <2>1, <2>3, <2>4, <2>5 DEF SinkCommanded
<1> HIDE DEF n, m, b
<1>12. /\ \A i \in 1 .. m : sourceBufs[i].id < b.id /\ sourceBufs[i].id \in Nat /\ sourceBufs[i].id > sinkSeen.flushedUpTo
       /\ \A j \in 1 .. n - 1 : sinkMsgs'[j].op = "write" => b.id < sinkMsgs'[j].buf.id
       /\ b.id <= sinkSeen.writes /\ b.id > sinkSeen.flushedUpTo /\ b.id \in Nat
       /\ HasBuffer => out.cur.id < b.id
       /\ \A k \in 1 .. Len(sinkSeen.played) : sinkSeen.played[k] < b.id
  <2>1. 1 \in 1 .. n
    BY <1>2 DEF n
  <2>2. \A i \in 1 .. m : sourceBufs[i].id < b.id /\ sourceBufs[i].id \in Nat /\ sourceBufs[i].id > sinkSeen.flushedUpTo
    BY <1>2, <2>1, SinkNumbers DEF OutputInv, QueuesInOrder, AfterFlush, n, m, b
  <2>3. \A j \in 1 .. n - 1 : sinkMsgs'[j].op = "write" => b.id < sinkMsgs'[j].buf.id
    BY <1>2, <1>6, <2>1 DEF OutputInv, QueuesInOrder, n, b
  <2>4. b.id <= sinkSeen.writes /\ b.id > sinkSeen.flushedUpTo /\ b.id \in Nat
    BY <1>2, <2>1, SinkNumbers DEF OutputInv, QueuesInOrder, AfterFlush, n, b
  <2>5. HasBuffer => out.cur.id < b.id
    BY <1>2, <2>1 DEF OutputInv, FrontIsCurrent, n, b
  <2>6. \A k \in 1 .. Len(sinkSeen.played) : sinkSeen.played[k] < b.id
    BY <1>2, <2>1 DEF OutputInv, PlayedInOrder, n, b
  <2>. QED  BY <2>2, <2>3, <2>4, <2>5, <2>6
<1>13. QueuesInOrder'
  <2>1. \A j \in 1 .. n - 1 :
         sinkMsgs'[j].op = "write" =>
            sinkMsgs'[j].buf.id <= sinkSeen.writes /\ sinkMsgs'[j].buf.id >= sinkSeen.writes + j - (n - 1)
    <3> SUFFICES ASSUME NEW j \in 1 .. n - 1, sinkMsgs'[j].op = "write"
                 PROVE  sinkMsgs'[j].buf.id <= sinkSeen.writes /\ sinkMsgs'[j].buf.id >= sinkSeen.writes + j - (n - 1)
      OBVIOUS
    <3>1. j + 1 \in 1 .. n /\ sinkMsgs'[j] = sinkMsgs[j + 1]
      BY <1>6 DEF n
    <3>2. sinkMsgs[j + 1].buf.id <= sinkSeen.writes /\ sinkMsgs[j + 1].buf.id >= sinkSeen.writes + (j + 1) - n
      BY <3>1 DEF OutputInv, QueuesInOrder, n
    <3>3. sinkMsgs[j + 1].buf.id \in Nat /\ sinkSeen.writes \in Nat /\ n \in Nat
      BY <3>1, SinkNumbers DEF n
    <3>. QED  BY <3>1, <3>2, <3>3
  <2>2. \A i, j \in 1 .. n - 1 :
         i < j /\ sinkMsgs'[i].op = "write" /\ sinkMsgs'[j].op = "write" => sinkMsgs'[i].buf.id < sinkMsgs'[j].buf.id
    <3>1. \A i, j \in 1 .. n - 1 : i < j => i + 1 < j + 1
      BY <1>2 DEF n
    <3>. QED  BY <1>6, <3>1 DEF OutputInv, QueuesInOrder, n
  <2>3. \A i, j \in 1 .. m + 1 : i < j => sourceBufs'[i].id < sourceBufs'[j].id
    <3>1. \A i, j \in 1 .. m + 1 : i < j => i \in 1 .. m
      BY <1>4 DEF m
    <3>. QED  BY <1>7, <1>12, <3>1 DEF OutputInv, QueuesInOrder, m
  <2>4. \A i \in 1 .. m + 1, j \in 1 .. n - 1 :
         sinkMsgs'[j].op = "write" => sourceBufs'[i].id < sinkMsgs'[j].buf.id
    <3> SUFFICES ASSUME NEW i \in 1 .. m + 1, NEW j \in 1 .. n - 1, sinkMsgs'[j].op = "write"
                 PROVE  sourceBufs'[i].id < sinkMsgs'[j].buf.id
      OBVIOUS
    <3>1. j + 1 \in 1 .. n /\ sinkMsgs'[j] = sinkMsgs[j + 1]
      BY <1>6
    <3>2. CASE i \in 1 .. m /\ sourceBufs'[i] = sourceBufs[i]
      BY <3>1, <3>2 DEF OutputInv, QueuesInOrder, n, m
    <3>3. CASE i = m + 1 /\ sourceBufs'[i] = b
      BY <1>12, <3>3
    <3>. QED  BY <1>7, <3>2, <3>3
  <2>5. \A i \in 1 .. m + 1 : sourceBufs'[i].id <= sinkSeen.writes
    BY <1>7, <1>12 DEF OutputInv, QueuesInOrder, m
  <2>. QED  BY <1>1, <1>2, <1>4, <2>1, <2>2, <2>3, <2>4, <2>5 DEF QueuesInOrder, n, m
<1>14. AfterFlush'
  <2>1. \A i \in 1 .. m + 1 : sourceBufs'[i].id > sinkSeen.flushedUpTo
    BY <1>7, <1>12
  <2>2. \A j \in 1 .. n - 1 : sinkMsgs'[j].op = "write" => sinkMsgs'[j].buf.id > sinkSeen.flushedUpTo
    BY <1>6 DEF OutputInv, AfterFlush, n
  <2>. QED  BY <1>1, <1>2, <1>4, <1>5, <2>1, <2>2 DEF OutputInv, AfterFlush, n, m
<1>15. FrontIsCurrent'
  <2>1. HasBuffer =>
         \/ Len(sourceBufs') > 0 /\ sourceBufs'[1] = out.cur
         \/ /\ sinkSeen.wrongPops + 1 <= sinkSeen.flushes
            /\ \A i \in 1 .. m + 1 : out.cur.id < sourceBufs'[i].id
    <3>1. CASE m > 0 /\ sourceBufs[1] = out.cur
      BY <1>4, <3>1 DEF m
    <3>2. CASE /\ sinkSeen.wrongPops + 1 <= sinkSeen.flushes
               /\ \A i \in 1 .. m : out.cur.id < sourceBufs[i].id
      BY <1>7, <1>12, <3>2
    <3>. QED  BY <3>1, <3>2 DEF OutputInv, FrontIsCurrent, m
  <2>2. HasBuffer => /\ out.cur.id <= sinkSeen.writes
                     /\ \A j \in 1 .. n - 1 : sinkMsgs'[j].op = "write" => out.cur.id < sinkMsgs'[j].buf.id
    BY <1>6 DEF OutputInv, FrontIsCurrent, n
  <2>. QED  BY <1>1, <1>2, <1>4, <1>5, <2>1, <2>2 DEF OutputInv, FrontIsCurrent, n, m
<1>16. PlayedInOrder'
  <2>1. \A k \in 1 .. Len(sinkSeen.played) :
          \A j \in 1 .. n - 1 : sinkMsgs'[j].op = "write" => sinkSeen.played[k] < sinkMsgs'[j].buf.id
    BY <1>6 DEF OutputInv, PlayedInOrder, n
  <2>2. \A k \in 1 .. Len(sinkSeen.played) :
          \A i \in 1 .. m + 1 :
                 \/ sinkSeen.played[k] < sourceBufs'[i].id
                 \/ HasBuffer /\ ~HasUnwritten /\ i = 1 /\ sourceBufs'[1] = out.cur /\ sinkSeen.played[k] = out.cur.id
    BY <1>7, <1>12 DEF OutputInv, PlayedInOrder, m
  <2> DEFINE p == sinkSeen.played
  <2>3. /\ \A i, j \in 1 .. Len(p) : i < j => p[i] < p[j]
        /\ \A k \in 1 .. Len(p) :
            /\ p[k] <= sinkSeen.writes
            /\ HasUnwritten => p[k] < out.cur.id
            /\ HasBuffer => p[k] <= out.cur.id
    BY DEF OutputInv, PlayedInOrder
  <2>4. sinkSeen' = sinkSeen /\ Len(sourceBufs') = m + 1 /\ Len(sinkMsgs') = n - 1
    BY <1>1, <1>2, <1>4 DEF m, n
  <2> HIDE DEF p
  <2>. QED  BY <1>5, <2>1, <2>2, <2>3, <2>4 DEF PlayedInOrder, p
<1>. QED  BY <1>9, <1>10, <1>11, <1>13, <1>14, <1>15, <1>16 DEF OutputInv

(* A step of the message thread that takes a command or goes on with one:   *)
(* no command is left in the queue, and the buffers stay where they are.    *)
Commands ==
    \/ \E op \in SinkOps : Takes(op) /\ sinkMsgs' = Tail(sinkMsgs)
    \/ handler.op # "none" /\ UNCHANGED sinkMsgs

AnswersFit ==
    /\ handler'.op # "none" => sinkSeen'.asked = handler'.op
    /\ sinkSeen'.last = "error" => sinkSeen'.asked = "none"

OnlyWrites ==
    /\ sinkMsgs' \in Seq(SinkMessages)
    /\ \A i \in 1 .. Len(sinkMsgs') : sinkMsgs'[i].op = "write" /\ sinkMsgs'[i].buf \in Buffers

LEMMA OnlyWritesLeft ==
    ASSUME SinkInv, Commands
    PROVE  OnlyWrites /\ \E s \in Nat : WritesMoveUp(s)
<1> USE DEF SinkInv
<1>1. CASE \E op \in SinkOps : Takes(op) /\ sinkMsgs' = Tail(sinkMsgs)
  <2>1. PICK op \in SinkOps : Takes(op) /\ sinkMsgs' = Tail(sinkMsgs)
    BY <1>1
  <2>2. OnlyWrites /\ WritesMoveUp(1)
    <3>1. WritesMoveUp(1) /\ \A i \in 1 .. Len(sinkMsgs') : sinkMsgs'[i].op = "write" /\ sinkMsgs'[i].buf \in Buffers
      BY <2>1, SinkTakeIs
    <3>. QED  BY <3>1 DEF WritesMoveUp, OnlyWrites
  <2>. QED  BY <2>2
<1>2. CASE handler.op # "none" /\ UNCHANGED sinkMsgs
  <2>1. \A i \in 1 .. Len(sinkMsgs) : sinkMsgs[i].op = "write" /\ sinkMsgs[i].buf \in Buffers
    BY <1>2 DEF SinkCommanded, SinkFits
  <2>2. WritesMoveUp(0)
    BY <1>2, SinkMessagesStay
  <2>. QED  BY <1>2, <2>1, <2>2 DEF OnlyWrites, SinkTypes
<1>. QED  BY <1>1, <1>2 DEF Commands

LEMMA CommandMoves ==
    ASSUME SinkInv, OutputInv, Commands, UNCHANGED sourceBufs, SameBuffer, SameHistory, AnswersFit
    PROVE  SinkCommanded' /\ OutputInv' /\ OnlyWrites /\ sinkSeen'.writes <= MaxSinkWrites
<1> USE DEF SinkInv
<1>1. OnlyWrites
  BY OnlyWritesLeft
<1>2. SinkCommanded'
  BY <1>1, NoCommandQueued DEF OnlyWrites, AnswersFit
<1>3. PICK s \in Nat : WritesMoveUp(s)
  BY OnlyWritesLeft
<1>4. OutputInv'
  BY <1>3, OutputKept
<1>. QED  BY <1>1, <1>2, <1>4 DEF SameHistory, SinkFits

(* A flush, or the end of a reset, empties the queue.                      *)
LEMMA QueueEmptied ==
    ASSUME SinkInv, OutputInv, Commands, sourceBufs' = <<>>, UNCHANGED out, AnswersFit,
           sinkSeen'.writes = sinkSeen.writes, sinkSeen'.played = sinkSeen.played,
           sinkSeen'.wrongPops = sinkSeen.wrongPops, sinkSeen'.stale = sinkSeen.stale,
           \/ ~HasBuffer /\ SameHistory
           \/ /\ sinkSeen'.flushes = sinkSeen.flushes + 1 /\ UNCHANGED sinkMsgs
              /\ sinkSeen'.flushedUpTo = sinkSeen.writes - Len(sinkMsgs)
    PROVE  SinkCommanded' /\ OutputInv' /\ OnlyWrites /\ sinkSeen'.writes <= MaxSinkWrites
<1> USE DEF SinkInv
<1>1. OnlyWrites
  BY OnlyWritesLeft
<1>2. SinkCommanded'
  BY <1>1, NoCommandQueued DEF OnlyWrites, AnswersFit
<1>3. PICK s \in Nat : WritesMoveUp(s)
  BY OnlyWritesLeft
<1>4. /\ Len(sourceBufs') = 0 /\ Len(sinkMsgs') \in Nat
      /\ HasBuffer' = HasBuffer /\ HasUnwritten' = HasUnwritten /\ (HasUnwritten => HasBuffer)
  BY <1>1, EmptyIs, NothingIn DEF OnlyWrites, HasBuffer, HasUnwritten
<1>5. \A j \in 1 .. Len(sinkMsgs') :
         j + s \in 1 .. Len(sinkMsgs) /\ sinkMsgs'[j] = sinkMsgs[j + s] /\ sinkMsgs[j + s].op = "write" /\ sinkMsgs'[j].op = "write"
  BY <1>1, <1>3 DEF OnlyWrites, WritesMoveUp
<1>6. QueuesInOrder'
  <2> DEFINE n == Len(sinkMsgs)
             k == Len(sinkMsgs')
  <2>1. k >= n - s /\ n \in Nat /\ k \in Nat /\ sinkSeen.writes \in Nat
    BY <1>3, <1>4, SinkNumbers DEF WritesMoveUp
  <2>2. \A i, j \in 1 .. k : i < j => sinkMsgs'[i].buf.id < sinkMsgs'[j].buf.id
    <3> SUFFICES ASSUME NEW i \in 1 .. k, NEW j \in 1 .. k, i < j
                 PROVE  sinkMsgs'[i].buf.id < sinkMsgs'[j].buf.id
      OBVIOUS
    <3>1. i + s < j + s
      BY <2>1
    <3>. QED  BY <1>5, <3>1 DEF OutputInv, QueuesInOrder
  <2>3. \A j \in 1 .. k : sinkMsgs'[j].buf.id <= sinkSeen.writes /\ sinkMsgs'[j].buf.id >= sinkSeen.writes + j - k
    <3> SUFFICES ASSUME NEW j \in 1 .. k
                 PROVE  sinkMsgs'[j].buf.id <= sinkSeen.writes /\ sinkMsgs'[j].buf.id >= sinkSeen.writes + j - k
      OBVIOUS
    <3>1. /\ sinkMsgs[j + s].buf.id <= sinkSeen.writes
          /\ sinkMsgs[j + s].buf.id >= sinkSeen.writes + (j + s) - n
      BY <1>5 DEF OutputInv, QueuesInOrder
    <3>2. sinkMsgs[j + s].buf.id \in Nat /\ sinkMsgs'[j] = sinkMsgs[j + s]
      BY <1>5, SinkNumbers
    <3> HIDE DEF n, k
    <3>. QED  BY <2>1, <3>1, <3>2
  <2>. QED  BY <1>4, <2>2, <2>3 DEF QueuesInOrder
<1>7. AfterFlush'
  <2>1. CASE ~HasBuffer /\ SameHistory
    BY <1>4, <1>5, <2>1 DEF AfterFlush, OutputInv, SameHistory
  <2>2. CASE /\ sinkSeen'.flushes = sinkSeen.flushes + 1 /\ UNCHANGED sinkMsgs
             /\ sinkSeen'.flushedUpTo = sinkSeen.writes - Len(sinkMsgs)
    <3> DEFINE n == Len(sinkMsgs)
    <3>1. \A j \in 1 .. n : sinkMsgs[j].op = "write" => sinkMsgs[j].buf.id > sinkSeen'.flushedUpTo
      <4> SUFFICES ASSUME NEW j \in 1 .. n, sinkMsgs[j].op = "write" PROVE sinkMsgs[j].buf.id > sinkSeen'.flushedUpTo
        OBVIOUS
      <4>1. sinkMsgs[j].buf.id >= sinkSeen.writes + j - n /\ sinkMsgs[j].buf.id \in Nat
        BY SinkNumbers DEF OutputInv, QueuesInOrder
      <4>2. n \in Nat /\ sinkSeen.writes \in Nat /\ sinkSeen'.flushedUpTo = sinkSeen.writes - n
        BY <2>2, SinkNumbers
      <4> HIDE DEF n
      <4>. QED  BY <4>1, <4>2
    <3>2. sinkSeen'.flushedUpTo <= sinkSeen'.writes
      BY <2>2, SinkNumbers
    <3>3. sinkSeen'.stale + 1 <= sinkSeen'.flushes
      BY <2>2, SinkNumbers DEF OutputInv, AfterFlush
    <3>. QED  BY <1>4, <2>2, <3>1, <3>2, <3>3, SinkNumbers DEF AfterFlush
  <2>. QED  BY <2>1, <2>2
<1>8. FrontIsCurrent'
  <2>1. CASE ~HasBuffer /\ SameHistory
    BY <1>4, <2>1 DEF FrontIsCurrent, OutputInv, SameHistory
  <2>2. CASE sinkSeen'.flushes = sinkSeen.flushes + 1 /\ UNCHANGED sinkMsgs
    <3>1. sinkSeen'.wrongPops + 1 <= sinkSeen'.flushes /\ sinkSeen'.wrongPops <= sinkSeen'.flushes
      BY <2>2, SinkNumbers DEF OutputInv, FrontIsCurrent
    <3>. QED  BY <1>4, <2>2, <3>1 DEF OutputInv, FrontIsCurrent
  <2>. QED  BY <2>1, <2>2
<1>9. PlayedInOrder'
  <2> DEFINE p == sinkSeen.played
  <2>1. ASSUME NEW k \in 1 .. Len(p), NEW j \in 1 .. Len(sinkMsgs') PROVE p[k] < sinkMsgs'[j].buf.id
    <3>1. j + s \in 1 .. Len(sinkMsgs) /\ sinkMsgs'[j] = sinkMsgs[j + s] /\ sinkMsgs[j + s].op = "write"
      BY <1>5
    <3>2. p[k] < sinkMsgs[j + s].buf.id
      BY <2>1, <3>1 DEF OutputInv, PlayedInOrder
    <3>. QED  BY <3>1, <3>2
  <2>2. /\ \A i, j \in 1 .. Len(p) : i < j => p[i] < p[j]
        /\ \A k \in 1 .. Len(p) :
              /\ p[k] <= sinkSeen.writes
              /\ HasUnwritten => p[k] < out.cur.id
              /\ HasBuffer => p[k] <= out.cur.id
    BY DEF OutputInv, PlayedInOrder
  <2>3. ~ \E i \in 1 .. Len(sourceBufs') : TRUE
    BY <1>4
  <2>4. sinkSeen'.played = p
    OBVIOUS
  <2> HIDE DEF p
  <2>. QED  BY <1>4, <2>1, <2>2, <2>3, <2>4 DEF PlayedInOrder
<1>. QED  BY <1>1, <1>2, <1>6, <1>7, <1>8, <1>9 DEF OutputInv, SinkFits

LEMMA OnPrepareKeeps ==
    ASSUME SinkInv, OutputInv, OnPrepare
    PROVE  SinkInv' /\ OutputInv'
<1> USE DEF SinkInv
<1>1. /\ Takes("prepare") /\ sinkMsgs' = Tail(sinkMsgs) /\ out' = [out EXCEPT !.room = 0]
      /\ UNCHANGED <<sourceBufs, clock, now>>
      /\ \/ /\ sink' = [sink EXCEPT !.state = "prepared"]
            /\ stream' = [filled |-> 0, corked |-> FALSE, callbacks |-> TRUE]
            /\ Answered("prepare")
         \/ Answered("error") /\ UNCHANGED <<sink, stream>>
  BY DEF OnPrepare, OpFails, clockVars
<1>2. "prepare" \in SinkOps
  BY DEF SinkOps
<1>3. handler.op = "none" /\ sinkSeen.last # "error" /\ sink.state \in {"idle", "stopped"}
  BY <1>1, <1>2, SinkTakeIs DEF Legal
<1>4. out.at = "over" /\ sink.paused /\ ~sink.thread
  BY <1>3 DEF OutThread, StatesAgree
<1>5. out' \in Outs /\ out'.at = "over" /\ out'.cur = out.cur
  BY <1>1, <1>4, SinkAssumption DEF SinkTypes, Outs
<1>6. SameBuffer
  BY <1>4, <1>5 DEF SameBuffer, HasBuffer, HasUnwritten
<1>7. /\ handler' \in Handlers /\ handler'.op = "none" /\ handler'.step = "none"
      /\ sinkSeen' \in SinkHistories /\ sinkSeen'.asked = "none" /\ SameHistory
      /\ sink' \in Sinks /\ sink'.thread = sink.thread /\ sink'.draining = sink.draining /\ sink'.paused
      /\ stream' \in Streams
      /\ sink'.state = "prepared" \/ (sinkSeen'.last = "error" /\ sink' = sink)
  <2>1. CASE /\ sink' = [sink EXCEPT !.state = "prepared"]
             /\ stream' = [filled |-> 0, corked |-> FALSE, callbacks |-> TRUE]
             /\ Answered("prepare")
    <3>1. stream' \in Streams
      BY <2>1, SinkAssumption DEF Streams
    <3>2. sink' \in Sinks /\ sink'.thread = sink.thread /\ sink'.draining = sink.draining /\ sink'.paused /\ sink'.state = "prepared"
      BY <1>4, <2>1 DEF SinkTypes, Sinks
    <3>. QED  BY <1>2, <2>1, <3>1, <3>2, SinkAnsweredIs
  <2>2. CASE Answered("error") /\ UNCHANGED <<sink, stream>>
    <3>1. sink \in Sinks /\ stream \in Streams
      BY DEF SinkTypes
    <3>. QED  BY <1>4, <2>2, <3>1, SinkAnsweredIs
  <2>. QED  BY <1>1, <2>1, <2>2
<1>8. SinkCommanded' /\ OutputInv' /\ OnlyWrites /\ sinkSeen'.writes <= MaxSinkWrites
  BY <1>1, <1>2, <1>6, <1>7, CommandMoves DEF Commands, AnswersFit
<1>9. SinkTypes'
  BY <1>1, <1>5, <1>7, <1>8 DEF SinkTypes, OnlyWrites
<1>10. SinkFits'
  BY <1>4, <1>5, <1>8 DEF SinkFits, OnlyWrites, HasBuffer
<1>11. HandlerFits' /\ OutThread' /\ StatesAgree'
  BY <1>3, <1>4, <1>5, <1>7 DEF HandlerFits, OutThread, StatesAgree
<1>. QED  BY <1>8, <1>9, <1>10, <1>11

LEMMA OnStartKeeps ==
    ASSUME SinkInv, OutputInv, NEW op \in {"start", "resume"}, OnStart(op)
    PROVE  SinkInv' /\ OutputInv'
<1> USE DEF SinkInv
<1> DEFINE create == op = "start" /\ ~sink.thread
<1>1. /\ Takes(op) /\ sinkMsgs' = Tail(sinkMsgs)
      /\ sink' = IF create THEN [sink EXCEPT !.thread = TRUE, !.continue = TRUE] ELSE sink
      /\ out' = IF create THEN [out EXCEPT !.at = "top", !.cur = NoBuffer] ELSE out
      /\ IF ~sink.paused \/ sink.draining
         THEN Answered(op)
         ELSE handler' = [op |-> op, step |-> "uncork"] /\ UNCHANGED sinkSeen
      /\ UNCHANGED <<sourceBufs, stream, clock, now>>
  BY DEF OnStart, clockVars
<1>2. op \in SinkOps
  BY DEF SinkOps
<1>3. handler.op = "none" /\ sinkSeen.last # "error" /\ sinkSeen.asked = op /\ Legal(op)
  BY <1>1, <1>2, SinkTakeIs
<1>4. create => out.at = "over" /\ ~sink.draining
  BY DEF OutThread
<1>5. /\ sink' \in Sinks /\ sink'.state = sink.state /\ sink'.paused = sink.paused /\ sink'.draining = sink.draining
      /\ sink'.thread = (sink.thread \/ create)
  BY <1>1 DEF SinkTypes, Sinks
<1>6. out' \in Outs /\ (create => out'.at = "top" /\ out'.cur = NoBuffer) /\ (~create => out' = out)
  BY <1>1, NoBufferIs DEF SinkTypes, Outs, OutPlaces
<1>7. /\ handler' \in Handlers /\ HandlerFits' /\ sinkSeen' \in SinkHistories /\ SameHistory
      /\ handler'.op # "none" => handler'.op = op /\ sinkSeen'.asked = op
      /\ sinkSeen'.last # "error"
      /\ handler'.op = "none" => ~sink.paused \/ sink.draining
      /\ handler'.op # "none" => sink.paused
  <2>1. CASE ~sink.paused \/ sink.draining
    <3>1. Answered(op)
      BY <1>1, <2>1
    <3>2. op # "error"
      OBVIOUS
    <3>. QED  BY <1>2, <2>1, <3>1, <3>2, SinkAnsweredIs DEF HandlerFits
  <2>2. CASE ~(~sink.paused \/ sink.draining)
    <3>1. handler' = [op |-> op, step |-> "uncork"] /\ sinkSeen' = sinkSeen
      BY <1>1, <2>2
    <3>2. handler' \in Handlers /\ handler'.op = op /\ handler'.step = "uncork"
      BY <1>2, <3>1 DEF Handlers
    <3>3. op # "none" /\ HandlerFits'
      BY <3>2 DEF HandlerFits
    <3>. QED  BY <1>3, <2>2, <3>1, <3>2, <3>3 DEF SinkTypes, SameHistory
  <2>. QED  BY <2>1, <2>2
<1> HIDE DEF create
<1>8. SameBuffer
  BY <1>4, <1>6 DEF SameBuffer, HasBuffer, HasUnwritten
<1>9. SinkCommanded' /\ OutputInv' /\ OnlyWrites /\ sinkSeen'.writes <= MaxSinkWrites
  BY <1>1, <1>2, <1>7, <1>8, CommandMoves DEF Commands, AnswersFit
<1>10. SinkTypes'
  BY <1>1, <1>5, <1>6, <1>7, <1>9 DEF SinkTypes, OnlyWrites
<1>11. SinkFits'
  <2>1. CASE create
    BY <1>6, <1>9, <2>1 DEF SinkFits, OnlyWrites, HasBuffer
  <2>2. CASE ~create
    BY <1>1, <1>6, <1>9, <2>2 DEF SinkFits, OnlyWrites, HasBuffer
  <2>. QED  BY <2>1, <2>2
<1>12. OutThread'
  <2>1. sink'.draining <=> out'.at = "drain"
    BY <1>4, <1>5, <1>6 DEF OutThread
  <2>2. ~sink'.thread => out'.at = "over"
    BY <1>5, <1>6 DEF OutThread
  <2>3. handler'.op \notin {"stop", "reset"}
    BY <1>7
  <2>4. handler'.op \notin {"start"} /\ sink'.state \in {"idle", "stopped"} => ~sink'.thread
    <3>1. SUFFICES ASSUME handler'.op # "start", sink.state \in {"idle", "stopped"} PROVE FALSE
      BY <1>5
    <3>2. op = "start"
      BY <1>3, <3>1 DEF Legal
    <3>3. ~sink.paused \/ sink.draining
      BY <1>7, <3>1, <3>2
    <3>4. sink.paused /\ ~sink.thread
      BY <1>3, <3>1 DEF OutThread, StatesAgree
    <3>. QED  BY <3>3, <3>4 DEF OutThread
  <2>. QED  BY <2>1, <2>2, <2>3, <2>4 DEF OutThread
<1>13. StatesAgree'
  BY <1>1, <1>5, <1>7 DEF StatesAgree
<1>. QED  BY <1>7, <1>9, <1>10, <1>11, <1>12, <1>13

LEMMA UncorkedKeeps ==
    ASSUME SinkInv, OutputInv, Uncorked
    PROVE  SinkInv' /\ OutputInv'
<1> USE DEF SinkInv
<1>1. /\ handler.step = "uncork" /\ UNCHANGED <<sinkMsgs, sourceBufs, now>>
      /\ \/ /\ stream' = [stream EXCEPT !.corked = FALSE]
            /\ clock' = ClockResumed(clock, now)
            /\ sink' = [sink EXCEPT !.paused = FALSE, !.state = "started"]
            /\ out' = Signalled(out)
            /\ Answered(handler.op)
         \/ Answered("error") /\ UNCHANGED <<stream, clock, sink, out>>
  BY DEF Uncorked, OpFails
<1>2. handler.op \in {"start", "resume"} /\ handler.op \in SinkOps /\ handler.op # "error" /\ handler.op # "none"
  BY <1>1 DEF HandlerFits, SinkTypes, Handlers, SinkOps
<1>3. /\ handler' \in Handlers /\ handler'.op = "none" /\ handler'.step = "none"
      /\ sinkSeen' \in SinkHistories /\ sinkSeen'.asked = "none" /\ SameHistory
      /\ \/ /\ stream' = [stream EXCEPT !.corked = FALSE]
            /\ clock' = ClockResumed(clock, now)
            /\ sink' = [sink EXCEPT !.paused = FALSE, !.state = "started"]
            /\ out' = Signalled(out)
         \/ sinkSeen'.last = "error" /\ UNCHANGED <<stream, clock, sink, out>>
  BY <1>1, <1>2, SinkAnsweredIs
<1>4. /\ out' \in Outs /\ out'.cur = out.cur /\ out'.room = out.room
      /\ HasBuffer' = HasBuffer /\ HasUnwritten' = HasUnwritten
      /\ out'.at = "drain" <=> out.at = "drain"
      /\ out.at = "over" <=> out'.at = "over"
      /\ out'.at \in {"took", "write"} <=> out.at \in {"took", "write"}
      /\ out'.at \in {"full", "fullWoken"} <=> out.at \in {"full", "fullWoken"}
  BY <1>3, SignalKeepsBuffer DEF SinkTypes
<1>5. SinkCommanded' /\ OutputInv' /\ OnlyWrites /\ sinkSeen'.writes <= MaxSinkWrites
  BY <1>1, <1>2, <1>3, <1>4, CommandMoves DEF Commands, AnswersFit, SameBuffer
<1>6. /\ sink' \in Sinks /\ stream' \in Streams /\ clock' \in ClockStates
      /\ sink'.thread = sink.thread /\ sink'.draining = sink.draining /\ stream'.filled = stream.filled
      /\ \/ sink'.state = "started" /\ ~stream'.corked /\ ~clock'.paused
         \/ sinkSeen'.last = "error" /\ sink' = sink /\ stream' = stream /\ clock' = clock
  <2>1. CASE UNCHANGED <<stream, clock, sink>> /\ sinkSeen'.last = "error"
    BY <2>1 DEF SinkTypes
  <2>2. CASE /\ stream' = [stream EXCEPT !.corked = FALSE]
             /\ clock' = ClockResumed(clock, now)
             /\ sink' = [sink EXCEPT !.paused = FALSE, !.state = "started"]
    <3>1. clock' \in ClockStates /\ ~clock'.paused
      BY <2>2, ClockResumedIs DEF SinkTypes
    <3>. QED  BY <2>2, <3>1 DEF SinkTypes, Sinks, Streams
  <2>. QED  BY <1>3, <2>1, <2>2
<1>7. SinkTypes'
  BY <1>1, <1>3, <1>4, <1>5, <1>6 DEF SinkTypes, OnlyWrites
<1>8. SinkFits'
  BY <1>4, <1>5, <1>6 DEF SinkFits, OnlyWrites
<1>9. HandlerFits' /\ OutThread'
  BY <1>3, <1>4, <1>6 DEF HandlerFits, OutThread
<1>10. StatesAgree'
  BY <1>3, <1>6 DEF StatesAgree
<1>. QED  BY <1>5, <1>7, <1>8, <1>9, <1>10

LEMMA OnPauseKeeps ==
    ASSUME SinkInv, OutputInv, OnPause
    PROVE  SinkInv' /\ OutputInv'
<1> USE DEF SinkInv
<1>1. /\ Takes("pause") /\ sinkMsgs' = Tail(sinkMsgs)
      /\ sink' = [sink EXCEPT !.paused = TRUE]
      /\ IF sink.state = "paused" \/ sink.draining
         THEN Answered("pause")
         ELSE handler' = [op |-> "pause", step |-> "cork"] /\ UNCHANGED sinkSeen
      /\ UNCHANGED <<sourceBufs, out, stream, clock, now>>
  BY DEF OnPause, clockVars
<1>2. "pause" \in SinkOps
  BY DEF SinkOps
<1>3. handler.op = "none" /\ sinkSeen.asked = "pause" /\ sinkSeen.last # "error" /\ sink.state \in {"prepared", "started", "paused"}
  BY <1>1, <1>2, SinkTakeIs DEF Legal
<1>4. /\ handler' \in Handlers /\ HandlerFits' /\ sinkSeen' \in SinkHistories /\ SameHistory /\ AnswersFit
      /\ handler'.op \in {"none", "pause"}
  <2>1. CASE Answered("pause")
    BY <1>2, <2>1, SinkAnsweredIs DEF HandlerFits, AnswersFit
  <2>2. CASE handler' = [op |-> "pause", step |-> "cork"] /\ UNCHANGED sinkSeen
    BY <1>2, <1>3, <2>2 DEF Handlers, HandlerFits, AnswersFit, SinkTypes, SameHistory
  <2>. QED  BY <1>1, <2>1, <2>2
<1>5. /\ sink' \in Sinks /\ sink'.paused /\ sink'.state = sink.state /\ sink'.thread = sink.thread
      /\ sink'.draining = sink.draining
  BY <1>1 DEF SinkTypes, Sinks
<1>6. SameBuffer
  BY <1>1 DEF SameBuffer, HasBuffer, HasUnwritten
<1>7. SinkCommanded' /\ OutputInv' /\ OnlyWrites /\ sinkSeen'.writes <= MaxSinkWrites
  BY <1>1, <1>2, <1>4, <1>6, CommandMoves DEF Commands
<1>8. SinkTypes'
  BY <1>1, <1>4, <1>5, <1>7 DEF SinkTypes, OnlyWrites
<1>9. SinkFits'
  BY <1>1, <1>7 DEF SinkFits, OnlyWrites, HasBuffer
<1>10. OutThread' /\ StatesAgree'
  BY <1>1, <1>3, <1>4, <1>5 DEF OutThread, StatesAgree
<1>. QED  BY <1>4, <1>7, <1>8, <1>9, <1>10

LEMMA CorkedKeeps ==
    ASSUME SinkInv, OutputInv, Corked
    PROVE  SinkInv' /\ OutputInv'
<1> USE DEF SinkInv
<1>1. /\ handler = [op |-> "pause", step |-> "cork"] /\ UNCHANGED <<sinkMsgs, sourceBufs, out, now>>
      /\ \/ /\ stream' = [stream EXCEPT !.corked = TRUE]
            /\ clock' = ClockPaused(clock, now)
            /\ sink' = [sink EXCEPT !.state = "paused"]
            /\ Answered("pause")
         \/ Answered("error") /\ UNCHANGED <<stream, clock, sink>>
  BY DEF Corked, OpFails
<1>2. handler.op = "pause" /\ "pause" \in SinkOps /\ sink.paused
  BY <1>1 DEF SinkOps, StatesAgree
<1>3. /\ handler' \in Handlers /\ handler'.op = "none" /\ handler'.step = "none"
      /\ sinkSeen' \in SinkHistories /\ sinkSeen'.asked = "none" /\ SameHistory
      /\ \/ /\ stream' = [stream EXCEPT !.corked = TRUE]
            /\ clock' = ClockPaused(clock, now)
            /\ sink' = [sink EXCEPT !.state = "paused"]
         \/ sinkSeen'.last = "error" /\ UNCHANGED <<stream, clock, sink>>
  BY <1>1, <1>2, SinkAnsweredIs
<1>4. SameBuffer
  BY <1>1 DEF SameBuffer, HasBuffer, HasUnwritten
<1>5. SinkCommanded' /\ OutputInv' /\ OnlyWrites /\ sinkSeen'.writes <= MaxSinkWrites
  BY <1>1, <1>2, <1>3, <1>4, CommandMoves DEF Commands, AnswersFit
<1>6. /\ sink' \in Sinks /\ stream' \in Streams /\ clock' \in ClockStates
      /\ sink'.thread = sink.thread /\ sink'.draining = sink.draining /\ stream'.filled = stream.filled
      /\ sink'.paused
      /\ \/ sink'.state = "paused" /\ stream'.corked /\ clock'.paused
         \/ sinkSeen'.last = "error" /\ sink' = sink /\ stream' = stream /\ clock' = clock
  <2>1. CASE UNCHANGED <<stream, clock, sink>> /\ sinkSeen'.last = "error"
    BY <1>2, <2>1 DEF SinkTypes
  <2>2. CASE /\ stream' = [stream EXCEPT !.corked = TRUE]
             /\ clock' = ClockPaused(clock, now)
             /\ sink' = [sink EXCEPT !.state = "paused"]
    <3>1. clock' \in ClockStates /\ clock'.paused
      BY <2>2, ClockPausedIs DEF SinkTypes
    <3>. QED  BY <1>2, <2>2, <3>1 DEF SinkTypes, Sinks, Streams
  <2>. QED  BY <1>3, <2>1, <2>2
<1>7. SinkTypes'
  BY <1>1, <1>3, <1>5, <1>6 DEF SinkTypes, OnlyWrites
<1>8. SinkFits'
  BY <1>1, <1>5, <1>6 DEF SinkFits, OnlyWrites, HasBuffer
<1>9. HandlerFits' /\ OutThread'
  BY <1>1, <1>3, <1>6 DEF HandlerFits, OutThread
<1>10. StatesAgree'
  BY <1>3, <1>6 DEF StatesAgree
<1>. QED  BY <1>5, <1>7, <1>8, <1>9, <1>10

LEMMA OnFlushKeeps ==
    ASSUME SinkInv, OutputInv, NEW op \in {"flush", "seek"}, OnFlush(op)
    PROVE  SinkInv' /\ OutputInv'
<1> USE DEF SinkInv
<1>1. /\ Takes(op) /\ sinkMsgs' = Tail(sinkMsgs)
      /\ handler' = [op |-> op, step |-> "flush"]
      /\ UNCHANGED <<sink, sourceBufs, out, stream, sinkSeen, clock, now>>
  BY DEF OnFlush, clockVars
<1>2. op \in SinkOps
  BY DEF SinkOps
<1>3. handler.op = "none" /\ sinkSeen.asked = op /\ sinkSeen.last # "error"
  BY <1>1, <1>2, SinkTakeIs
<1>4. handler' \in Handlers /\ HandlerFits' /\ handler'.op = op /\ AnswersFit /\ SameHistory
  BY <1>1, <1>2, <1>3 DEF Handlers, HandlerFits, AnswersFit, SameHistory
<1>5. SameBuffer
  BY <1>1 DEF SameBuffer, HasBuffer, HasUnwritten
<1>6. SinkCommanded' /\ OutputInv' /\ OnlyWrites /\ sinkSeen'.writes <= MaxSinkWrites
  BY <1>1, <1>2, <1>4, <1>5, CommandMoves DEF Commands
<1>7. SinkTypes'
  BY <1>1, <1>4, <1>6 DEF SinkTypes, OnlyWrites
<1>8. SinkFits'
  BY <1>1, <1>6 DEF SinkFits, OnlyWrites, HasBuffer
<1>9. OutThread' /\ StatesAgree'
  BY <1>1, <1>3, <1>4 DEF OutThread, StatesAgree
<1>. QED  BY <1>4, <1>6, <1>7, <1>8, <1>9

(* What flushes PulseAudio's stream, and goes on or fails.                 *)
LEMMA StreamFlushed ==
    ASSUME SinkInv, OutputInv, handler.op \in SinkOps, handler.op # "none",
           UNCHANGED <<sink, sinkMsgs, sourceBufs, out, now>>,
           NEW step \in {"clear", "cork"},
           HandlerFits /\ handler' = [handler EXCEPT !.step = step] => HandlerFits',
           step # "join" /\ (handler.step # "join" \/ handler.op \notin {"stop", "reset"}),
           \/ /\ stream' = [stream EXCEPT !.filled = 0]
              /\ clock' = ClockFlushed(clock) \/ clock' = clock
              /\ handler' = [handler EXCEPT !.step = step]
              /\ UNCHANGED sinkSeen
           \/ Answered("error") /\ UNCHANGED <<stream, clock>>
    PROVE  SinkInv' /\ OutputInv'
<1> USE DEF SinkInv
<1>1. /\ handler' \in Handlers /\ HandlerFits' /\ sinkSeen' \in SinkHistories /\ SameHistory /\ AnswersFit
      /\ handler'.op # "none" => handler'.op = handler.op
      /\ handler'.op = "none" => sinkSeen'.last = "error"
      /\ sinkSeen'.last # "error" => sinkSeen.last # "error"
      /\ stream' \in Streams /\ stream'.filled <= stream.filled /\ stream'.corked = stream.corked
      /\ clock' \in ClockStates /\ clock'.paused = clock.paused
  <2>1. CASE Answered("error") /\ UNCHANGED <<stream, clock>>
    <3>1. HandlerFits' /\ AnswersFit
      BY <2>1, SinkAnsweredIs DEF HandlerFits, AnswersFit
    <3>2. stream'.filled <= stream.filled
      BY <2>1, SinkAssumption DEF SinkTypes, Streams
    <3>. QED  BY <2>1, <3>1, <3>2, SinkAnsweredIs DEF SinkTypes
  <2>2. CASE /\ stream' = [stream EXCEPT !.filled = 0]
             /\ clock' = ClockFlushed(clock) \/ clock' = clock
             /\ handler' = [handler EXCEPT !.step = step]
             /\ UNCHANGED sinkSeen
    <3>1. clock' \in ClockStates /\ clock'.paused = clock.paused
      BY <2>2, ClockFlushedIs DEF SinkTypes
    <3>2. stream' \in Streams /\ stream'.filled <= stream.filled /\ stream'.corked = stream.corked
      BY <2>2, SinkAssumption DEF SinkTypes, Streams
    <3>3. handler' \in Handlers /\ handler'.op = handler.op
      BY <2>2 DEF SinkTypes, Handlers
    <3>4. AnswersFit
      BY <2>2, <3>3 DEF SinkCommanded, AnswersFit
    <3>5. handler'.op # "none"
      BY <3>3
    <3>. QED  BY <2>2, <3>1, <3>2, <3>3, <3>4, <3>5 DEF SinkTypes, SameHistory
  <2>. QED  BY <2>1, <2>2
<1>2. SameBuffer
  BY DEF SameBuffer, HasBuffer, HasUnwritten
<1>3. SinkCommanded' /\ OutputInv' /\ OnlyWrites /\ sinkSeen'.writes <= MaxSinkWrites
  BY <1>1, <1>2, CommandMoves DEF Commands
<1>4. SinkTypes'
  BY <1>1, <1>3 DEF SinkTypes, OnlyWrites
<1>5. SinkFits'
  <2>1. out.at \in {"took", "write"} => out.room + stream'.filled <= Room
    BY <1>1, SinkAssumption DEF SinkFits, SinkTypes, Outs, Streams
  <2>. QED  BY <1>3, <2>1 DEF SinkFits, OnlyWrites, HasBuffer
<1>6. OutThread' /\ StatesAgree'
  BY <1>1 DEF OutThread, StatesAgree
<1>. QED  BY <1>1, <1>3, <1>4, <1>5, <1>6

LEMMA FlushedKeeps ==
    ASSUME SinkInv, OutputInv, Flushed
    PROVE  SinkInv' /\ OutputInv'
<1>1. /\ handler.op \in {"flush", "seek"} /\ UNCHANGED <<sink, sinkMsgs, sourceBufs, out, now>>
      /\ \/ /\ stream' = [stream EXCEPT !.filled = 0]
            /\ clock' = ClockFlushed(clock) \/ clock' = clock
            /\ handler' = [handler EXCEPT !.step = "clear"]
            /\ UNCHANGED sinkSeen
         \/ Answered("error") /\ UNCHANGED <<stream, clock>>
  BY DEF Flushed, OpFails, Continues
<1>2. handler.op \in SinkOps /\ handler.op # "none"
  BY <1>1 DEF SinkOps
<1>3. handler' = [handler EXCEPT !.step = "clear"] => HandlerFits'
  <2>1. handler \in Handlers
    BY DEF SinkInv, SinkTypes
  <2>. QED  BY <1>1, <2>1 DEF HandlerFits, Handlers
<1>. QED  BY <1>1, <1>2, <1>3, StreamFlushed

LEMMA StopFlushedKeeps ==
    ASSUME SinkInv, OutputInv, StopFlushed
    PROVE  SinkInv' /\ OutputInv'
<1>1. /\ handler.step = "joined" /\ UNCHANGED <<sink, sinkMsgs, sourceBufs, out, now>>
      /\ \/ /\ stream' = [stream EXCEPT !.filled = 0]
            /\ clock' = ClockFlushed(clock) \/ clock' = clock
            /\ handler' = [handler EXCEPT !.step = "cork"]
            /\ UNCHANGED sinkSeen
         \/ Answered("error") /\ UNCHANGED <<stream, clock>>
  BY DEF StopFlushed, OpFails, Continues
<1>2. handler \in Handlers /\ handler.op \in {"stop", "reset"}
  BY <1>1 DEF SinkInv, SinkTypes, Handlers, HandlerFits, SinkOps
<1>3. handler.op \in SinkOps /\ handler.op # "none"
  BY <1>2 DEF SinkOps
<1>4. handler' = [handler EXCEPT !.step = "cork"] => HandlerFits'
  BY <1>2 DEF HandlerFits, Handlers
<1>. QED  BY <1>1, <1>3, <1>4, StreamFlushed

LEMMA ClearedKeeps ==
    ASSUME SinkInv, OutputInv, Cleared
    PROVE  SinkInv' /\ OutputInv'
<1> USE DEF SinkInv
<1>1. /\ handler.op \in {"flush", "seek"} /\ handler.step = "clear"
      /\ sourceBufs' = <<>>
      /\ handler' = Idle
      /\ sinkSeen' = [sinkSeen EXCEPT !.asked = "none", !.last = handler.op, !.flushes = @ + 1,
                                    !.flushedUpTo = sinkSeen.writes - Len(sinkMsgs)]
      /\ UNCHANGED <<sink, sinkMsgs, out, stream, clock, now>>
  BY DEF Cleared, clockVars
<1>2. handler.op \in SinkOps /\ handler.op # "none" /\ handler.op # "error" /\ handler.op # "start"
  BY <1>1 DEF SinkOps
<1>3. /\ sinkSeen' \in SinkHistories /\ sinkSeen'.asked = "none" /\ sinkSeen'.last # "error"
      /\ sinkSeen'.writes = sinkSeen.writes /\ sinkSeen'.played = sinkSeen.played
      /\ sinkSeen'.wrongPops = sinkSeen.wrongPops /\ sinkSeen'.stale = sinkSeen.stale
      /\ sinkSeen'.flushes = sinkSeen.flushes + 1
      /\ sinkSeen'.flushedUpTo = sinkSeen.writes - Len(sinkMsgs)
  <2>1. sinkSeen.flushes + 1 \in Nat /\ sinkSeen.writes - Len(sinkMsgs) \in Int /\ sinkSeen \in SinkHistories
    BY SinkNumbers DEF SinkTypes
  <2>. QED  BY <1>1, <1>2, <2>1 DEF SinkHistories
<1>4. handler' \in Handlers /\ handler'.op = "none" /\ handler'.step = "none"
  BY <1>1 DEF Idle, Handlers
<1>5. SinkCommanded' /\ OutputInv' /\ OnlyWrites /\ sinkSeen'.writes <= MaxSinkWrites
  BY <1>1, <1>2, <1>3, <1>4, QueueEmptied DEF Commands, AnswersFit
<1>6. SinkTypes'
  BY <1>1, <1>3, <1>4, <1>5, NothingIn DEF SinkTypes, OnlyWrites
<1>7. SinkFits'
  BY <1>1, <1>5 DEF SinkFits, OnlyWrites, HasBuffer
<1>8. sinkSeen.last # "error"
  BY <1>1, <1>2 DEF SinkCommanded
<1>9. HandlerFits' /\ OutThread' /\ StatesAgree'
  BY <1>1, <1>2, <1>4, <1>8 DEF HandlerFits, OutThread, StatesAgree
<1>. QED  BY <1>5, <1>6, <1>7, <1>9

LEMMA OnStopKeeps ==
    ASSUME SinkInv, OutputInv, NEW op \in {"stop", "reset"}, OnStop(op)
    PROVE  SinkInv' /\ OutputInv'
<1> USE DEF SinkInv
<1>1. /\ Takes(op) /\ sinkMsgs' = Tail(sinkMsgs)
      /\ handler' = [op |-> op, step |-> IF sink.thread THEN "join" ELSE "joined"]
      /\ sink' = [sink EXCEPT !.paused = TRUE, !.continue = FALSE]
      /\ out' = Signalled(out) \/ out' = out
      /\ UNCHANGED <<sourceBufs, stream, sinkSeen, clock, now>>
  BY DEF OnStop, clockVars
<1>2. op \in SinkOps /\ op # "none"
  BY DEF SinkOps
<1>3. handler.op = "none" /\ sinkSeen.asked = op /\ sinkSeen.last # "error"
  BY <1>1, <1>2, SinkTakeIs
<1>4. /\ handler' \in Handlers /\ HandlerFits' /\ handler'.op = op /\ AnswersFit /\ SameHistory
      /\ handler'.step # "join" => ~sink.thread
  BY <1>1, <1>2, <1>3 DEF Handlers, HandlerFits, AnswersFit, SameHistory
<1>5. /\ out' \in Outs /\ out'.cur = out.cur /\ out'.room = out.room
      /\ HasBuffer' = HasBuffer /\ HasUnwritten' = HasUnwritten
      /\ out'.at = "drain" <=> out.at = "drain"
      /\ out.at = "over" <=> out'.at = "over"
      /\ out'.at \in {"took", "write"} <=> out.at \in {"took", "write"}
      /\ out'.at \in {"full", "fullWoken"} <=> out.at \in {"full", "fullWoken"}
  BY <1>1, SignalKeepsBuffer DEF SinkTypes
<1>6. SinkCommanded' /\ OutputInv' /\ OnlyWrites /\ sinkSeen'.writes <= MaxSinkWrites
  BY <1>1, <1>2, <1>4, <1>5, CommandMoves DEF Commands, SameBuffer
<1>7. /\ sink' \in Sinks /\ sink'.paused /\ sink'.state = sink.state /\ sink'.thread = sink.thread
      /\ sink'.draining = sink.draining
  BY <1>1 DEF SinkTypes, Sinks
<1>8. SinkTypes'
  BY <1>1, <1>4, <1>5, <1>6, <1>7 DEF SinkTypes, OnlyWrites
<1>9. SinkFits'
  BY <1>1, <1>5, <1>6 DEF SinkFits, OnlyWrites
<1>10. OutThread' /\ StatesAgree'
  BY <1>1, <1>3, <1>4, <1>5, <1>7 DEF OutThread, StatesAgree
<1>. QED  BY <1>4, <1>6, <1>8, <1>9, <1>10

LEMMA SinkJoinedKeeps ==
    ASSUME SinkInv, OutputInv, SinkJoined
    PROVE  SinkInv' /\ OutputInv'
<1> USE DEF SinkInv
<1>1. /\ handler.step = "join" /\ out.at = "over"
      /\ sink' = [sink EXCEPT !.thread = FALSE]
      /\ handler' = [handler EXCEPT !.step = "joined"]
      /\ UNCHANGED <<sinkMsgs, sourceBufs, out, stream, sinkSeen, clock, now>>
  BY DEF SinkJoined, Continues, clockVars
<1>2. handler \in Handlers /\ handler.op \in {"stop", "reset"} /\ handler.op # "none"
  BY <1>1 DEF SinkTypes, Handlers, HandlerFits, SinkOps
<1>3. handler' \in Handlers /\ handler'.op = handler.op /\ HandlerFits' /\ SameHistory /\ AnswersFit
  BY <1>1, <1>2 DEF Handlers, HandlerFits, SameHistory, AnswersFit, SinkCommanded
<1>4. SameBuffer
  BY <1>1 DEF SameBuffer, HasBuffer, HasUnwritten
<1>5. SinkCommanded' /\ OutputInv' /\ OnlyWrites /\ sinkSeen'.writes <= MaxSinkWrites
  BY <1>1, <1>2, <1>3, <1>4, CommandMoves DEF Commands
<1>6. /\ sink' \in Sinks /\ ~sink'.thread /\ sink'.state = sink.state /\ sink'.paused = sink.paused
      /\ sink'.draining = sink.draining
  BY <1>1 DEF SinkTypes, Sinks
<1>7. SinkTypes'
  BY <1>1, <1>3, <1>5, <1>6 DEF SinkTypes, OnlyWrites
<1>8. SinkFits'
  BY <1>1, <1>5 DEF SinkFits, OnlyWrites, HasBuffer
<1>9. OutThread' /\ StatesAgree'
  BY <1>1, <1>3, <1>6 DEF OutThread, StatesAgree
<1>. QED  BY <1>3, <1>5, <1>7, <1>8, <1>9

LEMMA StopEndsKeeps ==
    ASSUME SinkInv, OutputInv, StopEnds
    PROVE  SinkInv' /\ OutputInv'
<1> USE DEF SinkInv
<1> DEFINE off == [stream EXCEPT !.corked = @ \/ handler.step = "cork", !.callbacks = FALSE]
<1>1. /\ handler.op \in {"stop", "reset"} /\ handler.step # "join" /\ handler.op # "error" /\ handler.op # "none"
      /\ \/ /\ handler.op = "stop"
            /\ sink' = [sink EXCEPT !.state = IF @ = "idle" THEN @ ELSE "stopped"]
            /\ stream' = IF sink.state \in {"idle", "stopped"} THEN stream ELSE off
            /\ UNCHANGED sourceBufs
            /\ Answered(handler.op)
         \/ /\ handler.op = "reset"
            /\ sink' = [sink EXCEPT !.state = "idle"]
            /\ stream' = [off EXCEPT !.filled = 0]
            /\ sourceBufs' = <<>>
            /\ Answered(handler.op)
         \/ Answered("error") /\ UNCHANGED <<sink, stream, sourceBufs>>
      /\ UNCHANGED <<sinkMsgs, out, clock, now>>
  BY DEF StopEnds, OpFails, clockVars
<1>2. handler.op \in SinkOps /\ ~sink.thread /\ out.at = "over" /\ sink.paused
  BY <1>1 DEF SinkOps, OutThread, StatesAgree
<1>3. /\ handler' \in Handlers /\ handler'.op = "none" /\ handler'.step = "none"
      /\ sinkSeen' \in SinkHistories /\ sinkSeen'.asked = "none" /\ SameHistory
      /\ UNCHANGED sink => sinkSeen'.last = "error" \/ sink.state \in {"idle", "stopped"}
  <2>1. CASE Answered("error")
    BY <1>1, <2>1, SinkAnsweredIs
  <2>2. CASE Answered(handler.op) /\ sink' = [sink EXCEPT !.state = IF @ = "idle" THEN @ ELSE "stopped"]
    BY <1>1, <1>2, <2>2, SinkAnsweredIs DEF SinkTypes, Sinks
  <2>3. CASE Answered(handler.op) /\ sink' = [sink EXCEPT !.state = "idle"]
    BY <1>1, <1>2, <2>3, SinkAnsweredIs DEF SinkTypes, Sinks
  <2>. QED  BY <1>1, <2>1, <2>2, <2>3
<1>4. off \in Streams /\ [off EXCEPT !.filled = 0] \in Streams
  <2> DEFINE c == stream.corked \/ handler.step = "cork"
  <2>1. c \in BOOLEAN /\ off = [stream EXCEPT !.corked = c, !.callbacks = FALSE]
    OBVIOUS
  <2> HIDE DEF c, off
  <2>2. off \in Streams
    BY <2>1 DEF SinkTypes, Streams
  <2>. QED  BY <2>2, SinkAssumption DEF Streams
<1> HIDE DEF off
<1>5. /\ sink' \in Sinks /\ sink'.paused
      /\ sink'.state \in {"idle", "stopped"} \/ (sink' = sink /\ stream' = stream)
      /\ sink'.thread = sink.thread /\ sink'.draining = sink.draining
  <2>1. CASE sink' = sink /\ stream' = stream
    BY <1>2, <2>1 DEF SinkTypes
  <2>2. CASE sink' = [sink EXCEPT !.state = IF @ = "idle" THEN @ ELSE "stopped"]
    <3>1. /\ sink' \in Sinks /\ sink'.paused /\ sink'.state \in {"idle", "stopped"}
          /\ sink'.thread = sink.thread /\ sink'.draining = sink.draining
      BY <1>2, <2>2 DEF SinkTypes, Sinks
    <3>. QED  BY <3>1
  <2>3. CASE sink' = [sink EXCEPT !.state = "idle"]
    <3>1. /\ sink' \in Sinks /\ sink'.paused /\ sink'.state \in {"idle", "stopped"}
          /\ sink'.thread = sink.thread /\ sink'.draining = sink.draining
      BY <1>2, <2>3 DEF SinkTypes, Sinks
    <3>. QED  BY <3>1
  <2>. QED  BY <1>1, <2>1, <2>2, <2>3
<1>6. stream' \in Streams /\ sourceBufs' \in Seq(Buffers)
  BY <1>1, <1>4, NothingIn DEF SinkTypes
<1>7. ~HasBuffer /\ SameBuffer
  BY <1>1, <1>2 DEF HasBuffer, HasUnwritten, SameBuffer
<1>8. SinkCommanded' /\ OutputInv' /\ OnlyWrites /\ sinkSeen'.writes <= MaxSinkWrites
  <2>1. Commands /\ AnswersFit
    BY <1>1, <1>3 DEF Commands, AnswersFit
  <2>2. CASE sourceBufs' = <<>>
    BY <1>1, <1>3, <1>7, <2>1, <2>2, QueueEmptied DEF SameHistory
  <2>3. CASE UNCHANGED sourceBufs
    BY <1>3, <1>7, <2>1, <2>3, CommandMoves
  <2>. QED  BY <1>1, <2>2, <2>3
<1>9. SinkTypes'
  BY <1>1, <1>3, <1>5, <1>6, <1>8 DEF SinkTypes, OnlyWrites
<1>10. SinkFits'
  BY <1>1, <1>2, <1>8 DEF SinkFits, OnlyWrites, HasBuffer
<1>11. HandlerFits' /\ OutThread' /\ StatesAgree'
  BY <1>1, <1>2, <1>3, <1>5 DEF HandlerFits, OutThread, StatesAgree
<1>. QED  BY <1>8, <1>9, <1>10, <1>11

(* A step of the output thread or of the device: what it leaves alone.      *)
OutputMoves ==
    /\ UNCHANGED <<sinkMsgs, handler, now>>
    /\ sink' \in Sinks /\ sink'.paused = sink.paused /\ sink'.state = sink.state /\ sink'.thread = sink.thread
    /\ sourceBufs' \in Seq(Buffers)
    /\ stream' \in Streams /\ stream'.corked = stream.corked
    /\ clock' \in ClockStates /\ clock'.paused = clock.paused
    /\ sinkSeen' \in SinkHistories /\ sinkSeen'.asked = sinkSeen.asked /\ sinkSeen'.last = sinkSeen.last
    /\ sinkSeen'.writes = sinkSeen.writes

(* The output thread after such a step.                                    *)
OutputFits ==
    /\ out' \in Outs
    /\ sink'.draining <=> out'.at = "drain"
    /\ out.at = "over" => out'.at = "over"
    /\ (out.cur \in Buffers \/ (out.cur = NoBuffer /\ ~HasBuffer)) =>
          out'.cur \in Buffers \/ (out'.cur = NoBuffer /\ ~HasBuffer')
    /\ out'.at \in {"took", "write"} => out'.room + stream'.filled <= Room
    /\ out'.at \in {"full", "fullWoken"} => out'.room = 0

LEMMA OutputSteps ==
    ASSUME SinkInv, OutputMoves, OutputFits
    PROVE  SinkInv'
<1> USE DEF SinkInv, OutputMoves, OutputFits
<1>1. SinkTypes'
  BY DEF SinkTypes
<1>2. SinkFits'
  BY DEF SinkFits
<1>3. HandlerFits' /\ StatesAgree'
  BY DEF HandlerFits, StatesAgree
<1>4. OutThread'
  BY DEF OutThread
<1>5. SinkCommanded'
  <2>1. \A i \in 1 .. Len(sinkMsgs) : sinkMsgs[i].op # "write" => Legal(sinkMsgs[i].op)'
    BY DEF SinkCommanded, Legal
  <2>2. Len(sinkMsgs') = Len(sinkMsgs)
    OBVIOUS
  <2>3. /\ handler.op # "none" =>
           /\ sinkSeen.asked = handler.op
           /\ \A i \in 1 .. Len(sinkMsgs) : sinkMsgs[i].op = "write"
        /\ \A i \in 1 .. Len(sinkMsgs) :
             sinkMsgs[i].op # "write" =>
               /\ sinkSeen.asked = sinkMsgs[i].op
               /\ \A j \in 1 .. Len(sinkMsgs) : j # i => sinkMsgs[j].op = "write"
        /\ sinkSeen.last = "error" => sinkSeen.asked = "none"
    BY DEF SinkCommanded
  <2>. QED  BY <2>1, <2>2, <2>3 DEF SinkCommanded
<1>. QED  BY <1>1, <1>2, <1>3, <1>4, <1>5

(* The steps with which nothing is taken, written or removed.              *)
LEMMA OutputOnlyMoves ==
    ASSUME SinkInv, OutputInv, OutputMoves, OutputFits, SameBuffer, UNCHANGED <<sourceBufs, sinkSeen>>
    PROVE  SinkInv' /\ OutputInv'
<1> USE DEF SinkInv
<1>1. WritesMoveUp(0)
  BY SinkMessagesStay DEF OutputMoves
<1>2. SameHistory
  BY DEF SameHistory
<1>. QED  BY <1>1, <1>2, OutputSteps, OutputKept

LEMMA OutWaitsKeeps ==
    ASSUME SinkInv, OutputInv, OutWaits \/ OutTook \/ OutWaitsForRoom
    PROVE  SinkInv' /\ OutputInv'
<1> USE DEF SinkInv
<1>1. UNCHANGED <<sink, sinkMsgs, handler, sourceBufs, stream, sinkSeen, clock, now>>
  BY DEF OutWaits, OutTook, OutWaitsForRoom, clockVars
<1>2. out' \in Outs /\ out'.cur = out.cur /\ out'.room = out.room
  BY DEF OutWaits, OutTook, OutWaitsForRoom, SinkTypes, Outs, OutPlaces
<1>3. \/ out.at = "toWait" /\ out'.at = "asleep"
      \/ out.at = "took" /\ out'.at = "write"
      \/ out.at = "took" /\ out'.at \in {"eos", "pop"}
      \/ out.at = "write" /\ out.room = 0 /\ out'.at = "full"
  BY DEF OutWaits, OutTook, OutWaitsForRoom, SinkTypes, Outs, OutPlaces
<1>4. OutputMoves
  BY <1>1 DEF OutputMoves, SinkTypes
<1>5. OutputFits
  BY <1>1, <1>2, <1>3 DEF OutputFits, SinkFits, OutThread, HasBuffer
<1>6. /\ HasBuffer' = HasBuffer /\ (HasUnwritten' => HasUnwritten) /\ (HasUnwritten => HasBuffer)
      /\ HasUnwritten \in BOOLEAN /\ HasUnwritten' \in BOOLEAN
  BY <1>3 DEF HasBuffer, HasUnwritten
<1>7. CASE HasUnwritten' = HasUnwritten
  BY <1>1, <1>2, <1>4, <1>5, <1>6, <1>7, OutputOnlyMoves DEF SameBuffer
<1>8. CASE ~HasUnwritten' /\ HasUnwritten
  <2>1. QueuesInOrder'
    BY <1>1 DEF OutputInv, QueuesInOrder
  <2>2. AfterFlush'
    BY <1>1, <1>8 DEF OutputInv, AfterFlush
  <2>3. FrontIsCurrent'
    BY <1>1, <1>2, <1>6 DEF OutputInv, FrontIsCurrent
  <2>4. PlayedInOrder'
    BY <1>1, <1>2, <1>6, <1>8 DEF OutputInv, PlayedInOrder
  <2>. QED  BY <1>4, <1>5, <2>1, <2>2, <2>3, <2>4, OutputSteps DEF OutputInv
<1>. QED  BY <1>6, <1>7, <1>8

LEMMA OutHasRoomKeeps ==
    ASSUME SinkInv, OutputInv, OutHasRoom
    PROVE  SinkInv' /\ OutputInv'
<1> USE DEF SinkInv
<1>1. /\ out.at = "fullWoken"
      /\ UNCHANGED <<sink, sinkMsgs, handler, sourceBufs, stream, sinkSeen, clock, now>>
      /\ \/ out' = [out EXCEPT !.at = "top"]
         \/ out' = [out EXCEPT !.at = "write", !.room = IF sink.paused THEN @ ELSE Room - stream.filled]
  BY DEF OutHasRoom, clockVars
<1>2. /\ out.room = 0 /\ 0 \in 0 .. Room /\ Room - stream.filled \in 0 .. Room /\ stream.filled <= Room
      /\ Room - stream.filled + stream.filled = Room /\ 0 + stream.filled <= Room /\ out \in Outs
  BY <1>1, SinkAssumption DEF SinkTypes, SinkFits, Streams
<1>3. /\ out' \in Outs /\ out'.cur = out.cur
      /\ \/ out'.at = "top"
         \/ out'.at = "write" /\ out'.room \in {0, Room - stream.filled}
  BY <1>1, <1>2 DEF Outs, OutPlaces
<1>4. OutputMoves
  BY <1>1 DEF OutputMoves, SinkTypes
<1>5. OutputFits
  <2>1. out'.at = "write" => out'.room + stream'.filled <= Room
    BY <1>1, <1>2, <1>3, SinkAssumption
  <2>. QED  BY <1>1, <1>3, <2>1 DEF OutputFits, SinkFits, OutThread, HasBuffer
<1>6. CASE out'.at = "write"
  <2>1. SameBuffer
    BY <1>1, <1>3, <1>6 DEF SameBuffer, HasBuffer, HasUnwritten
  <2>. QED  BY <1>1, <1>4, <1>5, <2>1, OutputOnlyMoves
<1>7. CASE out'.at = "top"
  <2>1. ~HasBuffer' /\ ~HasUnwritten' /\ HasUnwritten
    BY <1>1, <1>7 DEF HasBuffer, HasUnwritten
  <2>2. QueuesInOrder' /\ AfterFlush'
    BY <1>1, <2>1 DEF OutputInv, QueuesInOrder, AfterFlush
  <2>3. FrontIsCurrent'
    BY <1>1, <2>1 DEF OutputInv, FrontIsCurrent
  <2>4. PlayedInOrder'
    BY <1>1, <2>1 DEF OutputInv, PlayedInOrder
  <2>. QED  BY <1>4, <1>5, <2>2, <2>3, <2>4, OutputSteps DEF OutputInv
<1>. QED  BY <1>3, <1>6, <1>7

LEMMA OutDrainsKeeps ==
    ASSUME SinkInv, OutputInv, OutDrains \/ OutDrained
    PROVE  SinkInv' /\ OutputInv'
<1> USE DEF SinkInv
<1>1. /\ UNCHANGED <<sinkMsgs, handler, sourceBufs, stream, sinkSeen, clock, now>>
      /\ \/ out.at = "eos" /\ sink' = [sink EXCEPT !.draining = TRUE] /\ out' = [out EXCEPT !.at = "drain"]
         \/ out.at = "drain" /\ sink' = [sink EXCEPT !.draining = FALSE] /\ out' = [out EXCEPT !.at = "pop"]
  BY DEF OutDrains, OutDrained, clockVars
<1>2. /\ out' \in Outs /\ out'.cur = out.cur
      /\ \/ out.at = "eos" /\ out'.at = "drain"
         \/ out.at = "drain" /\ out'.at = "pop"
  BY <1>1 DEF SinkTypes, Outs, OutPlaces
<1>3. /\ sink' \in Sinks /\ sink'.paused = sink.paused /\ sink'.state = sink.state /\ sink'.thread = sink.thread
      /\ sink'.draining <=> out'.at = "drain"
  BY <1>1, <1>2 DEF SinkTypes, Sinks
<1>4. OutputMoves
  BY <1>1, <1>3 DEF OutputMoves, SinkTypes
<1>5. OutputFits
  BY <1>2, <1>3 DEF OutputFits, HasBuffer
<1>6. SameBuffer
  BY <1>2 DEF SameBuffer, HasBuffer, HasUnwritten
<1>. QED  BY <1>1, <1>4, <1>5, <1>6, OutputOnlyMoves

LEMMA DevicePlaysKeeps ==
    ASSUME SinkInv, OutputInv, OutSpurious \/ DevicePlays
    PROVE  SinkInv' /\ OutputInv'
<1> USE DEF SinkInv
<1>1. /\ out' = Signalled(out) \/ out' = out
      /\ UNCHANGED <<sink, sinkMsgs, handler, sourceBufs, sinkSeen, clock, now>>
      /\ stream' = stream \/ (stream.filled > 0 /\ stream' = [stream EXCEPT !.filled = @ - 1])
  BY DEF OutSpurious, DevicePlays, clockVars
<1>2. stream' \in Streams /\ stream'.filled <= stream.filled /\ stream'.corked = stream.corked
  <2>1. CASE stream' = stream
    BY <2>1, SinkAssumption DEF SinkTypes, Streams
  <2>2. CASE stream.filled > 0 /\ stream' = [stream EXCEPT !.filled = @ - 1]
    <3>1. stream.filled - 1 \in 0 .. Room /\ stream \in Streams
      BY <2>2, SinkAssumption DEF SinkTypes, Streams
    <3>. QED  BY <2>2, <3>1, SinkAssumption DEF Streams
  <2>. QED  BY <1>1, <2>1, <2>2
<1>3. /\ out' \in Outs /\ out'.cur = out.cur /\ out'.room = out.room
      /\ HasBuffer' = HasBuffer /\ HasUnwritten' = HasUnwritten
      /\ out'.at = "drain" <=> out.at = "drain"
      /\ out.at = "over" <=> out'.at = "over"
      /\ out'.at \in {"took", "write"} <=> out.at \in {"took", "write"}
      /\ out'.at \in {"full", "fullWoken"} <=> out.at \in {"full", "fullWoken"}
  BY <1>1, SignalKeepsBuffer DEF SinkTypes
<1>4. OutputMoves
  BY <1>1, <1>2 DEF OutputMoves, SinkTypes
<1>5. OutputFits
  <2>1. out'.at \in {"took", "write"} => out'.room + stream'.filled <= Room
    BY <1>2, <1>3, SinkAssumption DEF SinkFits, SinkTypes, Outs, Streams
  <2>. QED  BY <1>1, <1>3, <2>1 DEF OutputFits, SinkFits, OutThread
<1>6. SameBuffer
  BY <1>3 DEF SameBuffer
<1>. QED  BY <1>1, <1>4, <1>5, <1>6, OutputOnlyMoves

LEMMA OutTopKeeps ==
    ASSUME SinkInv, OutputInv, OutTop
    PROVE  SinkInv' /\ OutputInv'
<1> USE DEF SinkInv
<1>1. /\ out.at = "top"
      /\ UNCHANGED <<sink, sinkMsgs, handler, sourceBufs, stream, sinkSeen, clock, now>>
      /\ \/ out' = [out EXCEPT !.at = "over"]
         \/ out' = [out EXCEPT !.at = "toWait", !.room = Room - stream.filled]
         \/ /\ sourceBufs # <<>>
            /\ out' = [at |-> "took", cur |-> Head(sourceBufs), left |-> Head(sourceBufs).size,
                       room |-> Room - stream.filled]
  BY DEF OutTop, clockVars
<1>2. /\ Room - stream.filled \in 0 .. Room /\ stream.filled <= Room
      /\ Room - stream.filled + stream.filled <= Room /\ out \in Outs
  BY SinkAssumption DEF SinkTypes, Streams
<1>3. OutputMoves
  BY <1>1 DEF OutputMoves, SinkTypes
<1>4. ~HasBuffer /\ ~HasUnwritten /\ ~sink.draining
  BY <1>1 DEF HasBuffer, HasUnwritten, OutThread
<1>5. CASE \/ out' = [out EXCEPT !.at = "over"]
           \/ out' = [out EXCEPT !.at = "toWait", !.room = Room - stream.filled]
  <2>1. out' \in Outs /\ out'.cur = out.cur /\ out'.at \in {"over", "toWait"}
    BY <1>2, <1>5 DEF Outs, OutPlaces
  <2>2. SameBuffer
    BY <1>4, <2>1 DEF SameBuffer, HasBuffer, HasUnwritten
  <2>3. OutputFits
    BY <1>1, <1>4, <2>1 DEF OutputFits, HasBuffer
  <2>. QED  BY <1>1, <1>3, <2>2, <2>3, OutputOnlyMoves
<1>6. CASE /\ sourceBufs # <<>>
           /\ out' = [at |-> "took", cur |-> Head(sourceBufs), left |-> Head(sourceBufs).size,
                      room |-> Room - stream.filled]
  <2> DEFINE b == sourceBufs[1]
  <2>1. /\ Len(sourceBufs) > 0 /\ 1 \in 1 .. Len(sourceBufs) /\ Head(sourceBufs) = b
        /\ b \in Buffers /\ b.size \in {0, Size} /\ b \in AnyBuffer
    BY <1>6, TailIs, EmptyIs, NoBufferIs DEF SinkTypes
  <2>2. b.size \in 0 .. Size
    BY <2>1, SinkAssumption
  <2> HIDE DEF b
  <2>3. out' = [at |-> "took", cur |-> b, left |-> b.size, room |-> Room - stream.filled]
    BY <1>6, <2>1
  <2>4. /\ out' \in Outs /\ out'.at = "took" /\ out'.cur = b /\ out'.room = Room - stream.filled
    BY <1>2, <2>1, <2>2, <2>3 DEF Outs, OutPlaces
  <2>5. OutputFits
    BY <1>1, <1>2, <1>4, <2>1, <2>4 DEF OutputFits
  <2>6. HasBuffer' /\ HasUnwritten'
    BY <2>4 DEF HasBuffer, HasUnwritten
  <2>7. QueuesInOrder'
    BY <1>1 DEF OutputInv, QueuesInOrder
  <2>8. AfterFlush'
    BY <1>1, <2>1, <2>4 DEF OutputInv, AfterFlush, b
  <2>9. FrontIsCurrent'
    BY <1>1, <2>1, <2>4 DEF OutputInv, FrontIsCurrent, QueuesInOrder, b
  <2>10. \A k \in 1 .. Len(sinkSeen.played) :
            /\ sinkSeen.played[k] < b.id /\ sinkSeen.played[k] <= b.id
            /\ \A i \in 1 .. Len(sourceBufs) : sinkSeen.played[k] < sourceBufs[i].id
    <3>1. \A k \in 1 .. Len(sinkSeen.played) : sinkSeen.played[k] < b.id /\ sinkSeen.played[k] \in Nat /\ b.id \in Nat
      BY <1>4, <2>1, SinkNumbers DEF OutputInv, PlayedInOrder, b
    <3>2. \A k \in 1 .. Len(sinkSeen.played) : \A i \in 1 .. Len(sourceBufs) : sinkSeen.played[k] < sourceBufs[i].id
      BY <1>4 DEF OutputInv, PlayedInOrder
    <3>. QED  BY <3>1, <3>2
  <2>11. PlayedInOrder'
    BY <1>1, <2>4, <2>10 DEF OutputInv, PlayedInOrder
  <2>. QED  BY <1>3, <2>5, <2>7, <2>8, <2>9, <2>11, OutputSteps DEF OutputInv
<1>. QED  BY <1>1, <1>5, <1>6

LEMMA OutWritesKeeps ==
    ASSUME SinkInv, OutputInv, OutWrites
    PROVE  SinkInv' /\ OutputInv'
<1> USE DEF SinkInv
<1> DEFINE n    == IF out.room < out.left THEN out.room ELSE out.left
           left == out.left - n
           p    == sinkSeen.played
<1>1. /\ out.at = "write" /\ out.room > 0
      /\ stream' = [stream EXCEPT !.filled = @ + n]
      /\ clock' = IF out.cur.eos THEN clock
                  ELSE Anchored(clock, out.cur.id, now + stream.filled, out.cur.id + n)
      /\ out' = [out EXCEPT !.left = left,
                            !.room = IF left > 0 THEN 0 ELSE @,
                            !.at = IF left > 0 THEN "write" ELSE IF out.cur.eos THEN "eos" ELSE "pop"]
      /\ sinkSeen' = IF left > 0 THEN sinkSeen
                     ELSE [sinkSeen EXCEPT
                             !.played = Append(@, out.cur.id),
                             !.stale = @ + (IF out.cur.id <= sinkSeen.flushedUpTo THEN 1 ELSE 0)]
      /\ UNCHANGED <<sink, sinkMsgs, handler, sourceBufs, now>>
  BY DEF OutWrites, clockVars
<1>2. /\ out.room \in Nat /\ out.left \in Nat /\ out.left <= Size /\ Room \in Nat /\ Size \in Nat
      /\ stream.filled \in Nat /\ out.room + stream.filled <= Room
      /\ out \in Outs /\ stream \in Streams /\ sinkSeen \in SinkHistories
      /\ out.cur.id \in Nat
  BY <1>1, SinkAssumption, SinkNumbers DEF SinkTypes, SinkFits, Outs, Streams
<1>3. /\ n \in Nat /\ n <= out.room /\ n <= out.left /\ left \in 0 .. Size
      /\ stream.filled + n \in 0 .. Room /\ stream.filled + n <= Room
  BY <1>2
<1> HIDE DEF n, left, p
<1>4. HasBuffer /\ HasUnwritten /\ ~sink.draining
  BY <1>1 DEF HasBuffer, HasUnwritten, OutThread
<1>5. stream' \in Streams /\ stream'.filled <= Room /\ stream'.corked = stream.corked
  BY <1>1, <1>2, <1>3 DEF Streams
<1>6. clock' \in ClockStates /\ clock'.paused = clock.paused
  <2>1. out.cur.id \in Int /\ now + stream.filled \in Int /\ out.cur.id + n \in Int
    <3>1. now \in Int
      BY DEF SinkTypes
    <3>. QED  BY <1>2, <1>3, <3>1
  <2>2. clock \in ClockStates
    BY DEF SinkTypes
  <2>. QED  BY <1>1, <2>1, <2>2, AnchoredIs
<1>7. CASE left > 0
  <2>1. 0 \in 0 .. Room
    BY <1>2
  <2>2. out' = [out EXCEPT !.left = left, !.room = 0, !.at = "write"] /\ sinkSeen' = sinkSeen
    BY <1>1, <1>7
  <2>3. out' \in Outs /\ out'.cur = out.cur /\ out'.at = "write" /\ out'.room = 0
    BY <1>2, <1>3, <2>1, <2>2 DEF Outs, OutPlaces
  <2>4. OutputMoves
    BY <1>1, <1>5, <1>6, <2>2 DEF OutputMoves, SinkTypes
  <2>5. OutputFits
    <3>1. out'.room + stream'.filled <= Room
      BY <1>2, <1>5, <2>3 DEF Streams
    <3>. QED  BY <1>1, <1>4, <2>3, <3>1 DEF OutputFits, HasBuffer
  <2>6. SameBuffer
    BY <1>1, <2>3 DEF SameBuffer, HasBuffer, HasUnwritten
  <2>. QED  BY <1>1, <2>2, <2>4, <2>5, <2>6, OutputOnlyMoves
<1>8. CASE ~(left > 0)
  <2> DEFINE c  == out.cur.id
             st == IF c <= sinkSeen.flushedUpTo THEN 1 ELSE 0
             at == IF out.cur.eos THEN "eos" ELSE "pop"
  <2>1. /\ out' = [out EXCEPT !.left = left, !.at = at]
        /\ sinkSeen' = [sinkSeen EXCEPT !.played = Append(p, c), !.stale = @ + st]
    BY <1>1, <1>8 DEF p
  <2>2. at \in {"eos", "pop"} /\ st \in {0, 1} /\ (st = 1 <=> c <= sinkSeen.flushedUpTo)
    OBVIOUS
  <2> HIDE DEF at, st
  <2>3. out' \in Outs /\ out'.cur = out.cur /\ out'.at \in {"eos", "pop"}
    BY <1>2, <1>3, <2>1, <2>2 DEF Outs, OutPlaces
  <2>4. /\ p \in Seq(Nat) /\ c \in Nat /\ Len(p) \in Nat
        /\ Append(p, c) \in Seq(Nat) /\ Len(Append(p, c)) = Len(p) + 1
        /\ \A i \in 1 .. Len(p) : Append(p, c)[i] = p[i]
        /\ Append(p, c)[Len(p) + 1] = c
        /\ sinkSeen.stale + st \in Nat
    <3>1. p \in Seq(Nat) /\ sinkSeen.stale \in Nat
      BY <1>2 DEF SinkHistories, p
    <3>. QED  BY <1>2, <2>2, <3>1, AppendIs, EmptyIs
  <2>5. /\ sinkSeen' \in SinkHistories /\ sinkSeen'.asked = sinkSeen.asked /\ sinkSeen'.last = sinkSeen.last
        /\ sinkSeen'.writes = sinkSeen.writes /\ sinkSeen'.flushes = sinkSeen.flushes
        /\ sinkSeen'.wrongPops = sinkSeen.wrongPops /\ sinkSeen'.flushedUpTo = sinkSeen.flushedUpTo
        /\ sinkSeen'.played = Append(p, c) /\ sinkSeen'.stale = sinkSeen.stale + st
    BY <1>2, <2>1, <2>4 DEF SinkHistories
  <2>6. OutputMoves
    BY <1>1, <1>5, <1>6, <2>5 DEF OutputMoves, SinkTypes
  <2>7. OutputFits
    BY <1>1, <1>4, <2>3 DEF OutputFits, HasBuffer
  <2>8. HasBuffer' /\ ~HasUnwritten'
    BY <2>3 DEF HasBuffer, HasUnwritten
  <2>9. QueuesInOrder'
    BY <1>1, <2>5 DEF OutputInv, QueuesInOrder
  <2>10. AfterFlush'
    <3>1. sinkSeen'.stale <= sinkSeen'.flushes
      BY <1>2, <1>4, <2>2, <2>5, SinkNumbers, SMTT(30) DEF OutputInv, AfterFlush
    <3>. QED  BY <1>1, <2>5, <2>8, <3>1 DEF OutputInv, AfterFlush
  <2>11. FrontIsCurrent'
    BY <1>1, <1>4, <2>3, <2>5 DEF OutputInv, FrontIsCurrent
  <2>12. PlayedInOrder'
    <3> DEFINE q == Append(p, c)
               Rest(x) ==
                 /\ x <= sinkSeen.writes
                 /\ \A j \in 1 .. Len(sinkMsgs) : sinkMsgs[j].op = "write" => x < sinkMsgs[j].buf.id
                 /\ \A i \in 1 .. Len(sourceBufs) :
                      x < sourceBufs[i].id \/ (i = 1 /\ sourceBufs[1] = out.cur /\ x = c)
                 /\ x <= c
    <3>1. \A k \in 1 .. Len(p) : Rest(p[k]) /\ p[k] < c
      <4>1. \A k \in 1 .. Len(p) :
              /\ p[k] <= sinkSeen.writes
              /\ \A j \in 1 .. Len(sinkMsgs) : sinkMsgs[j].op = "write" => p[k] < sinkMsgs[j].buf.id
              /\ \A i \in 1 .. Len(sourceBufs) : p[k] < sourceBufs[i].id
              /\ p[k] < c /\ p[k] <= c
        BY <1>4 DEF OutputInv, PlayedInOrder, p
      <4>. QED  BY <4>1
    <3>2. Rest(c)
      <4>1. /\ c <= sinkSeen.writes
            /\ \A j \in 1 .. Len(sinkMsgs) : sinkMsgs[j].op = "write" => c < sinkMsgs[j].buf.id
        BY <1>4 DEF OutputInv, FrontIsCurrent
      <4>2. \A i \in 1 .. Len(sourceBufs) : c < sourceBufs[i].id \/ (i = 1 /\ sourceBufs[1] = out.cur)
        <5>1. CASE \A i \in 1 .. Len(sourceBufs) : c < sourceBufs[i].id
          BY <5>1
        <5>2. CASE Len(sourceBufs) > 0 /\ sourceBufs[1] = out.cur
          <6>1. \A i \in 1 .. Len(sourceBufs) : i = 1 \/ (1 < i /\ 1 \in 1 .. Len(sourceBufs))
            BY SinkNumbers
          <6>2. \A i \in 1 .. Len(sourceBufs) : 1 < i /\ 1 \in 1 .. Len(sourceBufs) => sourceBufs[1].id < sourceBufs[i].id
            BY DEF OutputInv, QueuesInOrder
          <6>. QED  BY <5>2, <6>1, <6>2
        <5>. QED  BY <1>4, <5>1, <5>2 DEF OutputInv, FrontIsCurrent
      <4>3. c <= c
        BY <2>4
      <4>. QED  BY <4>1, <4>2, <4>3
    <3>3. \A k \in 1 .. Len(p) + 1 : \/ k \in 1 .. Len(p) /\ q[k] = p[k]
                                     \/ k = Len(p) + 1 /\ q[k] = c
      BY <2>4
    <3>4. \A i, j \in 1 .. Len(p) + 1 : i < j => q[i] < q[j]
      <4> SUFFICES ASSUME NEW i \in 1 .. Len(p) + 1, NEW j \in 1 .. Len(p) + 1, i < j PROVE q[i] < q[j]
        OBVIOUS
      <4> HIDE DEF q
      <4>1. i \in 1 .. Len(p) /\ q[i] = p[i]
        BY <2>4, <3>3
      <4>2. CASE j \in 1 .. Len(p) /\ q[j] = p[j]
        BY <4>1, <4>2 DEF OutputInv, PlayedInOrder, p
      <4>3. CASE q[j] = c
        BY <3>1, <4>1, <4>3
      <4>. QED  BY <3>3, <4>2, <4>3
    <3> HIDE DEF q
    <3>5. \A k \in 1 .. Len(p) + 1 : Rest(q[k])
      <4> HIDE DEF Rest
      <4>. QED  BY <3>1, <3>2, <3>3
    <3>6. sinkSeen'.played = q /\ Len(q) = Len(p) + 1
      BY <2>4, <2>5 DEF q
    <3> HIDE DEF p
    <3>. QED  BY <1>1, <2>3, <2>5, <2>8, <3>4, <3>5, <3>6 DEF PlayedInOrder
  <2>. QED  BY <2>6, <2>7, <2>9, <2>10, <2>11, <2>12, OutputSteps DEF OutputInv
<1>. QED  BY <1>7, <1>8

LEMMA OutPopsKeeps ==
    ASSUME SinkInv, OutputInv, OutPops
    PROVE  SinkInv' /\ OutputInv'
<1> USE DEF SinkInv
<1> DEFINE wrong == IF sourceBufs # <<>> /\ Head(sourceBufs) # out.cur THEN 1 ELSE 0
           empty == sourceBufs = <<>>
           m     == Len(sourceBufs)
<1>1. /\ out.at = "pop"
      /\ sourceBufs' = IF empty THEN <<>> ELSE Tail(sourceBufs)
      /\ out' = [out EXCEPT !.at = "top", !.cur = NoBuffer]
      /\ sinkSeen' = [sinkSeen EXCEPT !.wrongPops = @ + wrong, !.poppedEmpty = empty]
      /\ UNCHANGED <<sink, sinkMsgs, handler, stream, clock, now>>
  BY DEF OutPops, clockVars
<1>2. empty \in BOOLEAN /\ wrong \in {0, 1} /\ (wrong = 1 => sourceBufs # <<>> /\ Head(sourceBufs) # out.cur)
  OBVIOUS
<1> HIDE DEF wrong
<1>3. /\ out' \in Outs /\ out'.at = "top" /\ out'.cur = NoBuffer
      /\ HasBuffer /\ ~HasBuffer' /\ ~HasUnwritten' /\ ~sink.draining
  BY <1>1, NoBufferIs DEF SinkTypes, Outs, OutPlaces, HasBuffer, HasUnwritten, OutThread
<1>4. /\ sourceBufs' \in Seq(Buffers) /\ Len(sourceBufs') \in Nat /\ m \in Nat
      /\ \A i \in 1 .. Len(sourceBufs') : i + 1 \in 1 .. m /\ i + 1 # 1 /\ sourceBufs'[i] = sourceBufs[i + 1]
  <2>1. CASE empty
    <3>1. Len(sourceBufs') = 0 /\ sourceBufs' \in Seq(Buffers)
      BY <1>1, <2>1, NothingIn
    <3>. QED  BY <3>1, SinkNumbers
  <2>2. CASE ~empty
    <3>1. /\ sourceBufs' \in Seq(Buffers) /\ Len(sourceBufs') = m - 1 /\ m > 0 /\ m \in Nat
          /\ \A i \in 1 .. m - 1 : sourceBufs'[i] = sourceBufs[i + 1]
      BY <1>1, <2>2, TailIs, EmptyIs DEF SinkTypes
    <3>. QED  BY <3>1
  <2>. QED  BY <2>1, <2>2
<1> HIDE DEF empty
<1>5. /\ sinkSeen' \in SinkHistories /\ sinkSeen'.asked = sinkSeen.asked /\ sinkSeen'.last = sinkSeen.last
      /\ sinkSeen'.writes = sinkSeen.writes /\ sinkSeen'.played = sinkSeen.played
      /\ sinkSeen'.flushes = sinkSeen.flushes /\ sinkSeen'.stale = sinkSeen.stale
      /\ sinkSeen'.flushedUpTo = sinkSeen.flushedUpTo
      /\ sinkSeen'.wrongPops = sinkSeen.wrongPops + wrong
  <2>1. sinkSeen.wrongPops + wrong \in Nat /\ sinkSeen \in SinkHistories
    BY <1>2, SinkNumbers DEF SinkTypes
  <2>. QED  BY <1>1, <1>2, <2>1 DEF SinkHistories
<1>6. OutputMoves
  BY <1>1, <1>4, <1>5 DEF OutputMoves, SinkTypes
<1>7. OutputFits
  BY <1>1, <1>3 DEF OutputFits
<1>8. QueuesInOrder'
  <2>1. \A i, j \in 1 .. Len(sourceBufs') : i < j => sourceBufs'[i].id < sourceBufs'[j].id
    <3> SUFFICES ASSUME NEW i \in 1 .. Len(sourceBufs'), NEW j \in 1 .. Len(sourceBufs'), i < j
                 PROVE  sourceBufs'[i].id < sourceBufs'[j].id
      OBVIOUS
    <3>1. /\ i + 1 \in 1 .. m /\ sourceBufs'[i] = sourceBufs[i + 1]
          /\ j + 1 \in 1 .. m /\ sourceBufs'[j] = sourceBufs[j + 1]
          /\ i + 1 < j + 1
      BY <1>4
    <3>. QED  BY <3>1 DEF OutputInv, QueuesInOrder
  <2>2. \A i \in 1 .. Len(sourceBufs'), j \in 1 .. Len(sinkMsgs) :
          sinkMsgs[j].op = "write" => sourceBufs'[i].id < sinkMsgs[j].buf.id
    BY <1>4 DEF OutputInv, QueuesInOrder
  <2>3. \A i \in 1 .. Len(sourceBufs') : sourceBufs'[i].id <= sinkSeen.writes
    BY <1>4 DEF OutputInv, QueuesInOrder
  <2>. QED  BY <1>1, <1>5, <2>1, <2>2, <2>3 DEF OutputInv, QueuesInOrder
<1>9. AfterFlush'
  <2>1. \A i \in 1 .. Len(sourceBufs') : sourceBufs'[i].id > sinkSeen.flushedUpTo
    BY <1>4 DEF OutputInv, AfterFlush
  <2>. QED  BY <1>1, <1>3, <1>5, <2>1 DEF OutputInv, AfterFlush
<1>10. FrontIsCurrent'
  <2>1. sinkSeen.wrongPops + wrong <= sinkSeen.flushes
    <3>1. CASE wrong = 0
      BY <3>1, SinkNumbers DEF OutputInv, FrontIsCurrent
    <3>2. CASE wrong = 1
      <4>1. sourceBufs[1] # out.cur
        BY <1>2, <3>2, TailIs DEF SinkTypes
      <4>. QED  BY <1>3, <3>2, <4>1 DEF OutputInv, FrontIsCurrent
    <3>. QED  BY <1>2, <3>1, <3>2
  <2>. QED  BY <1>3, <1>5, <2>1 DEF FrontIsCurrent
<1>11. PlayedInOrder'
  <2>1. \A k \in 1 .. Len(sinkSeen.played) :
          \A i \in 1 .. Len(sourceBufs') : sinkSeen.played[k] < sourceBufs'[i].id
    BY <1>4 DEF OutputInv, PlayedInOrder
  <2>. QED  BY <1>1, <1>3, <1>5, <2>1 DEF OutputInv, PlayedInOrder
<1>. QED  BY <1>6, <1>7, <1>8, <1>9, <1>10, <1>11, OutputSteps DEF OutputInv

LEMMA SinkStep ==
    SinkInv /\ OutputInv /\ [SinkNext]_sinkVars => SinkInv' /\ OutputInv'
<1> SUFFICES ASSUME SinkInv, OutputInv, [SinkNext]_sinkVars
             PROVE  SinkInv' /\ OutputInv'
  OBVIOUS
<1>1. CASE UNCHANGED sinkVars
  <2>1. OutputMoves /\ OutputFits /\ SameBuffer /\ UNCHANGED <<sourceBufs, sinkSeen>>
    BY <1>1 DEF sinkVars, OutputMoves, OutputFits, SameBuffer, HasBuffer, HasUnwritten, SinkInv, SinkTypes, SinkFits, OutThread
  <2>. QED  BY <2>1, OutputOnlyMoves
<1>2. ASSUME NEW op \in SinkOps, SinkCommand(op) PROVE SinkInv' /\ OutputInv'
  BY <1>2, SinkCommandKeeps
<1>3. ASSUME NEW size \in {0, Size}, NEW eos \in BOOLEAN, SinkWrite(size, eos) PROVE SinkInv' /\ OutputInv'
  BY <1>3, SinkWriteKeeps
<1>4. CASE MessageThread
  <2>1. ASSUME NEW op \in SinkOps, OnStart(op) \/ OnFlush(op) \/ OnStop(op) PROVE SinkInv' /\ OutputInv'
    <3>1. CASE OnStart(op)
      <4>1. op \in {"start", "resume"}
        BY <3>1 DEF OnStart
      <4>. QED  BY <3>1, <4>1, OnStartKeeps
    <3>2. CASE OnFlush(op)
      <4>1. op \in {"flush", "seek"}
        BY <3>2 DEF OnFlush
      <4>. QED  BY <3>2, <4>1, OnFlushKeeps
    <3>3. CASE OnStop(op)
      <4>1. op \in {"stop", "reset"}
        BY <3>3 DEF OnStop
      <4>. QED  BY <3>3, <4>1, OnStopKeeps
    <3>. QED  BY <2>1, <3>1, <3>2, <3>3
  <2>. QED  BY <1>4, <2>1, OnWriteKeeps, OnPrepareKeeps, UncorkedKeeps, OnPauseKeeps, CorkedKeeps, FlushedKeeps,
               ClearedKeeps, SinkJoinedKeeps, StopFlushedKeeps, StopEndsKeeps DEF MessageThread
<1>5. CASE OutputThread
  BY <1>5, OutTopKeeps, OutWaitsKeeps, OutWritesKeeps, OutHasRoomKeeps, OutDrainsKeeps, OutPopsKeeps DEF OutputThread
<1>6. CASE OutSpurious \/ DevicePlays
  BY <1>6, DevicePlaysKeeps
<1>. QED  BY <1>1, <1>2, <1>3, <1>4, <1>5, <1>6 DEF SinkNext

LEMMA SinkStarts == SinkInit => SinkInv /\ OutputInv
<1> SUFFICES ASSUME SinkInit PROVE SinkInv /\ OutputInv
  OBVIOUS
<1> USE DEF SinkInit
<1>1. /\ sinkMsgs \in Seq(SinkMessages) /\ Len(sinkMsgs) = 0
      /\ sourceBufs \in Seq(Buffers) /\ Len(sourceBufs) = 0
      /\ sinkSeen.played \in Seq(Nat) /\ Len(sinkSeen.played) = 0
  BY NothingIn
<1>2. sink \in Sinks /\ handler \in Handlers /\ clock \in ClockStates /\ now \in Int
  BY NewClockIs DEF Sinks, Handlers, Idle
<1>3. out \in Outs
  BY NoBufferIs, SinkAssumption DEF Outs, OutPlaces
<1>4. stream \in Streams
  BY SinkAssumption DEF Streams
<1>5. sinkSeen \in SinkHistories
  BY <1>1 DEF SinkHistories
<1>6. SinkTypes
  BY <1>1, <1>2, <1>3, <1>4, <1>5 DEF SinkTypes
<1>7. ~HasBuffer /\ ~HasUnwritten
  BY DEF HasBuffer, HasUnwritten
<1>8. SinkFits
  BY <1>1, <1>7, SinkAssumption DEF SinkFits
<1>9. HandlerFits /\ OutThread /\ StatesAgree
  BY DEF Idle, HandlerFits, OutThread, StatesAgree
<1>10. SinkCommanded
  BY <1>1 DEF Idle, SinkCommanded
<1>11. OutputInv
  BY <1>1, <1>7 DEF OutputInv, QueuesInOrder, AfterFlush, FrontIsCurrent, PlayedInOrder
<1>. QED  BY <1>6, <1>8, <1>9, <1>10, <1>11 DEF SinkInv

(* The types of the audio sink, of its two threads and of the clock.       *)
THEOREM SinkStateTypes == SinkSpec => []SinkTypeOK
<1>1. SinkInv /\ OutputInv /\ [SinkNext]_sinkVars => (SinkInv /\ OutputInv)'
  BY SinkStep
<1>2. SinkInv /\ OutputInv => SinkTypeOK
  BY SinkInvGives
<1>. QED  BY <1>1, <1>2, SinkStarts, PTL DEF SinkSpec

(* Between commands the sink's state, PulseAudio's cork and the clock agree, *)
(* and a sink that is idle or stopped has no output thread.                *)
THEOREM SinkStatesAgree == SinkSpec => []SinkClockStreamAgree
<1>1. SinkInv /\ OutputInv /\ [SinkNext]_sinkVars => (SinkInv /\ OutputInv)'
  BY SinkStep
<1>2. SinkInv /\ OutputInv => SinkClockStreamAgree
  BY SinkInvGives
<1>. QED  BY <1>1, <1>2, SinkStarts, PTL DEF SinkSpec

(* What PulseAudio is given is what was written, in its order and without a *)
(* repetition, and a flush costs one stale buffer and one wrong pop at most. *)
THEOREM SinkOutputIntact == SinkSpec => []OutputIntact
<1>1. SinkInv /\ OutputInv /\ [SinkNext]_sinkVars => (SinkInv /\ OutputInv)'
  BY SinkStep
<1>2. SinkInv /\ OutputInv => OutputIntact
  BY OutputInvGives DEF SinkInv
<1>. QED  BY <1>1, <1>2, SinkStarts, PTL DEF SinkSpec

-----------------------------------------------------------------------------
(* The video sink.                                                         *)

Entries == Frames \cup Nulls

VideoMessages ==
    [op : VideoOps \cup {"write", "render"}, arg : Nat \cup Entries, due : Nat]

Rates == VideoRates \cup {NormalRate}

Videos ==
    [paused : BOOLEAN, gen : Nat, mode : {"normal", "preview", "previewDone"},
     count : Nat, eosSent : BOOLEAN, last : Times, rate : Rates, clockRate : Rates, owner : BOOLEAN]

VideoHistories ==
    [asked : VideoOps \cup {"none"}, commands : Nat, frames : Nat, ended : BOOLEAN, half : BOOLEAN,
     old : BOOLEAN, cut : BOOLEAN, stopped : BOOLEAN]

VideoTypes ==
    /\ video \in Videos
    /\ videoQueue \in Seq(Entries)
    /\ videoMsgs \in Seq(VideoMessages)
    /\ videoStep \in {"none", "schedule", "anchor", "post"}
    /\ videoSeen \in VideoHistories
    /\ clock \in ClockStates
    /\ now \in 0 .. MaxNow

(* The queue of messages: in the order of their times; only render messages *)
(* are posted with a delay.                                                *)
InTime(q) ==
    /\ \A i, j \in 1 .. Len(q) : i < j => q[i].due <= q[j].due
    /\ \A i \in 1 .. Len(q) : q[i].op # "render" => q[i].due <= now
    /\ \A i \in 1 .. Len(q) : q[i].op = "write" => q[i].arg \in Entries

(* A frame that waits for its render message to be posted: it is there.    *)
FrameThere ==
    /\ videoStep \in {"anchor", "post"} =>
         ~video.paused /\ Len(videoQueue) > 0 /\ videoQueue[1] \in Frames

(* The end of the stream: a NULL entry that is not late, in the queue of    *)
(* frames (place 0) or among the messages, with nothing written after it    *)
(* but behind a flush or a stop.  Late ones may be anywhere.               *)
Ends(e) == e = NullEntry(FALSE)

Clears(m) == m.op \in {"flush", "stop"}

NullIn(frames) == \E i \in 1 .. Len(frames) : Ends(frames[i])

NullAt(q, inQueue, i) == IF i = 0 THEN inQueue ELSE q[i].op = "write" /\ Ends(q[i].arg)

NothingAfterNull(q, inQueue) ==
    \A i \in 0 .. Len(q), j \in 1 .. Len(q) :
        NullAt(q, inQueue, i) /\ i < j /\ q[j].op = "write" =>
            \E m \in 1 .. Len(q) : i < m /\ m < j /\ Clears(q[m])

(* The decoder writes on only when a flush or a stop is on its way: unless  *)
(* it has closed the stream, with the second message and for good.         *)
Closed == videoSeen.ended /\ ~videoSeen.half /\ ~videoSeen.old

EndCleared(q, inQueue, closed) ==
    \A i \in 0 .. Len(q) :
        NullAt(q, inQueue, i) /\ ~closed => \E m \in 1 .. Len(q) : i < m /\ Clears(q[m])

NullIsLast(frames) == \A i \in 1 .. Len(frames) : Ends(frames[i]) => i = Len(frames)

EndsOnce ==
    /\ NullIsLast(videoQueue)
    /\ NothingAfterNull(videoMsgs, NullIn(videoQueue))
    /\ EndCleared(videoMsgs, NullIn(videoQueue), Closed)
    /\ videoSeen.half => videoSeen.ended

(* What a step leaves of that which the decoder has written.               *)
EndsSame ==
    videoSeen'.ended = videoSeen.ended /\ videoSeen'.half = videoSeen.half /\ videoSeen'.old = videoSeen.old

(* The chain of render messages, with the messages counted from 1.         *)
LiveIn(q, gen) == \E i \in 1 .. Len(q) : q[i].op = "render" /\ q[i].arg = gen

ChainThere ==
    ~videoSeen.cut /\ videoStep = "none" /\ ~video.paused /\ Len(videoQueue) > 0 /\ video.mode # "previewDone" =>
        LiveIn(videoMsgs, video.gen)

(* Where a paused clock stands: at its anchor's position when the pause     *)
(* began, unless a flush has forgotten that, and the anchor with it.        *)
Running(c) == [c EXCEPT !.paused = FALSE]

Stands(c) ==
    c.paused =>
        IF c.pausedAt = Unset THEN c.pausePos = Unset /\ ~HasAnchor(c)
        ELSE c.pausePos = IF HasAnchor(c) THEN FromAnchor(Running(c), c.pausedAt) ELSE Unset

(* A video sink with its own clock has it paused only while it is paused.   *)
OwnClock == video.owner /\ clock.paused => video.paused

VideoInv == VideoTypes /\ InTime(videoMsgs) /\ FrameThere /\ EndsOnce /\ ChainThere /\ Stands(clock) /\ OwnClock

(* A NULL is late or ends the stream; a frame does not.                    *)
LEMMA EntryIs ==
    ASSUME NEW e \in Entries
    PROVE  /\ e.null \in BOOLEAN
           /\ e \in Frames => ~e.null /\ ~Ends(e)
           /\ e \notin Frames => e.null /\ (e.late \/ Ends(e))
<1>1. \A y \in Frames : y.null = FALSE
  BY DEF Frames
<1>2. NullEntry(FALSE).null /\ NullEntry(TRUE).null /\ NullEntry(TRUE).late
  BY DEF NullEntry
<1>3. \A y \in Nulls : y = NullEntry(FALSE) \/ y = NullEntry(TRUE)
  BY DEF Nulls
<1>. QED  BY <1>1, <1>2, <1>3 DEF Entries, Ends

(* What InsertAt returns.                                                  *)
LEMMA InsertAtIs ==
    ASSUME NEW S, NEW q \in Seq(S), NEW p \in 1 .. Len(q) + 1, NEW m \in S
    PROVE  /\ InsertAt(q, p, m) \in Seq(S)
           /\ Len(InsertAt(q, p, m)) = Len(q) + 1
           /\ \A i \in 1 .. Len(q) + 1 :
                InsertAt(q, p, m)[i] = IF i < p THEN q[i] ELSE IF i = p THEN m ELSE q[i - 1]
<1> DEFINE a == SubSeq(q, 1, p - 1)
           b == SubSeq(q, p, Len(q))
           c == a \o <<m>>
<1>1. /\ a \in Seq(S) /\ Len(a) = p - 1
      /\ \A i \in 1 .. p - 1 : a[i] = q[i]
  OBVIOUS
<1>2. /\ b \in Seq(S) /\ Len(b) = Len(q) - (p - 1)
      /\ \A i \in 1 .. Len(q) - (p - 1) : b[i] = q[p - 1 + i]
  OBVIOUS
<1>3. /\ c \in Seq(S) /\ Len(c) = p
      /\ \A i \in 1 .. p - 1 : c[i] = a[i]
      /\ c[p] = m
  BY <1>1
<1>4. InsertAt(q, p, m) = c \o b
  BY DEF InsertAt
<1> HIDE DEF a, b, c
<1>5. /\ c \o b \in Seq(S) /\ Len(c \o b) = Len(q) + 1
      /\ \A i \in 1 .. Len(q) + 1 :
           (c \o b)[i] = IF i <= p THEN c[i] ELSE b[i - p]
  <2>1. /\ c \o b \in Seq(S)
        /\ Len(c \o b) = Len(c) + Len(b)
        /\ \A i \in 1 .. Len(c) + Len(b) :
             (c \o b)[i] = IF i <= Len(c) THEN c[i] ELSE b[i - Len(c)]
    BY <1>2, <1>3, ConcatProperties, Zenon
  <2>2. Len(c) + Len(b) = Len(q) + 1
    BY <1>2, <1>3
  <2>. QED  BY <2>1, <2>2, <1>3
<1>6. ASSUME NEW i \in 1 .. Len(q) + 1
      PROVE  (c \o b)[i] = IF i < p THEN q[i] ELSE IF i = p THEN m ELSE q[i - 1]
  <2>1. CASE i < p
    BY <2>1, <1>1, <1>3, <1>5
  <2>2. CASE i = p
    BY <2>2, <1>3, <1>5
  <2>3. CASE i > p
    <3>1. i - p \in 1 .. Len(q) - (p - 1) /\ p - 1 + (i - p) = i - 1
      BY <2>3, SMT
    <3>2. b[i - p] = q[p - 1 + (i - p)]
      BY <3>1, <1>2, Zenon
    <3>. QED  BY <2>3, <3>1, <3>2, <1>5
  <2>4. i < p \/ i = p \/ i > p
    OBVIOUS
  <2>. QED  BY <2>1, <2>2, <2>3, <2>4, Zenon
<1>. QED  BY <1>4, <1>5, <1>6

LEMMA LeastIs ==
    ASSUME NEW T, T \subseteq Nat, T # {}
    PROVE  \E x \in T : \A y \in T : x <= y
<1> DEFINE R == OpToRel(<, Nat)
<1>1. IsWellFoundedOn(R, Nat)
  BY NatLessThanWellFounded
<1>2. \A x, y \in Nat : y < x => <<y, x>> \in R
  BY DEF OpToRel
<1> HIDE DEF R
<1>3. \E x \in T : \A y \in T : ~(<<y, x>> \in R)
  BY <1>1, WFMin
<1>4. PICK x \in T : \A y \in T : ~(<<y, x>> \in R)
  BY <1>3
<1>5. ASSUME NEW y \in T PROVE x <= y
  <2>1. x \in Nat /\ y \in Nat
    OBVIOUS
  <2>2. ~(<<y, x>> \in R)
    BY <1>4
  <2>3. ~(y < x)
    BY <1>2, <2>1, <2>2
  <2>. QED  BY <2>1, <2>3
<1>. QED  BY <1>5

(* n is q with m inserted at p.                                            *)
Inserted(q, n, p, m) ==
    /\ p \in 1 .. Len(q) + 1 /\ Len(n) = Len(q) + 1 /\ n[p] = m
    /\ \A i \in 1 .. Len(q) : IF i < p THEN n[i] = q[i] ELSE n[i + 1] = q[i]
    /\ \A j \in 1 .. Len(q) + 1 : (j < p => n[j] = q[j]) /\ (j > p => n[j] = q[j - 1])

(* postMsg: behind what is due no later, before what is due later.          *)
LEMMA PostedIs ==
    ASSUME NEW q \in Seq(VideoMessages), NEW m \in VideoMessages,
           \A i, j \in 1 .. Len(q) : i < j => q[i].due <= q[j].due
    PROVE  /\ Posted(q, m) \in Seq(VideoMessages)
           /\ \E p \in 1 .. Len(q) + 1 :
                /\ Inserted(q, Posted(q, m), p, m)
                /\ \A i \in 1 .. Len(q) : IF i < p THEN q[i].due <= m.due ELSE q[i].due > m.due
<1> DEFINE S == {i \in DOMAIN q : q[i].due <= m.due}
           T == {i \in 1 .. Len(q) + 1 : i = Len(q) + 1 \/ q[i].due > m.due}
<1>1. /\ Len(q) \in Nat /\ DOMAIN q = 1 .. Len(q) /\ m.due \in Nat
      /\ \A i \in 1 .. Len(q) : q[i].due \in Nat
  <2>1. \A i \in 1 .. Len(q) : q[i] \in VideoMessages
    BY EmptyIs
  <2>. QED  BY <2>1, EmptyIs DEF VideoMessages
<1>2. T \subseteq Nat /\ T # {}
  <2>1. Len(q) + 1 \in T
    BY <1>1
  <2>. QED  BY <1>1, <2>1
<1>3. PICK p \in T : \A y \in T : p <= y
  BY <1>2, LeastIs
<1>4. p \in 1 .. Len(q) + 1 /\ (p = Len(q) + 1 \/ q[p].due > m.due)
  BY <1>3
<1>5. \A i \in 1 .. Len(q) : IF i < p THEN q[i].due <= m.due ELSE q[i].due > m.due
  <2> SUFFICES ASSUME NEW i \in 1 .. Len(q) PROVE IF i < p THEN q[i].due <= m.due ELSE q[i].due > m.due
    OBVIOUS
  <2>1. i \in 1 .. Len(q) + 1
    BY <1>1
  <2>2. CASE i < p
    <3>1. i \notin T
      BY <1>1, <1>3, <1>4, <2>2
    <3>. QED  BY <1>1, <2>1, <2>2, <3>1
  <2>3. CASE ~(i < p)
    <3>1. p \in 1 .. Len(q) /\ q[p].due > m.due /\ (p = i \/ p < i)
      BY <1>1, <1>4, <2>3
    <3>2. q[p].due <= q[i].due
      BY <1>1, <3>1
    <3>. QED  BY <1>1, <2>3, <3>1, <3>2
  <2>. QED  BY <2>2, <2>3
<1>6. S = 1 .. p - 1
  <2>1. \A i \in 1 .. Len(q) : q[i].due <= m.due <=> i < p
    BY <1>1, <1>5
  <2>2. \A i : i \in S <=> i \in 1 .. Len(q) /\ q[i].due <= m.due
    BY <1>1
  <2>3. \A i : i \in 1 .. p - 1 <=> i \in 1 .. Len(q) /\ i < p
    BY <1>1, <1>4
  <2> HIDE DEF S
  <2>. QED  BY <2>1, <2>2, <2>3
<1>7. Cardinality(S) + 1 = p
  <2>1. p \in Nat /\ p >= 1 /\ 1 \in Int /\ p - 1 \in Int
    BY <1>1, <1>4
  <2>2. Cardinality(1 .. p - 1) = IF 1 > p - 1 THEN 0 ELSE (p - 1) - 1 + 1
    BY <2>1, FS_Interval
  <2> HIDE DEF S
  <2>. QED  BY <1>6, <2>1, <2>2
<1>8. Posted(q, m) = InsertAt(q, p, m)
  BY <1>7 DEF Posted
<1> HIDE DEF S, T
<1>9. /\ InsertAt(q, p, m) \in Seq(VideoMessages)
      /\ Len(InsertAt(q, p, m)) = Len(q) + 1
      /\ \A i \in 1 .. Len(q) + 1 : InsertAt(q, p, m)[i] = IF i < p THEN q[i] ELSE IF i = p THEN m ELSE q[i - 1]
  BY <1>4, InsertAtIs
<1>10. Inserted(q, Posted(q, m), p, m)
  <2> DEFINE n == Posted(q, m)
  <2>1. Len(n) = Len(q) + 1 /\ \A i \in 1 .. Len(q) + 1 : n[i] = IF i < p THEN q[i] ELSE IF i = p THEN m ELSE q[i - 1]
    BY <1>8, <1>9
  <2> HIDE DEF n
  <2>2. \A i \in 1 .. Len(q) : IF i < p THEN n[i] = q[i] ELSE n[i + 1] = q[i]
    BY <1>1, <1>4, <2>1
  <2>3. \A j \in 1 .. Len(q) + 1 : (j < p => n[j] = q[j]) /\ (j > p => n[j] = q[j - 1])
    BY <1>1, <1>4, <2>1
  <2>. QED  BY <1>4, <2>1, <2>2, <2>3 DEF Inserted, n
<1>. QED  BY <1>4, <1>5, <1>8, <1>9, <1>10

(* What is posted goes behind everything but render messages.              *)
LEMMA PostKeeps ==
    ASSUME NEW q \in Seq(VideoMessages), InTime(q), NEW m \in VideoMessages, now \in Nat, m.due >= now,
           m.op # "render" => m.due = now, m.op = "write" => m.arg \in Entries
    PROVE  LET n == Posted(q, m)
           IN /\ n \in Seq(VideoMessages) /\ InTime(n)
              /\ \E p \in 1 .. Len(q) + 1 :
                   /\ Inserted(q, n, p, m)
                   /\ \A i \in 1 .. Len(q) : q[i].op # "render" => i < p
<1> DEFINE n == Posted(q, m)
<1>1. n \in Seq(VideoMessages)
  BY PostedIs DEF InTime
<1>2. PICK p \in 1 .. Len(q) + 1 :
         /\ Inserted(q, n, p, m)
         /\ \A i \in 1 .. Len(q) : IF i < p THEN q[i].due <= m.due ELSE q[i].due > m.due
  BY PostedIs DEF InTime
<1> HIDE DEF n
<1>3. /\ Len(q) \in Nat /\ m.due \in Nat /\ Len(n) = Len(q) + 1
      /\ \A i \in 1 .. Len(q) : q[i].due \in Nat
  <2>1. \A i \in 1 .. Len(q) : q[i] \in VideoMessages
    BY EmptyIs
  <2>. QED  BY <1>2, <2>1, EmptyIs DEF VideoMessages, Inserted
<1>4. \A i \in 1 .. Len(q) : q[i].op # "render" => i < p
  <2> SUFFICES ASSUME NEW i \in 1 .. Len(q), q[i].op # "render", ~(i < p) PROVE FALSE
    OBVIOUS
  <2>1. q[i].due <= now /\ q[i].due > m.due
    BY <1>2 DEF InTime
  <2>. QED  BY <1>3, <2>1
<1>5. \A j \in 1 .. Len(q) + 1 :
         \/ j < p /\ j \in 1 .. Len(q) /\ n[j] = q[j]
         \/ j = p /\ n[j] = m
         \/ j > p /\ j - 1 \in 1 .. Len(q) /\ ~(j - 1 < p) /\ n[j] = q[j - 1]
  BY <1>2, <1>3 DEF Inserted
<1>6. InTime(n)
  <2>1. ASSUME NEW i \in 1 .. Len(q) + 1, NEW j \in 1 .. Len(q) + 1, i < j PROVE n[i].due <= n[j].due
    <3>1. CASE i < p /\ i \in 1 .. Len(q) /\ n[i] = q[i]
      <4>1. CASE j < p /\ j \in 1 .. Len(q) /\ n[j] = q[j]
        BY <2>1, <3>1, <4>1 DEF InTime
      <4>2. CASE j = p /\ n[j] = m
        BY <1>2, <3>1, <4>2
      <4>3. CASE j > p /\ j - 1 \in 1 .. Len(q) /\ ~(j - 1 < p) /\ n[j] = q[j - 1]
        <5>1. q[i].due <= m.due /\ q[j - 1].due > m.due
          BY <1>2, <3>1, <4>3
        <5>. QED  BY <1>3, <3>1, <4>3, <5>1
      <4>. QED  BY <1>5, <4>1, <4>2, <4>3
    <3>2. CASE i = p /\ n[i] = m
      <4>1. j > p /\ j - 1 \in 1 .. Len(q) /\ ~(j - 1 < p) /\ n[j] = q[j - 1]
        BY <1>5, <2>1, <3>2
      <4>2. q[j - 1].due > m.due /\ q[j - 1].due \in Nat
        BY <1>2, <1>3, <4>1
      <4>. QED  BY <1>3, <3>2, <4>1, <4>2
    <3>3. CASE i > p /\ i - 1 \in 1 .. Len(q) /\ ~(i - 1 < p) /\ n[i] = q[i - 1]
      <4>1. j > p /\ j - 1 \in 1 .. Len(q) /\ n[j] = q[j - 1] /\ i - 1 < j - 1
        BY <1>5, <2>1, <3>3
      <4>. QED  BY <3>3, <4>1 DEF InTime
    <3>. QED  BY <1>5, <3>1, <3>2, <3>3
  <2>2. ASSUME NEW i \in 1 .. Len(q) + 1
        PROVE  (n[i].op # "render" => n[i].due <= now) /\ (n[i].op = "write" => n[i].arg \in Entries)
    <3>1. CASE \E k \in 1 .. Len(q) : n[i] = q[k]
      BY <3>1 DEF InTime
    <3>2. CASE n[i] = m
      BY <3>2
    <3>. QED  BY <1>5, <3>1, <3>2
  <2>. QED  BY <1>3, <2>1, <2>2 DEF InTime
<1>. QED  BY <1>1, <1>2, <1>4, <1>6 DEF n

(* A message that is not a write, anywhere.                                *)
LEMMA EndsWithMore ==
    ASSUME NEW q, Len(q) \in Nat, NEW n, NEW p, NEW m, Inserted(q, n, p, m), m.op # "write", NEW b \in BOOLEAN
    PROVE  /\ NothingAfterNull(q, b) => NothingAfterNull(n, b)
           /\ \A e \in BOOLEAN : EndCleared(q, b, e) => EndCleared(n, b, e)
<1> DEFINE B(j) == IF j < p THEN j ELSE j - 1
           F(i) == IF i < p THEN i ELSE i + 1
<1>1. p \in 1 .. Len(q) + 1 /\ Len(n) = Len(q) + 1 /\ n[p] = m
  BY DEF Inserted
<1>2. \A j \in 1 .. Len(n) : j # p => B(j) \in 1 .. Len(q) /\ n[j] = q[B(j)]
  BY <1>1 DEF Inserted
<1>3. \A i \in 1 .. Len(q) : F(i) \in 1 .. Len(n) /\ n[F(i)] = q[i]
  BY <1>1 DEF Inserted
<1>4. \A j \in 0 .. Len(n) : NullAt(n, b, j) => j # p /\ B(j) \in 0 .. Len(q) /\ NullAt(q, b, B(j))
  <2> SUFFICES ASSUME NEW j \in 0 .. Len(n), NullAt(n, b, j)
               PROVE  j # p /\ B(j) \in 0 .. Len(q) /\ NullAt(q, b, B(j))
    OBVIOUS
  <2>1. CASE j = 0
    BY <1>1, <2>1 DEF NullAt
  <2>2. CASE j # 0
    <3>1. j \in 1 .. Len(n) /\ n[j].op = "write" /\ Ends(n[j].arg)
      BY <2>2 DEF NullAt
    <3>2. j # p
      BY <1>1, <3>1
    <3>3. B(j) \in 1 .. Len(q) /\ n[j] = q[B(j)]
      BY <1>2, <3>1, <3>2
    <3> HIDE DEF B
    <3>4. B(j) # 0 /\ B(j) \in 0 .. Len(q)
      BY <3>3
    <3>. QED  BY <3>1, <3>2, <3>3, <3>4 DEF NullAt
  <2>. QED  BY <2>1, <2>2
<1>5. \A i \in 0 .. Len(n), k \in 1 .. Len(q) : i # p /\ B(i) < k => i < F(k)
  BY <1>1
<1>6. \A j \in 1 .. Len(n), k \in 1 .. Len(q) : j # p /\ k < B(j) => F(k) < j
  BY <1>1
<1>7. \A i \in 0 .. Len(n), j \in 1 .. Len(n) : i # p /\ j # p /\ i < j => B(i) < B(j)
  BY <1>1
<1> HIDE DEF B, F
<1>8. ASSUME NothingAfterNull(q, b) PROVE NothingAfterNull(n, b)
  <2> SUFFICES ASSUME NEW i \in 0 .. Len(n), NEW j \in 1 .. Len(n), NullAt(n, b, i), i < j, n[j].op = "write"
               PROVE  \E k \in 1 .. Len(n) : i < k /\ k < j /\ Clears(n[k])
    BY DEF NothingAfterNull
  <2>1. i # p /\ j # p /\ B(i) \in 0 .. Len(q) /\ NullAt(q, b, B(i)) /\ B(j) \in 1 .. Len(q) /\ q[B(j)].op = "write"
    BY <1>1, <1>2, <1>4
  <2>2. PICK k \in 1 .. Len(q) : B(i) < k /\ k < B(j) /\ Clears(q[k])
    BY <1>7, <1>8, <2>1 DEF NothingAfterNull
  <2>3. F(k) \in 1 .. Len(n) /\ Clears(n[F(k)]) /\ i < F(k) /\ F(k) < j
    BY <1>3, <1>5, <1>6, <2>1, <2>2
  <2>. QED  BY <2>3
<1>9. ASSUME NEW e \in BOOLEAN, EndCleared(q, b, e) PROVE EndCleared(n, b, e)
  <2> SUFFICES ASSUME NEW i \in 0 .. Len(n), NullAt(n, b, i), ~e
               PROVE  \E k \in 1 .. Len(n) : i < k /\ Clears(n[k])
    BY DEF EndCleared
  <2>1. i # p /\ B(i) \in 0 .. Len(q) /\ NullAt(q, b, B(i))
    BY <1>4
  <2>2. PICK k \in 1 .. Len(q) : B(i) < k /\ Clears(q[k])
    BY <1>9, <2>1 DEF EndCleared
  <2>3. F(k) \in 1 .. Len(n) /\ Clears(n[F(k)]) /\ i < F(k)
    BY <1>3, <1>5, <2>1, <2>2
  <2>. QED  BY <2>3
<1>. QED  BY <1>8, <1>9

(* What is written while the stream has not ended.                         *)
LEMMA EndsWithWrite ==
    ASSUME NEW q, Len(q) \in Nat, NEW n, NEW p, NEW m, Inserted(q, n, p, m), m.op = "write", NEW b \in BOOLEAN,
           \A i \in 1 .. Len(q) : q[i].op # "render" => i < p,
           NEW e \in BOOLEAN, ~e, NothingAfterNull(q, b), EndCleared(q, b, e)
    PROVE  /\ NothingAfterNull(n, b)
           /\ EndCleared(n, b, Ends(m.arg))
<1>1. p \in 1 .. Len(q) + 1 /\ Len(n) = Len(q) + 1 /\ n[p] = m
  BY DEF Inserted
<1>2. \A j \in 1 .. Len(n) : n[j].op \in {"write", "flush", "stop"} =>
        j = p \/ (j < p /\ j \in 1 .. Len(q) /\ n[j] = q[j])
  <2> SUFFICES ASSUME NEW j \in 1 .. Len(n), n[j].op \in {"write", "flush", "stop"}, j # p
               PROVE  j < p /\ j \in 1 .. Len(q) /\ n[j] = q[j]
    OBVIOUS
  <2>1. CASE j < p
    BY <1>1, <2>1 DEF Inserted
  <2>2. CASE j > p
    <3>1. j - 1 \in 1 .. Len(q) /\ n[j] = q[j - 1] /\ ~(j - 1 < p)
      BY <1>1, <2>2 DEF Inserted
    <3>. QED  BY <3>1
  <2>. QED  BY <1>1, <2>1, <2>2
<1>3. \A i \in 1 .. Len(q) : q[i].op # "render" => i < p /\ i \in 1 .. Len(n) /\ n[i] = q[i]
  BY <1>1 DEF Inserted
<1>4. \A i \in 0 .. Len(n) : NullAt(n, b, i) /\ i # p => i < p /\ i \in 0 .. Len(q) /\ NullAt(q, b, i)
  BY <1>1, <1>2 DEF NullAt
<1>5. \A i \in 0 .. Len(q) : NullAt(q, b, i) => \E k \in 1 .. Len(q) : i < k /\ k < p /\ Clears(q[k]) /\ k \in 1 .. Len(n) /\ Clears(n[k])
  <2> SUFFICES ASSUME NEW i \in 0 .. Len(q), NullAt(q, b, i)
               PROVE  \E k \in 1 .. Len(q) : i < k /\ k < p /\ Clears(q[k]) /\ k \in 1 .. Len(n) /\ Clears(n[k])
    OBVIOUS
  <2>1. PICK k \in 1 .. Len(q) : i < k /\ Clears(q[k])
    BY DEF EndCleared
  <2>2. q[k].op # "render"
    BY <2>1 DEF Clears
  <2>. QED  BY <1>3, <2>1, <2>2
<1>6. NothingAfterNull(n, b)
  <2> SUFFICES ASSUME NEW i \in 0 .. Len(n), NEW j \in 1 .. Len(n), NullAt(n, b, i), i < j, n[j].op = "write"
               PROVE  \E k \in 1 .. Len(n) : i < k /\ k < j /\ Clears(n[k])
    BY DEF NothingAfterNull
  <2>1. j = p \/ (j < p /\ j \in 1 .. Len(q) /\ n[j] = q[j])
    BY <1>2
  <2>2. i # p
    BY <1>1, <2>1
  <2>3. i \in 0 .. Len(q) /\ NullAt(q, b, i)
    BY <1>4, <2>2
  <2>4. CASE j = p
    BY <1>5, <2>3, <2>4
  <2>5. CASE j < p /\ j \in 1 .. Len(q) /\ n[j] = q[j]
    <3>1. PICK k \in 1 .. Len(q) : i < k /\ k < j /\ Clears(q[k])
      BY <2>3, <2>5 DEF NothingAfterNull
    <3>2. q[k].op # "render"
      BY <3>1 DEF Clears
    <3>. QED  BY <1>3, <3>1, <3>2
  <2>. QED  BY <2>1, <2>4, <2>5
<1>7. EndCleared(n, b, Ends(m.arg))
  <2> SUFFICES ASSUME NEW i \in 0 .. Len(n), NullAt(n, b, i), ~Ends(m.arg)
               PROVE  \E k \in 1 .. Len(n) : i < k /\ Clears(n[k])
    BY DEF EndCleared
  <2>1. i # p
    BY <1>1 DEF NullAt
  <2>. QED  BY <1>4, <1>5, <2>1
<1>. QED  BY <1>6, <1>7

(* A flush or a stop that is posted clears the end of the stream.          *)
LEMMA EndsWithClear ==
    ASSUME NEW q, Len(q) \in Nat, NEW n, NEW p, NEW m, Inserted(q, n, p, m), Clears(m), NEW b \in BOOLEAN,
           \A i \in 1 .. Len(q) : q[i].op # "render" => i < p
    PROVE  \A e \in BOOLEAN : EndCleared(n, b, e)
<1>1. p \in 1 .. Len(q) + 1 /\ Len(n) = Len(q) + 1 /\ n[p] = m /\ m.op # "write"
  BY DEF Inserted, Clears
<1>2. ASSUME NEW i \in 0 .. Len(n), NullAt(n, b, i) PROVE i < p
  <2>1. CASE i = 0
    BY <1>1, <2>1
  <2>2. CASE i # 0
    <3>1. i \in 1 .. Len(n) /\ n[i].op = "write" /\ i # p
      BY <1>1, <1>2, <2>2 DEF NullAt
    <3>2. CASE i > p
      <4>1. i - 1 \in 1 .. Len(q) /\ n[i] = q[i - 1] /\ ~(i - 1 < p)
        BY <1>1, <3>2 DEF Inserted
      <4>. QED  BY <3>1, <4>1
    <3>. QED  BY <1>1, <3>1, <3>2
  <2>. QED  BY <2>1, <2>2
<1>3. p \in 1 .. Len(n)
  BY <1>1
<1>. QED  BY <1>1, <1>2, <1>3 DEF EndCleared

(* The first message is taken; what the queue of frames may hold then.      *)
LEMMA EndsWithLess ==
    ASSUME NEW q \in Seq(VideoMessages), q # <<>>, NEW b \in BOOLEAN, NEW c \in BOOLEAN, NEW e \in BOOLEAN,
           NothingAfterNull(q, b), EndCleared(q, b, e),
           c => NullAt(q, b, 1) \/ (b /\ ~Clears(q[1]) /\ q[1].op # "write")
    PROVE  NothingAfterNull(Tail(q), c) /\ EndCleared(Tail(q), c, e)
<1> DEFINE n == Tail(q)
<1>1. Len(q) \in Nat /\ Len(q) > 0 /\ Len(n) = Len(q) - 1 /\ \A i \in 1 .. Len(q) - 1 : n[i] = q[i + 1]
  BY TailIs, EmptyIs
<1> HIDE DEF n
<1>2. \A i \in 1 .. Len(n) : i + 1 \in 1 .. Len(q) /\ n[i] = q[i + 1]
  BY <1>1
<1>3. \A k \in 1 .. Len(q) : k # 1 => k - 1 \in 1 .. Len(n) /\ n[k - 1] = q[k]
  BY <1>1
<1>4. ASSUME NEW i \in 0 .. Len(n), NullAt(n, c, i)
      PROVE  \E h \in 0 .. Len(q) :
                /\ NullAt(q, b, h) /\ h <= i + 1
                /\ \A k \in 1 .. Len(q) : h < k /\ Clears(q[k]) => k # 1 /\ i < k - 1
  <2>1. CASE i = 0
    <3>1. c
      BY <1>4, <2>1 DEF NullAt
    <3>2. CASE NullAt(q, b, 1)
      <4>1. 1 \in 0 .. Len(q)
        BY <1>1
      <4>2. \A k \in 1 .. Len(q) : 1 < k => k # 1 /\ i < k - 1
        BY <1>1, <2>1
      <4>. QED  BY <2>1, <3>2, <4>1, <4>2
    <3>3. CASE b /\ ~Clears(q[1])
      <4>1. NullAt(q, b, 0) /\ 0 \in 0 .. Len(q)
        BY <1>1, <3>3 DEF NullAt
      <4>2. \A k \in 1 .. Len(q) : Clears(q[k]) => k # 1 /\ i < k - 1
        BY <1>1, <2>1, <3>3
      <4>. QED  BY <2>1, <4>1, <4>2
    <3>. QED  BY <3>1, <3>2, <3>3
  <2>2. CASE i # 0
    <3>1. i \in 1 .. Len(n) /\ i + 1 # 0
      BY <2>2
    <3>2. NullAt(q, b, i + 1) /\ i + 1 \in 0 .. Len(q)
      BY <1>2, <1>4, <2>2, <3>1 DEF NullAt
    <3>3. \A k \in 1 .. Len(q) : i + 1 < k => k # 1 /\ i < k - 1
      BY <1>1
    <3>4. i + 1 <= i + 1
      OBVIOUS
    <3>. QED  BY <3>2, <3>3, <3>4
  <2>. QED  BY <2>1, <2>2
<1>5. NothingAfterNull(n, c)
  <2> SUFFICES ASSUME NEW i \in 0 .. Len(n), NEW j \in 1 .. Len(n), NullAt(n, c, i), i < j, n[j].op = "write"
               PROVE  \E k \in 1 .. Len(n) : i < k /\ k < j /\ Clears(n[k])
    BY DEF NothingAfterNull
  <2>1. PICK h \in 0 .. Len(q) :
                /\ NullAt(q, b, h) /\ h <= i + 1
                /\ \A k \in 1 .. Len(q) : h < k /\ Clears(q[k]) => k # 1 /\ i < k - 1
    BY <1>4
  <2>2. j + 1 \in 1 .. Len(q) /\ q[j + 1].op = "write" /\ h < j + 1
    BY <1>1, <1>2, <2>1
  <2>3. PICK k \in 1 .. Len(q) : h < k /\ k < j + 1 /\ Clears(q[k])
    BY <2>1, <2>2 DEF NothingAfterNull
  <2>4. k # 1 /\ i < k - 1 /\ k - 1 < j
    BY <2>1, <2>3
  <2>. QED  BY <1>3, <2>3, <2>4
<1>6. EndCleared(n, c, e)
  <2> SUFFICES ASSUME NEW i \in 0 .. Len(n), NullAt(n, c, i), ~e
               PROVE  \E k \in 1 .. Len(n) : i < k /\ Clears(n[k])
    BY DEF EndCleared
  <2>1. PICK h \in 0 .. Len(q) :
                /\ NullAt(q, b, h) /\ h <= i + 1
                /\ \A k \in 1 .. Len(q) : h < k /\ Clears(q[k]) => k # 1 /\ i < k - 1
    BY <1>4
  <2>2. PICK k \in 1 .. Len(q) : h < k /\ Clears(q[k])
    BY <2>1 DEF EndCleared
  <2>3. k # 1 /\ i < k - 1
    BY <2>1, <2>2
  <2>. QED  BY <1>3, <2>2, <2>3
<1>. QED  BY <1>5, <1>6 DEF n

(* What a paused clock stands at, after each of the clock's methods.        *)
LEMMA RunningIs ==
    ASSUME NEW c \in ClockStates
    PROVE  LET n == Running(c)
           IN n \in ClockStates /\ ~n.paused /\ n.media = c.media /\ n.real = c.real /\ n.max = c.max
  BY DEF Running, ClockStates

LEMMA StandsPaused ==
    ASSUME NEW c \in ClockStates, NEW t \in Nat, Stands(c)
    PROVE  Stands(ClockPaused(c, t)) /\ (~c.paused => Position(ClockPaused(c, t), t) = Position(c, t))
<1> DEFINE n == ClockPaused(c, t)
<1>1. CASE c.paused
  BY <1>1 DEF ClockPaused
<1>2. CASE ~c.paused
  <2>1. /\ n \in ClockStates /\ n.paused
        /\ n.media = c.media /\ n.real = c.real /\ n.max = c.max /\ n.pausedAt = t
        /\ n.pausePos = IF HasAnchor(c) THEN FromAnchor(c, t) ELSE Unset
    BY <1>2, ClockPausedIs
  <2> HIDE DEF n
  <2>2. Running(n) \in ClockStates /\ ~Running(n).paused
        /\ Running(n).media = c.media /\ Running(n).real = c.real /\ Running(n).max = c.max
    BY <2>1, RunningIs
  <2>3. FromAnchor(Running(n), t) = FromAnchor(c, t)
    BY <1>2, <2>2 DEF FromAnchor
  <2>4. t # Unset /\ (HasAnchor(n) <=> HasAnchor(c))
    BY <2>1 DEF Unset, HasAnchor
  <2>5. Stands(n)
    BY <2>1, <2>3, <2>4 DEF Stands
  <2>6. FromAnchor(c, t) \in Nat
    BY FromAnchorIs
  <2>7. Position(n, t) = Position(c, t)
    BY <1>2, <2>1, <2>4, <2>6 DEF Position, Unset
  <2>. QED  BY <2>5, <2>7 DEF n
<1>. QED  BY <1>1, <1>2

(* A resume goes on where the clock stood, or beyond the bound that held it. *)
LEMMA StandsResumed ==
    ASSUME NEW c \in ClockStates, NEW t \in Nat, Stands(c)
    PROVE  /\ Stands(ClockResumed(c, t))
           /\ c.paused =>
                LET before == Position(c, t)
                    after  == Position(ClockResumed(c, t), t)
                IN \/ after = before
                   \/ 0 <= c.max /\ c.max <= before /\ before < after
<1> DEFINE n == ClockResumed(c, t)
<1>1. n \in ClockStates /\ ~n.paused
  BY ClockResumedIs
<1>2. Stands(n)
  BY <1>1 DEF Stands
<1>3. CASE c.paused /\ c.pausedAt = Unset
  <2>1. n.media = c.media /\ c.pausePos = Unset /\ ~HasAnchor(c)
    BY <1>3, ClockResumedIs DEF Stands
  <2> HIDE DEF n
  <2>2. Position(c, t) = Unset /\ Position(n, t) = Unset
    BY <1>1, <2>1 DEF Position, HasAnchor, Unset
  <2>. QED  BY <1>2, <2>2 DEF n
<1>4. CASE c.paused /\ c.pausedAt # Unset
  <2>1. n.media = c.media /\ n.real = c.real + t - c.pausedAt /\ n.max = Unset
    BY <1>4, ClockResumedIs
  <2>2. c.pausePos = IF HasAnchor(c) THEN FromAnchor(Running(c), c.pausedAt) ELSE Unset
    BY <1>4 DEF Stands
  <2> HIDE DEF n
  <2>3. CASE ~HasAnchor(c)
    <3>1. Position(c, t) = Unset /\ Position(n, t) = Unset
      BY <1>1, <2>1, <2>2, <2>3 DEF Position, HasAnchor, Unset
    <3>. QED  BY <1>2, <3>1 DEF n
  <2>4. CASE HasAnchor(c)
    <3> DEFINE q == c.pausedAt - c.real + c.media
    <3>1. c.pausedAt \in Int /\ c.real \in Int /\ c.media \in Int /\ c.max \in Int /\ q \in Int
      BY DEF ClockStates, Times
    <3>2. Position(n, t) = IF q <= 0 THEN 0 ELSE q
      <4>1. HasAnchor(n)
        BY <2>1, <2>4 DEF HasAnchor
      <4>2. t - n.real + n.media = q
        BY <2>1, <3>1
      <4>3. FromAnchor(n, t) = IF q <= 0 THEN 0 ELSE q
        BY <2>1, <4>2 DEF FromAnchor, Unset
      <4>. QED  BY <1>1, <4>1, <4>3 DEF Position
    <3>3. Position(c, t) = IF c.max >= 0 /\ q > c.max THEN (IF c.max <= 0 THEN 0 ELSE c.max)
                           ELSE IF q <= 0 THEN 0 ELSE q
      <4> DEFINE r == Running(c)
      <4>1. ~r.paused /\ r.media = c.media /\ r.real = c.real /\ r.max = c.max
        BY RunningIs
      <4> HIDE DEF r
      <4>2. FromAnchor(r, c.pausedAt) = IF c.max >= 0 /\ q > c.max THEN (IF c.max <= 0 THEN 0 ELSE c.max)
                                        ELSE IF q <= 0 THEN 0 ELSE q
        BY <4>1 DEF FromAnchor
      <4>3. c.pausePos = FromAnchor(r, c.pausedAt)
        BY <2>2, <2>4 DEF r
      <4>4. c.pausePos >= 0
        BY <3>1, <4>2, <4>3
      <4>5. Position(c, t) = c.pausePos
        BY <1>4, <4>4 DEF Position
      <4>. QED  BY <4>2, <4>3, <4>5
    <3> HIDE DEF q
    <3>4. \/ Position(n, t) = Position(c, t)
          \/ 0 <= c.max /\ c.max <= Position(c, t) /\ Position(c, t) < Position(n, t)
      BY <3>1, <3>2, <3>3
    <3>. QED  BY <1>2, <3>4 DEF n
  <2>. QED  BY <2>3, <2>4
<1>5. CASE ~c.paused
  BY <1>2, <1>5
<1>. QED  BY <1>3, <1>4, <1>5

LEMMA StandsElse ==
    ASSUME NEW c \in ClockStates, Stands(c)
    PROVE  /\ Stands(ClockFlushed(c))
           /\ \A a, b, d \in Int : Stands(Anchored(c, a, b, d))
           /\ \A d \in Int : ~c.paused => Stands(WithMax(c, d))
           /\ \A r \in Nat \ {0} : Stands(RateSet(c, r))
<1>1. \A n \in ClockStates : n.media = Unset /\ n.pausedAt = Unset /\ n.pausePos = Unset => Stands(n)
  BY DEF Stands, HasAnchor, Unset
<1>2. Stands(ClockFlushed(c))
  BY <1>1, ClockFlushedIs
<1>3. ASSUME NEW a \in Int, NEW b \in Int, NEW d \in Int PROVE Stands(Anchored(c, a, b, d))
  <2>1. Anchored(c, a, b, d).paused = c.paused /\ (c.paused => Anchored(c, a, b, d) = c)
    BY AnchoredIs
  <2>. QED  BY <2>1 DEF Stands
<1>4. ASSUME NEW d \in Int, ~c.paused PROVE Stands(WithMax(c, d))
  BY <1>4, WithMaxIs DEF Stands
<1>5. ASSUME NEW r \in Nat \ {0} PROVE Stands(RateSet(c, r))
  <2>1. RateSet(c, r) \in ClockStates
    BY RateSetIs
  <2>. QED  BY <1>1, <2>1, RateSetIs
<1>. QED  BY <1>2, <1>3, <1>4, <1>5

LEMMA MediaLateIs ==
    ASSUME NEW c \in ClockStates, NEW pts \in Int, NEW t \in Int
    PROVE  MediaLate(c, pts, t) \in Int
<1>1. ASSUME NEW a \in Int, NEW b \in Nat \ {0} PROVE Quotient(a, b) \in Int
  BY DEF Quotient
<1>2. (pts - c.media) * NormalRate \in Int
  <2>1. pts - c.media \in Int /\ NormalRate \in Int
    BY ClockAssumption DEF ClockStates, Times
  <2>. QED  BY <2>1
<1>3. Quotient((pts - c.media) * NormalRate, c.rate) \in Int
  BY <1>1, <1>2 DEF ClockStates
<1>4. c.real \in Int
  BY DEF ClockStates, Times
<1>. QED  BY <1>3, <1>4 DEF MediaLate

LEMMA VideoNumbers ==
    ASSUME VideoTypes
    PROVE  /\ now \in Nat /\ now \in Int /\ clock \in ClockStates
           /\ Len(videoMsgs) \in Nat /\ Len(videoQueue) \in Nat
           /\ \A i \in 1 .. Len(videoMsgs) : videoMsgs[i] \in VideoMessages /\ videoMsgs[i].due \in Nat
           /\ \A i \in 1 .. Len(videoQueue) : videoQueue[i] \in Entries /\ videoQueue[i].null \in BOOLEAN
           /\ NullIn(videoQueue) \in BOOLEAN
           /\ video.gen \in Nat /\ video \in Videos
<1>1. \A e \in Entries : e.null \in BOOLEAN
  BY EntryIs
<1>2. \A m \in VideoMessages : m.due \in Nat
  BY DEF VideoMessages
<1>3. now \in Nat
  BY VideoAssumption DEF VideoTypes
<1>4. \A i \in 1 .. Len(videoMsgs) : videoMsgs[i] \in VideoMessages
  BY EmptyIs DEF VideoTypes
<1>5. \A i \in 1 .. Len(videoQueue) : videoQueue[i] \in Entries
  BY EmptyIs DEF VideoTypes
<1>6. Len(videoMsgs) \in Nat /\ Len(videoQueue) \in Nat
  BY EmptyIs DEF VideoTypes
<1>7. NullIn(videoQueue) \in BOOLEAN
  BY DEF NullIn
<1>8. video.gen \in Nat /\ video \in Videos /\ clock \in ClockStates
  BY DEF VideoTypes, Videos
<1>. QED  BY <1>1, <1>2, <1>3, <1>4, <1>5, <1>6, <1>7, <1>8

LEMMA VideoInvGives == VideoInv => VideoTypeOK /\ ChainAlive
<1> SUFFICES ASSUME VideoInv PROVE VideoTypeOK /\ ChainAlive
  OBVIOUS
<1>1. DOMAIN videoMsgs = 1 .. Len(videoMsgs) /\ DOMAIN videoQueue = 1 .. Len(videoQueue)
      /\ (videoQueue # <<>> => Len(videoQueue) > 0)
  BY EmptyIs DEF VideoInv, VideoTypes
<1>2. VideoTypeOK
  <2>1. \A i \in DOMAIN videoMsgs : videoMsgs[i].op \in VideoOps \cup {"write", "render"} /\ videoMsgs[i].due \in Nat
    BY <1>1, VideoNumbers DEF VideoInv, VideoMessages
  <2>2. \A i \in DOMAIN videoQueue : videoQueue[i] \in Frames \cup Nulls
    BY <1>1, VideoNumbers DEF VideoInv, Entries
  <2>. QED  BY <2>1, <2>2 DEF VideoInv, VideoTypes, Videos, Rates, VideoTypeOK
<1>3. ChainAlive
  BY <1>1 DEF VideoInv, ChainThere, LiveIn, LiveRenders, ChainAlive, ChainNeverBroken
<1>. QED  BY <1>2, <1>3

(* A render message is posted.                                             *)
LEMMA RenderPosted ==
    ASSUME NEW q \in Seq(VideoMessages), InTime(q), now \in Nat, NEW g \in Nat, NEW d \in Nat, NEW b \in BOOLEAN,
           NEW e \in BOOLEAN, NothingAfterNull(q, b), EndCleared(q, b, e)
    PROVE  LET n == Posted(q, Render(g, d))
           IN /\ n \in Seq(VideoMessages) /\ InTime(n) /\ LiveIn(n, g)
              /\ NothingAfterNull(n, b) /\ EndCleared(n, b, e)
<1> DEFINE m == Render(g, d)
           n == Posted(q, m)
<1>1. m.op = "render" /\ m.arg = g /\ m.due = now + d /\ m \in VideoMessages /\ m.due >= now
  <2>1. now + d \in Nat /\ now + d >= now
    OBVIOUS
  <2>2. m = [op |-> "render", arg |-> g, due |-> now + d]
    BY DEF Render, Message
  <2> HIDE DEF m
  <2>3. m.op = "render" /\ m.arg = g /\ m.due = now + d
    BY <2>2
  <2>. QED  BY <2>1, <2>2, <2>3 DEF VideoMessages
<1> HIDE DEF m
<1>2. n \in Seq(VideoMessages) /\ InTime(n)
  BY <1>1, PostKeeps
<1>3. PICK p \in 1 .. Len(q) + 1 : Inserted(q, n, p, m)
  BY <1>1, PostKeeps
<1> HIDE DEF n
<1>4. Len(q) \in Nat
  BY EmptyIs
<1>5. NothingAfterNull(n, b) /\ EndCleared(n, b, e)
  BY <1>1, <1>3, <1>4, EndsWithMore
<1>6. LiveIn(n, g)
  <2>1. p \in 1 .. Len(n) /\ n[p] = m
    BY <1>3, <1>4 DEF Inserted
  <2>. QED  BY <1>1, <2>1 DEF LiveIn
<1>. QED  BY <1>2, <1>5, <1>6 DEF n, m

(* What is live stays so when another message comes.                       *)
LEMMA LiveKept ==
    ASSUME NEW q, Len(q) \in Nat, NEW n, NEW p, NEW m, Inserted(q, n, p, m), NEW g, LiveIn(q, g)
    PROVE  LiveIn(n, g)
<1>1. PICK i \in 1 .. Len(q) : q[i].op = "render" /\ q[i].arg = g
  BY DEF LiveIn
<1>2. CASE i < p
  <2>1. i \in 1 .. Len(n) /\ n[i] = q[i]
    BY <1>2 DEF Inserted
  <2>. QED  BY <1>1, <2>1 DEF LiveIn
<1>3. CASE ~(i < p)
  <2>1. i + 1 \in 1 .. Len(n) /\ n[i + 1] = q[i]
    BY <1>3 DEF Inserted
  <2>. QED  BY <1>1, <2>1 DEF LiveIn
<1>. QED  BY <1>2, <1>3

(* The first message that is due is taken.                                 *)
LEMMA VideoTakeIs ==
    ASSUME VideoInv, NEW op, VideoTakes(op) \/ (videoStep = "none" /\ videoMsgs # <<>> /\ Head(videoMsgs).op = op)
    PROVE  /\ videoStep = "none" /\ videoMsgs # <<>> /\ Head(videoMsgs) = videoMsgs[1] /\ videoMsgs[1].op = op
           /\ Tail(videoMsgs) \in Seq(VideoMessages) /\ InTime(Tail(videoMsgs))
           /\ VideoTakes(op) => videoMsgs' = Tail(videoMsgs)
           /\ op = "write" => videoMsgs[1].arg \in Entries
           /\ LiveIn(videoMsgs, video.gen) /\ (op # "render" \/ videoMsgs[1].arg # video.gen) =>
                LiveIn(Tail(videoMsgs), video.gen)
<1> USE DEF VideoInv
<1> DEFINE q == videoMsgs
           n == Tail(videoMsgs)
<1>1. videoStep = "none" /\ q # <<>> /\ Head(q).op = op /\ (VideoTakes(op) => videoMsgs' = n)
  BY DEF VideoTakes
<1>2. /\ n \in Seq(VideoMessages) /\ Len(q) \in Nat /\ Len(q) > 0 /\ Len(n) = Len(q) - 1 /\ Head(q) = q[1]
      /\ \A i \in 1 .. Len(q) - 1 : n[i] = q[i + 1]
  BY <1>1, TailIs, EmptyIs DEF VideoTypes
<1> HIDE DEF q, n
<1>3. \A i \in 1 .. Len(n) : i + 1 \in 1 .. Len(q) /\ n[i] = q[i + 1]
  BY <1>2
<1>4. InTime(q)
  BY DEF q
<1>5. InTime(n)
  <2>1. \A i, j \in 1 .. Len(n) : i < j => n[i].due <= n[j].due
    <3>1. \A i, j \in 1 .. Len(n) : i < j => i + 1 < j + 1
      BY <1>2
    <3>. QED  BY <1>3, <1>4, <3>1 DEF InTime
  <2>. QED  BY <1>3, <1>4, <2>1 DEF InTime
<1>6. op = "write" => q[1].arg \in Entries
  BY <1>1, <1>2, <1>4 DEF InTime
<1>7. ASSUME LiveIn(q, video.gen), op # "render" \/ q[1].arg # video.gen PROVE LiveIn(n, video.gen)
  <2>1. PICK i \in 1 .. Len(q) : q[i].op = "render" /\ q[i].arg = video.gen
    BY <1>7 DEF LiveIn
  <2>2. i # 1
    BY <1>1, <1>2, <1>7, <2>1
  <2>3. i - 1 \in 1 .. Len(n) /\ n[i - 1] = q[(i - 1) + 1] /\ (i - 1) + 1 = i
    BY <1>2, <2>1, <2>2
  <2>. QED  BY <2>1, <2>3 DEF LiveIn
<1>. QED  BY <1>1, <1>2, <1>5, <1>6, <1>7 DEF q, n

(* The end of the stream when a message other than a write is taken, and the *)
(* queue of frames stays, loses its first or is emptied.                   *)
LEMMA TakeKeepsEnds ==
    ASSUME VideoInv, videoMsgs # <<>>, NEW f, NullIn(f) => NullIn(videoQueue),
           videoMsgs[1].op # "write", Clears(videoMsgs[1]) => ~NullIn(f)
    PROVE  /\ NothingAfterNull(Tail(videoMsgs), NullIn(f))
           /\ EndCleared(Tail(videoMsgs), NullIn(f), Closed)
<1>1. NullIn(videoQueue) \in BOOLEAN /\ NullIn(f) \in BOOLEAN /\ Closed \in BOOLEAN /\ videoMsgs \in Seq(VideoMessages)
  BY DEF NullIn, VideoInv, VideoTypes, Closed
<1>2. NothingAfterNull(videoMsgs, NullIn(videoQueue)) /\ EndCleared(videoMsgs, NullIn(videoQueue), Closed)
  BY DEF VideoInv, EndsOnce
<1>. QED  BY <1>1, <1>2, EndsWithLess

(* A write that is posted while the stream has not ended.                  *)
LEMMA WritePosted ==
    ASSUME NEW q \in Seq(VideoMessages), InTime(q), now \in Nat, NEW f \in Entries, NEW b \in BOOLEAN,
           NEW e \in BOOLEAN, ~e, NothingAfterNull(q, b), EndCleared(q, b, e)
    PROVE  LET n == Posted(q, Message("write", f, 0))
           IN /\ n \in Seq(VideoMessages) /\ InTime(n) /\ \A g \in Nat : LiveIn(q, g) => LiveIn(n, g)
              /\ NothingAfterNull(n, b) /\ EndCleared(n, b, Ends(f))
<1> DEFINE m == Message("write", f, 0)
           n == Posted(q, m)
<1>1. m.op = "write" /\ m.arg = f /\ m.due = now /\ m \in VideoMessages
  <2>1. now + 0 = now
    OBVIOUS
  <2>2. m = [op |-> "write", arg |-> f, due |-> now]
    BY <2>1 DEF Message
  <2> HIDE DEF m
  <2>. QED  BY <2>2 DEF VideoMessages
<1> HIDE DEF m
<1>3. m.due >= now
  BY <1>1
<1>4. n \in Seq(VideoMessages) /\ InTime(n)
  BY <1>1, <1>3, PostKeeps
<1>5. PICK p \in 1 .. Len(q) + 1 :
         /\ Inserted(q, n, p, m)
         /\ \A i \in 1 .. Len(q) : q[i].op # "render" => i < p
  BY <1>1, <1>3, PostKeeps
<1> HIDE DEF n
<1>6. Len(q) \in Nat
  BY EmptyIs
<1>7. NothingAfterNull(n, b) /\ EndCleared(n, b, Ends(f))
  <2>1. m.arg = f
    BY <1>1
  <2>2. Inserted(q, n, p, m) /\ m.op = "write"
    BY <1>1, <1>5
  <2>3. \A i \in 1 .. Len(q) : q[i].op # "render" => i < p
    BY <1>5
  <2>4. NothingAfterNull(n, b) /\ EndCleared(n, b, Ends(m.arg))
    BY <1>6, <2>1, <2>2, <2>3, EndsWithWrite
  <2>. QED  BY <2>1, <2>4
<1>8. \A g \in Nat : LiveIn(q, g) => LiveIn(n, g)
  BY <1>5, <1>6, LiveKept
<1>. QED  BY <1>4, <1>7, <1>8 DEF n, m

(* The two messages of a write, and the decoder's own flush.               *)
LEMMA VideoWriteKeeps ==
    ASSUME VideoInv, NEW eos \in BOOLEAN, VideoWrite(eos)
    PROVE  VideoInv'
<1> USE DEF VideoInv
<1> DEFINE frame == [pts |-> FrameGap * videoSeen.frames, eos |-> eos, null |-> FALSE]
           q == Posted(videoMsgs, Message("write", frame, 0))
           b == NullIn(videoQueue)
<1>1. /\ ~videoSeen.ended /\ ~videoSeen.half
      /\ videoMsgs' = q
      /\ videoSeen' = [videoSeen EXCEPT !.frames = @ + 1, !.ended = eos, !.half = eos]
      /\ UNCHANGED <<video, videoQueue, videoStep, clock, now>>
  BY DEF VideoWrite, clockVars
<1>2. frame \in Entries /\ ~Ends(frame)
  <2>1. FrameGap * videoSeen.frames \in Nat
    BY VideoAssumption DEF VideoTypes, VideoHistories
  <2>2. frame \in Frames
    BY <2>1 DEF Frames
  <2> HIDE DEF frame
  <2>. QED  BY <2>2, EntryIs DEF Entries
<1> HIDE DEF frame
<1>3. /\ now \in Nat /\ b \in BOOLEAN /\ videoMsgs \in Seq(VideoMessages) /\ InTime(videoMsgs) /\ video.gen \in Nat
      /\ NothingAfterNull(videoMsgs, b) /\ \E e \in BOOLEAN : ~e /\ EndCleared(videoMsgs, b, e)
  <2>1. Closed \in BOOLEAN /\ ~Closed
    BY <1>1 DEF Closed
  <2>. QED  BY <1>1, <2>1, VideoNumbers DEF VideoTypes, EndsOnce
<1>4. /\ q \in Seq(VideoMessages) /\ InTime(q) /\ NothingAfterNull(q, b) /\ EndCleared(q, b, Ends(frame))
      /\ LiveIn(videoMsgs, video.gen) => LiveIn(q, video.gen)
  BY <1>2, <1>3, WritePosted
<1> HIDE DEF q, b
<1>5. /\ videoSeen' \in VideoHistories /\ videoSeen'.ended = eos /\ videoSeen'.half = eos
      /\ videoSeen'.cut = videoSeen.cut
  <2>1. videoSeen.frames + 1 \in Nat /\ videoSeen \in VideoHistories
    BY DEF VideoTypes, VideoHistories
  <2>. QED  BY <1>1, <2>1 DEF VideoHistories
<1>6. VideoTypes'
  BY <1>1, <1>4, <1>5 DEF VideoTypes
<1>7. EndsOnce'
  <2>1. NullIn(videoQueue)' = b
    BY <1>1 DEF NullIn, b
  <2>2. EndCleared(q, b, Closed')
    BY <1>2, <1>4 DEF EndCleared
  <2>. QED  BY <1>1, <1>4, <1>5, <2>1, <2>2 DEF EndsOnce, NullIsLast
<1>8. FrameThere' /\ ChainThere' /\ Stands(clock)' /\ OwnClock' /\ InTime(videoMsgs)'
  BY <1>1, <1>4, <1>5 DEF FrameThere, ChainThere, Stands, OwnClock, InTime
<1>. QED  BY <1>6, <1>7, <1>8

LEMMA VideoWriteNullKeeps ==
    ASSUME VideoInv, VideoWriteNull
    PROVE  VideoInv'
<1> USE DEF VideoInv
<1> DEFINE x == NullEntry(videoSeen.old)
           q == Posted(videoMsgs, Message("write", x, 0))
           b == NullIn(videoQueue)
<1>1. /\ videoSeen.half /\ videoSeen.ended
      /\ videoMsgs' = q
      /\ videoSeen' = [videoSeen EXCEPT !.half = FALSE]
      /\ UNCHANGED <<video, videoQueue, videoStep, clock, now>>
  BY DEF VideoWriteNull, clockVars, EndsOnce
<1>2. x \in Entries /\ (videoSeen.old => ~Ends(x))
  <2>1. videoSeen.old \in BOOLEAN
    BY DEF VideoTypes, VideoHistories
  <2>2. NullEntry(TRUE).late # NullEntry(FALSE).late
    BY DEF NullEntry
  <2>. QED  BY <2>1, <2>2 DEF Entries, Nulls, Ends
<1> HIDE DEF x
<1>3. /\ now \in Nat /\ b \in BOOLEAN /\ videoMsgs \in Seq(VideoMessages) /\ InTime(videoMsgs) /\ video.gen \in Nat
      /\ NothingAfterNull(videoMsgs, b) /\ \E e \in BOOLEAN : ~e /\ EndCleared(videoMsgs, b, e)
  <2>1. Closed \in BOOLEAN /\ ~Closed
    BY <1>1 DEF Closed
  <2>. QED  BY <1>1, <2>1, VideoNumbers DEF VideoTypes, EndsOnce
<1>4. /\ q \in Seq(VideoMessages) /\ InTime(q) /\ NothingAfterNull(q, b) /\ EndCleared(q, b, Ends(x))
      /\ LiveIn(videoMsgs, video.gen) => LiveIn(q, video.gen)
  BY <1>2, <1>3, WritePosted
<1> HIDE DEF q, b
<1>5. /\ videoSeen' \in VideoHistories /\ videoSeen'.ended /\ ~videoSeen'.half
      /\ videoSeen'.old = videoSeen.old /\ videoSeen'.cut = videoSeen.cut
  <2>1. videoSeen \in VideoHistories
    BY DEF VideoTypes
  <2>. QED  BY <1>1, <2>1 DEF VideoHistories
<1>6. VideoTypes'
  BY <1>1, <1>4, <1>5 DEF VideoTypes
<1>7. EndsOnce'
  <2>1. NullIn(videoQueue)' = b
    BY <1>1 DEF NullIn, b
  <2>2. ~Closed' => ~Ends(x)
    BY <1>2, <1>5 DEF Closed
  <2>3. EndCleared(q, b, Closed')
    BY <1>4, <2>2 DEF EndCleared
  <2>. QED  BY <1>1, <1>4, <1>5, <2>1, <2>3 DEF EndsOnce, NullIsLast
<1>8. FrameThere' /\ ChainThere' /\ Stands(clock)' /\ OwnClock' /\ InTime(videoMsgs)'
  BY <1>1, <1>4, <1>5 DEF FrameThere, ChainThere, Stands, OwnClock, InTime
<1>. QED  BY <1>6, <1>7, <1>8

LEMMA DecoderAnewKeeps ==
    ASSUME VideoInv, DecoderAnew
    PROVE  VideoInv'
<1> USE DEF VideoInv
<1>1. /\ videoSeen.old /\ ~videoSeen.half
      /\ videoSeen' = [videoSeen EXCEPT !.old = FALSE, !.ended = FALSE]
      /\ UNCHANGED <<video, videoQueue, videoMsgs, videoStep, clock, now>>
  BY DEF DecoderAnew, clockVars
<1>2. videoSeen' \in VideoHistories /\ ~videoSeen'.half /\ videoSeen'.cut = videoSeen.cut
  BY <1>1 DEF VideoTypes, VideoHistories
<1>3. VideoTypes'
  BY <1>1, <1>2 DEF VideoTypes
<1>4. EndsOnce'
  <2>1. NullIn(videoQueue)' = NullIn(videoQueue)
    BY <1>1 DEF NullIn
  <2>2. ~Closed
    BY <1>1 DEF Closed
  <2>3. EndCleared(videoMsgs, NullIn(videoQueue), Closed')
    BY <2>2 DEF EndsOnce, EndCleared
  <2>. QED  BY <1>1, <1>2, <2>1, <2>3 DEF EndsOnce, NullIsLast
<1>5. FrameThere' /\ ChainThere' /\ Stands(clock)' /\ OwnClock' /\ InTime(videoMsgs)'
  BY <1>1, <1>2 DEF FrameThere, ChainThere, Stands, OwnClock, InTime
<1>. QED  BY <1>3, <1>4, <1>5

LEMMA VideoCommandKeeps ==
    ASSUME VideoInv, NEW op \in VideoOps, VideoCommand(op)
    PROVE  VideoInv'
<1> USE DEF VideoInv
<1> DEFINE m == Message(op, 0, 0)
           n == Posted(videoMsgs, m)
           b == NullIn(videoQueue)
<1>1. /\ videoMsgs' = n
      /\ videoSeen' = [videoSeen EXCEPT !.asked = op, !.commands = @ + 1,
                                        !.old = @ \/ op \in {"flush", "stop"}]
      /\ video' = IF op \in {"start", "flush"} THEN [video EXCEPT !.last = Unset] ELSE video
      /\ UNCHANGED <<videoQueue, videoStep, clock, now>>
  BY DEF VideoCommand, clockVars
<1>2. now \in Nat /\ b \in BOOLEAN /\ videoMsgs \in Seq(VideoMessages) /\ InTime(videoMsgs) /\ Len(videoMsgs) \in Nat /\ video.gen \in Nat
  BY VideoNumbers DEF VideoTypes
<1>3. m.op = op /\ op \notin {"render", "write"} /\ m.due = now /\ m \in VideoMessages
  <2>1. now + 0 = now
    BY <1>2
  <2>2. m = [op |-> op, arg |-> 0, due |-> now]
    BY <2>1 DEF Message
  <2>. QED  BY <1>2, <2>2 DEF VideoMessages, VideoOps
<1> HIDE DEF m
<1>4. m.due >= now
  BY <1>2, <1>3
<1>5. n \in Seq(VideoMessages) /\ InTime(n)
  BY <1>2, <1>3, <1>4, PostKeeps
<1>6. PICK p \in 1 .. Len(videoMsgs) + 1 :
         /\ Inserted(videoMsgs, n, p, m)
         /\ \A i \in 1 .. Len(videoMsgs) : videoMsgs[i].op # "render" => i < p
  BY <1>2, <1>3, <1>4, PostKeeps
<1> HIDE DEF n
<1> DEFINE e == Closed
           ee == e /\ op \notin {"flush", "stop"}
<1>7. e \in BOOLEAN /\ ee \in BOOLEAN /\ NothingAfterNull(videoMsgs, b) /\ EndCleared(videoMsgs, b, e)
  BY DEF VideoTypes, EndsOnce, Closed
<1>8. NothingAfterNull(n, b) /\ EndCleared(n, b, e)
  BY <1>2, <1>3, <1>6, <1>7, EndsWithMore
<1>9. EndCleared(n, b, ee)
  <2>1. CASE op \in {"flush", "stop"}
    <3>1. Clears(m)
      BY <1>3, <2>1 DEF Clears
    <3>. QED  BY <1>2, <1>6, <1>7, <3>1, EndsWithClear
  <2>2. CASE op \notin {"flush", "stop"}
    <3>1. ee = e
      BY <1>7, <2>2
    <3>. QED  BY <1>8, <3>1
  <2>. QED  BY <2>1, <2>2
<1>10. LiveIn(videoMsgs, video.gen) => LiveIn(n, video.gen)
  BY <1>2, <1>6, LiveKept
<1> HIDE DEF b
<1>11. /\ videoSeen' \in VideoHistories /\ Closed' = ee /\ videoSeen'.cut = videoSeen.cut
       /\ videoSeen'.ended = videoSeen.ended /\ videoSeen'.half = videoSeen.half
  <2> DEFINE o == videoSeen.old \/ op \in {"flush", "stop"}
  <2>1. videoSeen.commands + 1 \in Nat /\ videoSeen \in VideoHistories /\ o \in BOOLEAN
    BY DEF VideoTypes, VideoHistories
  <2>2. videoSeen' = [videoSeen EXCEPT !.asked = op, !.commands = @ + 1, !.old = o]
    BY <1>1
  <2>3. ee <=> videoSeen.ended /\ ~videoSeen.half /\ ~o
    BY DEF Closed
  <2> HIDE DEF ee, e, o
  <2>4. /\ videoSeen' \in VideoHistories /\ videoSeen'.old = o /\ videoSeen'.cut = videoSeen.cut
        /\ videoSeen'.ended = videoSeen.ended /\ videoSeen'.half = videoSeen.half
    BY <1>7, <2>1, <2>2 DEF VideoHistories
  <2>5. Closed' <=> ee
    BY <2>3, <2>4 DEF Closed
  <2>6. Closed' \in BOOLEAN
    BY DEF Closed
  <2>. QED  BY <1>7, <2>4, <2>5, <2>6
<1> HIDE DEF e, ee
<1>12. /\ video' \in Videos /\ video'.paused = video.paused /\ video'.gen = video.gen /\ video'.mode = video.mode
       /\ video'.owner = video.owner
  <2>1. Unset \in Times
    BY DEF Unset, Times
  <2>. QED  BY <1>1, <2>1 DEF VideoTypes, Videos
<1>13. VideoTypes'
  BY <1>1, <1>5, <1>11, <1>12 DEF VideoTypes
<1>14. EndsOnce'
  <2>1. NullIn(videoQueue)' = b
    BY <1>1 DEF NullIn, b
  <2>. QED  BY <1>1, <1>8, <1>9, <1>11, <2>1 DEF EndsOnce, NullIsLast
<1>15. InTime(videoMsgs)'
  BY <1>1, <1>5 DEF InTime
<1>16. FrameThere' /\ ChainThere' /\ Stands(clock)' /\ OwnClock'
  BY <1>1, <1>10, <1>11, <1>12 DEF FrameThere, ChainThere, Stands, OwnClock
<1>. QED  BY <1>13, <1>14, <1>15, <1>16

(* The steps that leave the messages and the history alone but for what the *)
(* invariant does not look at.                                             *)
LEMMA VideoAsideKeeps ==
    ASSUME VideoInv, UNCHANGED <<videoQueue, videoMsgs, videoStep>>,
           videoSeen' \in VideoHistories, EndsSame, videoSeen'.cut = videoSeen.cut,
           video' \in Videos, video'.paused = video.paused, video'.gen = video.gen, video'.owner = video.owner,
           video.paused \/ video'.mode = video.mode,
           clock' \in ClockStates, Stands(clock)', OwnClock', now' \in 0 .. MaxNow, now <= now'
    PROVE  VideoInv'
<1> USE DEF VideoInv
<1>1. VideoTypes'
  BY DEF VideoTypes
<1>2. InTime(videoMsgs)'
  <2>1. \A i \in 1 .. Len(videoMsgs) : videoMsgs[i].due <= now => videoMsgs[i].due <= now'
    BY VideoNumbers, VideoAssumption
  <2>. QED  BY <2>1 DEF InTime
<1>3. EndsOnce'
  <2>1. NullIn(videoQueue)' = NullIn(videoQueue)
    BY DEF NullIn
  <2>. QED  BY <2>1 DEF EndsOnce, EndsSame, Closed, NullIsLast
<1>4. FrameThere' /\ ChainThere'
  BY DEF FrameThere, ChainThere
<1>. QED  BY <1>1, <1>2, <1>3, <1>4

LEMMA VideoRateKeeps ==
    ASSUME VideoInv, NEW rate \in VideoRates, VideoRate(rate)
    PROVE  VideoInv'
<1> USE DEF VideoInv
<1>1. /\ video' = [video EXCEPT !.rate = rate, !.clockRate = rate]
      /\ clock' = IF rate = video.clockRate THEN clock ELSE RateSet(clock, rate)
      /\ videoSeen' = [videoSeen EXCEPT !.commands = @ + 1]
      /\ UNCHANGED <<videoQueue, videoMsgs, videoStep, now>>
  BY DEF VideoRate
<1>2. videoSeen' \in VideoHistories /\ EndsSame /\ videoSeen'.cut = videoSeen.cut
  <2>1. videoSeen.commands + 1 \in Nat
    BY DEF VideoTypes, VideoHistories
  <2>. QED  BY <1>1, <2>1 DEF VideoTypes, VideoHistories, EndsSame
<1>3. /\ video' \in Videos /\ video'.paused = video.paused /\ video'.gen = video.gen
      /\ video'.owner = video.owner /\ video'.mode = video.mode
  BY <1>1 DEF VideoTypes, Videos, Rates
<1>4. rate \in Nat \ {0} /\ clock \in ClockStates
  BY VideoAssumption DEF VideoTypes
<1>5. clock' \in ClockStates /\ clock'.paused = clock.paused /\ Stands(clock)'
  <2>1. RateSet(clock, rate) \in ClockStates /\ RateSet(clock, rate).paused = clock.paused
    BY <1>4, RateSetIs
  <2>2. Stands(RateSet(clock, rate))
    BY <1>4, StandsElse
  <2> DEFINE c == RateSet(clock, rate)
  <2> HIDE DEF c
  <2>3. clock' = clock \/ clock' = c
    BY <1>1 DEF c
  <2>4. c \in ClockStates /\ c.paused = clock.paused /\ Stands(c)
    BY <2>1, <2>2 DEF c
  <2>. QED  BY <1>4, <2>3, <2>4 DEF Stands
<1>6. OwnClock'
  BY <1>3, <1>5 DEF OwnClock
<1>7. now' \in 0 .. MaxNow /\ now <= now'
  BY <1>1, VideoNumbers DEF VideoTypes
<1>. QED  BY <1>1, <1>2, <1>3, <1>5, <1>6, <1>7, VideoAsideKeeps

LEMMA AudioMovesIs ==
    ASSUME VideoInv, AudioMoves
    PROVE  /\ clock' \in ClockStates /\ Stands(clock') /\ ~video.owner
           /\ \/ clock' = ClockPaused(clock, now)
              \/ clock' = ClockResumed(clock, now)
              \/ clock'.paused = clock.paused
<1> USE DEF VideoInv
<1>1. clock \in ClockStates /\ now \in Nat /\ Stands(clock) /\ ~video.owner
  BY VideoNumbers DEF AudioMoves
<1>2. CASE clock' = Anchored(clock, now, now, now + FrameGap)
  <2>1. now \in Int /\ now + FrameGap \in Int
    BY <1>1, VideoAssumption
  <2>. QED  BY <1>1, <1>2, <2>1, AnchoredIs, StandsElse
<1>3. CASE clock' = ClockPaused(clock, now)
  <2>1. now \in Int
    BY <1>1
  <2>. QED  BY <1>1, <1>3, <2>1, ClockPausedIs, StandsPaused
<1>4. CASE clock' = ClockResumed(clock, now)
  <2>1. now \in Int
    BY <1>1
  <2>. QED  BY <1>1, <1>4, <2>1, ClockResumedIs, StandsResumed
<1>5. CASE clock' = ClockFlushed(clock)
  BY <1>1, <1>5, ClockFlushedIs, StandsElse
<1>. QED  BY <1>2, <1>3, <1>4, <1>5 DEF AudioMoves

(* The steps of others than the sink's thread and its commands.            *)
LEMMA VideoOthersKeep ==
    ASSUME VideoInv, SetPreview \/ AudioMoves \/ Tick
    PROVE  VideoInv'
<1> USE DEF VideoInv
<1>1. CASE SetPreview
  <2>1. /\ video.paused /\ video' = [video EXCEPT !.mode = "preview"]
        /\ UNCHANGED <<videoQueue, videoMsgs, videoStep, videoSeen, clock, now>>
    BY <1>1 DEF SetPreview, clockVars
  <2>2. /\ video' \in Videos /\ video'.paused = video.paused /\ video'.gen = video.gen
        /\ video'.owner = video.owner
    BY <2>1 DEF VideoTypes, Videos
  <2>3. OwnClock' /\ Stands(clock)' /\ now' \in 0 .. MaxNow /\ now <= now'
    BY <2>1, <2>2, VideoNumbers DEF OwnClock, Stands, VideoTypes
  <2>4. videoSeen' \in VideoHistories /\ EndsSame /\ videoSeen'.cut = videoSeen.cut /\ clock' \in ClockStates
    BY <2>1 DEF VideoTypes, EndsSame
  <2>. QED  BY <2>1, <2>2, <2>3, <2>4, VideoAsideKeeps
<1>2. CASE AudioMoves
  <2>1. UNCHANGED <<video, videoQueue, videoMsgs, videoStep, now>>
    BY <1>2 DEF AudioMoves
  <2>2. clock' \in ClockStates /\ Stands(clock)' /\ ~video.owner
    BY <1>2, AudioMovesIs DEF Stands
  <2>3. videoSeen' \in VideoHistories /\ EndsSame /\ videoSeen'.cut = videoSeen.cut
    <3>1. videoSeen.commands + 1 \in Nat /\ videoSeen \in VideoHistories
      BY DEF VideoTypes, VideoHistories
    <3>2. videoSeen' = videoSeen \/ videoSeen' = [videoSeen EXCEPT !.commands = @ + 1]
      BY <1>2 DEF AudioMoves
    <3>. QED  BY <3>1, <3>2 DEF VideoHistories, EndsSame
  <2>4. OwnClock' /\ now' \in 0 .. MaxNow /\ now <= now' /\ video' \in Videos
    BY <2>1, <2>2, VideoNumbers DEF OwnClock, VideoTypes
  <2>. QED  BY <2>1, <2>2, <2>3, <2>4, VideoAsideKeeps
<1>3. CASE Tick
  <2>1. now < MaxNow /\ now' = now + 1 /\ UNCHANGED <<video, videoQueue, videoMsgs, videoStep, videoSeen, clock>>
    BY <1>3 DEF Tick
  <2>2. now' \in 0 .. MaxNow /\ now <= now'
    BY <2>1, VideoNumbers, VideoAssumption
  <2>3. OwnClock' /\ Stands(clock)' /\ video' \in Videos /\ clock' \in ClockStates
    BY <2>1, VideoNumbers DEF OwnClock, Stands
  <2>4. videoSeen' \in VideoHistories /\ EndsSame /\ videoSeen'.cut = videoSeen.cut
    BY <2>1 DEF VideoTypes, EndsSame
  <2>. QED  BY <2>1, <2>2, <2>3, <2>4, VideoAsideKeeps
<1>. QED  BY <1>1, <1>2, <1>3

(* What is left to show of a step that does not change the time.           *)
LEMMA VideoInvFrom ==
    ASSUME VideoInv, now' = now, video' \in Videos,
           videoQueue' \in Seq(Entries), NullIsLast(videoQueue'),
           videoMsgs' \in Seq(VideoMessages), InTime(videoMsgs'),
           NothingAfterNull(videoMsgs', NullIn(videoQueue')),
           EndCleared(videoMsgs', NullIn(videoQueue'), Closed),
           videoStep' \in {"none", "schedule", "anchor", "post"}, FrameThere', ChainThere',
           videoSeen' \in VideoHistories, EndsSame,
           clock' \in ClockStates, Stands(clock'), OwnClock'
    PROVE  VideoInv'
<1>1. VideoTypes'
  BY DEF VideoInv, VideoTypes
<1>2. InTime(videoMsgs)'
  BY DEF InTime
<1>3. EndsOnce'
  BY DEF EndsOnce, EndsSame, Closed, NullIn, NullIsLast, VideoInv
<1>4. Stands(clock)'
  BY DEF Stands
<1>. QED  BY <1>1, <1>2, <1>3, <1>4 DEF VideoInv

LEMMA ClockCallIs ==
    ASSUME VideoInv, NEW c \in ClockStates, Stands(c), ClockCall(c)
    PROVE  clock' \in ClockStates /\ Stands(clock') /\ (video.owner => clock' = c) /\ (clock' = c \/ clock' = clock)
<1>1. clock \in ClockStates /\ Stands(clock)
  BY VideoNumbers DEF VideoInv
<1>2. video.owner => VideoDrives
  BY DEF VideoDrives, Drives
<1>. QED  BY <1>1, <1>2 DEF ClockCall

LEMMA NothingNull == \A f : Len(f) = 0 => ~NullIn(f) /\ NullIsLast(f)
  BY DEF NullIn, NullIsLast

(* A frame that arrives: nothing was to follow the end of the stream.      *)
LEMMA OnVideoWriteKeeps ==
    ASSUME VideoInv, OnVideoWrite
    PROVE  VideoInv'
<1> USE DEF VideoInv
<1> DEFINE q == videoMsgs
           f == videoQueue
           x == videoMsgs[1].arg
           n == Append(videoQueue, x)
<1>1. /\ videoStep = "none" /\ q # <<>> /\ Head(q) = q[1] /\ q[1].op = "write" /\ q' = Tail(q)
      /\ Tail(q) \in Seq(VideoMessages) /\ InTime(Tail(q)) /\ x \in Entries
      /\ LiveIn(q, video.gen) => LiveIn(Tail(q), video.gen)
  BY VideoTakeIs DEF OnVideoWrite
<1>2. /\ videoQueue' = n
      /\ videoStep' = IF f = <<>> THEN "schedule" ELSE "none"
      /\ UNCHANGED <<video, videoSeen, clock, now>>
  BY <1>1 DEF OnVideoWrite, clockVars
<1>3. /\ q \in Seq(VideoMessages) /\ f \in Seq(Entries) /\ NullIn(f) \in BOOLEAN /\ Closed \in BOOLEAN
      /\ NullIsLast(f) /\ NothingAfterNull(q, NullIn(f)) /\ EndCleared(q, NullIn(f), Closed)
  BY DEF VideoTypes, EndsOnce, NullIn, Closed
<1>4. /\ n \in Seq(Entries) /\ Len(n) = Len(f) + 1 /\ n[Len(f) + 1] = x
      /\ \A i \in 1 .. Len(f) : n[i] = f[i]
  BY <1>1, <1>3, AppendIs
<1>5. Len(f) \in Nat /\ (f = <<>> <=> Len(f) = 0) /\ Len(q) \in Nat /\ (q = <<>> <=> Len(q) = 0)
  BY <1>3, EmptyIs
<1> HIDE DEF x, n, q, f
<1>6. ~NullIn(f)
  <2> SUFFICES ASSUME NullIn(f) PROVE FALSE
    OBVIOUS
  <2>1. NullAt(q, NullIn(f), 0) /\ 0 \in 0 .. Len(q) /\ 1 \in 1 .. Len(q) /\ 0 < 1
    BY <1>1, <1>5 DEF NullAt
  <2>2. \E m \in 1 .. Len(q) : 0 < m /\ m < 1 /\ Clears(q[m])
    BY <1>1, <1>3, <2>1 DEF NothingAfterNull
  <2>. QED  BY <1>5, <2>2
<1>7. NullIsLast(n) /\ (NullIn(n) => Ends(x))
  <2>1. \A i \in 1 .. Len(n) : Ends(n[i]) => i = Len(f) + 1 /\ n[i] = x
    BY <1>4, <1>5, <1>6 DEF NullIn
  <2>. QED  BY <1>4, <2>1 DEF NullIn, NullIsLast
<1>8. NothingAfterNull(Tail(q), NullIn(n)) /\ EndCleared(Tail(q), NullIn(n), Closed)
  <2>1. NullIn(n) => NullAt(q, NullIn(f), 1)
    BY <1>1, <1>7 DEF NullAt, x, q
  <2>2. NullIn(n) \in BOOLEAN
    BY DEF NullIn
  <2>. QED  BY <1>1, <1>3, <2>1, <2>2, EndsWithLess
<1>9. FrameThere' /\ OwnClock'
  BY <1>2 DEF FrameThere, OwnClock
<1>10. ChainThere'
  BY <1>1, <1>2, <1>5 DEF ChainThere, q, f
<1>11. /\ videoSeen' \in VideoHistories /\ EndsSame /\ clock' \in ClockStates /\ Stands(clock') /\ video' \in Videos
  BY <1>2 DEF VideoTypes, EndsSame
<1>. QED  BY <1>1, <1>2, <1>4, <1>7, <1>8, <1>9, <1>10, <1>11, VideoInvFrom DEF q

LEMMA ToldIs ==
    ASSUME VideoInv, NEW again \in BOOLEAN, Told(again)
    PROVE  videoSeen' \in VideoHistories /\ EndsSame /\ (~again => videoSeen'.cut = videoSeen.cut)
<1> DEFINE c == videoSeen.cut /\ ~again
<1>1. videoSeen \in VideoHistories /\ c \in BOOLEAN /\ (~again => c = videoSeen.cut)
  BY DEF VideoInv, VideoTypes, VideoHistories
<1>2. videoSeen' = [videoSeen EXCEPT !.asked = "none", !.cut = c]
  BY DEF Told
<1> HIDE DEF c
<1>. QED  BY <1>1, <1>2 DEF VideoHistories, EndsSame

LEMMA OnVideoResumeKeeps ==
    ASSUME VideoInv, NEW op, OnVideoResume(op)
    PROVE  VideoInv'
<1> USE DEF VideoInv
<1> DEFINE q == videoMsgs
<1>1. op \in {"start", "resume"} /\ VideoTakes(op) /\ Told(video.paused) /\ UNCHANGED <<videoQueue, now>>
  BY DEF OnVideoResume
<1>2. /\ videoStep = "none" /\ q # <<>> /\ q[1].op = op /\ q' = Tail(q)
      /\ Tail(q) \in Seq(VideoMessages) /\ InTime(Tail(q))
      /\ LiveIn(q, video.gen) => LiveIn(Tail(q), video.gen)
  BY <1>1, VideoTakeIs
<1>3. NothingAfterNull(Tail(q), NullIn(videoQueue)) /\ EndCleared(Tail(q), NullIn(videoQueue), Closed)
  BY <1>1, <1>2, TakeKeepsEnds DEF Clears
<1>4. now \in Nat /\ now \in Int /\ clock \in ClockStates /\ video \in Videos /\ videoQueue \in Seq(Entries) /\ NullIsLast(videoQueue)
  BY VideoNumbers DEF VideoTypes, EndsOnce
<1>5. videoSeen' \in VideoHistories /\ EndsSame /\ (~video.paused => videoSeen'.cut = videoSeen.cut)
  <2>1. video.paused \in BOOLEAN
    BY <1>4 DEF Videos
  <2>. QED  BY <1>1, <2>1, ToldIs
<1> HIDE DEF q
<1>6. CASE video.paused
  <2> DEFINE c == ClockResumed(clock, now)
  <2>1. /\ video' = [video EXCEPT !.paused = FALSE, !.eosSent = FALSE, !.count = 0]
        /\ ClockCall(c) /\ videoStep' = "schedule"
    BY <1>6 DEF OnVideoResume
  <2>2. c \in ClockStates /\ ~c.paused /\ Stands(c)
    BY <1>4, ClockResumedIs, StandsResumed
  <2> HIDE DEF c
  <2>3. clock' \in ClockStates /\ Stands(clock') /\ (video.owner => clock' = c)
    BY <2>1, <2>2, ClockCallIs
  <2>4. video' \in Videos /\ ~video'.paused /\ video'.owner = video.owner
    BY <1>4, <2>1 DEF Videos
  <2>5. FrameThere' /\ ChainThere' /\ OwnClock'
    BY <2>1, <2>2, <2>3, <2>4 DEF FrameThere, ChainThere, OwnClock
  <2>. QED  BY <1>1, <1>2, <1>3, <1>4, <1>5, <2>1, <2>3, <2>4, <2>5, VideoInvFrom DEF q
<1>7. CASE ~video.paused
  <2>1. UNCHANGED <<video, clock, videoStep>>
    BY <1>7 DEF OnVideoResume
  <2>2. FrameThere' /\ ChainThere' /\ OwnClock'
    BY <1>1, <1>2, <1>5, <1>7, <2>1 DEF FrameThere, ChainThere, OwnClock, q
  <2>3. Stands(clock')
    BY <2>1
  <2>. QED  BY <1>1, <1>2, <1>3, <1>4, <1>5, <2>1, <2>2, <2>3, VideoInvFrom DEF q
<1>. QED  BY <1>6, <1>7

LEMMA OnVideoPauseKeeps ==
    ASSUME VideoInv, OnVideoPause
    PROVE  VideoInv'
<1> USE DEF VideoInv
<1> DEFINE q == videoMsgs
           c == ClockPaused(clock, now)
<1>1. VideoTakes("pause") /\ Told(FALSE) /\ UNCHANGED <<videoQueue, videoStep, now>>
  BY DEF OnVideoPause
<1>2. /\ videoStep = "none" /\ q # <<>> /\ q[1].op = "pause" /\ q' = Tail(q)
      /\ Tail(q) \in Seq(VideoMessages) /\ InTime(Tail(q))
  BY <1>1, VideoTakeIs
<1>3. NothingAfterNull(Tail(q), NullIn(videoQueue)) /\ EndCleared(Tail(q), NullIn(videoQueue), Closed)
  BY <1>1, <1>2, TakeKeepsEnds DEF Clears
<1>4. now \in Nat /\ now \in Int /\ clock \in ClockStates /\ video \in Videos /\ videoQueue \in Seq(Entries) /\ NullIsLast(videoQueue)
  BY VideoNumbers DEF VideoTypes, EndsOnce
<1>5. videoSeen' \in VideoHistories /\ EndsSame
  BY <1>1, ToldIs
<1>6. c \in ClockStates /\ Stands(c)
  BY <1>4, ClockPausedIs, StandsPaused
<1>7. IF video.paused THEN UNCHANGED <<video, clock>>
      ELSE video' = [video EXCEPT !.paused = TRUE, !.mode = "normal", !.gen = @ + 1] /\ ClockCall(c)
  BY DEF OnVideoPause
<1> HIDE DEF q, c
<1>8. clock' \in ClockStates /\ Stands(clock')
  <2>1. CASE video.paused
    BY <1>4, <1>7, <2>1
  <2>2. CASE ~video.paused
    BY <1>6, <1>7, <2>2, ClockCallIs
  <2>. QED  BY <2>1, <2>2
<1>9. video' \in Videos /\ video'.paused
  <2>1. video.gen + 1 \in Nat
    BY <1>4 DEF Videos
  <2>. QED  BY <1>4, <1>7, <2>1 DEF Videos
<1>10. FrameThere' /\ ChainThere' /\ OwnClock'
  BY <1>1, <1>2, <1>9 DEF FrameThere, ChainThere, OwnClock
<1>. QED  BY <1>1, <1>2, <1>3, <1>4, <1>5, <1>8, <1>9, <1>10, VideoInvFrom DEF q

LEMMA OnVideoFlushKeeps ==
    ASSUME VideoInv, NEW op, OnVideoFlush(op)
    PROVE  VideoInv'
<1> USE DEF VideoInv
<1> DEFINE q == videoMsgs
           c == ClockFlushed(clock)
<1>1. /\ op \in {"flush", "stop"} /\ VideoTakes(op) /\ videoQueue' = <<>> /\ ClockCall(c)
      /\ video' = IF op = "stop"
                  THEN [video EXCEPT !.mode = "normal", !.rate = NormalRate, !.gen = 0, !.paused = TRUE]
                  ELSE [video EXCEPT !.mode = "normal", !.rate = NormalRate, !.gen = @ + 1]
      /\ videoSeen' = [videoSeen EXCEPT !.asked = "none", !.cut = FALSE, !.stopped = @ \/ op = "stop"]
      /\ UNCHANGED <<videoStep, now>>
  BY DEF OnVideoFlush
<1>2. /\ videoStep = "none" /\ q # <<>> /\ q[1].op = op /\ q' = Tail(q)
      /\ Tail(q) \in Seq(VideoMessages) /\ InTime(Tail(q))
  BY <1>1, VideoTakeIs
<1>3. /\ videoQueue' \in Seq(Entries) /\ Len(videoQueue') = 0 /\ ~NullIn(videoQueue') /\ NullIsLast(videoQueue')
  BY <1>1, NothingIn, NothingNull
<1>4. NothingAfterNull(Tail(q), NullIn(videoQueue')) /\ EndCleared(Tail(q), NullIn(videoQueue'), Closed)
  BY <1>1, <1>2, <1>3, TakeKeepsEnds
<1>5. now \in Nat /\ clock \in ClockStates /\ Stands(clock) /\ video \in Videos /\ videoSeen \in VideoHistories
  BY VideoNumbers DEF VideoTypes
<1>6. c \in ClockStates /\ Stands(c) /\ c.paused = clock.paused
  BY <1>5, ClockFlushedIs, StandsElse
<1> HIDE DEF q, c
<1>7. clock' \in ClockStates /\ Stands(clock') /\ clock'.paused = clock.paused
  BY <1>1, <1>6, ClockCallIs
<1>8. /\ video' \in Videos /\ video'.owner = video.owner
      /\ video.paused => video'.paused
  <2>1. video.gen + 1 \in Nat /\ 0 \in Nat /\ NormalRate \in Rates
    BY <1>5 DEF Videos, Rates
  <2>. QED  BY <1>1, <1>5, <2>1 DEF Videos
<1>9. videoSeen' \in VideoHistories /\ EndsSame
  BY <1>1, <1>5 DEF VideoHistories, EndsSame
<1>10. FrameThere' /\ ChainThere' /\ OwnClock'
  BY <1>1, <1>2, <1>3, <1>7, <1>8 DEF FrameThere, ChainThere, OwnClock
<1>. QED  BY <1>1, <1>2, <1>3, <1>4, <1>7, <1>8, <1>9, <1>10, VideoInvFrom DEF q

(* The first frame is gone.                                                *)
LEMMA TailEnds ==
    ASSUME NEW f \in Seq(Entries), f # <<>>, NullIsLast(f)
    PROVE  NullIsLast(Tail(f)) /\ (NullIn(Tail(f)) => NullIn(f))
<1>1. /\ Len(Tail(f)) = Len(f) - 1 /\ Len(f) \in Nat
      /\ \A i \in 1 .. Len(f) - 1 : Tail(f)[i] = f[i + 1]
  BY TailIs, EmptyIs
<1>2. \A i \in 1 .. Len(Tail(f)) : i + 1 \in 1 .. Len(f) /\ Tail(f)[i] = f[i + 1]
  BY <1>1
<1>3. \A i \in 1 .. Len(Tail(f)) : i + 1 = Len(f) => i = Len(Tail(f))
  <2> DEFINE k == Len(f)
             l == Len(Tail(f))
  <2>1. k \in Nat /\ l = k - 1
    BY <1>1
  <2> HIDE DEF k, l
  <2>2. \A i \in 1 .. l : i + 1 = k => i = l
    BY <2>1
  <2>. QED  BY <2>2 DEF k, l
<1>. QED  BY <1>2, <1>3 DEF NullIsLast, NullIn

(* onRenderFrame.                                                          *)
LEMMA RenderNoneKeeps ==
    ASSUME VideoInv, RenderObsolete \/ RenderNull
    PROVE  VideoInv'
<1> USE DEF VideoInv
<1> DEFINE q == videoMsgs
           f == videoQueue
<1>1. VideoTakes("render") /\ UNCHANGED <<videoStep, clock, now>>
  BY DEF RenderObsolete, RenderNull, clockVars
<1>2. /\ videoStep = "none" /\ q # <<>> /\ Head(q) = q[1] /\ q[1].op = "render" /\ q' = Tail(q)
      /\ Tail(q) \in Seq(VideoMessages) /\ InTime(Tail(q))
      /\ LiveIn(q, video.gen) /\ q[1].arg # video.gen => LiveIn(Tail(q), video.gen)
  BY <1>1, VideoTakeIs
<1>3. /\ f \in Seq(Entries) /\ NullIsLast(f) /\ Len(f) \in Nat /\ (f = <<>> <=> Len(f) = 0)
      /\ video \in Videos /\ videoSeen \in VideoHistories /\ clock' \in ClockStates /\ Stands(clock')
  BY <1>1, EmptyIs, VideoNumbers DEF VideoTypes, EndsOnce
<1>4. CASE RenderObsolete
  <2>1. UNCHANGED <<video, videoQueue, videoSeen>> /\ (q[1].arg # video.gen \/ f = <<>>)
    BY <1>2, <1>4 DEF RenderObsolete, clockVars
  <2>2. NothingAfterNull(Tail(q), NullIn(f)) /\ EndCleared(Tail(q), NullIn(f), Closed)
    BY <1>2, TakeKeepsEnds DEF Clears
  <2> HIDE DEF q
  <2>3. FrameThere' /\ ChainThere' /\ OwnClock'
    BY <1>1, <1>2, <1>3, <2>1 DEF FrameThere, ChainThere, OwnClock, q
  <2>4. videoSeen' \in VideoHistories /\ EndsSame
    BY <1>3, <2>1 DEF EndsSame
  <2>. QED  BY <1>1, <1>2, <1>3, <2>1, <2>2, <2>3, <2>4, VideoInvFrom DEF q
<1>5. CASE RenderNull
  <2>1. /\ f # <<>> /\ Head(f).null /\ videoQueue' = Tail(f)
        /\ video' = [PreviewShown(video) EXCEPT !.eosSent = TRUE]
    BY <1>5 DEF RenderNull
  <2>2. /\ Tail(f) \in Seq(Entries) /\ Len(Tail(f)) = Len(f) - 1 /\ Head(f) = f[1] /\ f[1] \in Entries
        /\ \A i \in 1 .. Len(f) - 1 : Tail(f)[i] = f[i + 1]
    BY <1>3, <2>1, TailIs, EmptyIs
  <2> DEFINE x == videoSeen.cut \/ (Head(f).late /\ Len(f) > 1)
  <2>3. /\ videoSeen' \in VideoHistories /\ EndsSame
        /\ videoSeen'.cut = x
    <3>1. x \in BOOLEAN /\ videoSeen' = [videoSeen EXCEPT !.cut = x]
      BY <1>5 DEF RenderNull
    <3> HIDE DEF x
    <3>. QED  BY <1>3, <3>1 DEF VideoHistories, EndsSame
  <2>4. NullIsLast(Tail(f)) /\ (NullIn(Tail(f)) => NullIn(f))
    BY <1>3, <2>1, TailEnds
  <2>5. NothingAfterNull(Tail(q), NullIn(Tail(f))) /\ EndCleared(Tail(q), NullIn(Tail(f)), Closed)
    BY <1>2, <2>4, TakeKeepsEnds DEF Clears
  <2>6. video' \in Videos /\ video'.owner = video.owner /\ video'.paused = video.paused
    <3>1. PreviewShown(video) \in Videos /\ PreviewShown(video).owner = video.owner /\ PreviewShown(video).paused = video.paused
      BY <1>3 DEF PreviewShown, Videos
    <3> DEFINE v == PreviewShown(video)
    <3> HIDE DEF v
    <3>2. v \in Videos /\ v.owner = video.owner /\ v.paused = video.paused /\ video' = [v EXCEPT !.eosSent = TRUE]
      BY <2>1, <3>1 DEF v
    <3>. QED  BY <3>2 DEF Videos
  <2> HIDE DEF q, f
  <2>8. Len(Tail(f)) > 0 => videoSeen'.cut
    <3>1. f[1].late \/ Ends(f[1])
      <4>1. f[1].null
        BY <2>1, <2>2
      <4>. QED  BY <2>2, <4>1, EntryIs
    <3>2. CASE Ends(f[1])
      <4>1. 1 \in 1 .. Len(f)
        BY <1>3, <2>1
      <4>2. Len(f) = 1
        BY <1>3, <3>2, <4>1 DEF NullIsLast
      <4>3. Len(Tail(f)) = Len(f) - 1
        BY <2>2
      <4> DEFINE l == Len(Tail(f))
      <4>4. l = 0
        BY <4>2, <4>3
      <4> HIDE DEF l
      <4>5. ~(l > 0)
        BY <4>4
      <4>. QED  BY <4>5 DEF l
    <3>3. CASE f[1].late /\ Len(Tail(f)) > 0
      <4>1. Len(f) > 1
        BY <1>3, <2>2, <3>3
      <4>. QED  BY <2>2, <2>3, <3>3, <4>1
    <3>. QED  BY <3>1, <3>2, <3>3
  <2>7. FrameThere' /\ ChainThere' /\ OwnClock'
    BY <1>1, <1>2, <2>1, <2>6, <2>8 DEF FrameThere, ChainThere, OwnClock
  <2>. QED  BY <1>1, <1>2, <1>3, <2>1, <2>2, <2>3, <2>4, <2>5, <2>6, <2>7, VideoInvFrom DEF q
<1>. QED  BY <1>4, <1>5

LEMMA CountedIs == ASSUME video \in Videos PROVE Counted \in Nat
<1>1. video.count \in Nat /\ video.count + 1 \in Nat
  BY DEF Videos
<1>. QED  BY <1>1 DEF Counted

LEMMA RenderFrameKeeps ==
    ASSUME VideoInv, RenderFrame
    PROVE  VideoInv'
<1> USE DEF VideoInv
<1> DEFINE q == videoMsgs
           f == videoQueue
           v == IF InSync(Head(f)) THEN PreviewShown(video) ELSE video
<1>1. /\ VideoTakes("render") /\ UNCHANGED <<videoSeen, clock, now>>
      /\ f # <<>> /\ ~Head(f).null /\ videoQueue' = Tail(f) /\ videoStep' = "schedule"
      /\ video' = [v EXCEPT !.count = Counted, !.last = now, !.eosSent = @ \/ Head(f).eos]
  BY DEF RenderFrame, clockVars
<1>2. /\ videoStep = "none" /\ q # <<>> /\ Head(q) = q[1] /\ q[1].op = "render" /\ q' = Tail(q)
      /\ Tail(q) \in Seq(VideoMessages) /\ InTime(Tail(q))
  BY <1>1, VideoTakeIs
<1>3. /\ f \in Seq(Entries) /\ NullIsLast(f) /\ Len(f) \in Nat /\ (f = <<>> <=> Len(f) = 0)
      /\ video \in Videos /\ videoSeen' \in VideoHistories /\ clock' \in ClockStates /\ Stands(clock')
  BY <1>1, EmptyIs, VideoNumbers DEF VideoTypes, EndsOnce
<1>4. /\ Tail(f) \in Seq(Entries) /\ Len(Tail(f)) = Len(f) - 1 /\ Head(f) = f[1] /\ Len(f) > 0
      /\ \A i \in 1 .. Len(f) - 1 : Tail(f)[i] = f[i + 1]
  BY <1>1, <1>3, TailIs
<1>5. NullIsLast(Tail(f)) /\ (NullIn(Tail(f)) => NullIn(f))
  BY <1>1, <1>3, TailEnds
<1>6. NothingAfterNull(Tail(q), NullIn(Tail(f))) /\ EndCleared(Tail(q), NullIn(Tail(f)), Closed)
  BY <1>2, <1>5, TakeKeepsEnds DEF Clears
<1>7. video' \in Videos /\ video'.owner = video.owner /\ video'.paused = video.paused
  <2>1. v \in Videos /\ v.owner = video.owner /\ v.paused = video.paused
    BY <1>3 DEF PreviewShown, Videos
  <2> HIDE DEF v
  <2>2. Counted \in Nat /\ now \in Times
    BY <1>3, CountedIs, VideoNumbers DEF Times
  <2> DEFINE x == v.eosSent \/ Head(f).eos
  <2>3. x \in BOOLEAN /\ video' = [v EXCEPT !.count = Counted, !.last = now, !.eosSent = x]
    BY <1>1
  <2> HIDE DEF x
  <2>. QED  BY <2>1, <2>2, <2>3 DEF Videos
<1>8. FrameThere' /\ ChainThere' /\ OwnClock'
  BY <1>1, <1>7 DEF FrameThere, ChainThere, OwnClock
<1>9. EndsSame
  BY <1>1 DEF EndsSame
<1>. QED  BY <1>1, <1>2, <1>3, <1>4, <1>5, <1>6, <1>7, <1>8, <1>9, VideoInvFrom

LEMMA RenderTooSoonKeeps ==
    ASSUME VideoInv, RenderTooSoon
    PROVE  VideoInv'
<1> USE DEF VideoInv
<1> DEFINE q == videoMsgs
           t == Tail(q)
           b == NullIn(videoQueue)
           n == Posted(t, Render(video.gen, 0))
<1>1. /\ videoStep = "none" /\ q # <<>> /\ Head(q).op = "render"
      /\ videoMsgs' = n /\ video' = [video EXCEPT !.count = Counted]
      /\ UNCHANGED <<videoQueue, videoStep, videoSeen, clock, now>>
  BY DEF RenderTooSoon, clockVars
<1>2. /\ q # <<>> /\ q[1].op = "render" /\ t \in Seq(VideoMessages) /\ InTime(t)
  BY <1>1, VideoTakeIs
<1>3. /\ videoQueue \in Seq(Entries) /\ NullIsLast(videoQueue) /\ video.gen \in Nat /\ now \in Nat
      /\ video \in Videos /\ videoSeen' \in VideoHistories /\ clock' \in ClockStates /\ Stands(clock')
  BY <1>1, VideoNumbers DEF VideoTypes, EndsOnce
<1>4. NothingAfterNull(t, b) /\ EndCleared(t, b, Closed)
  BY <1>2, TakeKeepsEnds DEF Clears
<1> HIDE DEF t
<1>5. b \in BOOLEAN /\ Closed \in BOOLEAN /\ 0 \in Nat
  BY DEF NullIn, Closed
<1>6. /\ n \in Seq(VideoMessages) /\ InTime(n) /\ LiveIn(n, video.gen)
      /\ NothingAfterNull(n, b) /\ EndCleared(n, b, Closed)
  BY <1>2, <1>3, <1>4, <1>5, RenderPosted
<1>7. video' \in Videos /\ video'.owner = video.owner /\ video'.paused = video.paused /\ video'.gen = video.gen
  <2>1. Counted \in Nat
    BY <1>3, CountedIs
  <2>. QED  BY <1>1, <1>3, <2>1 DEF Videos
<1> HIDE DEF n, q
<1>8. FrameThere' /\ ChainThere' /\ OwnClock'
  BY <1>1, <1>6, <1>7 DEF FrameThere, ChainThere, OwnClock
<1>9. b = NullIn(videoQueue') /\ NullIsLast(videoQueue')
  BY <1>1, <1>3
<1> HIDE DEF b
<1>10. EndsSame
  BY <1>1 DEF EndsSame
<1>. QED  BY <1>1, <1>3, <1>6, <1>7, <1>8, <1>9, <1>10, VideoInvFrom

(* scheduleRenderFrame_l: the messages stay, or one to render is posted.   *)
LEMMA ScheduleKeeps ==
    ASSUME VideoInv, ScheduleNot \/ ScheduleNull \/ ScheduleFrame
    PROVE  VideoInv'
<1> USE DEF VideoInv
<1> DEFINE q == videoMsgs
           f == videoQueue
           b == NullIn(f)
           n == Posted(q, Render(video.gen, 0))
<1>1. videoStep = "schedule" /\ UNCHANGED <<video, videoQueue, videoSeen, clock, now>>
  BY DEF ScheduleNot, ScheduleNull, ScheduleFrame, clockVars
<1>2. /\ f \in Seq(Entries) /\ NullIsLast(f) /\ video.gen \in Nat /\ now \in Nat /\ q \in Seq(VideoMessages) /\ InTime(q)
      /\ video' \in Videos /\ videoSeen' \in VideoHistories /\ clock' \in ClockStates /\ Stands(clock')
      /\ b = NullIn(videoQueue') /\ NullIsLast(videoQueue') /\ videoQueue' \in Seq(Entries)
      /\ NothingAfterNull(q, b) /\ EndCleared(q, b, Closed)
  BY <1>1, VideoNumbers DEF VideoTypes, EndsOnce
<1>3. b \in BOOLEAN /\ Closed \in BOOLEAN /\ 0 \in Nat
  BY DEF NullIn, Closed
<1>4. Len(f) \in Nat /\ (f = <<>> <=> Len(f) = 0) /\ (f # <<>> => Head(f) = f[1] /\ Head(f) \in Entries)
  BY <1>2, EmptyIs, TailIs
<1>5. OwnClock' /\ EndsSame
  BY <1>1 DEF OwnClock, EndsSame
<1>6. CASE ScheduleNot
  <2>1. videoMsgs' = q /\ videoStep' = "none" /\ (video.paused \/ f = <<>> \/ video.mode = "previewDone")
    BY <1>6 DEF ScheduleNot
  <2>2. FrameThere' /\ ChainThere'
    BY <1>1, <1>4, <2>1 DEF FrameThere, ChainThere
  <2> HIDE DEF b, q, f
  <2>. QED  BY <1>1, <1>2, <1>5, <2>1, <2>2, VideoInvFrom
<1>7. CASE ScheduleNull
  <2>1. videoMsgs' = n /\ videoStep' = "none"
    BY <1>7 DEF ScheduleNull
  <2>2. /\ n \in Seq(VideoMessages) /\ InTime(n) /\ LiveIn(n, video.gen)
        /\ NothingAfterNull(n, b) /\ EndCleared(n, b, Closed)
    <3> HIDE DEF b, q
    <3>. QED  BY <1>2, <1>3, RenderPosted
  <2> HIDE DEF n
  <2>3. FrameThere' /\ ChainThere'
    BY <1>1, <2>1, <2>2 DEF FrameThere, ChainThere
  <2> HIDE DEF b, q, f
  <2>. QED  BY <1>1, <1>2, <1>5, <2>1, <2>2, <2>3, VideoInvFrom
<1>8. CASE ScheduleFrame
  <2>1. videoMsgs' = q /\ videoStep' \in {"anchor", "post"} /\ ~video.paused /\ f # <<>> /\ ~Head(f).null
    BY <1>8 DEF ScheduleFrame
  <2>2. Len(f) > 0 /\ f[1] \in Frames
    <3>1. f[1] \in Entries /\ ~f[1].null
      BY <1>4, <2>1
    <3>. QED  BY <1>4, <2>1, <3>1, EntryIs
  <2>3. FrameThere' /\ ChainThere'
    BY <1>1, <2>1, <2>2 DEF FrameThere, ChainThere
  <2> HIDE DEF b, q, f
  <2>. QED  BY <1>1, <1>2, <1>5, <2>1, <2>3, VideoInvFrom
<1>. QED  BY <1>6, <1>7, <1>8

LEMMA VideoAnchorsKeeps ==
    ASSUME VideoInv, VideoAnchors
    PROVE  VideoInv' /\ clock'.paused = clock.paused
<1> USE DEF VideoInv
<1> DEFINE f == videoQueue
           p == Head(f).pts
<1>1. /\ videoStep = "anchor" /\ clock' = Anchored(clock, p, now, Unset) /\ videoStep' = "post"
      /\ UNCHANGED <<video, videoQueue, videoMsgs, videoSeen, now>>
  BY DEF VideoAnchors
<1>2. f \in Seq(Entries) /\ Len(f) > 0 /\ f[1] \in Frames /\ ~video.paused
  BY <1>1 DEF FrameThere, VideoTypes
<1>3. p \in Int
  <2>1. f # <<>>
    BY <1>2, EmptyIs
  <2>2. Head(f) = f[1]
    BY <1>2, <2>1, TailIs
  <2>3. \A e \in Frames : e.pts \in Nat
    BY DEF Frames
  <2>. QED  BY <1>2, <2>2, <2>3
<1> HIDE DEF p
<1>4. clock \in ClockStates /\ Stands(clock) /\ now \in Int /\ Unset \in Int
  BY VideoNumbers DEF Unset
<1>5. clock' \in ClockStates /\ clock'.paused = clock.paused /\ Stands(clock')
  BY <1>1, <1>3, <1>4, AnchoredIs, StandsElse
<1>6. FrameThere' /\ ChainThere' /\ OwnClock' /\ EndsSame
  BY <1>1, <1>5 DEF FrameThere, ChainThere, OwnClock, EndsSame
<1>7. /\ NullIsLast(videoQueue') /\ InTime(videoMsgs')
      /\ NothingAfterNull(videoMsgs', NullIn(videoQueue')) /\ EndCleared(videoMsgs', NullIn(videoQueue'), Closed)
      /\ videoQueue' \in Seq(Entries) /\ videoMsgs' \in Seq(VideoMessages) /\ video' \in Videos /\ videoSeen' \in VideoHistories
  BY <1>1 DEF VideoTypes, EndsOnce
<1> HIDE DEF f
<1>8. VideoInv'
  BY <1>1, <1>5, <1>6, <1>7, VideoInvFrom
<1>. QED  BY <1>5, <1>8

LEMMA SchedulePostsKeeps ==
    ASSUME VideoInv, SchedulePosts
    PROVE  VideoInv' /\ clock'.paused = clock.paused
<1> USE DEF VideoInv
<1> DEFINE f == videoQueue
           x == Head(f)
           late == MediaLate(clock, x.pts, now)
           d == IF -FarAhead <= late /\ late <= -Slack THEN -(late + Slack) ELSE 0
           n == Posted(videoMsgs, Render(video.gen, d))
           b == NullIn(f)
<1>1. /\ videoStep = "post" /\ videoStep' = "none" /\ videoMsgs' = n
      /\ clock' = IF video.owner /\ ~x.eos THEN WithMax(clock, x.pts + FarAhead) ELSE clock
      /\ UNCHANGED <<video, videoQueue, videoSeen, now>>
  BY DEF SchedulePosts
<1>2. f \in Seq(Entries) /\ Len(f) > 0 /\ f[1] \in Frames /\ ~video.paused
  BY <1>1 DEF FrameThere, VideoTypes
<1>3. x.pts \in Int /\ x.pts + FarAhead \in Int
  <2>1. f # <<>>
    BY <1>2, EmptyIs
  <2>2. Head(f) = f[1]
    BY <1>2, <2>1, TailIs
  <2>3. \A e \in Frames : e.pts \in Nat
    BY DEF Frames
  <2>4. x.pts \in Nat
    BY <1>2, <2>2, <2>3
  <2>. QED  BY <2>4, VideoAssumption
<1> HIDE DEF x
<1>4. /\ clock \in ClockStates /\ Stands(clock) /\ now \in Int /\ now \in Nat /\ video.gen \in Nat
      /\ videoMsgs \in Seq(VideoMessages) /\ InTime(videoMsgs)
      /\ NothingAfterNull(videoMsgs, b) /\ EndCleared(videoMsgs, b, Closed)
      /\ b \in BOOLEAN /\ Closed \in BOOLEAN
  BY VideoNumbers DEF VideoTypes, EndsOnce, Closed
<1>5. late \in Int
  BY <1>3, <1>4, MediaLateIs
<1> HIDE DEF late
<1>6. d \in Nat
  BY <1>5, VideoAssumption
<1> HIDE DEF d, b
<1>7. /\ n \in Seq(VideoMessages) /\ InTime(n) /\ LiveIn(n, video.gen)
      /\ NothingAfterNull(n, b) /\ EndCleared(n, b, Closed)
  BY <1>4, <1>6, RenderPosted
<1> HIDE DEF n
<1>8. clock' \in ClockStates /\ clock'.paused = clock.paused /\ Stands(clock')
  <2>1. CASE video.owner
    <3>1. ~clock.paused
      BY <1>2, <2>1 DEF OwnClock
    <3>. QED  BY <1>1, <1>3, <1>4, <3>1, WithMaxIs, StandsElse
  <2>2. CASE ~video.owner
    BY <1>1, <1>4, <2>2
  <2>. QED  BY <2>1, <2>2
<1>9. FrameThere' /\ ChainThere' /\ OwnClock' /\ EndsSame
  BY <1>1, <1>7, <1>8 DEF FrameThere, ChainThere, OwnClock, EndsSame
<1>10. /\ NullIsLast(videoQueue') /\ NullIn(videoQueue') = b /\ videoQueue' \in Seq(Entries)
       /\ video' \in Videos /\ videoSeen' \in VideoHistories
  BY <1>1 DEF VideoTypes, EndsOnce, b
<1> HIDE DEF f
<1>11. VideoInv'
  BY <1>1, <1>7, <1>8, <1>9, <1>10, VideoInvFrom
<1>. QED  BY <1>8, <1>11

LEMMA VideoThreadKeeps ==
    ASSUME VideoInv, VideoThread
    PROVE  VideoInv'
<1>1. CASE OnVideoWrite
  BY <1>1, OnVideoWriteKeeps
<1>2. CASE OnVideoPause
  BY <1>2, OnVideoPauseKeeps
<1>3. CASE \E op \in VideoOps : OnVideoResume(op) \/ OnVideoFlush(op)
  BY <1>3, OnVideoResumeKeeps, OnVideoFlushKeeps
<1>4. CASE ScheduleNot \/ ScheduleNull \/ ScheduleFrame
  BY <1>4, ScheduleKeeps
<1>5. CASE VideoAnchors
  BY <1>5, VideoAnchorsKeeps
<1>6. CASE SchedulePosts
  BY <1>6, SchedulePostsKeeps
<1>7. CASE RenderObsolete \/ RenderNull
  BY <1>7, RenderNoneKeeps
<1>8. CASE RenderFrame
  BY <1>8, RenderFrameKeeps
<1>9. CASE RenderTooSoon
  BY <1>9, RenderTooSoonKeeps
<1>. QED  BY <1>1, <1>2, <1>3, <1>4, <1>5, <1>6, <1>7, <1>8, <1>9 DEF VideoThread

LEMMA VideoStep ==
    ASSUME VideoInv, VideoNext
    PROVE  VideoInv'
<1>1. CASE \E eos \in BOOLEAN : VideoWrite(eos)
  BY <1>1, VideoWriteKeeps
<1>2. CASE \E op \in VideoOps : VideoCommand(op)
  BY <1>2, VideoCommandKeeps
<1>3. CASE \E rate \in VideoRates : VideoRate(rate)
  BY <1>3, VideoRateKeeps
<1>4. CASE SetPreview \/ AudioMoves \/ Tick
  BY <1>4, VideoOthersKeep
<1>5. CASE VideoThread
  BY <1>5, VideoThreadKeeps
<1>6. CASE VideoWriteNull \/ DecoderAnew
  BY <1>6, VideoWriteNullKeeps, DecoderAnewKeeps
<1>. QED  BY <1>1, <1>2, <1>3, <1>4, <1>5, <1>6 DEF VideoNext

LEMMA VideoStutters ==
    ASSUME VideoInv, UNCHANGED videoVars
    PROVE  VideoInv'
<1>1. UNCHANGED <<video, videoQueue, videoMsgs, videoStep, videoSeen, clock, now>>
  BY DEF videoVars
<1>2. VideoTypes'
  BY <1>1 DEF VideoInv, VideoTypes
<1>3. InTime(videoMsgs)' /\ EndsOnce'
  BY <1>1 DEF VideoInv, InTime, EndsOnce, Closed, NullIn, NullIsLast
<1>4. FrameThere' /\ ChainThere' /\ Stands(clock)' /\ OwnClock'
  BY <1>1 DEF VideoInv, FrameThere, ChainThere, Stands, OwnClock
<1>. QED  BY <1>2, <1>3, <1>4 DEF VideoInv

LEMMA VideoStarts ==
    ASSUME VideoInit
    PROVE  VideoInv
<1>1. PICK owner \in BOOLEAN :
         video = [paused |-> TRUE, gen |-> 0, mode |-> "normal", count |-> 0,
                  eosSent |-> FALSE, last |-> Unset, rate |-> NormalRate,
                  clockRate |-> NormalRate, owner |-> owner]
  BY DEF VideoInit
<1>2. /\ videoQueue = <<>> /\ videoMsgs = <<>> /\ videoStep = "none"
      /\ videoSeen = [asked |-> "none", commands |-> 0, frames |-> 0, ended |-> FALSE,
                    half |-> FALSE, old |-> FALSE, cut |-> FALSE, stopped |-> FALSE]
      /\ clock = NewClock /\ now = 1
  BY DEF VideoInit
<1>3. video \in Videos /\ video.paused
  <2>1. NormalRate \in Rates /\ Unset \in Times
    BY DEF Rates, Times, Unset
  <2>. QED  BY <1>1, <2>1 DEF Videos
<1>4. /\ videoQueue \in Seq(Entries) /\ Len(videoQueue) = 0
      /\ videoMsgs \in Seq(VideoMessages) /\ Len(videoMsgs) = 0
  BY <1>2, NothingIn
<1>5. videoSeen \in VideoHistories
  BY <1>2 DEF VideoHistories
<1>6. clock \in ClockStates /\ ~clock.paused
  BY <1>2, NewClockIs
<1>7. VideoTypes
  <2>1. now \in 0 .. MaxNow
    BY <1>2, VideoAssumption
  <2>. QED  BY <1>2, <1>3, <1>4, <1>5, <1>6, <2>1 DEF VideoTypes
<1>8. InTime(videoMsgs)
  BY <1>4 DEF InTime
<1>9. EndsOnce
  <2>1. ~NullIn(videoQueue) /\ NullIsLast(videoQueue)
    BY <1>4, NothingNull
  <2>2. NothingAfterNull(videoMsgs, NullIn(videoQueue)) /\ EndCleared(videoMsgs, NullIn(videoQueue), Closed)
    BY <1>4, <2>1 DEF NothingAfterNull, EndCleared, NullAt
  <2>. QED  BY <1>2, <2>1, <2>2 DEF EndsOnce
<1>10. FrameThere /\ ChainThere /\ Stands(clock) /\ OwnClock
  BY <1>2, <1>3, <1>6 DEF FrameThere, ChainThere, Stands, OwnClock
<1>. QED  BY <1>7, <1>8, <1>9, <1>10 DEF VideoInv

LEMMA VideoAlways == VideoSpec => []VideoInv
<1>1. VideoInit => VideoInv
  BY VideoStarts
<1>2. VideoInv /\ [VideoNext]_videoVars => VideoInv'
  BY VideoStep, VideoStutters
<1>. QED  BY <1>1, <1>2, PTL DEF VideoSpec

(* The video sink's queues, its clock and the section of its handler keep   *)
(* their types.                                                            *)
THEOREM VideoStateTypes == VideoSpec => []VideoTypeOK
<1>1. VideoInv => VideoTypeOK
  BY VideoInvGives
<1>. QED  BY <1>1, VideoAlways, PTL

(* The chain of render messages breaks only behind the NULL of an old end   *)
(* of stream, left in the queue because it was written after the flush or   *)
(* stop it should have gone with.  In every other behaviour, with any       *)
(* number of writes, pauses, resumes, flushes, stops and rates, a message   *)
(* that counts is on its way while the sink plays and has a frame.  The     *)
(* invariant that shows it is EndsOnce: nothing is written behind a NULL    *)
(* that is not old, but for a flush or stop in between.                    *)
THEOREM VideoChainAlive == VideoSpec => []ChainAlive
<1>1. VideoInv => ChainAlive
  BY VideoInvGives
<1>. QED  BY <1>1, VideoAlways, PTL

(* The steps that pause or resume the clock are the clock's own methods.    *)
LEMMA WhoPauses ==
    ASSUME VideoInv, VideoNext, clock'.paused # clock.paused
    PROVE  now' = now /\ (clock' = ClockPaused(clock, now) \/ clock' = ClockResumed(clock, now))
<1> DEFINE Goal == now' = now /\ (clock' = ClockPaused(clock, now) \/ clock' = ClockResumed(clock, now))
<1>1. clock \in ClockStates
  BY VideoNumbers DEF VideoInv
<1>2. CASE OnVideoPause
  BY <1>2 DEF OnVideoPause, ClockCall
<1>3. CASE \E op \in VideoOps : OnVideoResume(op)
  BY <1>3 DEF OnVideoResume, ClockCall
<1>4. CASE AudioMoves
  <2>1. now' = now
    BY <1>4 DEF AudioMoves
  <2>. QED  BY <1>4, <2>1, AudioMovesIs
<1>5. CASE \E op \in VideoOps : OnVideoFlush(op)
  <2>1. clock' = clock \/ clock' = ClockFlushed(clock)
    BY <1>5 DEF OnVideoFlush, ClockCall
  <2>. QED  BY <1>1, <2>1, ClockFlushedIs
<1>6. CASE \E rate \in VideoRates : VideoRate(rate)
  <2>1. PICK rate \in VideoRates : clock' = clock \/ clock' = RateSet(clock, rate)
    BY <1>6 DEF VideoRate
  <2>2. rate \in Nat \ {0}
    BY VideoAssumption
  <2>. QED  BY <1>1, <2>1, <2>2, RateSetIs
<1>7. CASE VideoAnchors
  BY <1>7, VideoAnchorsKeeps
<1>8. CASE SchedulePosts
  BY <1>8, SchedulePostsKeeps
<1>9. CASE (\E eos \in BOOLEAN : VideoWrite(eos)) \/ VideoWriteNull \/ DecoderAnew
  BY <1>9 DEF VideoWrite, VideoWriteNull, DecoderAnew, clockVars
<1>10. CASE \E op \in VideoOps : VideoCommand(op)
  BY <1>10 DEF VideoCommand, clockVars
<1>11. CASE SetPreview \/ Tick \/ OnVideoWrite
  BY <1>11 DEF SetPreview, Tick, OnVideoWrite, clockVars
<1>12. CASE ScheduleNot \/ ScheduleNull \/ ScheduleFrame
  BY <1>12 DEF ScheduleNot, ScheduleNull, ScheduleFrame, clockVars
<1>13. CASE RenderObsolete \/ RenderNull \/ RenderFrame \/ RenderTooSoon
  BY <1>13 DEF RenderObsolete, RenderNull, RenderFrame, RenderTooSoon, clockVars
<1>14. VideoThread =>
         \/ OnVideoWrite \/ OnVideoPause
         \/ \E op \in VideoOps : OnVideoResume(op)
         \/ \E op \in VideoOps : OnVideoFlush(op)
         \/ ScheduleNot \/ ScheduleNull \/ ScheduleFrame \/ VideoAnchors \/ SchedulePosts
         \/ RenderObsolete \/ RenderNull \/ RenderFrame \/ RenderTooSoon
  BY DEF VideoThread
<1>. QED  BY <1>2, <1>3, <1>4, <1>5, <1>6, <1>7, <1>8, <1>9, <1>10, <1>11, <1>12, <1>13, <1>14 DEF VideoNext

(* Neither a pause nor a resume of the clock moves the position the player  *)
(* reports, but for a position held back at the bound, which a resume lets  *)
(* go.  The invariant that shows it is Stands.                              *)
THEOREM VideoPositionSteady == VideoSpec => PositionSteady
<1> DEFINE Steady ==
      clock.paused # clock'.paused =>
        LET before == Position(clock, now)
            after  == Position(clock', now)
        IN \/ after = before
           \/ 0 <= clock.max /\ clock.max <= before /\ before < after
<1>1. VideoInv /\ [VideoNext]_videoVars => [Steady]_videoVars
  <2> SUFFICES ASSUME VideoInv, VideoNext, clock.paused # clock'.paused PROVE Steady
    OBVIOUS
  <2>1. clock' = ClockPaused(clock, now) \/ clock' = ClockResumed(clock, now)
    BY WhoPauses
  <2>2. clock \in ClockStates /\ now \in Nat /\ now \in Int /\ Stands(clock) /\ clock.paused \in BOOLEAN
    BY VideoNumbers DEF VideoInv, ClockStates
  <2>3. CASE clock' = ClockPaused(clock, now)
    <3>1. clock'.paused /\ (clock.paused => clock' = clock)
      BY <2>2, <2>3, ClockPausedIs
    <3>2. ~clock.paused
      BY <3>1
    <3>3. Position(clock', now) = Position(clock, now)
      BY <2>2, <2>3, <3>2, StandsPaused
    <3>. QED  BY <3>3
  <2>4. CASE clock' = ClockResumed(clock, now)
    <3>1. ~clock'.paused /\ (~clock.paused => clock' = clock)
      BY <2>2, <2>4, ClockResumedIs
    <3>2. clock.paused
      BY <3>1
    <3>. QED  BY <2>2, <2>4, <3>2, StandsResumed
  <2>. QED  BY <2>1, <2>3, <2>4
<1>2. [][Steady]_videoVars => PositionSteady
  BY DEF PositionSteady
<1>. QED  BY <1>1, <1>2, VideoAlways, PTL DEF VideoSpec

=============================================================================
