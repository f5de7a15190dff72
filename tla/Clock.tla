------------------------------- MODULE Clock -------------------------------
(***************************************************************************)
(* The media clock that the sinks of a player share (cow/src/clock.cc) and  *)
(* the wrapper through which each of them uses it (clock_wrapper.cc).       *)
(*                                                                         *)
(* The clock is a value: the members of class Clock in one record, and one  *)
(* operator per method, each of which is a critical section of its mLock.   *)
(* VideoSink and AudioSink hold the clock in the variable `clock'.          *)
(*                                                                         *)
(* Times are in one unit, positions in the same; -1 is "unset" as in the    *)
(* code.  `now' is CLOCK_MONOTONIC.                                         *)
(***************************************************************************)
EXTENDS Integers

CONSTANT NormalRate     \* SCALED_PLAY_RATE: the play rate 1.0

ASSUME ClockAssumption == NormalRate \in Nat \ {0}

VARIABLES
    clock,              \* the shared Clock
    now                 \* the time

clockVars == <<clock, now>>

Unset == -1

Times == Int

ClockStates ==
    [media : Times,      \* mAnchorTimeMediaUs
     real : Times,       \* mAnchorTimeRealUs
     max : Times,        \* mAnchorTimeMaxUs
     pausedAt : Times,   \* mPauseStartedTimeRealUs
     paused : BOOLEAN,   \* mPaused
     pausePos : Times,   \* mPausePositionMediaTimeUs
     rate : Nat \ {0}]   \* mScaledPlayRate

NewClock ==
    [media |-> Unset, real |-> Unset, max |-> Unset, pausedAt |-> Unset,
     paused |-> FALSE, pausePos |-> Unset, rate |-> NormalRate]

-----------------------------------------------------------------------------
(* C++ division: towards zero.                                             *)
Quotient(a, b) == IF a >= 0 THEN a \div b ELSE -((-a) \div b)

HasAnchor(c) == c.media >= 0

(* setAnchorTime_l.                                                        *)
WithAnchor(c, media, real, max) ==
    [c EXCEPT !.media = media, !.real = real, !.max = max]

(* setAnchorTime: refused while the clock is paused.                       *)
Anchored(c, media, real, max) ==
    IF c.paused THEN c ELSE WithAnchor(c, media, real, max)

WithMax(c, max) == [c EXCEPT !.max = max]

(* getCurrentPositionFromAnchor_l, of a clock that has an anchor.          *)
FromAnchor(c, t) ==
    LET position == t - c.real + c.media
        held     == IF c.max >= 0 /\ ~c.paused /\ position > c.max THEN c.max ELSE position
    IN IF held <= 0 THEN 0 ELSE held

(* getCurrentPosition: Unset stands for its error.                         *)
Position(c, t) ==
    IF c.paused /\ c.pausePos >= 0 THEN c.pausePos
    ELSE IF HasAnchor(c) THEN FromAnchor(c, t)
    ELSE Unset

(* getMediaLateUs: how late a frame is; 0 when the clock cannot say.       *)
MediaLate(c, pts, t) ==
    IF c.paused \/ ~HasAnchor(c) THEN 0
    ELSE (t - c.real) - Quotient((pts - c.media) * NormalRate, c.rate)

ClockFlushed(c) ==
    [WithAnchor(c, Unset, Unset, Unset) EXCEPT !.pausedAt = Unset, !.pausePos = Unset]

RateSet(c, rate) == IF c.rate = rate THEN c ELSE ClockFlushed([c EXCEPT !.rate = rate])

ClockPaused(c, t) ==
    IF c.paused THEN c
    ELSE [c EXCEPT !.pausePos = IF HasAnchor(c) THEN FromAnchor(c, t) ELSE Unset,
                   !.pausedAt = t,
                   !.paused = TRUE]

ClockResumed_NoShift(c, t) ==
    IF c.paused THEN [c EXCEPT !.paused = FALSE, !.pausedAt = Unset, !.pausePos = Unset] ELSE c

(* resume: the anchor moves by the length of the pause, unless a flush has  *)
(* forgotten when the pause began.  The bound of the position is lost.      *)
ClockResumed(c, t) ==
    IF ~c.paused THEN c
    ELSE IF c.pausedAt = Unset THEN [c EXCEPT !.paused = FALSE]
    ELSE [WithAnchor(c, c.media, c.real + t - c.pausedAt, Unset)
            EXCEPT !.paused = FALSE, !.pausedAt = Unset, !.pausePos = Unset]

-----------------------------------------------------------------------------
(* ClockWrapper: the audio sink's is the owner of the clock; a video sink's *)
(* is the owner only without an audio sink (setClock takes that away).      *)
(* Which of pause, resume and flush reach the clock:                        *)
Drives(isVideo, isOwner, rate) == isOwner \/ (isVideo /\ rate # NormalRate)

=============================================================================
