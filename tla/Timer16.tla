------------------------------- MODULE Timer16 -------------------------------
(***************************************************************************)
(* The time base of the chips without a 32-bit timer, of                   *)
(* src/src/stm32/stm32f0_timer.c: a 16-bit counter whose compare interrupt *)
(* comes twice a period and keeps the high bits in timer_high, read by     *)
(* timer_read_time() in two accesses.                                      *)
(*                                                                         *)
(* The counter has 2 * HalfPeriod values (HalfPeriod is 0x8000), a time    *)
(* has TimeWrap (2^32).  The erase of the page the code runs from stalls   *)
(* the processor, and with it the interrupt, for longer than a period.     *)
(***************************************************************************)
EXTENDS Integers

CONSTANTS HalfPeriod, TimeWrap,
          MaxLatency,           \* ticks an interrupt may wait for its turn
          MaxGap,               \* ticks between the two accesses of a read
          StallTicks,           \* lengths of stalls
          MaxStalls, MaxTime    \* bounds: stalls, and ticks since timer_setup()

ASSUME Timer16Assumption ==
    /\ HalfPeriod \in Nat \ {0} /\ TimeWrap \in Nat \ {0} /\ TimeWrap % (2 * HalfPeriod) = 0
    /\ MaxLatency \in Nat /\ MaxGap \in Nat /\ MaxLatency + MaxGap < HalfPeriod
    /\ StallTicks \subseteq Nat /\ MaxStalls \in Nat /\ MaxTime \in Nat

Period == 2 * HalfPeriod
NotRead == -1

VARIABLES CNT, CCR1, CC1IF,     \* the counter, its compare value, the interrupt flag
          timer_high,
          th,                   \* timer_read_time()'s copy of it, or NotRead
          ticks,                \* true time
          waited, since,        \* ticks the interrupt waits, and since th was read
          reading, read_at,     \* history: the last result, and its true time
          stalls, stalled       \* history: stalls, and the ticks in them

tvars == <<CNT, CCR1, CC1IF, timer_high, th, ticks, waited, since, reading, read_at,
           stalls, stalled>>

\* timer_setup()
T16Init == /\ CNT = 0 /\ CCR1 = HalfPeriod /\ CC1IF = FALSE
           /\ timer_high = 0 /\ th = NotRead
           /\ ticks = 0 /\ waited = 0 /\ since = 0
           /\ reading = 0 /\ read_at = 0
           /\ stalls = 0 /\ stalled = 0

\* n ticks pass.
Advance(n) == /\ ticks + n <= MaxTime
              /\ ticks' = ticks + n
              /\ CNT' = (CNT + n) % Period
              /\ CC1IF' = (CC1IF \/ \E k \in 1 .. n : (CNT + k) % Period = CCR1)
              /\ UNCHANGED <<CCR1, timer_high, th, reading, read_at>>

RunTick == /\ CC1IF => waited < MaxLatency
           /\ th # NotRead => since < MaxGap
           /\ Advance(1)
           /\ waited' = IF CC1IF THEN waited + 1 ELSE 0
           /\ since' = IF th = NotRead THEN 0 ELSE since + 1
           /\ UNCHANGED <<stalls, stalled>>

\* flash_write_block() erases or programs; timer_read_time() is not running, and
\* the interrupt is served first when the processor is released.
Stall(n) == /\ stalls < MaxStalls /\ th = NotRead
            /\ Advance(n)
            /\ waited' = MaxLatency
            /\ stalls' = stalls + 1 /\ stalled' = stalled + n
            /\ UNCHANGED since

\* TIMx_IRQHandler()
next_match_off(high) == high % Period
next_match(high) == (high + HalfPeriod) % Period
TIMx_IRQHandler == /\ CC1IF
                   /\ timer_high' = (timer_high + HalfPeriod) % TimeWrap
                   /\ CCR1' = next_match(timer_high')
                   /\ CC1IF' = FALSE
                   /\ waited' = 0
                   /\ UNCHANGED <<CNT, th, ticks, since, reading, read_at, stalls, stalled>>

\* (high ^ cur) + (high & 0xffff), where high is a multiple of HalfPeriod.
Combined_plain(high, cur) == ((high \div Period) * Period + cur) % TimeWrap
Combined(high, cur) ==
    LET low == high % Period
        xor == IF low = 0 THEN cur ELSE (cur + HalfPeriod) % Period
    IN ((high - low) + xor + low) % TimeWrap

ReadHigh == /\ th = NotRead
            /\ th' = timer_high
            /\ since' = 0
            /\ UNCHANGED <<CNT, CCR1, CC1IF, timer_high, ticks, waited, reading, read_at,
                           stalls, stalled>>

ReadCount == /\ th # NotRead
             /\ reading' = Combined(th, CNT)
             /\ read_at' = ticks
             /\ th' = NotRead
             /\ UNCHANGED <<CNT, CCR1, CC1IF, timer_high, ticks, waited, since, stalls, stalled>>

timer_read_time == ReadHigh \/ ReadCount

T16Next == \/ RunTick \/ TIMx_IRQHandler \/ timer_read_time
           \/ \E n \in StallTicks : Stall(n)

-----------------------------------------------------------------------------
(* Properties.                                                             *)

\* As long as the interrupt is served within half a period, less the time a
\* read takes, every reading is the true time at the access to the counter,
\* though a roll-over and its interrupt fall between the two accesses or the
\* interrupt still waits.  An erase swallows interrupts: from then on readings
\* lag, by no more than the stalls and one period each, and are never ahead of
\* the true time, so that a timeout may be late but never early.
TimeNeverAhead == (read_at - reading) % TimeWrap <= stalled + stalls * Period
=============================================================================
