-------------------------------- MODULE Delay --------------------------------
(***************************************************************************)
(* platform_mcycle reads the 64-bit cycle counter as two halves, low half   *)
(* first; SystemCapsule::syscall_delay_us spins until the difference of two *)
(* such readings has reached the delay, in 64-bit arithmetic.  The counter  *)
(* runs on between the instructions, so a carry out of the low half can     *)
(* come between the two reads.                                              *)
(***************************************************************************)
EXTENDS Integers

CONSTANTS Half,          \* values of half a counter (2^32)
          CyclesToWait,  \* values of cycles_to_wait
          MaxStep        \* bound: cycles an instruction may take

\* us * 100 is below 2^39, far from the range of the counter.
ASSUME DelayAssumption ==
    /\ Half \in Nat \ {0, 1} /\ MaxStep \in 1..(Half - 1)
    /\ CyclesToWait \subseteq 0..(Half * Half - 2 * Half)

VARIABLES
    cycle,      \* mcycleh and mcycle
    delayPc,    \* "none", "low" or "high": the half read next
    low,        \* mcycle_low
    reading,    \* what the reading is for: "time", "start" or "poll"
    start,      \* start
    wait,       \* cycles_to_wait
    elapsed,    \* ghost: cycles since syscall_delay_us was called, up to a cap
    torn,       \* ghost: a carry came between two halves in this call
    finished    \* ghost: the last call was a delay, and has returned

delayVars == <<cycle, delayPc, low, reading, start, wait, elapsed, torn, finished>>

Full == Half * Half
Cap  == Full    \* the ghost stops counting here, beyond every delay

DelayTypeOK ==
    /\ cycle \in 0..(Full - 1) /\ start \in 0..(Full - 1)
    /\ low \in 0..(Half - 1)
    /\ delayPc \in {"none", "low", "high"}
    /\ reading \in {"time", "start", "poll"}
    /\ wait \in CyclesToWait \cup {0} /\ elapsed \in 0..Cap
    /\ {torn, finished} \subseteq BOOLEAN

\* The counter has been running since reset.
DelayInit ==
    /\ cycle \in 0..(Full - 1)
    /\ delayPc = "none" /\ low = 0 /\ reading = "time" /\ start = 0 /\ wait = 0
    /\ elapsed = 0 /\ torn = FALSE /\ finished = FALSE

----------------------------------------------------------------------------

\* Any instruction takes some cycles.
Pass(d) ==
    /\ cycle' = (cycle + d) % Full
    /\ elapsed' = IF elapsed + d > Cap THEN Cap ELSE elapsed + d

syscall_get_time ==
    /\ delayPc = "none"
    /\ delayPc' = "low" /\ reading' = "time"
    /\ torn' = FALSE /\ finished' = FALSE /\ elapsed' = 0
    /\ UNCHANGED <<cycle, low, start, wait>>

syscall_delay_us(w) ==
    /\ delayPc = "none"
    /\ delayPc' = "low" /\ reading' = "start" /\ wait' = w
    /\ torn' = FALSE /\ finished' = FALSE /\ elapsed' = 0
    /\ UNCHANGED <<cycle, low, start>>

ReadLow(d) ==
    /\ delayPc = "low"
    /\ low' = cycle % Half /\ delayPc' = "high"
    /\ torn' = (torn \/ (cycle % Half) + d >= Half)
    /\ Pass(d)
    /\ UNCHANGED <<reading, start, wait, finished>>

\* mcycle() - start < cycles_to_wait, in unsigned arithmetic.
DelayOver(now) == (now - start) % Full >= wait

ReadHigh(d) ==
    LET now == (cycle \div Half) * Half + low IN
    /\ delayPc = "high"
    /\ start' = IF reading = "start" THEN now ELSE start
    /\ reading' = IF reading = "start" THEN "poll" ELSE reading
    /\ delayPc' = IF reading = "time" \/ (reading = "poll" /\ DelayOver(now))
                  THEN "none" ELSE "low"
    /\ finished' = (reading = "poll" /\ DelayOver(now))
    /\ Pass(d)
    /\ UNCHANGED <<low, wait, torn>>

DelayStep == \E d \in 1..MaxStep : ReadLow(d) \/ ReadHigh(d)

DelayNext ==
    \/ syscall_get_time
    \/ \E w \in CyclesToWait : syscall_delay_us(w)
    \/ DelayStep

\* The MCU goes on executing.
DelaySpec == DelayInit /\ [][DelayNext]_delayVars /\ WF_delayVars(DelayStep)

----------------------------------------------------------------------------
\* Properties.

\* "Delay for specified microseconds": when the call returns, that time has
\* passed.  False, because a carry between the halves of a reading makes it
\* wrong by half the range of the counter.
DelayNotShort == finished => elapsed >= wait

\* A delay ends, whatever its readings: no poll can miss the whole range of
\* differences that end it.
DelayEnds == (delayPc # "none") ~> (delayPc = "none")
=============================================================================
