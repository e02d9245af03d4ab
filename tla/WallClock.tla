------------------------------ MODULE WallClock ------------------------------
(***************************************************************************)
(* PreLab4, Part3.c: a clock that counts SIGALRM.  A signal that comes     *)
(* while one is pending is merged with it, and the handler runs to its end *)
(* before the next one is delivered.                                       *)
(***************************************************************************)
EXTENDS Integers

CONSTANTS START, INTERVAL, USEC_IN_SEC, STOPTICK,  \* as in the program
          SIXTY,                                   \* 60
          MaxMerged                                \* bound: signals merged

ASSUME ClockAssumption ==
  /\ {START, INTERVAL, USEC_IN_SEC, STOPTICK} \subseteq Nat \ {0}
  /\ SIXTY \in Nat \ {0, 1} /\ MaxMerged \in Nat
  /\ START < USEC_IN_SEC /\ INTERVAL <= USEC_IN_SEC

VARIABLES clock,         \* hh, mm, ss and uss
          tick, timerStarted,
          elapsed,       \* real time at the last expiry of the timer
          pending,       \* SIGALRM is pending
          merged,        \* how many were merged
          running        \* FALSE after exit()

clockVars == <<clock, tick, timerStarted, elapsed, pending, merged, running>>

ClockInit ==
  /\ clock = [hh |-> 0, mm |-> 0, ss |-> 0, uss |-> 0]
  /\ tick = 0 /\ timerStarted = FALSE
  /\ elapsed = 0 /\ pending = FALSE /\ merged = 0 /\ running = TRUE

\* setitimer(): the first expiry, and the ones after it.
Expire ==
  /\ running /\ (pending => merged < MaxMerged)
  /\ elapsed' = IF elapsed = 0 THEN START ELSE elapsed + INTERVAL
  /\ merged' = IF pending THEN merged + 1 ELSE merged
  /\ pending' = TRUE
  /\ UNCHANGED <<clock, tick, timerStarted, running>>

\* Faulty variant: the minutes are not carried into the hours.
AdvancedWithoutHours(c) ==
  LET uss == c.uss + INTERVAL
      ss == c.ss + uss \div USEC_IN_SEC
  IN  [hh |-> c.hh, mm |-> (c.mm + ss \div SIXTY) % SIXTY, ss |-> ss % SIXTY,
       uss |-> uss % USEC_IN_SEC]
Advanced(c) ==
  LET uss == c.uss + INTERVAL
      ss == c.ss + uss \div USEC_IN_SEC
      mm == c.mm + ss \div SIXTY
  IN  [hh |-> c.hh + mm \div SIXTY, mm |-> mm % SIXTY, ss |-> ss % SIXTY,
       uss |-> uss % USEC_IN_SEC]

\* timer_handler()
TimerHandler ==
  /\ running /\ pending
  /\ pending' = FALSE
  /\ clock' = IF timerStarted THEN Advanced(clock) ELSE [clock EXCEPT !.uss = START]
  /\ timerStarted' = TRUE
  /\ tick' = IF clock'.ss # clock.ss THEN tick + 1 ELSE tick
  /\ running' = (tick' < STOPTICK)
  /\ UNCHANGED <<elapsed, merged>>

ClockNext == Expire \/ TimerHandler
=============================================================================
