------------------------------- MODULE Time -------------------------------
(***************************************************************************)
(* The timers of all components: crm_time_add_ms() computes a deadline in  *)
(* seconds and nanoseconds from the clock, crm_time_get_remain_ms() what   *)
(* remains of it.  The units are constants, 1000 ms and 1000000 ns in the  *)
(* code.                                                                   *)
(***************************************************************************)
EXTENDS Integers

CONSTANTS
    MS,        \* milliseconds of a second
    NS,        \* nanoseconds of a millisecond
    MaxDelay,  \* bound on the delay of a timer, in milliseconds
    MaxClock   \* bound on the clock, in seconds, or -1

ASSUME UnitAssumption == /\ MS \in Nat \ {0} /\ NS \in Nat \ {0}
                         /\ MaxDelay \in Nat /\ MaxClock \in Int

VARIABLES
    current,   \* CLOCK_BOOTTIME
    timer_end, \* the deadline
    due        \* the instant it stands for, in nanoseconds

timeVars == <<current, timer_end, due>>

Ns(t) == (t.tv_sec * MS) * NS + t.tv_nsec

TimeInit == /\ current = [tv_sec |-> 0, tv_nsec |-> 0] /\ timer_end = current
            /\ due = 0

crm_time_add_ms(t, ms) ==
    LET sec == t.tv_sec + ms \div MS
        ns  == t.tv_nsec + (ms % MS) * NS
    IN  IF ns > MS * NS THEN [tv_sec |-> sec + 1, tv_nsec |-> ns - MS * NS]
                        ELSE [tv_sec |-> sec, tv_nsec |-> ns]

\* The division of C, by NS.
PerNs(n) == IF n >= 0 THEN n \div NS ELSE -((-n) \div NS)

\* Mutant: nanoseconds are compared whatever the seconds.
crm_time_get_remain_ms_Any(t) ==
    IF current.tv_sec > t.tv_sec \/ current.tv_nsec > t.tv_nsec THEN 0
    ELSE (t.tv_sec - current.tv_sec) * MS + PerNs(t.tv_nsec - current.tv_nsec)

crm_time_get_remain_ms(t) ==
    IF \/ current.tv_sec > t.tv_sec
       \/ current.tv_sec = t.tv_sec /\ current.tv_nsec > t.tv_nsec THEN 0
    ELSE (t.tv_sec - current.tv_sec) * MS + PerNs(t.tv_nsec - current.tv_nsec)

Arm == /\ \E ms \in 0 .. MaxDelay :
             /\ timer_end' = crm_time_add_ms(current, ms)
             /\ due' = Ns(current) + ms * NS
       /\ UNCHANGED current

Tick == /\ current.tv_sec # MaxClock
        /\ current' = IF current.tv_nsec + 1 = MS * NS
                      THEN [tv_sec |-> current.tv_sec + 1, tv_nsec |-> 0]
                      ELSE [current EXCEPT !.tv_nsec = @ + 1]
        /\ UNCHANGED <<timer_end, due>>

TimeNext == Arm \/ Tick
TimeSpec == TimeInit /\ [][TimeNext]_timeVars

-----------------------------------------------------------------------------
(***************************************************************************)
(* What crm_time_get_remain_ms() says is less than a millisecond away from *)
(* the truth until the deadline, and 0 from then on: no timer of CRM is    *)
(* taken for expired a millisecond early, or for running when it is over,  *)
(* whatever the second boundaries between the clock and the deadline.      *)
(***************************************************************************)
RemainIsClose ==
    LET left   == due - Ns(current)
        remain == crm_time_get_remain_ms(timer_end)
    IN  /\ left < 0  => remain = 0
        /\ left >= 0 => remain * NS - left < NS /\ left - remain * NS < NS
=============================================================================
