---------------------------- MODULE TimeProofs ----------------------------
(***************************************************************************)
(* Theorem about the timers: what remains is right for all units, delays   *)
(* and clocks.                                                             *)
(***************************************************************************)
EXTENDS Time, TLAPS

\* The deadline is normalised, up to a full second in tv_nsec, and is due then.
TimeInv ==
    /\ current \in [tv_sec : Nat, tv_nsec : 0 .. MS * NS - 1]
    /\ timer_end \in [tv_sec : Nat, tv_nsec : 0 .. MS * NS]
    /\ due = Ns(timer_end)

-----------------------------------------------------------------------------
\* Arithmetic that the leaves below rest on.
LEMMA DivMod ==
    ASSUME NEW a \in Nat, NEW b \in Nat \ {0}
    PROVE  /\ a \div b \in Nat /\ a % b \in 0 .. b - 1
           /\ a % b = a - (a \div b) * b
OBVIOUS

LEMMA MulNat == ASSUME NEW a \in Nat, NEW b \in Nat PROVE a * b \in Nat
OBVIOUS

LEMMA MulGrows ==
    ASSUME NEW a \in Int, NEW b \in Int, NEW c \in Nat, a <= b
    PROVE  a * c <= b * c
OBVIOUS

LEMMA Distributes ==
    ASSUME NEW a \in Int, NEW b \in Int, NEW c \in Int
    PROVE  (a + b) * c = a * c + b * c /\ (a - b) * c = a * c - b * c
OBVIOUS

LEMMA Scales ==
    ASSUME NEW a \in Int, NEW b \in Int
    PROVE  /\ ((a + b) * MS) * NS = (a * MS) * NS + (b * MS) * NS
           /\ ((a + b + 1) * MS) * NS = (a * MS) * NS + (b * MS) * NS + MS * NS
BY UnitAssumption

\* The quotient of C is less than one away from the fraction.
LEMMA Quotient ==
    ASSUME NEW n \in Int
    PROVE  /\ PerNs(n) \in Int
           /\ PerNs(n) * NS - n < NS /\ n - PerNs(n) * NS < NS
<1>1. CASE n >= 0
  <2>1. n \in Nat
    BY <1>1
  <2>2. n \div NS \in Nat /\ (n \div NS) * NS - n <= 0 /\ n - (n \div NS) * NS < NS
    BY <2>1, DivMod, UnitAssumption
  <2> QED BY <1>1, <2>2, UnitAssumption DEF PerNs
<1>2. CASE n < 0
  <2>1. -n \in Nat
    BY <1>2
  <2> DEFINE q == (-n) \div NS
  <2>2. q \in Nat /\ q * NS - (-n) <= 0 /\ (-n) - q * NS < NS
    <3>1. q \in Nat /\ (-n) % NS \in 0 .. NS - 1 /\ (-n) % NS = (-n) - q * NS
      BY <2>1, DivMod, UnitAssumption
    <3> HIDE DEF q
    <3> QED BY <3>1, UnitAssumption
  <2>3. PerNs(n) = -q
    BY <1>2 DEF PerNs
  <2>4. (-q) * NS = -(q * NS)
    BY <2>2, UnitAssumption
  <2> HIDE DEF q
  <2> QED BY <2>2, <2>3, <2>4, UnitAssumption
<1> QED BY <1>1, <1>2

-----------------------------------------------------------------------------
LEMMA ArmInv == ASSUME TimeInv, Arm PROVE TimeInv'
<1> USE UnitAssumption
<1>1. PICK ms \in 0 .. MaxDelay :
         /\ timer_end' = crm_time_add_ms(current, ms)
         /\ due' = Ns(current) + ms * NS
         /\ current' = current
  BY DEF Arm
<1> DEFINE U == MS * NS
           s == current.tv_sec
           n == current.tv_nsec
           q == ms \div MS
           r == ms % MS
<1>2. q \in Nat /\ r \in 0 .. MS - 1 /\ r = ms - q * MS
  <2>1. ms \in Nat
    OBVIOUS
  <2> QED BY <2>1, DivMod
<1>3. s \in Nat /\ n \in 0 .. U - 1 /\ U \in Nat
  BY MulNat DEF TimeInv
<1>4. r * NS \in Nat /\ r * NS <= U - NS
  <2>1. r * NS <= (MS - 1) * NS
    BY <1>2, MulGrows
  <2>2. (MS - 1) * NS = U - NS
    BY Distributes
  <2>3. r * NS \in Nat
    BY <1>2, MulNat
  <2> QED BY <2>1, <2>2, <2>3
<1>5. due' = (s * MS) * NS + n + ms * NS
  BY <1>1 DEF Ns
<1>6. current' \in [tv_sec : Nat, tv_nsec : 0 .. U - 1]
  BY <1>1 DEF TimeInv
<1>7. n + r * NS > U =>
        timer_end' = [tv_sec |-> s + q + 1, tv_nsec |-> n + r * NS - U]
  BY <1>1, <1>2, <1>3, <1>4 DEF crm_time_add_ms
<1>8. ~(n + r * NS > U) =>
        timer_end' = [tv_sec |-> s + q, tv_nsec |-> n + r * NS]
  BY <1>1, <1>2, <1>3, <1>4 DEF crm_time_add_ms
<1> DEFINE A == (s * MS) * NS
           B == (q * MS) * NS
           R == r * NS
<1>9. ms * NS = B + R
  BY <1>2
<1> HIDE DEF s, n, q, r
<1>10. /\ ((s + q) * MS) * NS = A + B
       /\ ((s + q + 1) * MS) * NS = A + B + U
  BY <1>2, <1>3, Scales
<1>11. A \in Nat /\ B \in Nat
  BY <1>2, <1>3, MulNat
<1> HIDE DEF U, A, B, R
<1>12. due' = A + n + B + R
  BY <1>3, <1>4, <1>5, <1>9, <1>11 DEF A, R
<1>13. CASE n + R > U
  <2>1. timer_end' = [tv_sec |-> s + q + 1, tv_nsec |-> n + R - U]
    BY <1>7, <1>13 DEF R
  <2>2. timer_end' \in [tv_sec : Nat, tv_nsec : 0 .. U]
    BY <1>2, <1>3, <1>4, <1>13, <2>1 DEF R
  <2>3. Ns(timer_end') = ((s + q + 1) * MS) * NS + (n + R - U)
    BY <2>1 DEF Ns
  <2>4. due' = Ns(timer_end')
    BY <1>3, <1>4, <1>10, <1>11, <1>12, <2>3 DEF R
  <2> QED BY <1>6, <2>2, <2>4 DEF TimeInv, Ns, U
<1>14. CASE ~(n + R > U)
  <2>1. timer_end' = [tv_sec |-> s + q, tv_nsec |-> n + R]
    BY <1>8, <1>14 DEF R
  <2>2. timer_end' \in [tv_sec : Nat, tv_nsec : 0 .. U]
    BY <1>2, <1>3, <1>4, <1>14, <2>1 DEF R
  <2>3. Ns(timer_end') = ((s + q) * MS) * NS + (n + R)
    BY <2>1 DEF Ns
  <2>4. due' = Ns(timer_end')
    BY <1>3, <1>4, <1>10, <1>11, <1>12, <2>3 DEF R
  <2> QED BY <1>6, <2>2, <2>4 DEF TimeInv, Ns, U
<1> QED BY <1>13, <1>14

LEMMA TickInv == ASSUME TimeInv, Tick PROVE TimeInv'
<1> USE UnitAssumption
<1> DEFINE U == MS * NS
<1>1. U \in Nat /\ U # 0
  BY MulNat
<1>2. timer_end' = timer_end /\ due' = due
  BY DEF Tick
<1>3. current' \in [tv_sec : Nat, tv_nsec : 0 .. U - 1]
  <2> HIDE DEF U
  <2>1. current \in [tv_sec : Nat, tv_nsec : 0 .. U - 1]
    BY DEF TimeInv, U
  <2>2. CASE current.tv_nsec + 1 = U
    <3>1. current' = [tv_sec |-> current.tv_sec + 1, tv_nsec |-> 0]
      BY <2>2 DEF Tick, U
    <3> QED BY <1>1, <2>1, <3>1
  <2>3. CASE current.tv_nsec + 1 # U
    <3>1. current' = [current EXCEPT !.tv_nsec = @ + 1]
      BY <2>3 DEF Tick, U
    <3> QED BY <1>1, <2>1, <2>3, <3>1
  <2> QED BY <2>2, <2>3
<1> QED BY <1>2, <1>3 DEF TimeInv, Ns

LEMMA InvRemains == TimeInv => RemainIsClose
<1> USE UnitAssumption
<1> SUFFICES ASSUME TimeInv PROVE RemainIsClose
  OBVIOUS
<1> DEFINE U == MS * NS
           d == timer_end.tv_sec - current.tv_sec
           e == timer_end.tv_nsec - current.tv_nsec
           left == due - Ns(current)
           remain == crm_time_get_remain_ms(timer_end)
           p == PerNs(e)
<1>1. /\ timer_end.tv_sec \in Nat /\ current.tv_sec \in Nat
      /\ timer_end.tv_nsec \in 0 .. U /\ current.tv_nsec \in 0 .. U - 1
      /\ U \in Nat
  BY MulNat DEF TimeInv
<1>2. d \in Int /\ e \in Int /\ e <= U /\ e > -U
  BY <1>1
<1>3. p \in Int /\ p * NS - e < NS /\ e - p * NS < NS
  BY <1>2, Quotient
<1>4. (d * MS) * NS = d * U
  BY <1>2
<1>5. left = d * U + e
  <2>1. (d * MS) * NS = (timer_end.tv_sec * MS) * NS - (current.tv_sec * MS) * NS
    BY <1>1
  <2>2. /\ (timer_end.tv_sec * MS) * NS \in Int /\ (current.tv_sec * MS) * NS \in Int
    BY <1>1
  <2>3. left = (timer_end.tv_sec * MS) * NS + timer_end.tv_nsec
               - ((current.tv_sec * MS) * NS + current.tv_nsec)
    BY DEF TimeInv, Ns
  <2> HIDE DEF left
  <2> QED BY <1>1, <1>2, <1>4, <2>1, <2>2, <2>3
<1>6. remain = IF d < 0 \/ (d = 0 /\ e < 0) THEN 0 ELSE d * MS + p
  BY <1>1 DEF crm_time_get_remain_ms
<1>7. (d * MS + p) * NS = d * U + p * NS
  BY <1>2, <1>3
<1>8. d * U \in Int /\ p * NS \in Int
  BY <1>1, <1>2, <1>3
<1> HIDE DEF U, d, e, left, remain, p
<1>9. CASE d < 0
  <2>1. d * U <= (-1) * U
    BY <1>1, <1>2, <1>9, MulGrows
  <2>2. left <= 0 /\ remain = 0
    BY <1>1, <1>2, <1>5, <1>6, <1>8, <1>9, <2>1
  <2> QED BY <1>2, <1>5, <1>8, <2>2 DEF RemainIsClose, left, remain
<1>10. CASE d = 0
  BY <1>1, <1>2, <1>3, <1>5, <1>6, <1>7, <1>8, <1>10 DEF RemainIsClose, left, remain
<1>11. CASE d > 0
  <2>1. 1 * U <= d * U
    BY <1>1, <1>2, <1>11, MulGrows
  <2>2. left >= 0 /\ remain = d * MS + p
    BY <1>1, <1>2, <1>5, <1>6, <1>8, <1>11, <2>1
  <2> QED BY <1>2, <1>3, <1>5, <1>7, <1>8, <2>2 DEF RemainIsClose, left, remain
<1> QED BY <1>2, <1>9, <1>10, <1>11

(***************************************************************************)
(* crm_time_get_remain_ms() is less than a millisecond away from the truth *)
(* for every delay and at every instant, and 0 once the deadline is past.  *)
(***************************************************************************)
THEOREM RemainsRight == TimeSpec => []RemainIsClose
<1>1. TimeInit => TimeInv
  <2>1. MS * NS \in Nat /\ MS * NS # 0
    BY UnitAssumption, MulNat
  <2> QED BY <2>1, UnitAssumption DEF TimeInit, TimeInv, Ns
<1>2. TimeInv /\ [TimeNext]_timeVars => TimeInv'
  BY ArmInv, TickInv DEF TimeNext, timeVars, TimeInv, Ns
<1> QED BY InvRemains, <1>1, <1>2, PTL DEF TimeSpec
=============================================================================
