----------------------------- MODULE TimersProofs -----------------------------
(* Proofs about the timers on a counter that wraps, Timers and Timer16.    *)
EXTENDS Timers, Timer16, DataLemmas

-----------------------------------------------------------------------------
(* The timeout and the heartbeat.                                          *)

\* The differences timer_is_before() looks at are the true ones, wrapped.
Clock == /\ now = (timeout_start + age) % Wrap
         /\ now = (heartbeat_last_time + gap) % Wrap

\* With d the time since the deadline: it is still to come, or it was missed in
\* a transfer and the loop polls in the half of the circle where it seems to be.
Ahead(d, i) == d < 0 \/ (d >= Half /\ i <= (d % Wrap) - Half)

\* What the last round of the task loop left behind, one tick ago or none.
LateInv == mode = "main" /\ app_valid /\ ~is_in_transfer =>
              IF polled THEN Ahead(age - Granted, idle)
              ELSE idle = 0 \/ Ahead(age - 1 - Granted, idle - 1)

\* The heartbeat is not yet due, or was missed without an id and seems not to be.
Beating(g, q) == IF g - q <= Half THEN g <= HeartbeatTicks
                 ELSE q + ((HeartbeatTicks - g) % Wrap) < Half

HeartInv == /\ quiet <= gap
            /\ assigned => IF polled THEN Beating(gap, quiet)
                           ELSE quiet = 0 \/ Beating(gap - 1, quiet - 1)

TimersInv == TypeOK /\ Clock /\ LateInv /\ HeartInv

LEMMA WrapType == Wrap \in Nat \ {0} /\ Half \in Nat \ {0} /\ Wrap = 2 * Half
BY TimersAssumption DEF Wrap

\* timer_is_before() with a time t ticks after start, seen age ticks after it.
LEMMA BeforeDeadline ==
    ASSUME NEW start \in Int, NEW a \in Int, NEW t \in Int, NEW n \in Int,
           n = (start + a) % Wrap
    PROVE  /\ timer_is_before(n, (start + timer_from_us(t)) % Wrap) <=> (a - t) % Wrap >= Half
           /\ timer_is_before((start + timer_from_us(t)) % Wrap, n) <=> (t - a) % Wrap >= Half
<1> DEFINE tm == t % Wrap
           end == (start + tm) % Wrap
           q1 == (start + a) \div Wrap
           q2 == t \div Wrap
           q3 == (start + tm) \div Wrap
           k == q2 + q3 - q1
<1>0. ASSUME NEW c \in Int
      PROVE  /\ c \div Wrap \in Int /\ c % Wrap \in Int
             /\ c = Wrap * (c \div Wrap) + (c % Wrap)
  <2>1. c \div Wrap \in Int BY WrapType, DivMod
  <2>2. c % Wrap \in Int BY WrapType, DivMod
  <2>3. c = Wrap * (c \div Wrap) + (c % Wrap) BY WrapType, DivMod
  <2> QED BY <2>1, <2>2, <2>3
<1>1. tm \in Int /\ q2 \in Int /\ t = Wrap * q2 + tm
  BY <1>0, Zenon
<1>2. q1 \in Int /\ start + a = Wrap * q1 + n
  <2>1. start + a \in Int OBVIOUS
  <2> QED BY <1>0, <2>1, Zenon
<1>3. end \in Int /\ q3 \in Int /\ start + tm = Wrap * q3 + end
  <2>1. start + tm \in Int BY <1>1
  <2> HIDE DEF tm
  <2> QED BY <1>0, <2>1, Zenon
<1> HIDE DEF tm, end, q1, q2, q3
<1>4. /\ k \in Int /\ -k \in Int /\ Wrap * k = Wrap * q2 + Wrap * q3 - Wrap * q1
      /\ Wrap * (-k) = -(Wrap * k)
      /\ Wrap * q1 \in Int /\ Wrap * q2 \in Int /\ Wrap * q3 \in Int /\ Wrap * k \in Int
  BY <1>1, <1>2, <1>3, WrapType
<1> HIDE DEF k
<1>5. n - end = (a - t) + Wrap * k /\ end - n = (t - a) + Wrap * (-k)
  BY <1>1, <1>2, <1>3, <1>4
<1>6. (n - end) % Wrap = (a - t) % Wrap
  <2>1. a - t \in Int OBVIOUS
  <2>2. ((a - t) + Wrap * k) % Wrap = (a - t) % Wrap
    BY <1>4, <2>1, WrapType, ModShift
  <2> QED BY <1>5, <2>2
<1>7. (end - n) % Wrap = (t - a) % Wrap
  <2>1. t - a \in Int OBVIOUS
  <2>2. ((t - a) + Wrap * (-k)) % Wrap = (t - a) % Wrap
    BY <1>4, <2>1, WrapType, ModShift
  <2> QED BY <1>5, <2>2
<1> QED BY <1>6, <1>7 DEF timer_is_before, timer_from_us, tm, end

LEMMA TimersTypes ==
    ASSUME TypeOK
    PROVE  /\ now \in 0 .. Wrap - 1 /\ timeout_start \in 0 .. Wrap - 1
           /\ heartbeat_last_time \in 0 .. Wrap - 1
           /\ age \in Nat /\ idle \in Nat /\ gap \in Nat /\ quiet \in Nat
           /\ Granted \in Nat /\ Granted = TimeoutTicks /\ HeartbeatTicks \in Nat \ {0}
BY TimersAssumption DEF TypeOK, Granted, TimeoutTicks

LEMMA TimersInvInit == Init => TimersInv
<1> SUFFICES ASSUME Init PROVE TimersInv OBVIOUS
<1>1. TypeOK
  <2>1. /\ {now, timeout_start, heartbeat_last_time} \subseteq 0 .. Wrap - 1
        /\ {age, idle, gap, quiet} \subseteq Nat
    BY WrapType DEF Init
  <2>2. {assigned, is_in_transfer, app_valid, polled} \subseteq BOOLEAN
    BY Zenon DEF Init
  <2> QED BY <2>1, <2>2 DEF Init, TypeOK
<1>2. now \in 0 .. Wrap - 1 /\ now + 0 = now /\ now \in Int
  BY <1>1, TimersTypes
<1>3. Clock
  <2>1. now % Wrap = now BY <1>2, WrapType, ModSmall
  <2> QED BY <1>2, <2>1 DEF Init, Clock
<1> QED BY <1>1, <1>3 DEF Init, TimersInv, LateInv, HeartInv

LEMMA TickPreserves == TimersInv /\ Tick => TimersInv'
<1> SUFFICES ASSUME TimersInv, Tick PROVE TimersInv' OBVIOUS
<1> USE DEF TimersInv
<1>1. /\ now \in 0 .. Wrap - 1 /\ timeout_start \in 0 .. Wrap - 1
      /\ heartbeat_last_time \in 0 .. Wrap - 1
      /\ age \in Nat /\ idle \in Nat /\ gap \in Nat /\ quiet \in Nat
      /\ Granted \in Nat /\ HeartbeatTicks \in Nat \ {0}
  BY TimersTypes
<1>2. now' \in 0 .. Wrap - 1
  <2>1. now + 1 \in Int BY <1>1
  <2> QED BY <2>1, WrapType, DivMod DEF Tick
<1>3. TypeOK'
  <2>1. {age', idle', gap', quiet'} \subseteq Nat
    BY <1>1 DEF Tick
  <2>2. polled' \in BOOLEAN
    BY Zenon DEF Tick
  <2> QED BY <1>2, <2>1, <2>2 DEF TypeOK, Tick
<1>4. Clock'
  <2>1. ASSUME NEW t \in Nat, NEW d \in Nat, now = (t + d) % Wrap
        PROVE  now' = (t + (d + 1)) % Wrap
    <3>1. t + d \in Int /\ (t + d) + 1 = t + (d + 1) OBVIOUS
    <3>2. ASSUME NEW c \in Int PROVE ((c % Wrap) + 1) % Wrap = (c + 1) % Wrap
      <4>1. 1 \in Int /\ Wrap \in Nat \ {0} BY WrapType
      <4> QED BY <4>1, ModSum, Zenon
    <3> QED BY <2>1, <3>1, <3>2 DEF Tick
  <2>2. timeout_start \in Nat /\ heartbeat_last_time \in Nat
    BY <1>1
  <2> QED BY <1>1, <2>1, <2>2 DEF Clock, Tick
<1>5. LateInv'
  <2> SUFFICES ASSUME (mode = "main" /\ app_valid /\ ~is_in_transfer)', idle' # 0
               PROVE  Ahead((age - 1 - Granted)', (idle - 1)')
    BY DEF LateInv, Tick
  <2>1. Ahead(age - Granted, idle)
    BY DEF LateInv, Tick
  <2>2. (age - 1 - Granted)' = age - Granted /\ (idle - 1)' = idle
    BY <1>1 DEF Tick, Granted
  <2> QED BY <2>1, <2>2
<1>6. HeartInv'
  <2>1. quiet' <= gap'
    BY <1>1 DEF HeartInv, Tick
  <2>2. ASSUME assigned, quiet' # 0 PROVE Beating((gap - 1)', (quiet - 1)')
    <3>1. Beating(gap, quiet)
      BY <2>2 DEF HeartInv, Tick
    <3>2. (gap - 1)' = gap /\ (quiet - 1)' = quiet
      BY <1>1, <2>2 DEF Tick
    <3> QED BY <3>1, <3>2
  <2> QED BY <2>1, <2>2 DEF HeartInv, Tick
<1> QED BY <1>3, <1>4, <1>5, <1>6

LEMMA RunTasksPreserves == TimersInv /\ RunTasks => TimersInv'
<1> SUFFICES ASSUME TimersInv, RunTasks PROVE TimersInv' OBVIOUS
<1> USE DEF TimersInv
<1> DEFINE T == Granted
           H == HeartbeatTicks
<1>1. /\ now \in 0 .. Wrap - 1 /\ timeout_start \in 0 .. Wrap - 1
      /\ heartbeat_last_time \in 0 .. Wrap - 1
      /\ age \in Nat /\ idle \in Nat /\ gap \in Nat /\ quiet \in Nat
      /\ T \in Nat /\ T = TimeoutTicks /\ H \in Nat \ {0}
      /\ Half \in Nat \ {0} /\ Wrap = 2 * Half /\ Wrap \in Nat \ {0}
  BY TimersTypes, WrapType
<1>2. timer_is_before(now, (timeout_start + timer_from_us(T)) % Wrap) <=> (age - T) % Wrap >= Half
  <2>1. timeout_start \in Int /\ age \in Int /\ T \in Int /\ now \in Int BY <1>1
  <2> HIDE DEF T
  <2> QED BY <2>1, BeforeDeadline DEF Clock
<1>3. timer_is_before((heartbeat_last_time + timer_from_us(H)) % Wrap, now)
          <=> (H - gap) % Wrap >= Half
  <2>1. heartbeat_last_time \in Int /\ gap \in Int /\ H \in Int /\ now \in Int BY <1>1
  <2> QED BY <2>1, BeforeDeadline DEF Clock
<1>4. T' = T
  BY DEF RunTasks, Granted
<1>5. \/ /\ is_in_transfer \/ (age - T) % Wrap >= Half
         /\ UNCHANGED <<timeout_start, age, idle, mode>>
      \/ mode' = "left" /\ UNCHANGED <<timeout_start, age, idle>>
      \/ /\ ~app_valid /\ UNCHANGED mode
         /\ timeout_start' = now /\ age' = 0 /\ idle' = 0
  BY <1>1, <1>2 DEF RunTasks, timeout_task
<1>6. \/ heartbeat_last_time' = now /\ gap' = 0 /\ quiet' = 0
      \/ /\ ~assigned \/ ~((H - gap) % Wrap >= Half)
         /\ UNCHANGED <<heartbeat_last_time, gap, quiet>>
  BY <1>3 DEF RunTasks, canserial_heartbeat_task
<1>7. UNCHANGED <<now, assigned, is_in_transfer, app_valid>> /\ mode = "main" /\ ~polled
  BY DEF RunTasks
<1> HIDE DEF T, H
<1>8. TypeOK'
  <2>1. polled' \in BOOLEAN BY Zenon DEF RunTasks
  <2>2. /\ {timeout_start', heartbeat_last_time'} \subseteq 0 .. Wrap - 1
        /\ {age', idle', gap', quiet'} \subseteq Nat
    BY <1>1, <1>5, <1>6
  <2>3. mode' \in {"main", "left"}
    BY <1>5 DEF TypeOK
  <2> QED BY <1>7, <2>1, <2>2, <2>3 DEF TypeOK
<1>9. Clock'
  <2>1. now = (now + 0) % Wrap
    <3>1. now + 0 = now /\ now \in Int BY <1>1
    <3>2. now % Wrap = now BY <1>1, <3>1, ModSmall
    <3> QED BY <3>1, <3>2
  <2>2. now' = (timeout_start' + age') % Wrap
    BY <1>5, <1>7, <2>1 DEF Clock
  <2>3. now' = (heartbeat_last_time' + gap') % Wrap
    BY <1>6, <1>7, <2>1 DEF Clock
  <2> QED BY <2>2, <2>3 DEF Clock
<1>10. LateInv'
  <2> SUFFICES ASSUME mode' = "main", app_valid, ~is_in_transfer
               PROVE  Ahead(age - T, idle)
    BY <1>4, <1>5, <1>7 DEF LateInv, RunTasks, T
  <2> DEFINE d == age - T
  <2>1. d \in Int /\ d - 1 = age - 1 - T /\ d % Wrap \in 0 .. Wrap - 1
    BY <1>1, DivMod
  <2>2. d % Wrap >= Half
    BY <1>5
  <2> HIDE DEF d
  <2>3. d < 0 \/ d >= Half
    <3>1. d \in 0 .. Wrap - 1 => d % Wrap = d
      BY <1>1, <2>1, ModSmall
    <3> QED BY <1>1, <2>1, <2>2, <3>1
  <2>4. CASE idle = 0
    BY <1>1, <2>1, <2>2, <2>3, <2>4 DEF Ahead, d
  <2>5. CASE Ahead(d - 1, idle - 1) /\ d >= Half
    <3>1. d - 1 >= Half /\ idle - 1 <= ((d - 1) % Wrap) - Half
      <4>1. ~(d - 1 < 0) BY <1>1, <2>1, <2>5
      <4> QED BY <2>5, <4>1 DEF Ahead
    <3>2. (d - 1) % Wrap = IF d % Wrap = 0 THEN Wrap - 1 ELSE (d % Wrap) - 1
      BY <1>1, <2>1, ModStep
    <3>3. (d - 1) % Wrap = (d % Wrap) - 1
      BY <1>1, <2>1, <2>2, <3>2
    <3>4. idle <= (d % Wrap) - Half
      BY <1>1, <2>1, <3>1, <3>3
    <3> QED BY <2>5, <3>4 DEF Ahead, d
  <2>6. CASE d < 0
    BY <2>6 DEF Ahead, d
  <2>7. idle = 0 \/ Ahead(d - 1, idle - 1)
    BY <1>7, <2>1 DEF LateInv, T
  <2> QED BY <2>3, <2>4, <2>5, <2>6, <2>7
<1>11. HeartInv'
  <2>1. quiet' <= gap'
    BY <1>1, <1>6 DEF HeartInv
  <2>2. ASSUME assigned PROVE Beating(gap', quiet')
    <3>1. CASE gap' = 0 /\ quiet' = 0
      BY <1>1, <3>1 DEF Beating, H
    <3>2. CASE ~((H - gap) % Wrap >= Half) /\ UNCHANGED <<gap, quiet>>
      <4> DEFINE c == H - gap
      <4>1. c \in Int /\ c % Wrap \in 0 .. Wrap - 1 /\ c % Wrap < Half
        BY <1>1, <3>2, DivMod
      <4>2. c = H - gap BY DEF c
      <4> HIDE DEF c
      <4>3. c >= 0 \/ c < -Half
        <5>1. c \in -Wrap .. -1 => c % Wrap = c + Wrap
          BY <1>1, <4>1, ModSmall
        <5> QED BY <1>1, <4>1, <5>1
      <4>4. quiet <= gap /\ (quiet = 0 \/ Beating(gap - 1, quiet - 1))
        BY <1>7, <2>2 DEF HeartInv
      <4>5. CASE gap - quiet <= Half
        <5>1. CASE quiet = 0
          <6>1. gap <= H BY <1>1, <4>2, <4>3, <4>5, <5>1
          <6> QED BY <3>2, <4>5, <6>1 DEF Beating, H
        <5>2. CASE Beating(gap - 1, quiet - 1)
          <6>1. gap - 1 <= H BY <1>1, <4>5, <5>2 DEF Beating, H
          <6>2. gap <= H BY <1>1, <4>2, <4>3, <6>1
          <6> QED BY <3>2, <4>5, <6>2 DEF Beating, H
        <5> QED BY <4>4, <5>1, <5>2
      <4>6. CASE ~(gap - quiet <= Half)
        <5>1. CASE quiet = 0
          <6>1. quiet + (c % Wrap) < Half BY <1>1, <4>1, <5>1
          <6> QED BY <3>2, <4>2, <4>6, <6>1 DEF Beating, H
        <5>2. CASE Beating(gap - 1, quiet - 1)
          <6>1. (quiet - 1) + ((c + 1) % Wrap) < Half
            <7>1. H - (gap - 1) = c + 1 /\ (gap - 1) - (quiet - 1) = gap - quiet
              BY <1>1, <4>2
            <7> QED BY <4>6, <5>2, <7>1 DEF Beating, H
          <6>2. (c + 1) % Wrap = (c % Wrap) + 1
            <7>1. (c + 1) % Wrap = IF c % Wrap = Wrap - 1 THEN 0 ELSE (c % Wrap) + 1
              BY <1>1, <4>1, ModStep
            <7> QED BY <1>1, <4>1, <7>1
          <6>3. quiet + (c % Wrap) < Half BY <1>1, <4>1, <6>1, <6>2
          <6> QED BY <3>2, <4>2, <4>6, <6>3 DEF Beating, H
        <5> QED BY <4>4, <5>1, <5>2
      <4> QED BY <4>5, <4>6
    <3> QED BY <1>6, <2>2, <3>1, <3>2
  <2> QED BY <1>7, <2>1, <2>2 DEF HeartInv, RunTasks
<1> QED BY <1>8, <1>9, <1>10, <1>11

LEMMA TimersInvStep == TimersInv /\ [Next]_vars => TimersInv'
<1> SUFFICES ASSUME TimersInv, [Next]_vars PROVE TimersInv' OBVIOUS
<1>1. CASE AssignId \/ Transfer
  <2>1. /\ age' = age /\ gap' = gap /\ now' = now /\ timeout_start' = timeout_start
        /\ heartbeat_last_time' = heartbeat_last_time /\ mode' = mode
        /\ idle' = 0 /\ ~polled' /\ polled' = FALSE
        /\ quiet' = 0 \/ (quiet' = quiet /\ assigned' = assigned)
    BY <1>1 DEF AssignId, Transfer
  <2>2. TypeOK'
    <3>1. {assigned', is_in_transfer', app_valid', polled'} \subseteq BOOLEAN
      BY <1>1, Zenon DEF TimersInv, TypeOK, AssignId, Transfer
    <3>2. {age', idle', gap', quiet'} \subseteq Nat
      BY <2>1 DEF TimersInv, TypeOK
    <3> QED BY <2>1, <3>1, <3>2 DEF TimersInv, TypeOK
  <2>3. Clock' BY <2>1 DEF TimersInv, Clock
  <2>4. LateInv' BY <2>1 DEF LateInv
  <2>5. HeartInv'
    <3>1. CASE quiet' = 0
      BY <2>1, <2>2, <3>1, TimersTypes DEF HeartInv, TimersInv, TypeOK
    <3>2. CASE quiet' = quiet /\ assigned' = assigned
      <4>1. CASE ~polled BY <2>1, <3>2, <4>1 DEF TimersInv, HeartInv
      <4>2. CASE polled /\ assigned
        \* Polled again in the same unit.
        <5> DEFINE H == HeartbeatTicks
                   c == H - gap
        <5>0. gap \in Nat /\ quiet \in Nat /\ H \in Nat /\ c \in Int
              /\ Half \in Nat \ {0} /\ Wrap = 2 * Half /\ Wrap \in Nat \ {0}
          BY TimersTypes, WrapType DEF TimersInv
        <5>1. c % Wrap \in 0 .. Wrap - 1
          BY <5>0, DivMod
        <5>2. /\ (gap - 1) - (quiet - 1) = gap - quiet
              /\ H - (gap - 1) = c + 1
          BY <5>0, <5>1
        <5>3. Beating(gap, quiet)
          BY <4>2 DEF TimersInv, HeartInv
        <5> HIDE DEF H, c
        <5>4. (c + 1) % Wrap \in Int /\ (c + 1) % Wrap <= (c % Wrap) + 1
          <6>1. (c + 1) % Wrap = IF c % Wrap = Wrap - 1 THEN 0 ELSE (c % Wrap) + 1
            BY <5>0, <5>1, ModStep
          <6> QED BY <5>0, <5>1, <6>1
        <5>5. Beating(gap - 1, quiet - 1)
          <6>1. CASE gap - quiet <= Half
            <7>1. gap - 1 <= H BY <5>0, <5>1, <5>3, <6>1 DEF Beating, H
            <7> QED BY <5>2, <6>1, <7>1 DEF Beating, H
          <6>2. CASE ~(gap - quiet <= Half)
            <7>1. quiet + (c % Wrap) < Half BY <5>3, <6>2 DEF Beating, H, c
            <7>2. (quiet - 1) + ((c + 1) % Wrap) < Half BY <5>0, <5>1, <5>4, <7>1
            <7> QED BY <5>2, <6>2, <7>2 DEF Beating, H
          <6> QED BY <6>1, <6>2
        <5> QED BY <2>1, <3>2, <5>5 DEF TimersInv, HeartInv
      <4> QED BY <2>1, <3>2, <4>1, <4>2 DEF TimersInv, HeartInv
    <3> QED BY <2>1, <3>1, <3>2
  <2> QED BY <2>2, <2>3, <2>4, <2>5 DEF TimersInv
<1>2. CASE Left \/ UNCHANGED vars
  <2>1. UNCHANGED vars BY <1>2 DEF Left
  <2> QED BY <2>1 DEF vars, TimersInv, TypeOK, Clock, LateInv, HeartInv, Granted
<1> QED BY <1>1, <1>2, TickPreserves, RunTasksPreserves DEF Next

\* The state of the timers is well typed: the counters stay below their range.
THEOREM TimersTypeCorrect == Spec => []TypeOK
<1>1. TimersInv => TypeOK BY DEF TimersInv
<1> QED BY <1>1, TimersInvInit, TimersInvStep, PTL DEF Spec

\* timeout_task(): with a valid application the loop stays no longer than it is
\* to, however the counter wraps, transfers begin and end and ids come and go.
THEOREM NoLateTimeoutSafe == Spec => []NoLateTimeout
<1>1. TimersInv => NoLateTimeout
  <2> SUFFICES ASSUME TimersInv, polled /\ mode = "main" /\ app_valid /\ ~is_in_transfer
               PROVE  age < Granted \/ (age >= Granted + Half /\ idle <= Half)
    BY DEF NoLateTimeout
  <2> DEFINE d == age - Granted
  <2>0. /\ age \in Nat /\ idle \in Nat /\ Granted \in Nat /\ d \in Int
        /\ Half \in Nat \ {0} /\ Wrap = 2 * Half /\ Wrap \in Nat \ {0}
    BY TimersTypes, WrapType DEF TimersInv
  <2>1. d % Wrap \in 0 .. Wrap - 1
    BY <2>0, DivMod
  <2>2. Ahead(d, idle)
    BY DEF TimersInv, LateInv
  <2>3. CASE d < 0
    BY <2>0, <2>1, <2>3
  <2>4. CASE d >= Half /\ idle <= (d % Wrap) - Half
    <3>1. age >= Granted + Half BY <2>0, <2>1, <2>4
    <3>2. idle <= Half
      <4> HIDE DEF d
      <4> QED BY <2>0, <2>1, <2>4
    <3> QED BY <3>1, <3>2
  <2> QED BY <2>2, <2>3, <2>4 DEF Ahead
<1> QED BY <1>1, TimersInvInit, TimersInvStep, PTL DEF Spec

\* canserial_heartbeat_task(): a host that allows for three intervals never takes
\* a live device for a dead one, but for an id that is assigned so late that the
\* wrapped comparison fails.
THEOREM HeartbeatRegularSafe == Spec => []HeartbeatRegular
<1>1. TimersInv => HeartbeatRegular
  <2> SUFFICES ASSUME TimersInv, assigned
               PROVE  quiet <= IF gap - quiet <= Half THEN 3 * HeartbeatTicks ELSE Half
    BY DEF HeartbeatRegular
  <2> DEFINE H == HeartbeatTicks
  <2>1. /\ gap \in Nat /\ quiet \in Nat /\ H \in Nat \ {0} /\ quiet <= gap
        /\ Half \in Nat \ {0} /\ Wrap \in Nat \ {0}
    BY TimersTypes, WrapType DEF TimersInv, HeartInv
  <2> HIDE DEF H
  <2>2. ASSUME NEW g \in Int, NEW q \in Int, Beating(g, q), gap - quiet = g - q,
               quiet <= q + 1, gap <= g + 1
        PROVE  quiet <= IF gap - quiet <= Half THEN 3 * H ELSE Half
    <3>1. CASE gap - quiet <= Half
      <4>1. g <= H BY <2>2, <3>1 DEF Beating, H
      <4> QED BY <2>1, <2>2, <3>1, <4>1
    <3>2. CASE ~(gap - quiet <= Half)
      <4>1. H - g \in Int BY <2>1
      <4>2. (H - g) % Wrap >= 0 /\ (H - g) % Wrap \in Int BY <2>1, <4>1, DivMod
      <4>3. q + ((H - g) % Wrap) < Half BY <2>2, <3>2 DEF Beating, H
      <4>4. quiet <= Half BY <2>1, <2>2, <4>2, <4>3
      <4> QED BY <3>2, <4>4
    <3> QED BY <3>1, <3>2
  <2>3. CASE polled
    <3>1. Beating(gap, quiet) BY <2>3 DEF TimersInv, HeartInv
    <3> QED BY <2>1, <2>2, <3>1 DEF H
  <2>4. CASE ~polled /\ Beating(gap - 1, quiet - 1)
    <3>1. gap - 1 \in Int /\ quiet - 1 \in Int /\ gap - quiet = (gap - 1) - (quiet - 1)
      BY <2>1
    <3> QED BY <2>1, <2>2, <2>4, <3>1 DEF H
  <2>5. CASE quiet = 0
    BY <2>1, <2>5 DEF H
  <2> QED BY <2>3, <2>4, <2>5 DEF TimersInv, HeartInv
<1> QED BY <1>1, TimersInvInit, TimersInvStep, PTL DEF Spec

\* timeout_task() never starts the application early, on a build whose timeouts
\* are at most half the range of the counter long.  (At 72 MHz the longer one is
\* not, and the run Timers72Timeout shows what then happens.)
THEOREM NoEarlyTimeoutHolds ==
    ASSUME NoIdTicks <= Half, IdTicks <= Half
    PROVE  Spec => NoEarlyTimeout
<1>1. ASSUME TimersInv, [Next]_vars, mode' = "left", mode = "main"
      PROVE  age >= Granted /\ ~is_in_transfer
  <2> DEFINE T == Granted
             d == age - T
  <2>1. /\ now \in Int /\ timeout_start \in Int /\ age \in Nat /\ age \in Int
        /\ T \in Nat /\ T \in Int /\ T = TimeoutTicks /\ T <= Half
        /\ Half \in Nat \ {0} /\ Wrap = 2 * Half /\ Wrap \in Nat \ {0} /\ d \in Int
    BY TimersTypes, WrapType, <1>1 DEF TimersInv, Granted
  <2>2. RunTasks
    BY <1>1 DEF Next, vars, Tick, AssignId, Transfer, Left
  <2>3. ~is_in_transfer /\ ~timer_is_before(now, (timeout_start + timer_from_us(T)) % Wrap)
    BY <1>1, <2>1, <2>2 DEF RunTasks, timeout_task
  <2>4. ~(d % Wrap >= Half)
    <3> HIDE DEF T
    <3> QED BY <1>1, <2>1, <2>3, BeforeDeadline DEF TimersInv, Clock
  <2>5. d \in -Wrap .. -1 => d % Wrap = d + Wrap
    BY <2>1, ModSmall
  <2> HIDE DEF T
  <2>6. age >= T BY <2>1, <2>4, <2>5
  <2> QED BY <2>3, <2>6 DEF T
<1>2. TimersInv /\ [Next]_vars
        => [mode' = "left" /\ mode = "main" => age >= Granted /\ ~is_in_transfer]_vars
  BY <1>1
<1> QED BY <1>2, TimersInvInit, TimersInvStep, PTL DEF Spec, NoEarlyTimeout

-----------------------------------------------------------------------------
(* The 16-bit time base.                                                   *)

\* What readings may lag after the stalls so far.
Slack == stalled + stalls * Period

\* value holds, modulo TimeWrap, the multiple n of half a period.
Holds(value, n) == n % Period \in {0, HalfPeriod} /\ value = n % TimeWrap

\* timer_high stands x ticks behind the true time.  Before the compare value the
\* counter is in the first half of its lap; in the second half only when a stall
\* swallowed an interrupt, and then the lap to come is lost too.
LagInv(x) ==
    /\ x >= 0 /\ (CC1IF => x >= HalfPeriod)
    /\ ~CC1IF => IF x % Period < HalfPeriod
                 THEN x \div Period <= Slack \div Period
                 ELSE (x \div Period) + 1 <= Slack \div Period
    /\ CC1IF => \/ waited = MaxLatency /\ x <= Slack - HalfPeriod + MaxLatency
                \/ /\ x \div Period <= Slack \div Period
                   /\ HalfPeriod <= x % Period /\ x % Period <= HalfPeriod + waited
                   /\ waited <= MaxLatency

\* What the read under way copied stands y ticks behind, and until the access to
\* the counter it will not lag further than allowed.
ReadInv(y) == /\ y >= 0 /\ since <= MaxGap
              /\ (y + MaxGap - since) \div Period <= Slack \div Period

T16TypeOK == /\ ticks \in Nat /\ waited \in Nat /\ since \in Nat
             /\ stalls \in Nat /\ stalled \in Nat /\ CC1IF \in BOOLEAN
             /\ read_at \in Int /\ reading \in Int

T16Inv == /\ T16TypeOK
          /\ CNT = ticks % Period
          /\ CCR1 = (timer_high + HalfPeriod) % Period
          /\ \E n \in Nat : Holds(timer_high, n) /\ LagInv(ticks - n)
          /\ th # NotRead => \E n \in Nat : Holds(th, n) /\ ReadInv(ticks - n)
          /\ TimeNeverAhead

LEMMA T16Constants ==
    /\ HalfPeriod \in Nat \ {0} /\ Period = 2 * HalfPeriod /\ Period \in Nat \ {0}
    /\ TimeWrap \in Nat \ {0} /\ TimeWrap % Period = 0
    /\ MaxLatency \in Nat /\ MaxGap \in Nat /\ MaxLatency + MaxGap < HalfPeriod
    /\ StallTicks \subseteq Nat
BY Timer16Assumption DEF Period

\* Laps and hand of a number of ticks.
LEMMA Lap ==
    ASSUME NEW x \in Int
    PROVE  /\ x \div Period \in Int /\ x % Period \in 0 .. Period - 1
           /\ Period * (x \div Period) \in Int
           /\ x = Period * (x \div Period) + (x % Period)
<1>1. x \div Period \in Int BY T16Constants, DivMod
<1>2. x % Period \in 0 .. Period - 1 BY T16Constants, DivMod
<1>3. x = Period * (x \div Period) + (x % Period) BY T16Constants, DivMod
<1>4. Period * (x \div Period) \in Int BY <1>1, T16Constants
<1> QED BY <1>1, <1>2, <1>3, <1>4

\* A full lap, and laps compared.
LEMMA Laps ==
    ASSUME NEW x \in Int, NEW k \in Int
    PROVE  /\ k <= x \div Period <=> Period * k <= x
           /\ Period * (k + 1) = Period * k + Period /\ Period * k \in Int
<1>1. k <= x \div Period <=> Period * k <= x BY T16Constants, DivGalois
<1>2. Period * (k + 1) = Period * k + Period BY T16Constants
<1>3. Period * k \in Int BY T16Constants
<1> QED BY <1>1, <1>2, <1>3

LEMMA SlackType == T16TypeOK => Slack \in Nat
BY T16Constants DEF T16TypeOK, Slack

\* However it got there, timer_high is not further behind than this.
LEMMA LagBound ==
    ASSUME T16TypeOK, NEW x \in Int, LagInv(x)
    PROVE  /\ x <= Slack + HalfPeriod + MaxLatency
           /\ ~CC1IF => x < Slack + HalfPeriod
<1> DEFINE q == x \div Period
           e == x % Period
           s == Slack
           L == s \div Period
<1>1. /\ q \in Int /\ e \in 0 .. Period - 1 /\ Period * q \in Int /\ x = Period * q + e
  BY Lap
<1>2. s \in Int BY SlackType
<1> HIDE DEF s
<1>3. q <= L <=> Period * q <= s
  BY <1>1, <1>2, Laps
<1>4. q + 1 <= L <=> Period * q + Period <= s
  <2>1. q + 1 \in Int BY <1>1
  <2>2. q + 1 <= L <=> Period * (q + 1) <= s
    BY <1>2, <2>1, Laps
  <2>3. Period * (q + 1) = Period * q + Period
    <3> HIDE DEF q
    <3> QED BY <1>1, T16Constants
  <2> QED BY <2>2, <2>3
<1>5. CASE ~CC1IF
  <2>1. IF e < HalfPeriod THEN q <= L ELSE q + 1 <= L
    BY <1>5 DEF LagInv, s
  <2> HIDE DEF q, e, L
  <2>2. CASE e < HalfPeriod
    BY <1>1, <1>2, <1>3, <2>1, <2>2, T16Constants DEF s
  <2>3. CASE ~(e < HalfPeriod)
    BY <1>1, <1>2, <1>4, <2>1, <2>3, T16Constants DEF s
  <2> QED BY <2>2, <2>3
<1>6. CASE CC1IF
  <2>1. CASE x <= Slack - HalfPeriod + MaxLatency
    BY <1>2, <1>6, <2>1, T16Constants DEF s
  <2>2. CASE q <= L /\ e <= HalfPeriod + waited /\ waited <= MaxLatency
    <3> HIDE DEF q, e, L
    <3>1. waited \in Nat BY DEF T16TypeOK
    <3> QED BY <1>1, <1>2, <1>3, <1>6, <2>2, <3>1, T16Constants DEF s
  <2> QED BY <1>6, <2>1, <2>2 DEF LagInv, s
<1> QED BY <1>5, <1>6

\* Ticks that are whole laps apart.
LEMMA WholeLaps ==
    ASSUME NEW a \in Int, NEW b \in Int
    PROVE  a % Period = b % Period <=> \E k \in Int : a = b + Period * k
<1>0. Period \in Nat \ {0} BY T16Constants
<1>1. a % Period = b % Period => \E k \in Int : a = b + Period * k
  BY <1>0, ModEqual, Zenon
<1>2. ASSUME NEW k \in Int, a = b + Period * k PROVE a % Period = b % Period
  BY <1>0, <1>2, ModShift, Zenon
<1> QED BY <1>1, <1>2

\* The compare interrupt comes half a lap after the time timer_high stands for.
LEMMA Match ==
    ASSUME NEW t \in Nat, NEW n \in Nat, NEW k \in Nat, NEW high, Holds(high, n)
    PROVE  ((t % Period) + k) % Period = (high + HalfPeriod) % Period
             <=> ((t - n) + k) % Period = HalfPeriod
<1> DEFINE H == HalfPeriod
           a == t + k
           b == n + H
           x == (t - n) + k
<1>1. a \in Int /\ b \in Int /\ x \in Int /\ H \in Int /\ H \in 0 .. Period - 1 /\ n \in Int /\ t \in Int
      /\ k \in Int /\ x = a - n /\ b = n + H
  BY T16Constants
<1>2. ((t % Period) + k) % Period = a % Period
  BY <1>1, T16Constants, ModSum
<1>3. (high + H) % Period = b % Period
  <2>1. high \in Int /\ high = n % TimeWrap
    BY <1>1, T16Constants, DivMod DEF Holds
  <2>2. high % Period = n % Period
    BY <1>1, <2>1, T16Constants, ModMod
  <2>3. (high + H) % Period = ((high % Period) + H) % Period
    BY <1>1, <2>1, T16Constants, ModSum
  <2>4. ((n % Period) + H) % Period = (n + H) % Period
    BY <1>1, T16Constants, ModSum
  <2> QED BY <2>2, <2>3, <2>4
<1>4. H % Period = H
  BY <1>1, T16Constants, ModSmall
<1> HIDE DEF a, b, x
<1>5. ASSUME a % Period = b % Period PROVE x % Period = H
  <2>1. PICK j \in Int : a = b + Period * j
    BY <1>1, <1>5, WholeLaps, Zenon
  <2>2. Period * j \in Int BY T16Constants
  <2>3. x = H + Period * j
    BY <1>1, <2>1, <2>2
  <2>4. (H + Period * j) % Period = H % Period
    BY <1>1, T16Constants, ModShift
  <2> QED BY <1>4, <2>3, <2>4
<1>6. ASSUME x % Period = H PROVE a % Period = b % Period
  <2>1. PICK j \in Int : x = H + Period * j
    BY <1>1, <1>4, <1>6, WholeLaps
  <2>2. Period * j \in Int BY T16Constants
  <2>3. a = b + Period * j
    BY <1>1, <2>1, <2>2
  <2>4. (b + Period * j) % Period = b % Period
    BY <1>1, T16Constants, ModShift
  <2> QED BY <2>3, <2>4
<1>7. a % Period = b % Period <=> x % Period = H
  BY <1>5, <1>6
<1> QED BY <1>2, <1>3, <1>7 DEF x, H

\* (high ^ cur) + (high & 0xffff) is the true time less the laps it lags.
LEMMA CombinedLags ==
    ASSUME NEW t \in Nat, NEW n \in Nat, NEW high, Holds(high, n), n <= t
    PROVE  Combined(high, t % Period) = (t - Period * ((t - n) \div Period)) % TimeWrap
<1> DEFINE H == HalfPeriod
           y == t - n
           q == y \div Period
           r == y % Period
           low == high % Period
           xor == IF low = 0 THEN t % Period ELSE ((t % Period) + H) % Period
<1>1. y \in Int /\ t \in Int /\ n \in Int /\ H \in Int /\ t = y + n
  BY T16Constants
<1>2. q \in Int /\ r \in 0 .. Period - 1 /\ Period * q \in Int /\ y = Period * q + r
  <2> HIDE DEF y
  <2> QED BY <1>1, Lap
<1>3. high \in Int /\ high = n % TimeWrap
  BY <1>1, T16Constants, DivMod DEF Holds
<1>4. low = n % Period /\ low \in {0, H}
  <2>1. low = n % Period BY <1>1, <1>3, T16Constants, ModMod
  <2> QED BY <2>1 DEF Holds
<1> HIDE DEF y, q, r
<1>5. xor = r
  <2>1. CASE low = 0
    <3>1. 0 % Period = 0 BY T16Constants, ModSmall
    <3>2. PICK j \in Int : n = 0 + Period * j
      <4>1. 0 \in Int /\ n % Period = 0 % Period BY <1>4, <2>1, <3>1
      <4> QED BY <1>1, <4>1, WholeLaps, Zenon
    <3>3. Period * j \in Int BY T16Constants
    <3>4. t = y + Period * j BY <1>1, <3>2, <3>3
    <3>5. t % Period = y % Period
      BY <1>1, <3>4, WholeLaps, Zenon
    <3> QED BY <2>1, <3>5 DEF r
  <2>2. CASE low = H
    <3>1. H % Period = H /\ H # 0 BY T16Constants, ModSmall
    <3>2. PICK j \in Int : n = H + Period * j
      <4>1. n % Period = H % Period BY <1>4, <2>2, <3>1
      <4> QED BY <1>1, <4>1, WholeLaps, Zenon
    <3>3. Period * j \in Int /\ j + 1 \in Int /\ Period * (j + 1) = Period * j + Period
      BY T16Constants
    <3>4. t + H = y + Period * (j + 1) BY <1>1, <3>2, <3>3, T16Constants
    <3>5. (t + H) % Period = y % Period
      <4>1. t + H \in Int BY <1>1
      <4> QED BY <1>1, <3>3, <3>4, <4>1, WholeLaps, Zenon
    <3>6. ((t % Period) + H) % Period = (t + H) % Period
      BY <1>1, T16Constants, ModSum
    <3>7. ~(low = 0) BY <2>2, <3>1
    <3>8. xor = ((t % Period) + H) % Period BY <3>7
    <3> QED BY <3>5, <3>6, <3>8 DEF r
  <2> QED BY <1>4, <2>1, <2>2
<1>6. Combined(high, t % Period) = ((high - low) + xor + low) % TimeWrap
  BY DEF Combined
<1>7. low \in Int BY <1>1, <1>4
<1> HIDE DEF xor, low
<1>8. (high - low) + xor + low = high + r
  BY <1>2, <1>3, <1>5, <1>7
<1>9. (high + r) % TimeWrap = (n + r) % TimeWrap
  <2>1. r \in Int BY <1>2
  <2> QED BY <1>1, <1>3, <2>1, T16Constants, ModSum
<1>10. n + r = t - Period * q
  BY <1>1, <1>2
<1> QED BY <1>6, <1>8, <1>9, <1>10 DEF q, y

LEMMA T16InvInit == T16Init => T16Inv
<1> SUFFICES ASSUME T16Init PROVE T16Inv OBVIOUS
<1> USE DEF T16Init
<1>1. 0 % Period = 0 /\ 0 % TimeWrap = 0
  <2>1. 0 % Period = 0 BY T16Constants, ModSmall
  <2>2. 0 % TimeWrap = 0 BY T16Constants, ModSmall
  <2> QED BY <2>1, <2>2
<1>2. T16TypeOK
  <2>1. CC1IF \in BOOLEAN BY Zenon
  <2> QED BY <2>1 DEF T16TypeOK
<1>3. Slack = 0 BY T16Constants DEF Slack
<1>4. CCR1 = (timer_high + HalfPeriod) % Period
  <2>1. HalfPeriod % Period = HalfPeriod BY T16Constants, ModSmall
  <2>2. 0 + HalfPeriod = HalfPeriod BY T16Constants
  <2> QED BY <2>1, <2>2
<1>5. 0 \in Nat /\ Holds(timer_high, 0) /\ LagInv(ticks - 0)
  <2>1. ticks - 0 = 0 OBVIOUS
  <2>2. Holds(timer_high, 0) BY <1>1 DEF Holds
  <2>3. 0 \div Period \in Int
    BY Lap
  <2>4. LagInv(0)
    BY <1>1, <1>3, <2>3, T16Constants DEF LagInv
  <2> QED BY <2>1, <2>2, <2>4
<1>6. TimeNeverAhead
  <2>1. read_at - reading = 0 OBVIOUS
  <2>2. Slack = stalled + stalls * Period BY DEF Slack
  <2> QED BY <1>1, <1>3, <2>1, <2>2 DEF TimeNeverAhead
<1>7. \E n \in Nat : Holds(timer_high, n) /\ LagInv(ticks - n) BY <1>5
<1>8. CNT = ticks % Period BY <1>1
<1> QED BY <1>2, <1>4, <1>6, <1>7, <1>8 DEF T16Inv

\* What n ticks do to the counter and its flag.
LEMMA AdvanceCounts ==
    ASSUME T16Inv, NEW n \in Nat, Advance(n), NEW m \in Nat, Holds(timer_high, m)
    PROVE  /\ ticks' = ticks + n /\ ticks' \in Nat
           /\ CNT' = ticks' % Period
           /\ CCR1' = (timer_high' + HalfPeriod) % Period
           /\ CC1IF' \in BOOLEAN
           /\ CC1IF' <=> CC1IF \/ \E k \in 1 .. n : ((ticks - m) + k) % Period = HalfPeriod
           /\ UNCHANGED <<CCR1, timer_high, th, reading, read_at>>
<1>1. ticks \in Nat /\ ticks' = ticks + n /\ ticks' \in Nat /\ CNT = ticks % Period
  BY DEF T16Inv, T16TypeOK, Advance
<1>2. CNT' = ticks' % Period
  <2>1. ticks \in Int /\ n \in Int BY <1>1
  <2>2. ((ticks % Period) + n) % Period = (ticks + n) % Period
    BY <2>1, T16Constants, ModSum
  <2> QED BY <1>1, <2>2 DEF Advance
<1>3. UNCHANGED <<CCR1, timer_high, th, reading, read_at>>
  BY DEF Advance
<1>4. CC1IF' = (CC1IF \/ \E k \in 1 .. n : (CNT + k) % Period = CCR1)
  BY DEF Advance
<1>5. CC1IF' \in BOOLEAN
  BY <1>4, Zenon
<1>6. ASSUME NEW k \in 1 .. n
      PROVE  (CNT + k) % Period = CCR1 <=> ((ticks - m) + k) % Period = HalfPeriod
  <2>1. k \in Nat OBVIOUS
  <2> QED BY <1>1, <2>1, Match DEF T16Inv
<1>7. CC1IF' <=> CC1IF \/ \E k \in 1 .. n : ((ticks - m) + k) % Period = HalfPeriod
  BY <1>4, <1>6, Zenon
<1> QED BY <1>1, <1>2, <1>3, <1>5, <1>7 DEF T16Inv

\* The laps and the hand one tick on.
LEMMA NextTick ==
    ASSUME NEW x \in Int
    PROVE  IF x % Period = Period - 1
           THEN (x + 1) % Period = 0 /\ (x + 1) \div Period = (x \div Period) + 1
           ELSE (x + 1) % Period = (x % Period) + 1 /\ (x + 1) \div Period = x \div Period
<1> DEFINE q == x \div Period
           e == x % Period
<1>1. q \in Int /\ e \in 0 .. Period - 1 /\ Period * q \in Int /\ x = Period * q + e
  BY Lap
<1> HIDE DEF q, e
<1>2. Period * (q + 1) = Period * q + Period /\ Period \in Nat \ {0}
  BY <1>1, T16Constants
<1>3. CASE e = Period - 1
  <2>1. x + 1 = Period * (q + 1) + 0 /\ x + 1 \in Int /\ q + 1 \in Int /\ 0 \in 0 .. Period - 1
    BY <1>1, <1>2, <1>3
  <2>2. (x + 1) % Period = 0 /\ (x + 1) \div Period = q + 1
    BY <1>2, <2>1, ModUnique, Zenon
  <2> QED BY <1>3, <2>2 DEF q, e
<1>4. CASE e # Period - 1
  <2>1. x + 1 = Period * q + (e + 1) /\ x + 1 \in Int /\ e + 1 \in 0 .. Period - 1
    BY <1>1, <1>2, <1>4
  <2>2. (x + 1) % Period = e + 1 /\ (x + 1) \div Period = q
    BY <1>1, <1>2, <2>1, ModUnique, Zenon
  <2> QED BY <1>4, <2>2 DEF q, e
<1> QED BY <1>3, <1>4

LEMMA RunTickPreserves == T16Inv /\ RunTick => T16Inv'
<1> SUFFICES ASSUME T16Inv, RunTick PROVE T16Inv' OBVIOUS
<1>0. T16TypeOK /\ Advance(1) BY DEF T16Inv, RunTick
<1>1. PICK n \in Nat : Holds(timer_high, n) /\ LagInv(ticks - n)
  BY DEF T16Inv
<1> DEFINE x == ticks - n
           q == x \div Period
           e == x % Period
           L == Slack \div Period
<1>2. /\ ticks' = ticks + 1 /\ ticks' \in Nat
      /\ CNT' = ticks' % Period
      /\ CCR1' = (timer_high' + HalfPeriod) % Period
      /\ CC1IF' \in BOOLEAN
      /\ CC1IF' <=> CC1IF \/ (x + 1) % Period = HalfPeriod
      /\ UNCHANGED <<CCR1, timer_high, th, reading, read_at>>
  <2>1. 1 .. 1 = {1} OBVIOUS
  <2> QED BY <1>0, <1>1, <2>1, AdvanceCounts
<1>3. x \in Int /\ x' = x + 1 /\ ticks' - n = x + 1
  BY <1>0, <1>2 DEF T16TypeOK
<1>4. Slack' = Slack /\ Slack \in Nat
  BY <1>0, SlackType DEF RunTick, Slack
<1>5. T16TypeOK'
  <2>1. waited' \in Nat /\ since' \in Nat
    BY <1>0 DEF RunTick, T16TypeOK
  <2> QED BY <1>0, <1>2, <2>1 DEF T16TypeOK, RunTick
<1>6. q \in Int /\ e \in 0 .. Period - 1
  BY <1>3, Lap
<1>7. IF e = Period - 1
      THEN (x + 1) % Period = 0 /\ (x + 1) \div Period = q + 1
      ELSE (x + 1) % Period = e + 1 /\ (x + 1) \div Period = q
  BY <1>3, NextTick
<1>8. waited' = (IF CC1IF THEN waited + 1 ELSE 0) /\ waited \in Nat /\ (CC1IF => waited < MaxLatency)
  BY <1>0 DEF RunTick, T16TypeOK
<1>9. L \in Int
  BY <1>4, Lap
<1>10. LagInv(ticks - n)'
  <2>0. x >= 0 /\ (CC1IF => x >= HalfPeriod) /\ x + 1 \in Int
    BY <1>1, <1>3 DEF LagInv
  <2>1. CASE CC1IF
    <3>1. q <= L /\ HalfPeriod <= e /\ e <= HalfPeriod + waited /\ waited <= MaxLatency
      <4>1. ~(waited = MaxLatency) BY <1>8, <2>1, T16Constants
      <4> QED BY <1>1, <2>1, <4>1 DEF LagInv
    <3> HIDE DEF x, q, e, L
    <3>2. ~(e = Period - 1) BY <1>6, <1>8, <2>1, <3>1, T16Constants
    <3>3. /\ (x + 1) \div Period <= L
          /\ HalfPeriod <= (x + 1) % Period /\ (x + 1) % Period <= HalfPeriod + waited'
          /\ waited' <= MaxLatency
      BY <1>6, <1>7, <1>8, <2>1, <3>1, <3>2, T16Constants
    <3>4. x + 1 >= HalfPeriod /\ x + 1 >= 0 /\ CC1IF'
      BY <1>2, <1>3, <2>0, <2>1, T16Constants DEF x
    <3> QED BY <1>3, <1>4, <3>3, <3>4 DEF LagInv, L
  <2>2. CASE ~CC1IF
    <3>1. IF e < HalfPeriod THEN q <= L ELSE q + 1 <= L
      BY <1>1, <2>2 DEF LagInv
    <3>2. CC1IF' <=> (x + 1) % Period = HalfPeriod
      BY <1>2, <2>2
    <3>3. (x + 1) % Period = HalfPeriod => x + 1 >= HalfPeriod
      <4>1. x + 1 \in Nat BY <1>3, <2>0
      <4>2. (x + 1) % Period <= x + 1 BY <4>1, T16Constants, ModLe
      <4> QED BY <4>2
    <3> HIDE DEF x, q, e, L
    <3>4. CASE e = HalfPeriod - 1
      <4>1. (x + 1) % Period = HalfPeriod /\ (x + 1) \div Period <= L
        BY <1>6, <1>7, <1>9, <3>1, <3>4, T16Constants
      <4>2. waited' = 0 BY <1>8, <2>2
      <4>3. HalfPeriod <= HalfPeriod + 0 /\ 0 <= MaxLatency /\ x + 1 >= 0
        BY <1>3, <2>0, T16Constants
      <4>4. /\ HalfPeriod <= (x + 1) % Period /\ (x + 1) % Period <= HalfPeriod + waited'
            /\ waited' <= MaxLatency /\ x + 1 >= HalfPeriod /\ CC1IF'
        BY <3>2, <3>3, <4>1, <4>2, <4>3, T16Constants
      <4> QED BY <1>3, <1>4, <4>1, <4>3, <4>4 DEF LagInv, L
    <3>5. CASE e # HalfPeriod - 1
      <4>1. /\ (x + 1) % Period # HalfPeriod
            /\ IF (x + 1) % Period < HalfPeriod
               THEN (x + 1) \div Period <= L
               ELSE ((x + 1) \div Period) + 1 <= L
        BY <1>6, <1>7, <1>9, <3>1, <3>5, T16Constants
      <4>2. x + 1 >= 0
        BY <1>3, <2>0
      <4> QED BY <1>3, <1>4, <3>2, <4>1, <4>2 DEF LagInv, L
    <3> QED BY <3>4, <3>5
  <2> QED BY <2>1, <2>2
<1>11. \E m \in Nat : (Holds(timer_high, m) /\ LagInv(ticks - m))'
  <2>1. Holds(timer_high, n)' BY <1>1, <1>2 DEF Holds
  <2> QED BY <1>10, <2>1
<1>12. (th # NotRead)' => \E m \in Nat : (Holds(th, m) /\ ReadInv(ticks - m))'
  <2> SUFFICES ASSUME th # NotRead PROVE \E m \in Nat : (Holds(th, m) /\ ReadInv(ticks - m))'
    BY <1>2 DEF NotRead
  <2>1. PICK m \in Nat : Holds(th, m) /\ ReadInv(ticks - m)
    BY DEF T16Inv
  <2>2. since' = since + 1 /\ since < MaxGap /\ since \in Nat /\ ticks \in Nat
    BY <1>0 DEF RunTick, T16TypeOK
  <2>3. (ticks' - m) + MaxGap - since' = (ticks - m) + MaxGap - since
    BY <1>2, <2>2, T16Constants
  <2>4. ReadInv(ticks - m)'
    BY <1>2, <1>4, <2>1, <2>2, <2>3, T16Constants DEF ReadInv
  <2>5. Holds(th, m)' BY <1>2, <2>1 DEF Holds
  <2> QED BY <2>4, <2>5
<1>13. TimeNeverAhead'
  BY <1>2 DEF T16Inv, RunTick, TimeNeverAhead
<1> QED BY <1>2, <1>5, <1>11, <1>12, <1>13 DEF T16Inv

LEMMA StallPreserves == ASSUME T16Inv, NEW d \in StallTicks, Stall(d) PROVE T16Inv'
<1>0. T16TypeOK /\ Advance(d) /\ d \in Nat BY T16Constants DEF T16Inv, Stall
<1>1. PICK n \in Nat : Holds(timer_high, n) /\ LagInv(ticks - n)
  BY DEF T16Inv
<1> DEFINE x == ticks - n
<1>2. /\ ticks' = ticks + d /\ ticks' \in Nat
      /\ CNT' = ticks' % Period
      /\ CCR1' = (timer_high' + HalfPeriod) % Period
      /\ CC1IF' \in BOOLEAN
      /\ CC1IF' <=> CC1IF \/ \E k \in 1 .. d : (x + k) % Period = HalfPeriod
      /\ UNCHANGED <<CCR1, timer_high, th, reading, read_at>>
  BY <1>0, <1>1, AdvanceCounts
<1>3. x \in Int /\ x >= 0 /\ ticks' - n = x + d
  BY <1>0, <1>1, <1>2 DEF T16TypeOK, LagInv
<1>4. Slack' = Slack + d + Period /\ Slack \in Nat
  <2>1. /\ stalls \in Nat /\ stalled \in Nat
        /\ stalls' = stalls + 1 /\ stalled' = stalled + d
    BY <1>0 DEF Stall, T16TypeOK
  <2>2. (stalls + 1) * Period = stalls * Period + Period /\ stalls * Period \in Nat
    BY <2>1, T16Constants
  <2> QED BY <1>0, <2>1, <2>2, T16Constants DEF Slack
<1>5. T16TypeOK'
  BY <1>0, <1>2, T16Constants DEF T16TypeOK, Stall
<1>6. x <= Slack + HalfPeriod + MaxLatency /\ (~CC1IF => x < Slack + HalfPeriod)
  BY <1>0, <1>1, <1>3, LagBound
<1>7. waited' = MaxLatency BY DEF Stall
<1> HIDE DEF x
<1>8. LagInv(ticks - n)'
  <2>1. CASE CC1IF'
    <3>1. x + d >= HalfPeriod
      <4>1. CASE CC1IF
        <5>1. x >= HalfPeriod BY <1>1, <4>1 DEF LagInv, x
        <5> QED BY <1>0, <1>3, <5>1, T16Constants
      <4>2. CASE ~CC1IF
        <5>1. PICK k \in 1 .. d : (x + k) % Period = HalfPeriod
          BY <1>2, <2>1, <4>2
        <5>2. x + k \in Nat BY <1>0, <1>3
        <5>3. (x + k) % Period <= x + k BY <5>2, T16Constants, ModLe
        <5> QED BY <1>0, <1>3, <5>1, <5>3, T16Constants
      <4> QED BY <4>1, <4>2
    <3>2. x + d <= Slack' - HalfPeriod + MaxLatency
      BY <1>0, <1>3, <1>4, <1>6, T16Constants
    <3>3. x + d >= 0 BY <1>0, <1>3
    <3> QED BY <1>3, <1>7, <2>1, <3>1, <3>2, <3>3 DEF LagInv
  <2>2. CASE ~CC1IF'
    <3> DEFINE q == (x + d) \div Period
               e == (x + d) % Period
               s == Slack'
    <3>1. /\ q \in Int /\ e \in 0 .. Period - 1 /\ Period * q \in Int
          /\ x + d = Period * q + e
      <4>1. x + d \in Int BY <1>0, <1>3
      <4> QED BY <4>1, Lap
    <3>2. s \in Int /\ s = Slack + d + Period
      BY <1>0, <1>4, T16Constants
    <3> HIDE DEF q, e, s
    <3>3. q <= s \div Period <=> Period * q <= s
      BY <3>1, <3>2, Laps
    <3>4. q + 1 <= s \div Period <=> Period * q + Period <= s
      <4>1. q + 1 \in Int BY <3>1
      <4>2. q + 1 <= s \div Period <=> Period * (q + 1) <= s
        BY <3>2, <4>1, Laps
      <4>3. Period * (q + 1) = Period * q + Period
        BY <3>1, T16Constants
      <4> QED BY <4>2, <4>3
    <3>5. x + d < Slack + d + HalfPeriod
      BY <1>0, <1>2, <1>3, <1>4, <1>6, <2>2, T16Constants
    <3>6. IF e < HalfPeriod THEN q <= s \div Period ELSE q + 1 <= s \div Period
      <4>1. CASE e < HalfPeriod
        BY <1>0, <1>4, <3>1, <3>2, <3>3, <3>5, <4>1, T16Constants
      <4>2. CASE ~(e < HalfPeriod)
        BY <1>0, <1>4, <3>1, <3>2, <3>4, <3>5, <4>2, T16Constants
      <4> QED BY <4>1, <4>2
    <3>7. x + d >= 0 BY <1>0, <1>3
    <3> QED BY <1>3, <2>2, <3>6, <3>7 DEF LagInv, q, e, s
  <2> QED BY <2>1, <2>2
<1>9. Holds(timer_high, n)' BY <1>1, <1>2 DEF Holds
<1>10. (th # NotRead)' => \E m \in Nat : (Holds(th, m) /\ ReadInv(ticks - m))'
  BY <1>2 DEF Stall, NotRead
<1>11. TimeNeverAhead'
  <2>1. (read_at - reading) % TimeWrap <= Slack /\ (read_at - reading) % TimeWrap \in Int
    <3>1. read_at - reading \in Int BY <1>0 DEF T16TypeOK
    <3>2. (read_at - reading) % TimeWrap \in Int BY <3>1, T16Constants, DivMod
    <3> QED BY <3>2 DEF T16Inv, TimeNeverAhead, Slack
  <2>2. (read_at - reading) % TimeWrap <= Slack'
    BY <1>0, <1>4, <2>1, T16Constants
  <2> QED BY <1>2, <2>2 DEF TimeNeverAhead, Slack
<1>12. \E m \in Nat : (Holds(timer_high, m) /\ LagInv(ticks - m))'
  BY <1>8, <1>9
<1> QED BY <1>2, <1>5, <1>10, <1>11, <1>12 DEF T16Inv

LEMMA IrqPreserves == T16Inv /\ TIMx_IRQHandler => T16Inv'
<1> SUFFICES ASSUME T16Inv, TIMx_IRQHandler PROVE T16Inv' OBVIOUS
<1>0. T16TypeOK /\ CC1IF BY DEF T16Inv, TIMx_IRQHandler
<1>1. PICK n \in Nat : Holds(timer_high, n) /\ LagInv(ticks - n)
  BY DEF T16Inv
<1> DEFINE x == ticks - n
           m == n + HalfPeriod
           y == x - HalfPeriod
<1>2. /\ x \in Int /\ m \in Nat /\ m \in Int /\ n \in Int /\ y \in Int
      /\ ticks - m = y /\ x >= HalfPeriod /\ y >= 0 /\ ticks \in Nat
  BY <1>0, <1>1, T16Constants DEF T16TypeOK, LagInv
<1>3. /\ UNCHANGED <<CNT, th, ticks, since, reading, read_at, stalls, stalled>>
      /\ CC1IF' = FALSE /\ waited' = 0
      /\ timer_high' = (timer_high + HalfPeriod) % TimeWrap
      /\ CCR1' = (timer_high' + HalfPeriod) % Period
  BY DEF TIMx_IRQHandler, next_match
<1>4. Slack' = Slack /\ Slack \in Nat
  BY <1>0, <1>3, SlackType DEF Slack
<1>5. T16TypeOK'
  <2>1. CC1IF' \in BOOLEAN BY <1>3, Zenon
  <2> QED BY <1>0, <1>3, <2>1 DEF T16TypeOK
<1>6. Holds(timer_high', m)
  <2>1. timer_high' = m % TimeWrap
    <3>1. HalfPeriod \in Int BY T16Constants
    <3> QED BY <1>1, <1>2, <1>3, <3>1, T16Constants, ModSum DEF Holds
  <2>2. ((n % Period) + HalfPeriod) % Period = m % Period
    <3>1. HalfPeriod \in Int BY T16Constants
    <3> QED BY <1>2, <3>1, T16Constants, ModSum
  <2>3. CASE n % Period = 0
    <3>1. (0 + HalfPeriod) % Period = HalfPeriod
      <4>1. HalfPeriod % Period = HalfPeriod BY T16Constants, ModSmall
      <4>2. 0 + HalfPeriod = HalfPeriod BY T16Constants
      <4> QED BY <4>1, <4>2
    <3> QED BY <2>1, <2>2, <2>3, <3>1 DEF Holds
  <2>4. CASE n % Period = HalfPeriod
    <3>1. (HalfPeriod + HalfPeriod) % Period = 0
      <4>1. HalfPeriod + HalfPeriod = Period * 1 + 0 /\ HalfPeriod + HalfPeriod \in Int
        BY T16Constants
      <4> QED BY <4>1, T16Constants, ModUnique
    <3> QED BY <2>1, <2>2, <2>4, <3>1 DEF Holds
  <2> QED BY <1>1, <2>3, <2>4 DEF Holds
<1>7. LagInv(ticks - m)'
  <2> DEFINE q == y \div Period
             e == y % Period
             s == Slack
             L == s \div Period
  <2>1. /\ q \in Int /\ e \in 0 .. Period - 1 /\ Period * q \in Int /\ y = Period * q + e
    <3> HIDE DEF y
    <3> QED BY <1>2, Lap
  <2>2. s \in Int BY <1>4
  <2>3. CASE x <= s - HalfPeriod + MaxLatency
    <3> HIDE DEF x, q, e, s
    <3>1. q <= L <=> Period * q <= s
      BY <2>1, <2>2, Laps
    <3>2. q + 1 <= L <=> Period * q + Period <= s
      <4>1. q + 1 \in Int BY <2>1
      <4>2. q + 1 <= L <=> Period * (q + 1) <= s
        BY <2>2, <4>1, Laps
      <4>3. Period * (q + 1) = Period * q + Period
        BY <2>1, T16Constants
      <4> QED BY <4>2, <4>3
    <3>3. IF e < HalfPeriod THEN q <= L ELSE q + 1 <= L
      <4>1. CASE e < HalfPeriod
        BY <1>2, <2>1, <2>2, <2>3, <3>1, <4>1, T16Constants
      <4>2. CASE ~(e < HalfPeriod)
        BY <1>2, <2>1, <2>2, <2>3, <3>2, <4>2, T16Constants
      <4> QED BY <4>1, <4>2
    <3> QED BY <1>2, <1>3, <1>4, <3>3 DEF LagInv, q, e, s
  <2>4. CASE /\ x \div Period <= L
             /\ HalfPeriod <= x % Period /\ x % Period <= HalfPeriod + waited
             /\ waited <= MaxLatency
    <3> DEFINE r == x % Period
               p0 == x \div Period
    <3>1. /\ p0 \in Int /\ r \in 0 .. Period - 1 /\ Period * p0 \in Int /\ x = Period * p0 + r
      <4> HIDE DEF x
      <4> QED BY <1>2, Lap
    <3>2. p0 <= L /\ HalfPeriod <= r /\ r <= HalfPeriod + waited /\ waited <= MaxLatency
          /\ waited \in Nat
      BY <1>0, <2>4 DEF T16TypeOK
    <3> HIDE DEF x, r, p0
    <3>3. y = Period * p0 + (r - HalfPeriod) /\ r - HalfPeriod \in 0 .. Period - 1
          /\ r - HalfPeriod < HalfPeriod
      BY <1>2, <3>1, <3>2, T16Constants
    <3> HIDE DEF y
    <3>4. y % Period = r - HalfPeriod /\ y \div Period = p0
      <4>1. Period \in Nat \ {0} BY T16Constants
      <4> QED BY <1>2, <3>1, <3>3, <4>1, ModUnique, Zenon
    <3>5. y % Period < HalfPeriod /\ y \div Period <= L
      BY <3>2, <3>3, <3>4
    <3> QED BY <1>2, <1>3, <1>4, <3>5 DEF LagInv
  <2> QED BY <1>0, <1>1, <2>3, <2>4 DEF LagInv
<1>8. \E k \in Nat : (Holds(timer_high, k) /\ LagInv(ticks - k))'
  <2>1. Holds(timer_high, m)' BY <1>6 DEF Holds
  <2> QED BY <1>2, <1>7, <2>1
<1>9. (th # NotRead)' => \E k \in Nat : (Holds(th, k) /\ ReadInv(ticks - k))'
  BY <1>3, <1>4 DEF T16Inv, Holds, ReadInv, NotRead
<1>10. TimeNeverAhead' /\ CNT' = ticks' % Period
  BY <1>3 DEF T16Inv, TimeNeverAhead
<1> QED BY <1>3, <1>5, <1>8, <1>9, <1>10 DEF T16Inv

LEMMA ReadHighPreserves == T16Inv /\ ReadHigh => T16Inv'
<1> SUFFICES ASSUME T16Inv, ReadHigh PROVE T16Inv' OBVIOUS
<1>0. T16TypeOK BY DEF T16Inv
<1>1. PICK n \in Nat : Holds(timer_high, n) /\ LagInv(ticks - n)
  BY DEF T16Inv
<1>2. /\ UNCHANGED <<CNT, CCR1, CC1IF, timer_high, ticks, waited, reading, read_at, stalls, stalled>>
      /\ th' = timer_high /\ since' = 0
  BY DEF ReadHigh
<1>3. Slack' = Slack /\ Slack \in Nat
  BY <1>0, <1>2, SlackType DEF Slack
<1>4. T16TypeOK'
  BY <1>0, <1>2 DEF T16TypeOK
<1> DEFINE x == ticks - n
           q == x \div Period
           e == x % Period
           s == Slack
           L == s \div Period
           z == x + MaxGap - 0
           l == z \div Period
<1>5. x \in Int /\ x >= 0 /\ s \in Int /\ z \in Int /\ z = x + MaxGap
  BY <1>0, <1>1, <1>3, T16Constants DEF T16TypeOK, LagInv
<1>6. /\ q \in Int /\ e \in 0 .. Period - 1 /\ Period * q \in Int /\ x = Period * q + e
  <2> HIDE DEF x
  <2> QED BY <1>5, Lap
<1>7. l \in Int /\ Period * l \in Int /\ Period * l <= z
  <2> HIDE DEF z
  <2>1. l \in Int /\ Period * l \in Int /\ z % Period \in 0 .. Period - 1
        /\ z = Period * l + (z % Period)
    BY <1>5, Lap
  <2> QED BY <2>1, T16Constants
<1>8. \/ ~CC1IF /\ e < HalfPeriod /\ q <= L
      \/ ~CC1IF /\ q + 1 <= L
      \/ x <= s - HalfPeriod + MaxLatency
      \/ q <= L /\ e <= HalfPeriod + waited /\ waited <= MaxLatency
  BY <1>1 DEF LagInv
<1>9. waited \in Nat /\ L \in Int
  <2> HIDE DEF s
  <2> QED BY <1>0, <1>5, Lap DEF T16TypeOK
<1> HIDE DEF x, q, e, s, z, l
<1>10. l <= L
  <2>1. l <= L <=> Period * l <= s
    BY <1>5, <1>7, Laps
  <2>2. ASSUME l >= q + 1 PROVE Period * l >= Period * q + Period
    <3>1. Period * l >= Period * (q + 1) BY <1>6, <1>7, <2>2, T16Constants
    <3>2. Period * (q + 1) = Period * q + Period BY <1>6, T16Constants
    <3> QED BY <3>1, <3>2
  <2>3. ASSUME l >= q + 2 PROVE Period * l >= Period * q + 2 * Period
    <3>1. Period * l >= Period * (q + 2) BY <1>6, <1>7, <2>3, T16Constants
    <3>2. Period * (q + 2) = Period * q + 2 * Period BY <1>6, T16Constants
    <3> QED BY <3>1, <3>2
  <2>4. CASE e < HalfPeriod /\ q <= L
    <3>1. ~(l >= q + 1) BY <1>5, <1>6, <1>7, <2>2, <2>4, T16Constants
    <3> QED BY <1>6, <1>7, <1>9, <2>4, <3>1
  <2>5. CASE q + 1 <= L
    <3>1. ~(l >= q + 2) BY <1>5, <1>6, <1>7, <2>3, <2>5, T16Constants
    <3> QED BY <1>6, <1>7, <1>9, <2>5, <3>1
  <2>6. CASE x <= s - HalfPeriod + MaxLatency
    <3>1. Period * l <= s BY <1>5, <1>7, <2>6, T16Constants
    <3> QED BY <2>1, <3>1
  <2>7. CASE q <= L /\ e <= HalfPeriod + waited /\ waited <= MaxLatency
    <3>1. ~(l >= q + 1) BY <1>5, <1>6, <1>7, <1>9, <2>2, <2>7, T16Constants
    <3> QED BY <1>6, <1>7, <1>9, <2>7, <3>1
  <2> QED BY <1>8, <2>4, <2>5, <2>6, <2>7
<1>11. ReadInv(ticks - n)'
  BY <1>2, <1>3, <1>5, <1>10, T16Constants DEF ReadInv, x, z, l, s
<1>12. Holds(th, n)' BY <1>1, <1>2 DEF Holds
<1>13. \E m \in Nat : (Holds(th, m) /\ ReadInv(ticks - m))'
  BY <1>11, <1>12
<1>14. \E m \in Nat : (Holds(timer_high, m) /\ LagInv(ticks - m))'
  <2>1. Holds(timer_high, n)' BY <1>1, <1>2 DEF Holds
  <2>2. LagInv(ticks - n)' BY <1>1, <1>2, <1>3 DEF LagInv
  <2> QED BY <2>1, <2>2
<1>15. TimeNeverAhead'
  BY <1>2 DEF T16Inv, TimeNeverAhead
<1> QED BY <1>2, <1>4, <1>13, <1>14, <1>15 DEF T16Inv

LEMMA ReadCountPreserves == T16Inv /\ ReadCount => T16Inv'
<1> SUFFICES ASSUME T16Inv, ReadCount PROVE T16Inv' OBVIOUS
<1>0. T16TypeOK BY DEF T16Inv
<1>1. PICK n \in Nat : Holds(th, n) /\ ReadInv(ticks - n)
  BY DEF T16Inv, ReadCount
<1>2. /\ UNCHANGED <<CNT, CCR1, CC1IF, timer_high, ticks, waited, since, stalls, stalled>>
      /\ reading' = Combined(th, CNT) /\ read_at' = ticks /\ th' = NotRead
  BY DEF ReadCount
<1>3. Slack' = Slack /\ Slack \in Nat
  BY <1>0, <1>2, SlackType DEF Slack
<1> DEFINE y == ticks - n
           q == y \div Period
           r == ticks - Period * q
           s == Slack
           z == y + MaxGap - since
<1>4. y \in Nat /\ y \in Int /\ ticks \in Nat /\ s \in Int /\ z \in Int /\ y <= z
  BY <1>0, <1>1, <1>3, T16Constants DEF T16TypeOK, ReadInv
<1>5. z \div Period <= s \div Period
  BY <1>1 DEF ReadInv
<1>6. q \in Int /\ Period * q \in Int /\ y = Period * q + (y % Period) /\ y % Period \in 0 .. Period - 1
  <2> HIDE DEF y
  <2> QED BY <1>4, Lap
<1>7. n <= ticks BY <1>4
<1>8. reading' = r % TimeWrap
  BY <1>1, <1>2, <1>4, <1>7, CombinedLags DEF T16Inv
<1> HIDE DEF y, q, s, z
<1>9. r \in Int /\ ticks - r = Period * q
  BY <1>4, <1>6
<1>10. Period * q \in Nat
  <2>1. 0 <= q <=> Period * 0 <= y
    BY <1>4, Laps DEF q
  <2>2. 0 <= q BY <1>4, <2>1, T16Constants
  <2> QED BY <1>6, <2>2, T16Constants
<1>11. Period * q <= s
  <2>1. z \div Period \in Int /\ s \div Period \in Int BY <1>4, Lap
  <2>2. q <= z \div Period <=> Period * q <= z BY <1>4, <1>6, Laps
  <2>3. q <= z \div Period BY <1>4, <1>6, <2>2, T16Constants
  <2>4. q <= s \div Period BY <1>5, <1>6, <2>1, <2>3
  <2> QED BY <1>4, <1>6, <2>4, Laps
<1> HIDE DEF r
<1>12. (read_at' - reading') % TimeWrap = (Period * q) % TimeWrap
  <2>1. ticks \in Int BY <1>4
  <2>2. (ticks - (r % TimeWrap)) % TimeWrap = (ticks - r) % TimeWrap
    BY <1>9, <2>1, T16Constants, ModSum
  <2> QED BY <1>2, <1>8, <1>9, <2>2
<1>13. TimeNeverAhead'
  <2>1. (Period * q) % TimeWrap <= Period * q /\ (Period * q) % TimeWrap \in Int
    <3> DEFINE v == Period * q
    <3>1. v \in Nat BY <1>10
    <3> HIDE DEF v
    <3>2. v % TimeWrap <= v BY <3>1, T16Constants, ModLe
    <3>3. v % TimeWrap \in Int BY <3>1, T16Constants, DivMod
    <3> QED BY <3>2, <3>3 DEF v
  <2>2. (Period * q) % TimeWrap <= Slack'
    BY <1>3, <1>6, <1>11, <2>1 DEF s
  <2> QED BY <1>12, <2>2 DEF TimeNeverAhead, Slack
<1>14. T16TypeOK'
  <2>1. read_at' \in Int /\ reading' \in Int
    BY <1>2, <1>4, <1>8, <1>9, T16Constants, DivMod
  <2> QED BY <1>0, <1>2, <2>1 DEF T16TypeOK
<1>15. \E m \in Nat : (Holds(timer_high, m) /\ LagInv(ticks - m))'
  <2>1. PICK m \in Nat : Holds(timer_high, m) /\ LagInv(ticks - m)
    BY DEF T16Inv
  <2>2. Holds(timer_high, m)' BY <1>2, <2>1 DEF Holds
  <2>3. LagInv(ticks - m)' BY <1>2, <1>3, <2>1 DEF LagInv
  <2> QED BY <2>2, <2>3
<1> QED BY <1>2, <1>13, <1>14, <1>15 DEF T16Inv, NotRead

LEMMA T16InvStep == T16Inv /\ [T16Next]_tvars => T16Inv'
<1> SUFFICES ASSUME T16Inv, [T16Next]_tvars PROVE T16Inv' OBVIOUS
<1>1. CASE UNCHANGED tvars
  BY <1>1 DEF tvars, T16Inv, T16TypeOK, Holds, LagInv, ReadInv, Slack, TimeNeverAhead
<1> QED BY <1>1, RunTickPreserves, IrqPreserves, ReadHighPreserves, ReadCountPreserves, StallPreserves
        DEF T16Next, timer_read_time

\* timer_read_time() on the chips with a 16-bit counter: no reading is ahead of
\* the true time, and none lags by more than the stalls and a lap for each, for
\* every position of the interrupt between the accesses of a read, any number of
\* stalls of any length, and however often the times wrap.
THEOREM TimeNeverAheadSafe == T16Init /\ [][T16Next]_tvars => []TimeNeverAhead
<1>1. T16Inv => TimeNeverAhead BY DEF T16Inv
<1> QED BY <1>1, T16InvInit, T16InvStep, PTL
=============================================================================
