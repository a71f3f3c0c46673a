-------------------------------- MODULE Timers --------------------------------
(***************************************************************************)
(* The two long timers of the bootloader, on a counter that wraps: the     *)
(* command timeout (src/src/sched.c) and the CAN heartbeat                 *)
(* (src/src/generic/canserial.c), compared with timer_is_before() of       *)
(* src/src/generic/armcm_timer.c.                                          *)
(*                                                                         *)
(* The counter has 2^32 values in the code; here it has 2 * Half, and one  *)
(* unit stands for 2^31 / Half ticks.  The task loop polls the timers at   *)
(* least once per unit.  True time is kept beside the counter, so that the *)
(* properties can speak of seconds and not of wrapped differences.         *)
(***************************************************************************)
EXTENDS Integers

CONSTANTS Half,             \* half the range of the counter
          NoIdTicks,        \* true length of TIMEOUT_NO_SHORTID_US
          IdTicks,          \* true length of TIMEOUT_WITH_SHORTID_US
          HeartbeatTicks,   \* true length of the heartbeat interval
          MaxTransfer,      \* cap on the age of the timeout during a transfer
          MaxUnassigned     \* cap on the age of the last heartbeat without an id

ASSUME TimersAssumption ==
    /\ Half \in Nat \ {0}
    /\ NoIdTicks \in Nat /\ IdTicks \in Nat /\ HeartbeatTicks \in Nat \ {0}
    /\ MaxTransfer \in Nat /\ MaxUnassigned \in Nat

Wrap == 2 * Half

VARIABLES now,                  \* the counter
          timeout_start, heartbeat_last_time,
          assigned,             \* canserial_has_assigned_id()
          is_in_transfer, app_valid,
          mode,                 \* "main", or "left" after application_jump()
          polled,               \* the task loop has run in this unit of time
          age,                  \* true time since timeout_start was set
          idle,                 \* true time since then, the end of a transfer or a change of id
          gap,                  \* true time since heartbeat_last_time was set
          quiet                 \* true time with an id but without a heartbeat

vars == <<now, timeout_start, heartbeat_last_time, assigned, is_in_transfer, app_valid,
          mode, polled, age, idle, gap, quiet>>

\* uint32_t arithmetic
timer_from_us(ticks) == ticks % Wrap
timer_is_before(t1, t2) == (t1 - t2) % Wrap >= Half

TypeOK == /\ {now, timeout_start, heartbeat_last_time} \subseteq 0 .. Wrap - 1
          /\ {assigned, is_in_transfer, app_valid, polled} \subseteq BOOLEAN
          /\ mode \in {"main", "left"}
          /\ {age, idle, gap, quiet} \subseteq Nat

\* A requested bootloader has just run timeout_init() and
\* canserial_heartbeat_init().
Init == /\ now \in {0, Wrap - 1}
        /\ timeout_start = now /\ heartbeat_last_time = now
        /\ assigned = FALSE
        /\ is_in_transfer = FALSE
        /\ app_valid \in BOOLEAN
        /\ mode = "main"
        /\ polled = FALSE
        /\ age = 0 /\ idle = 0 /\ gap = 0 /\ quiet = 0

Tick == /\ mode = "main" /\ polled
        /\ is_in_transfer => age < MaxTransfer
        /\ ~assigned => gap < MaxUnassigned
        /\ now' = (now + 1) % Wrap
        /\ age' = age + 1 /\ gap' = gap + 1
        /\ idle' = IF is_in_transfer THEN 0 ELSE idle + 1
        /\ quiet' = IF assigned THEN quiet + 1 ELSE 0
        /\ polled' = FALSE
        /\ UNCHANGED <<timeout_start, heartbeat_last_time, assigned, is_in_transfer, app_valid, mode>>

TimeoutTicks_short == NoIdTicks
TimeoutTicks_long == IdTicks
TimeoutTicks == IF assigned THEN IdTicks ELSE NoIdTicks

\* timeout_task()
timeout_task ==
    IF is_in_transfer \/ timer_is_before(now, (timeout_start + timer_from_us(TimeoutTicks)) % Wrap)
    THEN UNCHANGED <<timeout_start, age, idle, mode>>
    ELSE IF app_valid
    THEN mode' = "left" /\ UNCHANGED <<timeout_start, age, idle>>
    ELSE timeout_start' = now /\ age' = 0 /\ idle' = 0 /\ UNCHANGED mode

\* A wrong variant: four intervals instead of one.
canserial_heartbeat_task_slow ==
    IF assigned /\ timer_is_before((heartbeat_last_time + timer_from_us(4 * HeartbeatTicks)) % Wrap, now)
    THEN heartbeat_last_time' = now /\ gap' = 0 /\ quiet' = 0
    ELSE UNCHANGED <<heartbeat_last_time, gap, quiet>>

\* canserial_heartbeat_task()
canserial_heartbeat_task ==
    IF assigned /\ timer_is_before((heartbeat_last_time + timer_from_us(HeartbeatTicks)) % Wrap, now)
    THEN heartbeat_last_time' = now /\ gap' = 0 /\ quiet' = 0
    ELSE UNCHANGED <<heartbeat_last_time, gap, quiet>>

\* One round of ctr_run_taskfuncs().
RunTasks == /\ mode = "main" /\ ~polled
            /\ timeout_task
            /\ canserial_heartbeat_task
            /\ polled' = TRUE
            /\ UNCHANGED <<now, assigned, is_in_transfer, app_valid>>

\* What commands and admin messages do to the state the timers look at; another
\* round of the task loop follows within the same unit.
AssignId == /\ mode = "main" /\ assigned' = ~assigned
            /\ quiet' = 0 /\ idle' = 0
            /\ polled' = FALSE
            /\ UNCHANGED <<now, timeout_start, heartbeat_last_time, is_in_transfer, app_valid,
                           mode, age, gap>>

Transfer == /\ mode = "main" /\ is_in_transfer' = ~is_in_transfer
            /\ app_valid' \in IF is_in_transfer THEN BOOLEAN ELSE {app_valid}
            /\ idle' = 0
            /\ polled' = FALSE
            /\ UNCHANGED <<now, timeout_start, heartbeat_last_time, assigned,
                           mode, age, gap, quiet>>

Left == mode = "left" /\ UNCHANGED vars

Next == Tick \/ RunTasks \/ AssignId \/ Transfer \/ Left

Spec == Init /\ [][Next]_vars

-----------------------------------------------------------------------------
(* Properties.                                                             *)

\* The time the host is granted.
Granted == IF assigned THEN IdTicks ELSE NoIdTicks

\* The timeout grants the host the full ten seconds, or thirty with a short id,
\* before the application is started, wherever the counter stands and whenever
\* the id was assigned, and it never ends a transfer.
NoEarlyTimeout ==
    [][mode' = "left" /\ mode = "main" => age >= Granted /\ ~is_in_transfer]_vars

\* Nor does it oversleep: once the loop has polled, an idle requested bootloader
\* with a valid application is still inside its time.  Only after a transfer so
\* long that the end of that time is more than half the range of the counter ago
\* does it stay, and then for half the range at most.
NoLateTimeout ==
    (polled /\ mode = "main" /\ app_valid /\ ~is_in_transfer)
        => age < Granted \/ (age >= Granted + Half /\ idle <= Half)

\* docs/admin_protocol.md: heartbeats are "Sent every 2.5 seconds" and hosts
\* "Alert if no heartbeat for > 7.5 seconds".  So they are with an id assigned
\* within half the range of the counter after start-up or the last heartbeat; one
\* that is assigned later finds the device silent for half the range at most.
HeartbeatRegular ==
    assigned => quiet <= IF gap - quiet <= Half THEN 3 * HeartbeatTicks ELSE Half
=============================================================================
