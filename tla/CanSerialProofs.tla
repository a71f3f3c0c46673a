--------------------------- MODULE CanSerialProofs ---------------------------
(***************************************************************************)
(* Proofs about module CanSerial: the interrupt handler and the task share *)
(* the receive buffer, the admin queue and the wake flag safely, for every *)
(* buffer size, queue size and frame length.                               *)
(***************************************************************************)
EXTENDS CanSerial, TLAPS

\* While console_pop_input() runs, the part of the buffer it has moved holds the
\* stream after the popped bytes, and the part it has yet to move is untouched.
PopInv ==
    pc \in {"pop", "commit"} =>
        /\ copied + pop_count <= receive_pos
        /\ pc = "commit" => copied + pop_count = rpos
        /\ \A i \in 0 .. copied - 1 : receive_buf[i] = consumed + pop_count + i + 1
        /\ \A i \in copied + pop_count .. receive_pos - 1 : receive_buf[i] = consumed + i + 1

SInv == TypeOK /\ StreamIntegrity /\ PopInv

\* The ids a host can assign decode to a node id or to none.
LEMMA DecodeType ==
  ASSUME NEW s \in ShortIds
  PROVE  can_decode_nodeid(s) \in NodeIds \cup {0}
  BY DEF NodeIds

\* The handler of an admin message keeps the types of what it changes.
LEMMA AdminTypes ==
  ASSUME TypeOK, NEW m \in Admin, can_process_admin(m)
  PROVE  /\ assigned_id' \in NodeIds \cup {0}
         /\ resp' \in [type : {"none", "need_nodeid", "ack"}, short_id : ShortIds \cup {0}]
<1>1. CASE m.cmd = "query" /\ can_process_query_unassigned
  BY <1>1 DEF TypeOK, can_process_query_unassigned, NoResp
<1>2. CASE m.cmd = "set" /\ can_process_set_canboot_nodeid(m)
  <2>1. m.short_id \in ShortIds
    BY <1>2 DEF Admin
  <2> QED BY <1>2, <2>1, DecodeType DEF TypeOK, can_process_set_canboot_nodeid, NoResp
<1>3. CASE m.cmd = "clear" /\ can_process_clear_canboot_nodeid
  BY <1>3 DEF can_process_clear_canboot_nodeid, NoResp
<1>4. CASE m.cmd = "junk" /\ resp' = NoResp /\ UNCHANGED assigned_id
  BY <1>4 DEF TypeOK, NoResp
<1> QED BY <1>1, <1>2, <1>3, <1>4 DEF can_process_admin

\* After reset the buffer is empty.
LEMMA InitSInv == Init => SInv
<1> DEFINE junk == [cmd |-> "junk", mine |-> FALSE, short_id |-> 0]
<1>1. junk \in Admin
  <2>1. junk \in [cmd : {"query", "clear", "junk"}, mine : {FALSE}, short_id : {0}]
    OBVIOUS
  <2> QED BY <2>1 DEF Admin
<1>2. [msg |-> junk, n |-> 0] \in [msg : Admin, n : Nat]
  BY <1>1
<1>3. NoResp \in [type : {"none", "need_nodeid", "ack"}, short_id : ShortIds \cup {0}]
  BY DEF NoResp
<1>4. 0 \in Nat /\ 0 \in 0 .. RxSize /\ 0 \in 0 .. MaxBytes
  BY SizesAssumption
<1> HIDE DEF junk
<1>5. Init => TypeOK
  <2> SUFFICES ASSUME Init PROVE TypeOK
      OBVIOUS
  <2>1. receive_buf \in [0 .. RxSize - 1 -> 0 .. MaxBytes]
    BY <1>4 DEF Init
  <2>2. admin_queue = [i \in 0 .. QueueSize - 1 |-> [msg |-> junk, n |-> 0]]
    BY DEF Init, junk
  <2>3. admin_queue \in [0 .. QueueSize - 1 -> [msg : Admin, n : Nat]]
    BY <1>2, <2>2
  <2>4. resp \in [type : {"none", "need_nodeid", "ack"}, short_id : ShortIds \cup {0}]
    BY <1>3 DEF Init
  <2> QED BY <1>4, <2>1, <2>3, <2>4 DEF Init, TypeOK
<1>6. Init => StreamIntegrity /\ PopInv
  BY SizesAssumption DEF Init, StreamIntegrity, PopInv
<1> QED BY <1>5, <1>6 DEF SInv

\* The handler appends behind everything the task may be moving.
LEMMA IrqSInv == SInv /\ canserial_process_data => SInv'
<1> SUFFICES ASSUME SInv, canserial_process_data PROVE SInv'
    OBVIOUS
<1> USE SizesAssumption DEF SInv, canserial_notify_rx, NoRoom
<1>1. ASSUME NEW len \in FrameLens, DataFrame(len) PROVE SInv'
  <2>1. /\ len \in Nat /\ receive_pos \in Nat /\ consumed \in Nat
        /\ receive_pos' = receive_pos + len /\ receive_pos' <= RxSize
        /\ consumed + receive_pos = accepted /\ accepted + len <= MaxBytes
        /\ accepted' = accepted + len /\ consumed' = consumed /\ RxSize \in Nat
        /\ accepted \in Nat /\ MaxBytes \in Nat /\ pc' = pc
    BY <1>1 DEF DataFrame, TypeOK, StreamIntegrity, taskVars
  <2>2. \A i \in 0 .. receive_pos - 1 : receive_buf'[i] = receive_buf[i]
    BY <1>1, <2>1 DEF DataFrame, TypeOK
  <2>a. receive_buf' = [i \in 0 .. RxSize - 1 |->
                           IF i \in receive_pos .. receive_pos + len - 1
                           THEN accepted + i - receive_pos + 1 ELSE receive_buf[i]]
    BY <1>1 DEF DataFrame
  <2>3. \A i \in receive_pos .. receive_pos' - 1 : receive_buf'[i] = consumed + i + 1
    BY <2>1, <2>a
  <2>b. \A i \in receive_pos .. receive_pos + len - 1 :
            accepted + i - receive_pos + 1 \in 0 .. MaxBytes
    BY <2>1
  <2>4. receive_buf' \in [0 .. RxSize - 1 -> 0 .. MaxBytes]
    BY <2>a, <2>b DEF TypeOK
  <2>5. TypeOK'
    BY <1>1, <2>1, <2>4 DEF DataFrame, taskVars, TypeOK
  <2>6. StreamIntegrity'
    BY <2>1, <2>2, <2>3 DEF StreamIntegrity
  <2>7. PopInv'
    <3>1. UNCHANGED <<pc, copied, pop_count, rpos, consumed>>
      BY <1>1 DEF DataFrame, taskVars
    <3>2. /\ copied \in Nat /\ pop_count \in Nat
          /\ pc \in {"pop", "commit"} => copied + pop_count <= receive_pos
      BY DEF TypeOK, PopInv
    <3> QED BY <2>1, <2>2, <2>3, <3>1, <3>2 DEF PopInv
  <2> QED BY <2>5, <2>6, <2>7
<1>2. CASE ConflictFrame
  BY <1>2 DEF ConflictFrame, taskVars, TypeOK, StreamIntegrity, PopInv
<1>3. ASSUME NEW m \in Admin, AdminFrame(m) PROVE SInv'
  BY <1>3 DEF AdminFrame, taskVars, TypeOK, StreamIntegrity, PopInv
<1>4. CASE IgnoredFrame
  BY <1>4 DEF IgnoredFrame, vars, irqVars, taskVars, TypeOK, StreamIntegrity, PopInv
<1> QED BY <1>1, <1>2, <1>3, <1>4 DEF canserial_process_data

\* The task parses the buffer and pops from it without losing a byte.
LEMMA TaskSInv == SInv /\ canserial_rx_task => SInv'
<1> SUFFICES ASSUME SInv, canserial_rx_task PROVE SInv'
    OBVIOUS
<1> USE SizesAssumption DEF SInv, irqVars, canserial_notify_rx, Raced
<1>1. CASE CheckWake \/ ClearWake \/ CheckConflict \/ can_id_conflict
  BY <1>1 DEF CheckWake, ClearWake, CheckConflict, can_id_conflict,
              TypeOK, StreamIntegrity, PopInv
<1>2. CASE ProcessAdmin
  <2>1. Queued \in Admin
    <3>1. admin_pull_pos % QueueSize \in 0 .. QueueSize - 1
      BY DEF TypeOK
    <3> QED BY <3>1 DEF Queued, TypeOK
  <2>2. /\ assigned_id' \in NodeIds \cup {0}
        /\ resp' \in [type : {"none", "need_nodeid", "ack"}, short_id : ShortIds \cup {0}]
    BY <1>2, <2>1, AdminTypes DEF ProcessAdmin
  <2>3. /\ pc = "admin" /\ pc' = "pull"
        /\ UNCHANGED <<receive_buf, receive_pos, consumed, accepted>>
    BY <1>2 DEF ProcessAdmin
  <2>4. TypeOK'
    BY <1>2, <2>2 DEF ProcessAdmin, TypeOK
  <2> QED BY <2>3, <2>4 DEF StreamIntegrity, PopInv
<1>3. CASE PullAdmin \/ AdminDone
  <2>1. /\ pc \in {"pull", "admin"} /\ pc' \in {"admin", "find"}
        /\ UNCHANGED <<receive_buf, receive_pos, consumed, accepted>>
    BY <1>3 DEF PullAdmin, AdminDone
  <2>2. TypeOK'
    <3>0. admin_pull_pos' \in {admin_pull_pos, admin_pull_pos + 1}
      BY <1>3 DEF PullAdmin, AdminDone
    <3>1. admin_pull_pos' \in Nat
      BY <3>0 DEF TypeOK
    <3>2. CASE PullAdmin
      BY <3>1, <3>2 DEF PullAdmin, TypeOK
    <3>3. CASE AdminDone
      BY <3>1, <3>3 DEF AdminDone, TypeOK
    <3> QED BY <1>3, <3>2, <3>3
  <2> QED BY <2>1, <2>2 DEF StreamIntegrity, PopInv
<1>4. CASE FindBlock
  BY <1>4, SMTT(40) DEF FindBlock, TypeOK, StreamIntegrity, PopInv
<1>5. CASE PopInput
  <2> DEFINE needcopy == receive_pos - pop_count
  <2>0. /\ needcopy \in 0 .. RxSize /\ receive_pos \in 0 .. RxSize /\ copied \in 0 .. needcopy
        /\ pop_count \in 0 .. RxSize /\ needcopy + pop_count = receive_pos
    BY <1>5 DEF PopInput, TypeOK, PopInv
  <2>1. receive_buf' = [i \in 0 .. RxSize - 1 |-> IF i \in copied .. needcopy - 1
                                                  THEN receive_buf[i + pop_count]
                                                  ELSE receive_buf[i]]
    BY <1>5, <2>0 DEF PopInput, TypeOK
  <2>2. copied' = needcopy /\ rpos' = receive_pos
    BY <1>5, <2>0 DEF PopInput, TypeOK
  <2>3. \A i \in copied .. needcopy - 1 : i + pop_count \in 0 .. RxSize - 1
    BY <2>0
  <2>4. receive_buf' \in [0 .. RxSize - 1 -> 0 .. MaxBytes]
    BY <2>1, <2>3 DEF TypeOK
  <2>5. TypeOK' /\ StreamIntegrity'
    BY <1>5, <2>0, <2>2, <2>4 DEF PopInput, TypeOK, StreamIntegrity
  <2>6. \A i \in 0 .. needcopy - 1 : receive_buf'[i] = consumed + pop_count + i + 1
    BY <1>5, <2>0, <2>1, <2>3 DEF PopInput, PopInv, TypeOK
  <2> QED BY <1>5, <2>0, <2>2, <2>5, <2>6 DEF PopInput, PopInv, TypeOK
<1>6. CASE CommitPop
  <2>1. CASE rpos # receive_pos
    BY <1>6, <2>1 DEF CommitPop, TypeOK, StreamIntegrity, PopInv
  <2>2. CASE rpos = receive_pos
    <3>1. /\ pc = "commit" /\ pc' = "idle" /\ receive_buf' = receive_buf
          /\ receive_pos' = rpos - pop_count /\ consumed' = consumed + pop_count
          /\ accepted' = accepted
      BY <1>6, <2>2 DEF CommitPop
    <3>2. copied + pop_count = rpos /\ receive_pos' = copied
      BY <3>1 DEF PopInv, TypeOK
    <3>3. TypeOK'
      BY <1>6, <3>1, <3>2 DEF CommitPop, TypeOK
    <3>4. PopInv'
      BY <2>2, <3>1 DEF PopInv, TypeOK
    <3>5. StreamIntegrity'
      BY <2>2, <3>1, <3>2 DEF StreamIntegrity, PopInv, TypeOK
    <3> QED BY <3>3, <3>4, <3>5
  <2> QED BY <2>1, <2>2
<1> QED BY <1>1, <1>2, <1>3, <1>4, <1>5, <1>6 DEF canserial_rx_task

\* Every step of the handler and of the task keeps the invariant.
LEMMA NextSInv == SInv /\ [Next]_vars => SInv'
<1>1. SInv /\ UNCHANGED vars => SInv'
  BY DEF SInv, vars, irqVars, taskVars, TypeOK, StreamIntegrity, PopInv
<1> QED BY <1>1, IrqSInv, TaskSInv DEF Next

\* Type correctness of the receive side of serial over CAN.
THEOREM TypeCorrect == Spec => []TypeOK
<1>1. SInv => TypeOK
  BY DEF SInv
<1> QED BY InitSInv, NextSInv, <1>1, PTL DEF Spec

\* For every buffer size and every interleaving of the interrupt handler with
\* console_pop_input(), no received byte is lost, repeated or reordered.
THEOREM StreamSafe == Spec => []StreamIntegrity
<1>1. SInv => StreamIntegrity
  BY DEF SInv
<1> QED BY InitSInv, NextSInv, <1>1, PTL DEF Spec

-----------------------------------------------------------------------------
(* The admin queue.  A slot is reused only QueueSize positions later.      *)

\* Positions less than a queue length apart lie in different slots.
LEMMA DistinctSlots ==
  ASSUME NEW p \in Nat, NEW q \in Nat, p < q, q < p + QueueSize
  PROVE  p % QueueSize # q % QueueSize
<1> SUFFICES ASSUME p % QueueSize = q % QueueSize PROVE FALSE
    OBVIOUS
<1> DEFINE k == (q \div QueueSize) - (p \div QueueSize)
<1>1. QueueSize \in Nat /\ QueueSize > 0
  BY SizesAssumption
<1>2. /\ p = QueueSize * (p \div QueueSize) + (p % QueueSize)
      /\ q = QueueSize * (q \div QueueSize) + (q % QueueSize)
      /\ p \div QueueSize \in Int /\ q \div QueueSize \in Int
      /\ p % QueueSize \in Int
  BY <1>1
<1>3. k \in Int /\ q - p = QueueSize * k
  BY <1>1, <1>2
<1>4. CASE k <= 0
  <2>1. QueueSize * k <= 0
    BY <1>1, <1>3, <1>4
  <2> QED BY <1>3, <2>1
<1>5. CASE k >= 1
  <2>1. QueueSize * k >= QueueSize
    BY <1>1, <1>3, <1>5
  <2> QED BY <1>1, <1>3, <2>1
<1> QED BY <1>3, <1>4, <1>5

RInv == TypeOK /\ RingSound /\ (pc = "pull" => admin_push_pos # admin_pull_pos)

\* The handler fills a free slot, the task frees the oldest one.
LEMMA NextRInv == SInv /\ RInv /\ [Next]_vars => RInv'
<1> SUFFICES ASSUME SInv, RInv, [Next]_vars
             PROVE  RingSound' /\ (pc = "pull" => admin_push_pos # admin_pull_pos)'
    BY NextSInv DEF RInv, SInv
<1> USE DEF RInv, irqVars, taskVars
<1>0. admin_push_pos \in Nat /\ admin_pull_pos \in Nat
  BY DEF TypeOK
<1>1. CASE UNCHANGED <<admin_queue, admin_push_pos, admin_pull_pos, pc>>
  BY <1>1 DEF RingSound
<1>2. ASSUME NEW m \in Admin, AdminFrame(m)
      PROVE  RingSound' /\ (pc = "pull" => admin_push_pos # admin_pull_pos)'
  <2>1. /\ admin_push_pos < admin_pull_pos + QueueSize
        /\ admin_push_pos' = admin_push_pos + 1 /\ UNCHANGED <<admin_pull_pos, pc>>
        /\ admin_queue' = [admin_queue EXCEPT ![admin_push_pos % QueueSize] =
                              [msg |-> m, n |-> admin_push_pos]]
    BY <1>0, <1>2, SizesAssumption DEF AdminFrame, QueueFull
  <2>2. admin_push_pos % QueueSize \in 0 .. QueueSize - 1
    BY <1>0, SizesAssumption
  <2>3. admin_queue'[admin_push_pos % QueueSize].n = admin_push_pos
    BY <2>1, <2>2 DEF TypeOK
  <2>4. ASSUME NEW p \in admin_pull_pos .. admin_push_pos - 1
        PROVE  admin_queue'[p % QueueSize].n = p
    <3>1. p \in Nat /\ p < admin_push_pos /\ admin_push_pos < p + QueueSize
      BY <1>0, <2>1, SizesAssumption
    <3>2. p % QueueSize # admin_push_pos % QueueSize
      BY <1>0, <3>1, DistinctSlots
    <3>3. p % QueueSize \in 0 .. QueueSize - 1
      BY <3>1, SizesAssumption
    <3>4. admin_queue'[p % QueueSize] = admin_queue[p % QueueSize]
      BY <2>1, <3>2, <3>3 DEF TypeOK
    <3> QED BY <3>4 DEF RingSound
  <2>5. \A p \in admin_pull_pos .. admin_push_pos : admin_queue'[p % QueueSize].n = p
    BY <1>0, <2>3, <2>4
  <2> QED BY <1>0, <2>1, <2>5, SizesAssumption DEF RingSound
<1>3. CASE PullAdmin
  <2>1. /\ admin_pull_pos' = admin_pull_pos + 1 /\ pc' = "admin"
        /\ UNCHANGED <<admin_queue, admin_push_pos>> /\ admin_push_pos # admin_pull_pos
    BY <1>3 DEF PullAdmin
  <2> QED BY <1>0, <2>1, SizesAssumption DEF RingSound
<1>4. CASE ProcessAdmin
  BY <1>4 DEF ProcessAdmin, RingSound
<1>5. CASE /\ UNCHANGED <<admin_queue, admin_push_pos, admin_pull_pos>> /\ pc' # "pull"
  BY <1>5 DEF RingSound
<1> QED BY <1>1, <1>2, <1>3, <1>4, <1>5
        DEF Next, canserial_process_data, canserial_rx_task, DataFrame, ConflictFrame,
            IgnoredFrame, CheckWake, ClearWake, CheckConflict, can_id_conflict, AdminDone,
            FindBlock, PopInput, CommitPop, vars

\* For every queue length, no admin message the handler accepted is overwritten
\* or skipped before the task has handled it.
THEOREM QueueSafe == Spec => []RingSound
<1>1. Init => RInv
  BY InitSInv, SizesAssumption DEF Init, RInv, RingSound, SInv
<1>2. RInv => RingSound
  BY DEF RInv
<1> QED BY <1>1, <1>2, InitSInv, NextSInv, NextRInv, PTL DEF Spec

-----------------------------------------------------------------------------
(* The wake flag.  Whatever the handler leaves behind, either the flag is  *)
(* set or the task has yet to reach the place that looks for it.           *)

WakeInv ==
    /\ pc = "clear" => rx_wake
    /\ id_conflict_pending => rx_wake \/ pc = "conflict"
    /\ admin_push_pos # admin_pull_pos =>
          rx_wake \/ pc \in {"conflict", "drop_id", "admin", "pull"}
    /\ pc = "idle" => rx_wake \/ receive_pos = examined
    /\ pc \in {"pop", "commit"} => examined = 0
    /\ pc = "commit" => rx_wake \/ rpos = pop_count

\* Every step keeps the flag ahead of the work.
LEMMA NextWakeInv == SInv /\ WakeInv /\ [Next]_vars => WakeInv'
<1> SUFFICES ASSUME SInv, WakeInv, [Next]_vars PROVE WakeInv'
    OBVIOUS
<1> USE DEF irqVars, taskVars, canserial_notify_rx, Raced
<1>1. CASE canserial_process_data
  <2>1. CASE IgnoredFrame
    BY <2>1 DEF IgnoredFrame, vars, WakeInv
  <2>2. CASE /\ rx_wake' = TRUE /\ UNCHANGED taskVars
    BY <2>2 DEF WakeInv
  <2> QED BY <1>1, <2>1, <2>2 DEF canserial_process_data, DataFrame, ConflictFrame, AdminFrame
<1>2. CASE CheckWake \/ ClearWake \/ can_id_conflict \/ ProcessAdmin \/ PullAdmin \/ AdminDone
  BY <1>2 DEF CheckWake, ClearWake, can_id_conflict, ProcessAdmin, PullAdmin, AdminDone, WakeInv
<1>3. CASE CheckConflict
  BY <1>3 DEF CheckConflict, WakeInv
<1>4. CASE FindBlock
  BY <1>4 DEF FindBlock, WakeInv
<1>5. CASE PopInput
  <2>1. receive_pos \in Int /\ pop_count \in Int
    BY DEF SInv, TypeOK
  <2> QED BY <1>5, <2>1 DEF PopInput, WakeInv
<1>6. CASE CommitPop
  <2>1. rpos \in Int /\ pop_count \in Int
    BY DEF SInv, TypeOK
  <2> QED BY <1>6, <2>1 DEF CommitPop, WakeInv
<1>7. CASE UNCHANGED vars
  BY <1>7 DEF vars, WakeInv
<1> QED BY <1>1, <1>2, <1>3, <1>4, <1>5, <1>6, <1>7 DEF Next, canserial_rx_task

\* For every interleaving, the task never sleeps while an admin message, a
\* conflict or an unparsed byte waits.
THEOREM NoWakeLost == Spec => []NoLostWake
<1>1. Init => WakeInv
  BY DEF Init, WakeInv
<1>2. WakeInv => NoLostWake
  BY DEF WakeInv, NoLostWake
<1> QED BY <1>1, <1>2, InitSInv, NextSInv, NextWakeInv, PTL DEF Spec
=============================================================================
