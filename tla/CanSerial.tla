------------------------------ MODULE CanSerial ------------------------------
(***************************************************************************)
(* The receive side of serial over CAN, src/src/generic/canserial.c: the   *)
(* interrupt handler canserial_process_data() that fills the receive       *)
(* buffer, the admin queue and the conflict flag, and the task             *)
(* canserial_rx_task() that empties them, interleaved step by step.        *)
(*                                                                         *)
(* The interrupt handler runs to completion between any two steps of the   *)
(* task; the task's steps end where the code reads or writes something the *)
(* handler shares.  Bytes are numbered in the order the handler accepts    *)
(* them, so the model can tell a lost, repeated or reordered byte; what    *)
(* command_find_block() makes of them (module Framing) is any choice.      *)
(***************************************************************************)
EXTENDS Integers

CONSTANTS RxSize,       \* sizeof(receive_buf)
          QueueSize,    \* ARRAY_SIZE(admin_queue)
          FrameLens,    \* data lengths of a CAN frame
          ShortIds,     \* short ids hosts try to assign, valid or not
          MaxBytes,     \* cap on the bytes received
          MaxAdmin      \* cap on the admin messages received

ASSUME SizesAssumption ==
    /\ RxSize \in Nat \ {0} /\ QueueSize \in Nat \ {0}
    /\ FrameLens \subseteq Nat
    /\ ShortIds \subseteq Nat
    /\ MaxBytes \in Nat /\ MaxAdmin \in Nat

VARIABLES assigned_id,
          rx_wake,                \* CanData.rx_wake
          receive_buf, receive_pos,
          id_conflict_pending,
          admin_queue, admin_push_pos, admin_pull_pos,
          pc,                     \* where canserial_rx_task() stands
          pop_count, rpos, copied,    \* its locals
          resp,                   \* admin response sent for the last message
          accepted,               \* history: bytes the handler took
          consumed,               \* history: bytes popped from the buffer
          examined                \* history: receive_pos as last parsed, 0 if popped since

irqVars == <<receive_buf, receive_pos, id_conflict_pending, admin_queue, admin_push_pos,
             accepted>>
taskVars == <<assigned_id, admin_pull_pos, pc, pop_count, rpos, copied, resp, consumed, examined>>
vars == <<irqVars, taskVars, rx_wake>>

\* Admin frames: QUERY_UNASSIGNED, CLEAR_CANBOOT_NODEID, SET_CANBOOT_NODEID with
\* this or another chip's uuid, and anything too short or unknown.
Admin == [cmd : {"query", "clear", "junk"}, mine : {FALSE}, short_id : {0}]
            \cup [cmd : {"set"}, mine : BOOLEAN, short_id : ShortIds]

NoResp == [type |-> "none", short_id |-> 0]

can_decode_nodeid(short_id) ==
    IF short_id < 1 \/ short_id > 29 THEN 0 ELSE short_id * 32 + 32

NodeIds == {can_decode_nodeid(s) : s \in ShortIds} \ {0}

TypeOK ==
    /\ assigned_id \in NodeIds \cup {0}
    /\ rx_wake \in BOOLEAN
    /\ receive_buf \in [0 .. RxSize - 1 -> 0 .. MaxBytes]
    /\ receive_pos \in 0 .. RxSize
    /\ id_conflict_pending \in BOOLEAN
    /\ admin_queue \in [0 .. QueueSize - 1 -> [msg : Admin, n : Nat]]
    /\ admin_push_pos \in Nat /\ admin_pull_pos \in Nat
    /\ pc \in {"idle", "clear", "conflict", "drop_id", "admin", "pull", "find", "pop", "commit"}
    /\ pop_count \in 0 .. RxSize /\ rpos \in 0 .. RxSize /\ copied \in 0 .. RxSize
    /\ resp \in [type : {"none", "need_nodeid", "ack"}, short_id : ShortIds \cup {0}]
    /\ accepted \in 0 .. MaxBytes /\ consumed \in Nat
    /\ examined \in 0 .. RxSize

Init ==
    /\ assigned_id = 0
    /\ rx_wake = TRUE                  \* canserial_set_uuid() notifies
    /\ receive_buf = [i \in 0 .. RxSize - 1 |-> 0]
    /\ receive_pos = 0
    /\ id_conflict_pending = FALSE
    /\ admin_queue = [i \in 0 .. QueueSize - 1 |->
                        [msg |-> [cmd |-> "junk", mine |-> FALSE, short_id |-> 0], n |-> 0]]
    /\ admin_push_pos = 0 /\ admin_pull_pos = 0
    /\ pc = "idle"
    /\ pop_count = 0 /\ rpos = 0 /\ copied = 0
    /\ resp = NoResp
    /\ accepted = 0 /\ consumed = 0
    /\ examined = 0

-----------------------------------------------------------------------------
(* canserial_process_data(), in interrupt context.                         *)

\* canserial_notify_rx()
canserial_notify_rx_missing == UNCHANGED rx_wake
canserial_notify_rx == rx_wake' = TRUE

\* The frame does not fit in what is left of receive_buf.
NoRoom(len) == len > RxSize - receive_pos

\* A frame on our CMD_RX id: append its data, or drop all of it.
DataFrame(len) ==
    /\ assigned_id # 0
    /\ accepted + len <= MaxBytes
    /\ ~NoRoom(len)
    /\ receive_buf' = [i \in 0 .. RxSize - 1 |->
                         IF i \in receive_pos .. receive_pos + len - 1
                         THEN accepted + i - receive_pos + 1 ELSE receive_buf[i]]
    /\ receive_pos' = receive_pos + len
    /\ accepted' = accepted + len
    /\ canserial_notify_rx
    /\ UNCHANGED <<id_conflict_pending, admin_queue, admin_push_pos, taskVars>>

\* A frame on our CMD_TX id: someone else uses our short id.
ConflictFrame ==
    /\ assigned_id # 0
    /\ id_conflict_pending' = TRUE
    /\ canserial_notify_rx
    /\ UNCHANGED <<receive_buf, receive_pos, admin_queue, admin_push_pos, accepted, taskVars>>

\* No space in admin_queue.
QueueFull_off == admin_push_pos > admin_pull_pos + QueueSize
QueueFull == admin_push_pos >= admin_pull_pos + QueueSize

\* A frame on CANBUS_ID_ADMIN: queue it; without space it is dropped.
AdminFrame(m) ==
    /\ admin_push_pos < MaxAdmin
    /\ ~QueueFull
    /\ admin_queue' = [admin_queue EXCEPT ![admin_push_pos % QueueSize] =
                          [msg |-> m, n |-> admin_push_pos]]
    /\ admin_push_pos' = admin_push_pos + 1
    /\ canserial_notify_rx
    /\ UNCHANGED <<receive_buf, receive_pos, id_conflict_pending, accepted, taskVars>>

\* A frame for another node, or one there is no space for, changes nothing.
IgnoredFrame == UNCHANGED vars

canserial_process_data == \/ \E len \in FrameLens : DataFrame(len)
                          \/ ConflictFrame
                          \/ \E m \in Admin : AdminFrame(m)
                          \/ IgnoredFrame

-----------------------------------------------------------------------------
(* canserial_rx_task().                                                    *)

\* sched_check_wake(): the flag is read ...
CheckWake == /\ pc = "idle" /\ rx_wake
             /\ pc' = "clear"
             /\ UNCHANGED <<irqVars, rx_wake, assigned_id, admin_pull_pos, pop_count, rpos,
                            copied, resp, consumed, examined>>

\* ... and then cleared.
ClearWake == /\ pc = "clear"
             /\ rx_wake' = FALSE
             /\ pc' = "conflict"
             /\ UNCHANGED <<irqVars, assigned_id, admin_pull_pos, pop_count, rpos,
                            copied, resp, consumed, examined>>

CheckConflict ==
    /\ pc = "conflict"
    /\ id_conflict_pending' = FALSE
    /\ pc' = IF id_conflict_pending THEN "drop_id" ELSE "admin"
    /\ UNCHANGED <<receive_buf, receive_pos, admin_queue, admin_push_pos,
                   accepted, rx_wake, assigned_id, admin_pull_pos, pop_count, rpos, copied, resp, consumed, examined>>

can_id_conflict == /\ pc = "drop_id"
                   /\ assigned_id' = 0
                   /\ pc' = "admin"
                   /\ UNCHANGED <<irqVars, rx_wake, admin_pull_pos, pop_count, rpos,
                                  copied, resp, consumed, examined>>

can_process_query_unassigned ==
    /\ resp' = IF assigned_id # 0 THEN NoResp ELSE [type |-> "need_nodeid", short_id |-> 0]
    /\ UNCHANGED assigned_id

can_process_clear_canboot_nodeid == assigned_id' = 0 /\ resp' = NoResp

can_process_set_canboot_nodeid(m) ==
    LET newid == can_decode_nodeid(m.short_id)
    IN \/ newid = 0 /\ resp' = NoResp /\ UNCHANGED assigned_id
       \/ /\ newid # 0 /\ m.mine /\ newid # assigned_id
          /\ assigned_id' = newid
          /\ resp' = [type |-> "ack", short_id |-> m.short_id]
       \/ /\ newid # 0 /\ m.mine /\ newid = assigned_id
          /\ resp' = NoResp /\ UNCHANGED assigned_id
       \/ /\ newid # 0 /\ ~m.mine
          /\ assigned_id' = IF newid = assigned_id THEN 0 ELSE assigned_id
          /\ resp' = NoResp

Queued == admin_queue[admin_pull_pos % QueueSize].msg

can_process_admin(m) ==
    \/ m.cmd = "query" /\ can_process_query_unassigned
    \/ m.cmd = "set" /\ can_process_set_canboot_nodeid(m)
    \/ m.cmd = "clear" /\ can_process_clear_canboot_nodeid
    \/ m.cmd = "junk" /\ resp' = NoResp /\ UNCHANGED assigned_id

\* The next admin message is handled; admin_pull_pos follows one step later.
ProcessAdmin == /\ pc = "admin" /\ admin_push_pos # admin_pull_pos
                /\ can_process_admin(Queued)
                /\ pc' = "pull"
                /\ UNCHANGED <<irqVars, rx_wake, admin_pull_pos, pop_count, rpos, copied,
                               consumed, examined>>

\* A wrong variant that forgets to advance.
PullAdmin_missing == /\ pc = "pull" /\ pc' = "admin"
                     /\ UNCHANGED <<irqVars, rx_wake, assigned_id, admin_pull_pos, pop_count,
                                    rpos, copied, resp, consumed, examined>>

PullAdmin == /\ pc = "pull"
             /\ admin_pull_pos' = admin_pull_pos + 1
             /\ pc' = "admin"
             /\ UNCHANGED <<irqVars, rx_wake, assigned_id, pop_count, rpos, copied, resp,
                            consumed, examined>>

AdminDone == /\ pc = "admin" /\ admin_push_pos = admin_pull_pos
             /\ pc' = "find"
             /\ UNCHANGED <<irqVars, rx_wake, assigned_id, admin_pull_pos, pop_count, rpos, copied,
                            resp, consumed, examined>>

\* command_find_block() looks at the buffer: it needs more data, or it asks to
\* pop some of what is there, after command_dispatch() or for lack of sync.
FindBlock == /\ pc = "find"
             /\ \/ /\ pc' = "idle" /\ examined' = receive_pos /\ UNCHANGED pop_count
                \/ /\ pop_count' \in 0 .. receive_pos
                   /\ pc' = "pop" /\ examined' = 0
             /\ copied' = 0 /\ rpos' = 0
             /\ UNCHANGED <<irqVars, rx_wake, assigned_id, admin_pull_pos, resp, consumed>>

\* console_pop_input(): move what follows the popped bytes to the front.
PopInput ==
    /\ pc = "pop"
    /\ rpos' = receive_pos
    /\ LET needcopy == receive_pos - pop_count
       IN IF needcopy # 0
          THEN /\ receive_buf' = [i \in 0 .. RxSize - 1 |->
                                    IF i \in copied .. needcopy - 1
                                    THEN receive_buf[i + pop_count] ELSE receive_buf[i]]
               /\ copied' = needcopy
               /\ canserial_notify_rx
          ELSE UNCHANGED <<receive_buf, copied, rx_wake>>
    /\ pc' = "commit"
    /\ UNCHANGED <<receive_pos, id_conflict_pending, admin_queue, admin_push_pos,
                   accepted, assigned_id, admin_pull_pos, pop_count, resp, consumed, examined>>

\* The handler added something since receive_pos was read.
Raced_ignored == FALSE
Raced == rpos # receive_pos

\* With interrupts off: publish the new length, or go round again if the handler
\* added something meanwhile.
CommitPop ==
    /\ pc = "commit"
    /\ IF Raced
       THEN pc' = "pop" /\ UNCHANGED <<receive_pos, consumed>>
       ELSE /\ receive_pos' = rpos - pop_count
            /\ consumed' = consumed + pop_count
            /\ pc' = "idle"
    /\ UNCHANGED <<receive_buf, id_conflict_pending, admin_queue, admin_push_pos,
                   accepted, rx_wake, assigned_id, admin_pull_pos, pop_count, rpos, copied, resp, examined>>

canserial_rx_task ==
    CheckWake \/ ClearWake \/ CheckConflict \/ can_id_conflict \/ ProcessAdmin \/ PullAdmin
    \/ AdminDone \/ FindBlock \/ PopInput \/ CommitPop

Next == canserial_process_data \/ canserial_rx_task

\* The task loop runs the task again and again, and sched_check_wake() lets it in
\* whenever the flag is set.
Spec == Init /\ [][Next]_vars /\ WF_vars(canserial_rx_task)

-----------------------------------------------------------------------------
(* Properties.                                                             *)

\* No byte the handler accepted is lost and each is parsed once and in order: what
\* is in the buffer is the stream after the consumed bytes, also when frames arrived
\* while console_pop_input() was moving the rest of the buffer.
StreamIntegrity ==
    /\ consumed + receive_pos = accepted
    /\ pc \notin {"pop", "commit"} =>
        \A i \in 0 .. receive_pos - 1 : receive_buf[i] = consumed + i + 1

\* The admin queue is a queue: between the two positions lie exactly the accepted
\* messages, none overwritten by the handler before the task has handled it.
RingSound ==
    /\ admin_pull_pos <= admin_push_pos
    /\ admin_push_pos - admin_pull_pos <= QueueSize
    /\ \A p \in admin_pull_pos .. admin_push_pos - 1 : admin_queue[p % QueueSize].n = p

\* The task never sleeps on work: if it is not going to run, the admin queue is
\* empty, no conflict waits and every received byte was shown to the parser.
NoLostWake ==
    (pc = "idle" /\ ~rx_wake) =>
        /\ admin_push_pos = admin_pull_pos
        /\ ~id_conflict_pending
        /\ receive_pos = examined

\* Every accepted admin message is handled, however busy the bus is.
AdminServed == \A k \in 1 .. MaxAdmin : (admin_push_pos >= k) ~> (admin_pull_pos >= k)

\* docs/admin_protocol.md: the acknowledgement is "Sent immediately after receiving
\* SET_CANBOOT_NODEID with matching UUID".
SetNodeidAcked ==
    [][ProcessAdmin /\ Queued.cmd = "set" /\ Queued.mine
         /\ can_decode_nodeid(Queued.short_id) # 0
           => resp' = [type |-> "ack", short_id |-> Queued.short_id]]_vars
=============================================================================
