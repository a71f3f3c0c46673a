-------------------------------- MODULE CanTx --------------------------------
(***************************************************************************)
(* The transmit side of serial over CAN: the response buffer and           *)
(* canserial_tx_task() of src/src/generic/canserial.c over the three       *)
(* controllers it runs on, stm32/can.c (bxCAN), stm32/fdcan.c and          *)
(* rp2040/can.c (can2040).                                                 *)
(*                                                                         *)
(* Everything but the controller and its interrupt runs in one thread, so  *)
(* responses, heartbeats and id changes come between two runs of the task; *)
(* frames complete and interrupts strike anywhere.  The bytes of the       *)
(* responses are numbered, so the model can tell a lost, repeated or       *)
(* reordered one.                                                          *)
(***************************************************************************)
EXTENDS Integers, Sequences

CONSTANTS BufSize,      \* sizeof(transmit_buf)
          FrameSize,    \* data bytes of a CAN frame
          NumBoxes,     \* transmit mailboxes of the controller
          ResponseLens, \* lengths of a response
          MaxBytes,     \* cap on the bytes of all responses
          MaxOther      \* cap on heartbeats and admin answers

ASSUME TxAssumption ==
    /\ BufSize \in Nat \ {0} /\ FrameSize \in Nat \ {0} /\ NumBoxes \in Nat \ {0}
    /\ ResponseLens \subseteq Nat \ {0}
    /\ MaxBytes \in Nat /\ MaxOther \in Nat

Boxes == 0 .. NumBoxes - 1
Chips == {"bxcan", "fdcan", "can2040"}

VARIABLES chip,
          has_id,         \* assigned_id is not zero
          tx_wake,        \* CanData.tx_wake
          transmit_buf, transmit_pos, transmit_max,
          pc,             \* where the thread stands
          tpos,           \* local of canserial_tx_task()
          pending,        \* boxes waiting for the bus, oldest first (CAN_MCR_TXFP)
          completed,      \* boxes whose completion is flagged: RQCP of TSR, or IR
          tmeie,          \* CAN_IER_TMEIE
          others,         \* heartbeats and admin answers so far
          produced,       \* history: bytes of accepted responses
          expect          \* history: number of the byte that is to go next

threadVars == <<has_id, transmit_buf, transmit_pos, transmit_max, pc, tpos, produced, expect>>
hwVars == <<pending, completed, tmeie>>
vars == <<chip, threadVars, hwVars, tx_wake, others>>

Pending == {pending[i] : i \in 1 .. Len(pending)}
Free == Boxes \ Pending

TypeOK == /\ chip \in Chips
          /\ has_id \in BOOLEAN /\ tx_wake \in BOOLEAN /\ tmeie \in BOOLEAN
          /\ transmit_buf \in [0 .. BufSize - 1 -> 0 .. MaxBytes]
          /\ transmit_pos \in 0 .. BufSize /\ transmit_max \in 0 .. BufSize
          /\ pc \in {"idle", "clear", "task", "send", "full", "admin", "adminfull"}
          /\ tpos \in 0 .. BufSize
          /\ pending \in Seq(Boxes)
          /\ completed \subseteq Boxes
          /\ others \in 0 .. MaxOther
          /\ produced \in 0 .. MaxBytes
          /\ expect \in 1 .. MaxBytes + 1

Init == /\ chip \in Chips
        /\ has_id = FALSE
        /\ tx_wake = FALSE
        /\ transmit_buf = [i \in 0 .. BufSize - 1 |-> 0]
        /\ transmit_pos = 0 /\ transmit_max = 0
        /\ pc = "idle" /\ tpos = 0
        /\ pending = <<>> /\ completed = {} /\ tmeie = FALSE /\ others = 0
        /\ produced = 0 /\ expect = 1

-----------------------------------------------------------------------------
(* The controllers.                                                        *)

\* canhw_send() finds no room and, on the bxCAN, enables the transmit interrupt.
enable_tx_irq_missing == UNCHANGED tmeie
enable_tx_irq == tmeie' = (chip = "bxcan" \/ tmeie)

\* canhw_send() fills a box and requests its transmission; on the bxCAN that
\* clears the box's completion flag.
canhw_send ==
    \E box \in Free :
       /\ \A other \in Free : box <= other
       /\ pending' = Append(pending, box)
       /\ completed' = IF chip = "bxcan" THEN completed \ {box} ELSE completed
       /\ UNCHANGED tmeie

\* The bus takes the oldest frame.  The bxCAN and can2040 flag every completion;
\* the FDCAN, with the transmission-completed interrupts of TXBTIE left off,
\* flags the FIFO running empty.
BusSends ==
    /\ pending # <<>>
    /\ pending' = Tail(pending)
    /\ completed' = IF chip = "fdcan" /\ Tail(pending) # <<>>
                    THEN completed ELSE completed \cup {Head(pending)}
    /\ UNCHANGED <<chip, threadVars, tmeie, tx_wake, others>>

\* canbus_notify_tx()
canserial_notify_tx == tx_wake' = TRUE

\* The transmit part of CAN_IRQHandler(): the bxCAN disables the interrupt and
\* leaves RQCP alone, the others acknowledge the flag.
CAN_IRQHandler ==
    /\ completed # {}
    /\ chip = "bxcan" => tmeie
    /\ IF chip = "bxcan" THEN tmeie' = FALSE /\ UNCHANGED completed
                         ELSE completed' = {} /\ UNCHANGED tmeie
    /\ canserial_notify_tx
    /\ UNCHANGED <<chip, threadVars, pending, others>>

-----------------------------------------------------------------------------
(* The thread.                                                             *)

\* That many bytes fit in transmit_buf.
Fits(n) == n <= BufSize

\* Append a response of len bytes at max, with the buffer as given.
Accept(buf, pos, max, len) ==
    /\ produced + len <= MaxBytes
    /\ transmit_buf' = [i \in 0 .. BufSize - 1 |->
                          IF i \in max .. max + len - 1 THEN produced + i - max + 1 ELSE buf[i]]
    /\ transmit_pos' = pos
    /\ transmit_max' = max + len
    /\ produced' = produced + len
    /\ canserial_notify_tx

\* Move the unsent bytes to the front.
Moved_short == [i \in 0 .. BufSize - 1 |->
                  IF i < transmit_max - transmit_pos - 1
                  THEN transmit_buf[i + transmit_pos] ELSE transmit_buf[i]]
Moved == [i \in 0 .. BufSize - 1 |->
            IF i < transmit_max - transmit_pos
            THEN transmit_buf[i + transmit_pos] ELSE transmit_buf[i]]

\* console_sendf(): append, after moving the buffer if that makes the room, or
\* drop the response.  A drained buffer is reset in either case.
console_sendf(len) ==
    LET drained == transmit_pos >= transmit_max
        pos == IF drained THEN 0 ELSE transmit_pos
        max == IF drained THEN 0 ELSE transmit_max
    IN /\ pc = "idle"
       /\ \/ /\ Fits(max + len)
             /\ Accept(transmit_buf, pos, max, len)
          \/ /\ ~Fits(max + len) /\ Fits(max + len - pos)
             /\ Accept(Moved, 0, max - pos, len)
          \/ /\ ~Fits(max + len - pos)
             /\ transmit_pos' = pos /\ transmit_max' = max
             /\ UNCHANGED <<transmit_buf, produced, tx_wake>>
       /\ UNCHANGED <<chip, has_id, others, pc, tpos, expect, hwVars>>

\* canserial_tx_task(): sched_check_wake() tests the flag ...
CheckWake == /\ pc = "idle" /\ tx_wake
             /\ pc' = "clear"
             /\ UNCHANGED <<chip, has_id, others, transmit_buf, transmit_pos, transmit_max, tpos,
                            produced, expect, hwVars, tx_wake>>

\* ... and clears it,
ClearWake == /\ pc = "clear"
             /\ tx_wake' = FALSE
             /\ pc' = "task"
             /\ UNCHANGED <<chip, has_id, others, transmit_buf, transmit_pos, transmit_max, tpos,
                            produced, expect, hwVars>>

\* without an id the responses are discarded,
TaskStart ==
    /\ pc = "task"
    /\ \/ /\ ~has_id
          /\ transmit_pos' = 0 /\ transmit_max' = 0
          /\ expect' = produced + 1
          /\ pc' = "idle" /\ UNCHANGED tpos
       \/ /\ has_id
          /\ tpos' = transmit_pos /\ pc' = "send"
          /\ UNCHANGED <<transmit_pos, transmit_max, expect>>
    /\ UNCHANGED <<chip, has_id, others, transmit_buf, produced, hwVars, tx_wake>>

\* the loop hands frame after frame to the controller
SendFrame ==
    LET avail == transmit_max - tpos
        now == IF avail > FrameSize THEN FrameSize ELSE avail
    IN /\ pc = "send" /\ avail > 0
       /\ canhw_send
       /\ tpos' = tpos + now
       /\ expect' = expect + now
       /\ UNCHANGED <<chip, has_id, others, transmit_buf, transmit_pos, transmit_max, pc, produced, tx_wake>>

\* until there is no room: the interrupt is enabled one step after the test.
NoRoom == /\ pc = "send" /\ transmit_max - tpos > 0
          /\ Free = {}
          /\ pc' = "full"
          /\ UNCHANGED <<chip, has_id, others, transmit_buf, transmit_pos, transmit_max, tpos, produced,
                         expect, hwVars, tx_wake>>

EnableIrq == /\ pc = "full"
             /\ enable_tx_irq
             /\ transmit_pos' = tpos
             /\ pc' = "idle"
             /\ UNCHANGED <<chip, has_id, others, transmit_buf, transmit_max, tpos, produced, expect,
                            pending, completed, tx_wake>>

\* or until everything is sent.
TaskDone == /\ pc = "send" /\ transmit_max - tpos <= 0
            /\ transmit_pos' = tpos
            /\ pc' = "idle"
            /\ UNCHANGED <<chip, has_id, others, transmit_buf, transmit_max, tpos, produced, expect,
                           hwVars, tx_wake>>

canserial_tx_task == CheckWake \/ ClearWake \/ TaskStart \/ SendFrame \/ NoRoom
                     \/ EnableIrq \/ TaskDone

\* canserial_heartbeat_task(): one frame, and if there is no room, none.
canserial_heartbeat_task ==
    /\ pc = "idle" /\ has_id
    /\ others < MaxOther /\ others' = others + 1
    /\ \/ canhw_send
       \/ Free = {} /\ enable_tx_irq /\ UNCHANGED <<pending, completed>>
    /\ UNCHANGED <<chip, threadVars, tx_wake>>

\* canhw_set_filter(), outside the FDCAN, leaves the mailboxes alone.  The FDCAN
\* goes through its initialisation mode, which may drop the frames that wait.
canhw_set_filter ==
    /\ pending' \in IF chip = "fdcan" THEN {pending, <<>>} ELSE {pending}
    /\ UNCHANGED <<completed, tmeie>>

\* can_process_query_unassigned(): an answer is due.
QueryAnswer == /\ pc = "idle" /\ ~has_id
               /\ pc' = "admin"
               /\ others < MaxOther /\ others' = others + 1
               /\ UNCHANGED <<chip, has_id, transmit_buf, transmit_pos, transmit_max, tpos,
                              produced, expect, hwVars, tx_wake>>

\* can_process_set_canboot_nodeid(): another id, and an acknowledgement is due.
SetId == /\ pc = "idle" /\ pc' = "admin"
         /\ has_id' = TRUE
         /\ canhw_set_filter
         /\ others < MaxOther /\ others' = others + 1
         /\ UNCHANGED <<chip, transmit_buf, transmit_pos, transmit_max, tpos,
                        produced, expect, tx_wake>>

\* can_process_clear_canboot_nodeid() and can_id_conflict()
DropId == /\ pc = "idle"
          /\ has_id' = FALSE
          /\ canhw_set_filter
          /\ UNCHANGED <<chip, others, transmit_buf, transmit_pos, transmit_max, pc, tpos,
                         produced, expect, tx_wake>>

\* The answer is in a box: "if (ret >= 0)".
AdminSent_ignored == pc' = "admin"
AdminSent == pc' = "idle"

\* The loop "for (;;)" of can_process_query_unassigned(), and that of
\* can_process_set_canboot_nodeid(): try until there is room.
AdminRetry ==
    \/ /\ pc = "admin"
       /\ \/ canhw_send /\ AdminSent
          \/ Free = {} /\ pc' = "adminfull" /\ UNCHANGED hwVars
       /\ UNCHANGED <<chip, has_id, others, transmit_buf, transmit_pos, transmit_max, tpos, produced,
                      expect, tx_wake>>
    \/ /\ pc = "adminfull"
       /\ enable_tx_irq
       /\ pc' = "admin"
       /\ UNCHANGED <<chip, has_id, others, transmit_buf, transmit_pos, transmit_max, tpos, produced,
                      expect, pending, completed, tx_wake>>

-----------------------------------------------------------------------------
Next == \/ \E len \in ResponseLens : console_sendf(len)
        \/ canserial_tx_task
        \/ canserial_heartbeat_task
        \/ QueryAnswer \/ SetId \/ DropId \/ AdminRetry
        \/ BusSends \/ CAN_IRQHandler

Spec == Init /\ [][Next]_vars

\* The thread keeps running, interrupts that are due come and the bus takes what
\* the controller holds.
FairSpec == /\ Spec
            /\ WF_vars(canserial_tx_task) /\ WF_vars(AdminRetry)
            /\ WF_vars(BusSends) /\ WF_vars(CAN_IRQHandler)

-----------------------------------------------------------------------------
(* Properties.                                                             *)

InTask == pc \in {"send", "full"}

\* The bytes still to be handed to the controller are, in order, those from
\* expect on, through every move and reset of the buffer in console_sendf() and
\* every interrupted run of the task: none is skipped and none goes twice.
TxStream ==
    LET at == IF InTask THEN tpos ELSE transmit_pos
    IN /\ at <= transmit_max
       /\ expect + (transmit_max - at) = produced + 1
       /\ \A i \in at .. transmit_max - 1 : transmit_buf[i] = expect + (i - at)

\* The transmit interrupt is due, or will be when the bus takes a frame.
IrqComing == /\ pending # <<>> \/ completed # {}
             /\ chip = "bxcan" => tmeie

\* A response never waits for a wake-up that does not come: when the task of a
\* device with an id sleeps on unsent bytes, an interrupt that wakes it is on its
\* way, also if the box emptied between the test in canhw_send() and the enabling
\* of the interrupt, a heartbeat or an admin answer took the room, or a change of
\* id reset the controller.
TxNoLostWake ==
    (pc = "idle" /\ ~tx_wake /\ has_id /\ transmit_pos < transmit_max) => IrqComing

\* Every accepted response of a device that keeps its id goes out, as long as the
\* bus takes frames and other traffic of the device does not fill every box for ever.
ResponsesLeave ==
    \A k \in 1 .. MaxBytes : (has_id /\ produced >= k) ~> (~has_id \/ expect > k)
=============================================================================
