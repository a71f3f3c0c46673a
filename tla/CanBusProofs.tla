---------------------------- MODULE CanBusProofs ----------------------------
(* Theorems about CanTx, for every buffer, frame and mailbox count, and    *)
(* about CanRx, for every depth of the receive FIFO.                       *)
EXTENDS CanTx, CanRx, DataLemmas

-----------------------------------------------------------------------------
(* Types and the stream.  expect is bounded only through the stream, so the *)
(* two are proved together.                                                *)

StreamInv == TypeOK /\ TxStream

LEMMA StreamInit == Init => StreamInv
BY TxAssumption DEF Init, StreamInv, TypeOK, TxStream, InTask, Chips

\* Sending appends one box to the queue of the controller.
LEMMA SendTypes ==
    ASSUME TypeOK, canhw_send
    PROVE  /\ pending' \in Seq(Boxes) /\ pending' # <<>>
           /\ completed' \subseteq Boxes
           /\ tmeie' = tmeie
BY DEF TypeOK, canhw_send, Free

\* Setting the filter keeps the queue of the controller or empties it.
LEMMA FilterTypes ==
    ASSUME TypeOK, canhw_set_filter
    PROVE  pending' \in Seq(Boxes)
<1>1. pending \in Seq(Boxes) BY DEF TypeOK
<1>2. <<>> \in Seq(Boxes) OBVIOUS
<1>3. pending' = pending \/ pending' = <<>> BY DEF canhw_set_filter
<1>4. CASE pending' = pending BY <1>1, <1>4
<1>5. CASE pending' = <<>> BY <1>2, <1>5
<1> QED BY <1>3, <1>4, <1>5

\* A response that fits is appended behind the unsent bytes of the buffer as given.
LEMMA AcceptStream ==
    ASSUME StreamInv, pc = "idle", pc' = pc, expect' = expect,
           NEW buf \in [0 .. BufSize - 1 -> 0 .. MaxBytes],
           NEW pos \in 0 .. BufSize, NEW max \in 0 .. BufSize, NEW len \in ResponseLens,
           pos <= max, max + len <= BufSize,
           expect + (max - pos) = produced + 1,
           \A i \in pos .. max - 1 : buf[i] = expect + (i - pos),
           Accept(buf, pos, max, len)
    PROVE  /\ transmit_buf' \in [0 .. BufSize - 1 -> 0 .. MaxBytes]
           /\ transmit_pos' \in 0 .. BufSize /\ transmit_max' \in 0 .. BufSize
           /\ produced' \in 0 .. MaxBytes
           /\ tx_wake'
           /\ TxStream'
<1>1. /\ len \in Nat /\ len > 0 /\ BufSize \in Nat /\ MaxBytes \in Nat
      /\ produced \in Nat /\ expect \in Nat
  BY TxAssumption DEF StreamInv, TypeOK
<1>2. /\ transmit_pos' = pos /\ transmit_max' = max + len
      /\ produced' = produced + len /\ produced + len <= MaxBytes /\ tx_wake'
  BY DEF Accept, canserial_notify_tx
<1>3. transmit_buf' = [i \in 0 .. BufSize - 1 |->
                         IF i \in max .. max + len - 1 THEN produced + i - max + 1 ELSE buf[i]]
  BY DEF Accept
<1>4. transmit_buf' \in [0 .. BufSize - 1 -> 0 .. MaxBytes]
  <2>1. ASSUME NEW i \in 0 .. BufSize - 1, i \in max .. max + len - 1
        PROVE  produced + i - max + 1 \in 0 .. MaxBytes
    BY <2>1, <1>1, <1>2
  <2> QED BY <2>1, <1>3
<1>5. \A i \in pos .. max + len - 1 : transmit_buf'[i] = expect + (i - pos)
  <2> SUFFICES ASSUME NEW i \in pos .. max + len - 1
               PROVE  transmit_buf'[i] = expect + (i - pos)
    OBVIOUS
  <2>1. CASE i < max
    <3>1. i \in pos .. max - 1 /\ i \in 0 .. BufSize - 1 /\ i \notin max .. max + len - 1
      BY <2>1, <1>1
    <3> QED BY <3>1, <1>3
  <2>2. CASE i >= max
    <3>1. i \in 0 .. BufSize - 1 /\ i \in max .. max + len - 1
      BY <2>2, <1>1
    <3>2. transmit_buf'[i] = produced + i - max + 1
      BY <3>1, <1>3
    <3> QED BY <3>2, <1>1
  <2> QED BY <2>1, <2>2, <1>1
<1>6. TxStream'
  <2>1. ~InTask' BY DEF InTask
  <2>2. expect + ((max + len) - pos) = (produced + len) + 1 BY <1>1
  <2>3. pos <= max + len BY <1>1
  <2>4. /\ transmit_pos' <= transmit_max'
        /\ expect' + (transmit_max' - transmit_pos') = produced' + 1
    BY <1>2, <2>2, <2>3
  <2>5. \A i \in transmit_pos' .. transmit_max' - 1 :
           transmit_buf'[i] = expect' + (i - transmit_pos')
    <3> SUFFICES ASSUME NEW i \in transmit_pos' .. transmit_max' - 1
                 PROVE  transmit_buf'[i] = expect' + (i - transmit_pos')
      OBVIOUS
    <3>1. i \in pos .. (max + len) - 1 BY <1>2, Zenon
    <3>2. (max + len) - 1 = max + len - 1 BY <1>1
    <3>3. transmit_buf'[i] = expect + (i - pos) BY <3>1, <3>2, <1>5, Zenon
    <3> QED BY <3>3, <1>2
  <2> QED BY <2>1, <2>4, <2>5 DEF TxStream
<1> QED BY <1>1, <1>2, <1>4, <1>6

LEMMA SendfStream ==
    ASSUME StreamInv, NEW len \in ResponseLens, console_sendf(len)
    PROVE  StreamInv'
<1> DEFINE drained == transmit_pos >= transmit_max
           pos == IF drained THEN 0 ELSE transmit_pos
           max == IF drained THEN 0 ELSE transmit_max
<1>1. /\ len \in Nat /\ len > 0 /\ BufSize \in Nat /\ MaxBytes \in Nat
      /\ produced \in Nat /\ expect \in Nat
      /\ transmit_pos \in 0 .. BufSize /\ transmit_max \in 0 .. BufSize
      /\ transmit_buf \in [0 .. BufSize - 1 -> 0 .. MaxBytes]
  BY TxAssumption DEF StreamInv, TypeOK
<1>2. /\ pc = "idle" /\ pc' = pc /\ expect' = expect /\ tpos' = tpos
      /\ UNCHANGED <<chip, has_id, others, hwVars>>
  BY DEF console_sendf
<1>3. /\ transmit_pos <= transmit_max
      /\ expect + (transmit_max - transmit_pos) = produced + 1
      /\ \A i \in transmit_pos .. transmit_max - 1 :
            transmit_buf[i] = expect + (i - transmit_pos)
  BY <1>2 DEF StreamInv, TxStream, InTask
<1>4. /\ pos \in 0 .. BufSize /\ max \in 0 .. BufSize /\ pos <= max
      /\ expect + (max - pos) = produced + 1
      /\ \A i \in pos .. max - 1 : transmit_buf[i] = expect + (i - pos)
  BY <1>1, <1>3
<1> HIDE DEF pos, max, drained
<1>5. CASE Fits(max + len) /\ Accept(transmit_buf, pos, max, len)
  <2>1. max + len <= BufSize BY <1>5 DEF Fits
  <2>2. /\ transmit_buf' \in [0 .. BufSize - 1 -> 0 .. MaxBytes]
        /\ transmit_pos' \in 0 .. BufSize /\ transmit_max' \in 0 .. BufSize
        /\ produced' \in 0 .. MaxBytes /\ tx_wake' /\ TxStream'
    BY <1>1, <1>2, <1>4, <1>5, <2>1, AcceptStream
  <2> QED BY <1>2, <2>2 DEF StreamInv, TypeOK, hwVars
<1>6. CASE /\ ~Fits(max + len) /\ Fits(max + len - pos)
           /\ Accept(Moved, 0, max - pos, len)
  <2>1. /\ max + len > BufSize /\ max + len - pos <= BufSize
    BY <1>1, <1>4, <1>6 DEF Fits
  <2>2. pos = transmit_pos /\ max = transmit_max
    BY <1>1, <1>4, <2>1 DEF pos, max
  <2>3. Moved \in [0 .. BufSize - 1 -> 0 .. MaxBytes]
    <3>1. ASSUME NEW i \in 0 .. BufSize - 1, i < transmit_max - transmit_pos
          PROVE  i + transmit_pos \in 0 .. BufSize - 1
      BY <3>1, <1>1
    <3> QED BY <3>1, <1>1 DEF Moved
  <2>4. \A i \in 0 .. (max - pos) - 1 : Moved[i] = expect + (i - 0)
    <3> SUFFICES ASSUME NEW i \in 0 .. (max - pos) - 1
                 PROVE  Moved[i] = expect + (i - 0)
      OBVIOUS
    <3>1. /\ i \in 0 .. BufSize - 1 /\ i < transmit_max - transmit_pos
          /\ i + transmit_pos \in transmit_pos .. transmit_max - 1
      BY <1>1, <1>4, <2>2
    <3>2. Moved[i] = transmit_buf[i + transmit_pos]
      BY <3>1 DEF Moved
    <3>3. transmit_buf[i + transmit_pos] = expect + ((i + transmit_pos) - transmit_pos)
      BY <3>1, <1>3
    <3> QED BY <3>1, <3>2, <3>3, <1>1
  <2>5. /\ max - pos \in 0 .. BufSize /\ 0 \in 0 .. BufSize /\ 0 <= max - pos
        /\ (max - pos) + len <= BufSize
        /\ expect + ((max - pos) - 0) = produced + 1
    BY <1>1, <1>4, <2>1
  <2>6. Accept(Moved, 0, max - pos, len) BY <1>6
  <2>7. /\ transmit_buf' \in [0 .. BufSize - 1 -> 0 .. MaxBytes]
        /\ transmit_pos' \in 0 .. BufSize /\ transmit_max' \in 0 .. BufSize
        /\ produced' \in 0 .. MaxBytes /\ tx_wake' /\ TxStream'
    <3> DEFINE m == Moved
               mx == max - pos
    <3>1. /\ m \in [0 .. BufSize - 1 -> 0 .. MaxBytes] /\ mx \in 0 .. BufSize
          /\ 0 \in 0 .. BufSize /\ 0 <= mx /\ mx + len <= BufSize
          /\ expect + (mx - 0) = produced + 1
          /\ \A i \in 0 .. mx - 1 : m[i] = expect + (i - 0)
          /\ Accept(m, 0, mx, len)
      BY <2>3, <2>4, <2>5, <2>6
    <3> HIDE DEF m, mx
    <3> QED BY <3>1, <1>2, AcceptStream
  <2> QED BY <1>2, <2>7 DEF StreamInv, TypeOK, hwVars
<1>7. CASE /\ transmit_pos' = pos /\ transmit_max' = max
           /\ UNCHANGED <<transmit_buf, produced, tx_wake>>
  <2>1. ~InTask' BY <1>2 DEF InTask
  <2>2. TxStream' BY <1>2, <1>4, <1>7, <2>1 DEF TxStream
  <2> QED BY <1>2, <1>4, <1>7, <2>2 DEF StreamInv, TypeOK, hwVars
<1> QED BY <1>5, <1>6, <1>7 DEF console_sendf, pos, max, drained

LEMMA TaskStream ==
    ASSUME StreamInv, canserial_tx_task
    PROVE  StreamInv'
<1>1. /\ BufSize \in Nat /\ MaxBytes \in Nat /\ FrameSize \in Nat /\ FrameSize > 0
      /\ produced \in 0 .. MaxBytes /\ expect \in 1 .. MaxBytes + 1 /\ tpos \in 0 .. BufSize
      /\ transmit_pos \in 0 .. BufSize /\ transmit_max \in 0 .. BufSize
      /\ transmit_buf \in [0 .. BufSize - 1 -> 0 .. MaxBytes]
  BY TxAssumption DEF StreamInv, TypeOK
<1>2. CASE CheckWake
  BY <1>2 DEF CheckWake, StreamInv, TypeOK, TxStream, InTask, hwVars
<1>3. CASE ClearWake
  BY <1>3 DEF ClearWake, StreamInv, TypeOK, TxStream, InTask, hwVars
<1>4. CASE TaskStart
  <2>1. CASE ~has_id
    <3>1. /\ transmit_pos' = 0 /\ transmit_max' = 0 /\ expect' = produced + 1
          /\ pc' = "idle" /\ tpos' = tpos
          /\ UNCHANGED <<chip, has_id, others, transmit_buf, produced, hwVars, tx_wake>>
      BY <1>4, <2>1 DEF TaskStart
    <3>2. expect' \in 1 .. MaxBytes + 1 BY <1>1, <3>1
    <3>3. TxStream' BY <1>1, <3>1, <3>2 DEF TxStream, InTask
    <3> QED BY <1>1, <3>1, <3>2, <3>3 DEF StreamInv, TypeOK, hwVars
  <2>2. CASE has_id
    BY <1>1, <1>4, <2>2 DEF TaskStart, StreamInv, TypeOK, TxStream, InTask, hwVars
  <2> QED BY <2>1, <2>2
<1>5. CASE SendFrame
  <2> DEFINE now == IF transmit_max - tpos > FrameSize THEN FrameSize ELSE transmit_max - tpos
  <2>1. /\ pc = "send" /\ pc' = pc /\ transmit_max - tpos > 0
        /\ canhw_send /\ tpos' = tpos + now /\ expect' = expect + now
        /\ UNCHANGED <<chip, has_id, others, transmit_buf, transmit_pos, transmit_max, produced, tx_wake>>
    BY <1>5 DEF SendFrame
  <2>2. /\ expect + (transmit_max - tpos) = produced + 1
        /\ \A i \in tpos .. transmit_max - 1 : transmit_buf[i] = expect + (i - tpos)
    BY <2>1 DEF StreamInv, TxStream, InTask
  <2>3. now \in Nat /\ now <= transmit_max - tpos
    BY <1>1, <2>1
  <2> HIDE DEF now
  <2>4. /\ tpos' \in 0 .. BufSize /\ expect' \in 1 .. MaxBytes + 1 /\ tpos' <= transmit_max'
        /\ expect' + (transmit_max' - tpos') = produced' + 1
    BY <1>1, <2>1, <2>2, <2>3
  <2>5. \A i \in tpos' .. transmit_max' - 1 : transmit_buf'[i] = expect' + (i - tpos')
    BY <1>1, <2>1, <2>2, <2>3
  <2>6. TxStream' BY <2>1, <2>4, <2>5 DEF TxStream, InTask
  <2> QED BY <2>1, <2>4, <2>6, SendTypes DEF StreamInv, TypeOK
<1>6. CASE NoRoom
  BY <1>6 DEF NoRoom, StreamInv, TypeOK, TxStream, InTask, hwVars
<1>7. CASE EnableIrq
  BY <1>7 DEF EnableIrq, enable_tx_irq, StreamInv, TypeOK, TxStream, InTask, hwVars
<1>8. CASE TaskDone
  BY <1>8 DEF TaskDone, StreamInv, TypeOK, TxStream, InTask, hwVars
<1> QED BY <1>2, <1>3, <1>4, <1>5, <1>6, <1>7, <1>8 DEF canserial_tx_task

LEMMA StreamStep == StreamInv /\ [Next]_vars => StreamInv'
<1> SUFFICES ASSUME StreamInv, [Next]_vars PROVE StreamInv'
  OBVIOUS
<1>1. CASE \E len \in ResponseLens : console_sendf(len)
  BY <1>1, SendfStream
<1>2. CASE canserial_tx_task
  BY <1>2, TaskStream
<1>3. CASE canserial_heartbeat_task
  <2>1. /\ UNCHANGED <<chip, threadVars, tx_wake>>
        /\ others' \in 0 .. MaxOther
    BY <1>3, TxAssumption DEF canserial_heartbeat_task, StreamInv, TypeOK
  <2>2. /\ pending' \in Seq(Boxes) /\ completed' \subseteq Boxes /\ tmeie' \in BOOLEAN
    <3>1. CASE canhw_send BY <3>1, SendTypes DEF StreamInv, TypeOK
    <3>2. CASE enable_tx_irq /\ UNCHANGED <<pending, completed>>
      BY <3>2 DEF enable_tx_irq, StreamInv, TypeOK
    <3> QED BY <1>3, <3>1, <3>2 DEF canserial_heartbeat_task
  <2> QED BY <2>1, <2>2 DEF StreamInv, TypeOK, TxStream, InTask, threadVars
<1>4. CASE QueryAnswer
  BY <1>4, TxAssumption DEF QueryAnswer, StreamInv, TypeOK, TxStream, InTask, hwVars
<1>5. CASE SetId
  <2>1. pending' \in Seq(Boxes)
    BY <1>5, FilterTypes DEF SetId, StreamInv
  <2> QED BY <1>5, <2>1, TxAssumption
          DEF SetId, canhw_set_filter, StreamInv, TypeOK, TxStream, InTask
<1>6. CASE DropId
  <2>1. pending' \in Seq(Boxes)
    BY <1>6, FilterTypes DEF DropId, StreamInv
  <2> QED BY <1>6, <2>1 DEF DropId, canhw_set_filter, StreamInv, TypeOK, TxStream, InTask
<1>7. CASE AdminRetry
  <2>1. CASE pc = "admin" /\ canhw_send /\ AdminSent
    BY <1>7, <2>1, SendTypes DEF AdminRetry, AdminSent, StreamInv, TypeOK, TxStream, InTask
  <2>2. CASE pc = "admin" /\ Free = {} /\ pc' = "adminfull" /\ UNCHANGED hwVars
    BY <1>7, <2>2 DEF AdminRetry, StreamInv, TypeOK, TxStream, InTask, hwVars
  <2>3. CASE pc = "adminfull"
    BY <1>7, <2>3 DEF AdminRetry, enable_tx_irq, StreamInv, TypeOK, TxStream, InTask
  <2> QED BY <1>7, <2>1, <2>2, <2>3 DEF AdminRetry
<1>8. CASE BusSends
  <2>1. /\ pending' \in Seq(Boxes) /\ completed' \subseteq Boxes
    BY <1>8 DEF BusSends, StreamInv, TypeOK
  <2> QED BY <1>8, <2>1 DEF BusSends, StreamInv, TypeOK, TxStream, InTask, threadVars
<1>9. CASE CAN_IRQHandler
  BY <1>9 DEF CAN_IRQHandler, canserial_notify_tx, StreamInv, TypeOK, TxStream, InTask, threadVars
<1>10. CASE UNCHANGED vars
  BY <1>10 DEF vars, threadVars, hwVars, StreamInv, TypeOK, TxStream, InTask
<1> QED BY <1>1, <1>2, <1>3, <1>4, <1>5, <1>6, <1>7, <1>8, <1>9, <1>10 DEF Next

\* Type correctness of the transmit side, the bound on expect included: the bytes
\* canserial_tx_task() hands over are bytes console_sendf() accepted.
THEOREM TypeCorrect == Spec => []TypeOK
BY StreamInit, StreamStep, PTL DEF Spec, StreamInv

\* No byte of an accepted response is skipped, repeated or reordered by the moves
\* of console_sendf() and the interrupted runs of canserial_tx_task().
THEOREM TxStreamSafe == Spec => []TxStream
BY StreamInit, StreamStep, PTL DEF Spec, StreamInv

-----------------------------------------------------------------------------
(* The transmit interrupt.                                                 *)

Unsent == transmit_pos < transmit_max
Traffic == pending # <<>> \/ completed # {}

\* While the flag is clear and bytes wait: at rest the interrupt is coming if the
\* device has an id, on the bxCAN also if it has none, because a later id does not
\* make the controller interrupt by itself; between the test of a full controller
\* and the enabling of the interrupt there is traffic that will raise it.
WakeInv ==
    /\ TxNoLostWake
    /\ pc = "clear" => tx_wake
    /\ (pc = "full" /\ ~tx_wake) => Traffic
    /\ (chip = "bxcan" /\ pc \in {"idle", "admin", "adminfull"} /\ ~tx_wake /\ Unsent) => IrqComing

LEMMA WakeInit == Init => WakeInv
BY TxAssumption DEF Init, WakeInv, TxNoLostWake, Unsent

\* A controller without room holds frames.
LEMMA FullIsBusy == ASSUME TypeOK, Free = {} PROVE pending # <<>>
<1>1. 0 \in Boxes BY TxAssumption DEF Boxes
<1>2. 0 \in Pending BY <1>1 DEF Free
<1> QED BY <1>2 DEF Pending, TypeOK

LEMMA WakeStep == StreamInv /\ WakeInv /\ [Next]_vars => WakeInv'
<1> SUFFICES ASSUME StreamInv, WakeInv, [Next]_vars PROVE WakeInv'
  OBVIOUS
<1> USE DEF WakeInv, TxNoLostWake, Unsent, Traffic, IrqComing
<1>1. ASSUME NEW len \in ResponseLens, console_sendf(len) PROVE WakeInv'
  <2>1. CASE tx_wake'
    BY <1>1, <2>1 DEF console_sendf
  <2>2. CASE /\ UNCHANGED <<transmit_buf, produced, tx_wake>>
             /\ transmit_pos' = (IF transmit_pos >= transmit_max THEN 0 ELSE transmit_pos)
             /\ transmit_max' = (IF transmit_pos >= transmit_max THEN 0 ELSE transmit_max)
    BY <1>1, <2>2 DEF console_sendf, hwVars, StreamInv, TypeOK
  <2> QED BY <1>1, <2>1, <2>2 DEF console_sendf, Accept, canserial_notify_tx
<1>2. CASE canserial_tx_task
  <2>1. CASE CheckWake BY <2>1 DEF CheckWake, hwVars
  <2>2. CASE ClearWake BY <2>2 DEF ClearWake, hwVars
  <2>3. CASE TaskStart BY <2>3 DEF TaskStart, hwVars
  <2>4. CASE SendFrame BY <2>4 DEF SendFrame
  <2>5. CASE NoRoom
    BY <2>5, FullIsBusy DEF NoRoom, hwVars, StreamInv
  <2>6. CASE EnableIrq BY <2>6 DEF EnableIrq, enable_tx_irq, StreamInv, TypeOK
  <2>7. CASE TaskDone
    <3>1. ~(transmit_pos' < transmit_max')
      BY <2>7, TxAssumption DEF TaskDone, StreamInv, TypeOK
    <3> QED BY <2>7, <3>1 DEF TaskDone
  <2> QED BY <1>2, <2>1, <2>2, <2>3, <2>4, <2>5, <2>6, <2>7 DEF canserial_tx_task
<1>3. CASE canserial_heartbeat_task
  <2>1. CASE canhw_send
    BY <1>3, <2>1, SendTypes DEF canserial_heartbeat_task, threadVars, StreamInv
  <2>2. CASE enable_tx_irq /\ UNCHANGED <<pending, completed>>
    BY <1>3, <2>2 DEF canserial_heartbeat_task, threadVars, enable_tx_irq
  <2> QED BY <1>3, <2>1, <2>2 DEF canserial_heartbeat_task
<1>4. CASE QueryAnswer
  BY <1>4 DEF QueryAnswer, hwVars
<1>5. CASE SetId
  BY <1>5 DEF SetId, canhw_set_filter
<1>6. CASE DropId
  BY <1>6 DEF DropId, canhw_set_filter
<1>7. CASE AdminRetry
  <2>1. CASE pc = "admin" /\ canhw_send /\ AdminSent
    BY <1>7, <2>1, SendTypes DEF AdminRetry, AdminSent, StreamInv
  <2>2. CASE pc = "admin" /\ pc' = "adminfull" /\ UNCHANGED hwVars
    BY <1>7, <2>2 DEF AdminRetry, hwVars
  <2>3. CASE pc = "adminfull"
    BY <1>7, <2>3 DEF AdminRetry, enable_tx_irq
  <2> QED BY <1>7, <2>1, <2>2, <2>3 DEF AdminRetry
<1>8. CASE BusSends
  <2>1. Traffic' BY <1>8 DEF BusSends
  <2> QED BY <1>8, <2>1 DEF BusSends, threadVars
<1>9. CASE CAN_IRQHandler
  BY <1>9 DEF CAN_IRQHandler, canserial_notify_tx, threadVars
<1>10. CASE UNCHANGED vars
  BY <1>10 DEF vars, threadVars, hwVars
<1> QED BY <1>1, <1>2, <1>3, <1>4, <1>5, <1>6, <1>7, <1>8, <1>9, <1>10 DEF Next

\* A device with an id never sleeps on unsent bytes of a response without a
\* transmit interrupt on its way, on any of the controllers and wherever a frame
\* completes, a heartbeat or admin answer comes in, or the id changes.
THEOREM TxWakeNotLost == Spec => []TxNoLostWake
BY StreamInit, StreamStep, WakeInit, WakeStep, PTL DEF Spec, WakeInv

-----------------------------------------------------------------------------
(* The receive FIFO.                                                       *)

RxInv == /\ rx_fifo \in Seq(Nat) /\ processed \in Seq(Nat) /\ stored \in Seq(Nat)
         /\ frames \in Nat
         /\ Len(rx_fifo) <= RxDepth
         /\ in_handler \in BOOLEAN
         /\ RxInOrder

LEMMA RxInvInit == RxInit => RxInv
<1>1. <<>> \in Seq(Nat) /\ Len(<<>>) = 0 /\ <<>> \o <<>> = <<>>
  BY EmptySeq, ConcatEmptySeq
<1>2. RxInit => RxInOrder
  BY <1>1, Zenon DEF RxInit, RxInOrder
<1>3. 0 <= RxDepth
  BY CanRxAssumption
<1>4. RxInit => rx_fifo \in Seq(Nat) /\ processed \in Seq(Nat) /\ stored \in Seq(Nat)
  BY <1>1, Zenon DEF RxInit
<1>5. RxInit => Len(rx_fifo) <= RxDepth /\ frames \in Nat /\ in_handler \in BOOLEAN
  <2>1. RxInit => Len(rx_fifo) = 0 BY <1>1, Zenon DEF RxInit
  <2>2. RxInit => in_handler \in BOOLEAN BY Zenon DEF RxInit
  <2>3. RxInit => frames \in Nat BY DEF RxInit
  <2> QED BY <2>1, <2>2, <2>3, <1>3
<1> QED BY <1>2, <1>4, <1>5 DEF RxInv

\* Taking the oldest frame moves it from the FIFO to the frames processed.
LEMMA TakeInOrder ==
    ASSUME RxInv, TakeFrame, rx_fifo # <<>>, UNCHANGED <<frames, stored>>,
           in_handler' \in BOOLEAN
    PROVE  RxInv'
<1>1. /\ rx_fifo \in Seq(Nat) /\ processed \in Seq(Nat) /\ Len(rx_fifo) \in Nat \ {0}
      /\ Len(processed) \in Nat /\ Len(rx_fifo) <= RxDepth
  BY DEF RxInv
<1>2. /\ processed' = Append(processed, rx_fifo[1])
      /\ rx_fifo' = SubSeq(rx_fifo, 2, Len(rx_fifo))
  BY DEF TakeFrame, get_index
<1>3. /\ rx_fifo[1] \in Nat /\ processed' \in Seq(Nat) /\ rx_fifo' \in Seq(Nat)
      /\ Len(processed') = Len(processed) + 1 /\ Len(rx_fifo') = Len(rx_fifo) - 1
  <2>1. rx_fifo[1] \in Nat
    BY <1>1, ElementOfSeq
  <2>2. processed' \in Seq(Nat) /\ Len(processed') = Len(processed) + 1
    BY <1>1, <1>2, <2>1
  <2>3. rx_fifo' = Tail(rx_fifo)
    BY <1>1, <1>2, TailIsSubSeq
  <2>4. rx_fifo' \in Seq(Nat) /\ Len(rx_fifo') = Len(rx_fifo) - 1
    BY <1>1, <2>3
  <2> QED BY <2>1, <2>2, <2>4
<1>4. processed' \o rx_fifo' = processed \o rx_fifo
  BY <1>1, <1>2, MoveHead
<1> QED BY <1>1, <1>3, <1>4, CanRxAssumption DEF RxInv, RxInOrder

LEMMA RxInvStep == RxInv /\ [RxNext]_rxvars => RxInv'
<1> SUFFICES ASSUME RxInv, [RxNext]_rxvars PROVE RxInv'
  OBVIOUS
<1>1. CASE FrameArrives
  <2>1. /\ rx_fifo \in Seq(Nat) /\ processed \in Seq(Nat) /\ stored \in Seq(Nat)
        /\ frames' \in Nat /\ RxDepth \in Nat \ {0} /\ Len(rx_fifo) <= RxDepth
        /\ stored = processed \o rx_fifo /\ Len(stored) = Len(processed) + Len(rx_fifo)
        /\ in_handler' \in BOOLEAN /\ processed' = processed
    BY <1>1, CanRxAssumption DEF FrameArrives, RxInv, RxInOrder
  <2>2. CASE /\ ~RxFull
             /\ rx_fifo' = Append(rx_fifo, frames') /\ stored' = Append(stored, frames')
    <3>1. processed \o Append(rx_fifo, frames') = Append(processed \o rx_fifo, frames')
      BY <2>1, AppendConcat
    <3> QED BY <2>1, <2>2, <3>1 DEF RxFull, RxInv, RxInOrder
  <2>3. CASE /\ RxFull /\ rx_fifo' = [rx_fifo EXCEPT ![RxDepth] = frames']
             /\ stored' = [stored EXCEPT ![Len(stored)] = frames']
    <3>1. /\ Len(rx_fifo) = RxDepth /\ rx_fifo' \in Seq(Nat) /\ Len(rx_fifo') = RxDepth
          /\ stored' \in Seq(Nat) /\ Len(stored') = Len(stored)
      BY <2>1, <2>3 DEF RxFull
    <3>2. processed \o rx_fifo' = stored'
      <4>1. /\ Len(rx_fifo') = Len(rx_fifo) /\ Len(stored') = Len(processed) + Len(rx_fifo)
            /\ \A i \in 1 .. Len(rx_fifo) - 1 : rx_fifo'[i] = rx_fifo[i]
            /\ \A i \in 1 .. Len(stored') - 1 : stored'[i] = stored[i]
            /\ rx_fifo'[Len(rx_fifo)] = stored'[Len(stored')]
        <5>1. Len(stored') \in Nat \ {0} /\ Len(stored) = Len(stored') /\ Len(rx_fifo) = RxDepth
          BY <2>1, <3>1
        <5>2. /\ DOMAIN rx_fifo = 1 .. RxDepth /\ DOMAIN stored = 1 .. Len(stored)
          BY <2>1, <3>1
        <5>3. /\ \A i \in 1 .. RxDepth : rx_fifo'[i] = IF i = RxDepth THEN frames' ELSE rx_fifo[i]
              /\ \A i \in 1 .. Len(stored) :
                    stored'[i] = IF i = Len(stored) THEN frames' ELSE stored[i]
          BY <2>3, <5>2
        <5>4. Len(rx_fifo') = Len(rx_fifo) /\ Len(stored') = Len(processed) + Len(rx_fifo)
          BY <2>1, <3>1
        <5>5. \A i \in 1 .. Len(rx_fifo) - 1 : rx_fifo'[i] = rx_fifo[i]
          BY <2>1, <5>1, <5>3
        <5>6. \A i \in 1 .. Len(stored') - 1 : stored'[i] = stored[i]
          BY <5>1, <5>3
        <5>7. rx_fifo'[Len(rx_fifo)] = frames' /\ stored'[Len(stored')] = frames'
          BY <2>1, <5>1, <5>3
        <5> QED BY <5>4, <5>5, <5>6, <5>7
      <4>2. Len(rx_fifo) > 0
        BY <2>1, <3>1
      <4>3. \A i \in 1 .. Len(stored') - 1 : stored'[i] = (processed \o rx_fifo)[i]
        BY <2>1, <4>1, Zenon
      <4> QED BY <2>1, <3>1, <4>1, <4>2, <4>3, ExceptLast
    <3> QED BY <2>1, <3>1, <3>2 DEF RxInv, RxInOrder
  <2>4. CASE UNCHANGED <<rx_fifo, RF0N, stored>>
    BY <2>1, <2>4 DEF RxInv, RxInOrder
  <2> QED BY <1>1, <2>2, <2>3, <2>4 DEF FrameArrives
<1>2. CASE bxcan_irq
  BY <1>2, TakeInOrder DEF bxcan_irq, RxInv
<1>3. CASE fdcan_irq
  <2>1. in_handler' \in BOOLEAN /\ UNCHANGED <<frames, stored>>
    BY <1>3 DEF fdcan_irq
  <2>2. CASE fdcan_ack
    BY <2>1, <2>2 DEF fdcan_ack, RxInv, RxInOrder
  <2>3. CASE fdcan_take
    BY <2>1, <2>3, TakeInOrder DEF fdcan_take, RxInv, RxInOrder
  <2> QED BY <1>3, <2>2, <2>3 DEF fdcan_irq
<1>4. CASE UNCHANGED rxvars
  BY <1>4 DEF rxvars, RxInv, RxInOrder
<1> QED BY <1>1, <1>2, <1>3, <1>4 DEF RxNext, RxIrq

\* The frames CAN_IRQHandler() hands to canbus_process_data() are those the
\* controller kept, in order and once, for any depth of the FIFO and any number
\* of frames that come while the handler is held up or between its two accesses.
THEOREM RxInOrderSafe == RxInit /\ [][RxNext]_rxvars => []RxInOrder
BY RxInvInit, RxInvStep, PTL DEF RxInv

\* A full FIFO on FDCAN has the new-message flag set or the handler about to take
\* a frame; bxCAN requests its interrupt by the FIFO itself.
RxNeverDeaf == rx_controller = "fdcan" /\ RxFull => RF0N \/ in_handler

LEMMA RxNeverDeafStep == RxInv /\ RxNeverDeaf /\ [RxNext]_rxvars => RxNeverDeaf'
<1> SUFFICES ASSUME RxInv, RxNeverDeaf, [RxNext]_rxvars PROVE RxNeverDeaf'
  OBVIOUS
<1>1. CASE FrameArrives
  <2>1. UNCHANGED <<rx_controller, in_handler>> BY <1>1 DEF FrameArrives
  <2>2. RF0N' \/ (RxFull /\ RF0N' = RF0N)
    BY <1>1, Zenon DEF FrameArrives
  <2> QED BY <2>1, <2>2, Zenon DEF RxNeverDeaf
<1>2. CASE bxcan_irq
  <2>1. rx_controller' = "bxcan" BY <1>2 DEF bxcan_irq
  <2> QED BY <2>1 DEF RxNeverDeaf
<1>3. CASE fdcan_irq
  <2>1. CASE ~in_handler
    <3>1. in_handler' BY <1>3, <2>1, Zenon DEF fdcan_irq
    <3> QED BY <3>1, Zenon DEF RxNeverDeaf
  <2>2. CASE in_handler
    <3>1. fdcan_take
      BY <1>3, <2>2 DEF fdcan_irq, irq_order
    <3>2. CASE rx_fifo = <<>>
      <4>1. rx_fifo' = <<>> BY <3>1, <3>2 DEF fdcan_take
      <4>2. Len(rx_fifo') = 0 BY <4>1, EmptySeq
      <4>3. ~RxFull' BY <4>2, CanRxAssumption DEF RxFull
      <4> QED BY <4>3, Zenon DEF RxNeverDeaf
    <3>3. CASE rx_fifo # <<>>
      <4>1. rx_fifo' = SubSeq(rx_fifo, 2, Len(rx_fifo))
        BY <3>1, <3>3 DEF fdcan_take, TakeFrame, get_index
      <4>2. /\ rx_fifo \in Seq(Nat) /\ Len(rx_fifo) <= RxDepth
            /\ Len(rx_fifo) \in Nat \ {0}
        BY <3>3 DEF RxInv
      <4>3. rx_fifo' = Tail(rx_fifo) BY <4>1, <4>2, TailIsSubSeq
      <4>4. Len(rx_fifo') = Len(rx_fifo) - 1 BY <3>3, <4>2, <4>3
      <4>5. ~RxFull' BY <4>2, <4>4, CanRxAssumption DEF RxFull
      <4> QED BY <4>5, Zenon DEF RxNeverDeaf
    <3> QED BY <3>2, <3>3
  <2> QED BY <2>1, <2>2
<1>4. CASE UNCHANGED rxvars
  BY <1>4 DEF rxvars, RxNeverDeaf, RxFull
<1> QED BY <1>1, <1>2, <1>3, <1>4 DEF RxNext, RxIrq

\* The safety half of RxServed: FDCAN, which signals nothing while its FIFO is
\* full, is never left full with the flag clear and the handler gone, wherever a
\* frame comes between its two accesses.
THEOREM RxNeverDeafSafe == RxInit /\ [][RxNext]_rxvars => []RxNeverDeaf
<1>1. RxInit => RxNeverDeaf
  <2> SUFFICES ASSUME RxInit PROVE ~RxFull BY DEF RxNeverDeaf
  <2>1. Len(rx_fifo) = 0 BY EmptySeq DEF RxInit
  <2> QED BY <2>1, CanRxAssumption DEF RxFull
<1> QED BY <1>1, RxInvInit, RxInvStep, RxNeverDeafStep, PTL
=============================================================================
