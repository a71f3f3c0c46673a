-------------------------------- MODULE CanRx --------------------------------
(***************************************************************************)
(* The receive side of the CAN controllers: the receive FIFO of the part   *)
(* and the receive half of CAN_IRQHandler(), of src/src/stm32/can.c        *)
(* (bxCAN) and src/src/stm32/fdcan.c (FDCAN).                              *)
(*                                                                         *)
(* bxCAN requests its interrupt as long as the FIFO holds a frame, and a   *)
(* frame that finds it full replaces the youngest one.  FDCAN requests its *)
(* interrupt by a flag that is set when a frame is stored, and a frame     *)
(* that finds the FIFO full is discarded without setting it.  Both         *)
(* handlers take one frame a call.  Frames are numbered as they come.      *)
(***************************************************************************)
EXTENDS Integers, Sequences

CONSTANTS RxControllers,        \* the controllers to consider
          RxDepth,              \* frames in the FIFO
          MaxFrames             \* bound: frames on the bus

ASSUME CanRxAssumption ==
    /\ RxControllers \subseteq {"bxcan", "fdcan"}
    /\ RxDepth \in Nat \ {0} /\ MaxFrames \in Nat

VARIABLES rx_controller,
          rx_fifo,              \* frames stored and not yet taken
          RF0N,                 \* FDCAN's new-message flag
          in_handler,           \* FDCAN's handler is between its two steps
          frames,               \* frames that came so far
          stored,               \* history: frames the controller kept
          processed             \* history: frames given to canbus_process_data()

rxvars == <<rx_controller, rx_fifo, RF0N, in_handler, frames, stored, processed>>

RxInit == /\ rx_controller \in RxControllers
          /\ rx_fifo = <<>> /\ RF0N = FALSE
          /\ in_handler = FALSE
          /\ frames = 0 /\ stored = <<>> /\ processed = <<>>

RxFull == Len(rx_fifo) = RxDepth

\* A frame passes the filter.
FrameArrives ==
    /\ frames < MaxFrames
    /\ frames' = frames + 1
    /\ \/ /\ ~RxFull
          /\ rx_fifo' = Append(rx_fifo, frames') /\ RF0N' = TRUE
          /\ stored' = Append(stored, frames')
       \/ /\ RxFull /\ rx_controller = "bxcan"
          /\ rx_fifo' = [rx_fifo EXCEPT ![RxDepth] = frames'] /\ UNCHANGED RF0N
          /\ stored' = [stored EXCEPT ![Len(stored)] = frames']
       \/ /\ RxFull /\ rx_controller = "fdcan"
          /\ UNCHANGED <<rx_fifo, RF0N, stored>>
    /\ UNCHANGED <<rx_controller, in_handler, processed>>

\* The frame at the get index is read, released and processed.
get_index_put == Len(rx_fifo)
get_index == 1
TakeFrame == /\ processed' = Append(processed, rx_fifo[get_index])
             /\ rx_fifo' = SubSeq(rx_fifo, get_index + 1, Len(rx_fifo))

\* CAN_IRQHandler() of can.c
bxcan_irq == /\ rx_controller = "bxcan" /\ rx_fifo # <<>>
             /\ TakeFrame
             /\ UNCHANGED <<rx_controller, RF0N, in_handler, frames, stored>>

\* CAN_IRQHandler() of fdcan.c clears the flag and then takes a frame; another
\* one may come in between.
irq_order_swapped == <<"take", "ack">>
irq_order == <<"ack", "take">>

fdcan_ack == RF0N' = FALSE /\ UNCHANGED <<rx_fifo, processed>>

fdcan_take == /\ IF rx_fifo = <<>> THEN UNCHANGED <<rx_fifo, processed>> ELSE TakeFrame
              /\ UNCHANGED RF0N

fdcan_irq == /\ rx_controller = "fdcan"
             /\ in_handler \/ RF0N
             /\ LET step == irq_order[IF in_handler THEN 2 ELSE 1]
                IN \/ step = "ack" /\ fdcan_ack
                   \/ step = "take" /\ fdcan_take
             /\ in_handler' = ~in_handler
             /\ UNCHANGED <<rx_controller, frames, stored>>

RxIrq == bxcan_irq \/ fdcan_irq

RxNext == FrameArrives \/ RxIrq

-----------------------------------------------------------------------------
(* Properties.                                                             *)

\* The frames processed and those in the FIFO are the ones the controller kept,
\* in order and once, however many come while the handler is held up or runs.
RxInOrder == processed \o rx_fifo = stored

\* A controller is never deaf: a full FIFO is served again.  On FDCAN, which
\* stores and signals nothing more while it is full, a flag that is cleared at
\* the wrong moment would end reception for good.  On bxCAN every stored frame is
\* taken; on FDCAN up to RxDepth - 1 frames may wait for the next one to come.
RxServed == /\ RxFull ~> ~RxFull
            /\ (rx_controller = "bxcan" /\ rx_fifo # <<>>) ~> rx_fifo = <<>>
=============================================================================
