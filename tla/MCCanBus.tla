------------------------------ MODULE MCCanBus ------------------------------
(* The transmit and the receive side of the CAN controllers, which share   *)
(* no state: a behaviour is one of either, as Init picks.  Two mailboxes,  *)
(* responses that fit a frame and one that does not.                       *)
EXTENDS CanTx, CanRx

VARIABLE part

Lens == {1, 3}
Stm32Controllers == {"bxcan", "fdcan"}

PartsInit == /\ Init /\ RxInit /\ part \in {"tx", "rx"}
             /\ part = "tx" => rx_controller = "bxcan"

PartsNext == /\ \/ part = "tx" /\ Next /\ UNCHANGED rxvars
                \/ part = "rx" /\ RxNext /\ UNCHANGED vars
                \/ part = "rx" /\ frames = MaxFrames /\ UNCHANGED <<vars, rxvars>>
             /\ UNCHANGED part

\* The fairness of FairSpec where the transmit side runs; interrupts are served.
PartsFairness == /\ WF_vars(part = "tx" /\ canserial_tx_task)
                 /\ WF_vars(part = "tx" /\ AdminRetry)
                 /\ WF_vars(part = "tx" /\ BusSends)
                 /\ WF_vars(part = "tx" /\ CAN_IRQHandler)
                 /\ WF_rxvars(part = "rx" /\ RxIrq)

PartsSpec == PartsInit /\ [][PartsNext]_<<vars, rxvars, part>> /\ PartsFairness
=============================================================================
