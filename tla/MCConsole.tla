------------------------------ MODULE MCConsole ------------------------------
(* The parts of the console that share no state, side by side: the block   *)
(* parser over four byte values and blocks of four or five bytes, the UART *)
(* and USB.  A behaviour is one of the three, as Init picks.               *)
EXTENDS Framing, SerialIrq, UsbCdc

VARIABLE part

ByteValues == 0 .. 3
SerialLens == {2, 3}
MessageLens == {1, 3}

PartsInit == Init /\ SInit /\ UsbInit /\ part \in {"framing", "uart", "usb"}

PartsNext == /\ \/ part = "framing" /\ Next /\ UNCHANGED <<svars, usbvars>>
                \/ part = "uart" /\ SNext /\ UNCHANGED <<vars, usbvars>>
                \/ part = "usb" /\ UsbNext /\ UNCHANGED <<vars, svars>>
             /\ UNCHANGED part

\* The fairness that Spec, SFairness and UsbFairness state, each where its part
\* is the one that runs.
PartsFairness == /\ WF_vars(part = "framing" /\ Parse)
                 /\ WF_svars(part = "uart" /\ (console_sendf \/ console_pop_input))
                 /\ WF_svars(part = "uart" /\ serial_get_tx_byte)
                 /\ WF_usbvars(part = "usb" /\ BulkOutIrq)
                 /\ WF_usbvars(part = "usb" /\ BulkInIrq)
                 /\ WF_usbvars(part = "usb" /\ (usb_bulk_out_task \/ usb_bulk_in_task))

PartsSpec == PartsInit /\ [][PartsNext]_<<vars, svars, usbvars, part>> /\ PartsFairness
=============================================================================
