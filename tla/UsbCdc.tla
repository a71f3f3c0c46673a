------------------------------- MODULE UsbCdc -------------------------------
(***************************************************************************)
(* The USB console: the bulk tasks and console_sendf() of                  *)
(* src/src/generic/usb_cdc.c over the double-buffered endpoints of         *)
(* src/src/stm32/usbfs.c, access by access against USB_IRQHandler().       *)
(*                                                                         *)
(* An endpoint has two packet buffers.  The controller uses the one its    *)
(* toggle bit names and stops when that bit equals the one software sets,  *)
(* sw.  bulk_out_push_flag and bulk_in_pop_flag tell the interrupt whether *)
(* it is to flip sw.  The interrupt is taken as soon as a packet is        *)
(* through, before the task's next access.                                 *)
(*                                                                         *)
(* Bytes are numbered in the order the host writes them, and the ones of   *)
(* responses in the order they are accepted.  The host writes messages,    *)
(* each in packets of its own, primes the link with two of them, and has   *)
(* at most UsbWindow unanswered.                                           *)
(***************************************************************************)
EXTENDS Integers, Sequences, FiniteSetsExt

CONSTANTS UsbEp,                \* USB_CDC_EP_BULK_OUT_SIZE, USB_CDC_EP_BULK_IN_SIZE
          UsbRxSize, UsbTxSize, \* sizes of receive_buf and transmit_buf
          UsbMessages,          \* lengths of messages
          UsbReplies,           \* lengths of responses
          UsbWindow,            \* messages without an answer at one time
          UsbMaxMessages        \* bound: messages in all

ASSUME UsbAssumption ==
    /\ UsbEp \in Nat \ {0} /\ UsbTxSize \in Nat
    /\ UsbRxSize = 2 * UsbEp /\ UsbTxSize >= UsbEp
    /\ UsbMessages \subseteq 1 .. UsbRxSize /\ UsbReplies \subseteq 1 .. UsbTxSize
    /\ UsbWindow \in Nat /\ UsbWindow >= 2 /\ UsbMaxMessages \in Nat

VARIABLES packets,              \* packets the host has yet to send
          ends,                 \* history: the last byte of each message
          out_buf, out_dtog, out_sw, bulk_out_push_flag, bulk_out_pop_count,
          bulk_out_wake, out_rx,        \* out_rx: receive_buf up to receive_pos
          out_taken, dispatched,        \* bytes and messages popped
          in_buf, in_dtog, in_sw, in_valid, in_start,
          bulk_in_push_pos, bulk_in_pop_flag, bulk_in_wake,
          in_tx,                \* transmit_buf up to transmit_pos
          in_accepted, in_wire, answered,  \* history: response bytes, and the last bytes
          utask, was_blocking   \* where the task loop is, and its copy of the register

out == <<out_buf, out_dtog, out_sw, bulk_out_push_flag, bulk_out_pop_count, out_rx, out_taken,
         dispatched>>
in == <<in_buf, in_dtog, in_sw, in_valid, in_start, bulk_in_push_pos, bulk_in_pop_flag, in_tx,
        in_accepted, in_wire, answered>>
usbhost == <<packets, ends>>
usbvars == <<usbhost, out, bulk_out_wake, in, bulk_in_wake, utask, was_blocking>>

BI_START == 2
LastEnd == IF ends = <<>> THEN 0 ELSE ends[Len(ends)]

UsbTypeOK ==
    /\ out_dtog \in 0 .. 1 /\ out_sw \in 0 .. 1 /\ in_dtog \in 0 .. 1 /\ in_sw \in 0 .. 1
    /\ {bulk_out_push_flag, bulk_out_wake, bulk_in_wake, in_valid, in_start, was_blocking}
          \subseteq BOOLEAN
    /\ Len(out_rx) <= UsbRxSize /\ Len(in_tx) <= UsbTxSize
    /\ bulk_in_push_pos \in 0 .. 3
    /\ bulk_in_pop_flag \in {"none", "DTOG_RX", "KIND"}
    /\ \A b \in 0 .. 1 : Len(out_buf[b]) <= UsbEp /\ Len(in_buf[b]) <= UsbEp

\* The device has been configured by the host (usb_reset(), usb_set_configure()).
UsbInit == /\ packets = <<>> /\ ends = <<>>
           /\ out_buf = [b \in 0 .. 1 |-> <<>>] /\ out_dtog = 0 /\ out_sw = 1
           /\ bulk_out_push_flag = TRUE /\ bulk_out_pop_count = 0
           /\ bulk_out_wake = TRUE /\ out_rx = <<>> /\ out_taken = 0 /\ dispatched = 0
           /\ in_buf = [b \in 0 .. 1 |-> <<>>] /\ in_dtog = 0 /\ in_sw = 0
           /\ in_valid = FALSE /\ in_start = FALSE
           /\ bulk_in_push_pos = BI_START /\ bulk_in_pop_flag = "none"
           /\ bulk_in_wake = TRUE /\ in_tx = <<>>
           /\ in_accepted = 0 /\ in_wire = <<>> /\ answered = <<>>
           /\ utask = "out" /\ was_blocking = FALSE

-----------------------------------------------------------------------------
(* The host.                                                               *)

\* n bytes from byte i + 1 on.
Bytes(i, n) == [k \in 1 .. n |-> i + k]

\* A message of n bytes after byte i in packets of at most UsbEp.
InPackets(i, n) == [p \in 1 .. (n + UsbEp - 1) \div UsbEp |->
                       Bytes(i + (p - 1) * UsbEp, Min({UsbEp, n - (p - 1) * UsbEp}))]

\* Messages the host has the answer to.
Answered == Cardinality({k \in DOMAIN answered : answered[k] <= Len(in_wire)})

\* The first one follows an invalid command, prime().
HostWrites(n) ==
    LET first == IF ends = <<>> THEN InPackets(0, 1) ELSE <<>>
        i == IF ends = <<>> THEN 1 ELSE LastEnd
    IN /\ Len(ends) < UsbMaxMessages
       /\ Len(ends) - Answered < UsbWindow
       /\ packets' = packets \o first \o InPackets(i, n)
       /\ ends' = (IF ends = <<>> THEN <<1>> ELSE ends) \o <<i + n>>
       /\ UNCHANGED <<out, bulk_out_wake, in, bulk_in_wake, utask, was_blocking>>

\* A packet arrives, and the interrupt for it.
BulkOutIrq ==
    /\ packets # <<>> /\ out_dtog # out_sw
    /\ packets' = Tail(packets)
    /\ out_buf' = [out_buf EXCEPT ![out_dtog] = Head(packets)]
    /\ out_dtog' = 1 - out_dtog
    /\ out_sw' = IF bulk_out_push_flag THEN 1 - out_sw ELSE out_sw
    /\ bulk_out_push_flag' = FALSE
    /\ bulk_out_wake' = TRUE
    /\ UNCHANGED <<ends, bulk_out_pop_count, out_rx, out_taken, dispatched, in, bulk_in_wake,
                   utask, was_blocking>>

\* The host takes a packet, and the interrupt for it.  When it is started the
\* controller sends a packet although the bits are equal.
BulkInIrq ==
    /\ in_valid /\ (in_dtog # in_sw \/ in_start)
    /\ in_wire' = in_wire \o in_buf[in_dtog]
    /\ in_dtog' = 1 - in_dtog
    /\ in_start' = FALSE
    /\ in_sw' = IF bulk_in_pop_flag = "DTOG_RX" THEN 1 - in_sw ELSE in_sw
    /\ bulk_in_pop_flag' = "none"
    /\ bulk_in_wake' = TRUE
    /\ UNCHANGED <<usbhost, out, bulk_out_wake, in_buf, in_valid, bulk_in_push_pos, in_tx,
                   in_accepted, answered, utask, was_blocking>>

-----------------------------------------------------------------------------
(* usb_bulk_out_task() and usb_read_bulk_out().                            *)

OutFrame == UNCHANGED <<usbhost, out_buf, out_dtog>>

\* sched_check_wake(): the flag is read, then cleared.
OutCheckWake == /\ utask = "out"
                /\ utask' = IF bulk_out_wake THEN "out_clear" ELSE "in"
                /\ UNCHANGED <<usbhost, out, bulk_out_wake, in, bulk_in_wake, was_blocking>>

OutClearWake == /\ utask = "out_clear"
                /\ bulk_out_wake' = FALSE
                /\ utask' = "out_read"
                /\ UNCHANGED <<usbhost, out, in, bulk_in_wake, was_blocking>>

\* There is space for a packet, or the task runs again without reading one.
HasSpace == Len(out_rx) + UsbEp <= UsbRxSize
ReadBulkOut ==
    /\ utask = "out_read"
    /\ IF HasSpace /\ ~bulk_out_push_flag
       THEN /\ out_rx' = out_rx \o out_buf[bulk_out_pop_count % 2]
            /\ bulk_out_pop_count' = (bulk_out_pop_count + 1) % 2
            /\ bulk_out_wake' = TRUE
            /\ utask' = "out_flag"
       ELSE /\ bulk_out_wake' = IF HasSpace THEN bulk_out_wake ELSE TRUE
            /\ utask' = "out_dispatch"
            /\ UNCHANGED <<out_rx, bulk_out_pop_count>>
    /\ OutFrame
    /\ UNCHANGED <<out_sw, bulk_out_push_flag, out_taken, dispatched, in, bulk_in_wake, was_blocking>>

SetPushFlag == /\ utask = "out_flag"
               /\ bulk_out_push_flag' = TRUE
               /\ utask' = "out_epr"
               /\ OutFrame
               /\ UNCHANGED <<out_sw, bulk_out_pop_count, out_rx, out_taken, dispatched,
                              bulk_out_wake, in, bulk_in_wake, was_blocking>>

OutReadEpr == /\ utask = "out_epr"
              /\ was_blocking' = (out_dtog = out_sw)
              /\ utask' = "out_release"
              /\ UNCHANGED <<usbhost, out, bulk_out_wake, in, bulk_in_wake>>

\* The second packet came before the flag was set: the task flips sw itself.
must_release_unchecked == was_blocking
must_release == was_blocking /\ bulk_out_push_flag
OutRelease == /\ utask = "out_release"
              /\ IF must_release
                 THEN bulk_out_push_flag' = FALSE /\ out_sw' = 1 - out_sw
                 ELSE UNCHANGED <<bulk_out_push_flag, out_sw>>
              /\ utask' = "out_dispatch"
              /\ OutFrame
              /\ UNCHANGED <<bulk_out_pop_count, out_rx, out_taken, dispatched, bulk_out_wake,
                             in, bulk_in_wake, was_blocking>>

\* console_sendf(): a response that does not fit is dropped, else the task is
\* woken for it.
usb_notify_bulk_in_missing == bulk_in_wake
usb_notify_bulk_in == TRUE
console_sendf_usb(n) ==
    IF Len(in_tx) + n > UsbTxSize
    THEN /\ answered' = Append(answered, in_accepted)
         /\ UNCHANGED <<in_tx, in_accepted, bulk_in_wake>>
    ELSE /\ in_tx' = in_tx \o Bytes(in_accepted, n)
         /\ in_accepted' = in_accepted + n
         /\ answered' = Append(answered, in_accepted')
         /\ bulk_in_wake' = usb_notify_bulk_in

\* One message at the front of receive_buf is dispatched when it is all there.
OutDispatch ==
    /\ utask = "out_dispatch"
    /\ IF dispatched < Len(ends) /\ out_taken + Len(out_rx) >= ends[dispatched + 1]
       THEN LET n == ends[dispatched + 1] - out_taken
            IN /\ out_rx' = SubSeq(out_rx, n + 1, Len(out_rx))
               /\ out_taken' = out_taken + n
               /\ dispatched' = dispatched + 1
               /\ bulk_out_wake' = IF out_rx' # <<>> THEN TRUE ELSE bulk_out_wake
               /\ \E r \in UsbReplies : console_sendf_usb(r)
       ELSE UNCHANGED <<out_rx, out_taken, dispatched, bulk_out_wake, in_tx, in_accepted,
                        answered, bulk_in_wake>>
    /\ utask' = "in"
    /\ OutFrame
    /\ UNCHANGED <<out_sw, bulk_out_push_flag, bulk_out_pop_count, in_buf, in_dtog, in_sw,
                   in_valid, in_start, bulk_in_push_pos, bulk_in_pop_flag, in_wire, was_blocking>>

usb_bulk_out_task == \/ OutCheckWake \/ OutClearWake \/ ReadBulkOut \/ SetPushFlag
                     \/ OutReadEpr \/ OutRelease \/ OutDispatch

-----------------------------------------------------------------------------
(* usb_bulk_in_task() and usb_send_bulk_in().                              *)

InFrame == UNCHANGED <<usbhost, out, bulk_out_wake, in_dtog, in_accepted, in_wire, answered>>

InCheckWake == /\ utask = "in"
               /\ utask' = IF bulk_in_wake THEN "in_clear" ELSE "out"
               /\ UNCHANGED <<usbhost, out, bulk_out_wake, in, bulk_in_wake, was_blocking>>

InClearWake == /\ utask = "in_clear"
               /\ bulk_in_wake' = FALSE
               /\ utask' = "in_send"
               /\ UNCHANGED <<usbhost, out, bulk_out_wake, in, was_blocking>>

max_tpos == Min({Len(in_tx), UsbEp})

\* Nothing to send, or no free packet buffer: the interrupt will wake the task.
SendBulkIn ==
    /\ utask = "in_send"
    /\ IF in_tx = <<>> \/ bulk_in_pop_flag # "none"
       THEN utask' = "out" /\ UNCHANGED in_buf
       ELSE /\ in_buf' = [in_buf EXCEPT ![bulk_in_push_pos % 2] = SubSeq(in_tx, 1, max_tpos)]
            /\ utask' = "in_flag"
    /\ InFrame
    /\ UNCHANGED <<in_sw, in_valid, in_start, bulk_in_push_pos, bulk_in_pop_flag, in_tx,
                   bulk_in_wake, was_blocking>>

SetPopFlag == /\ utask = "in_flag"
              /\ bulk_in_pop_flag' = "DTOG_RX"
              /\ utask' = "in_epr"
              /\ InFrame
              /\ UNCHANGED <<in_buf, in_sw, in_valid, in_start, bulk_in_push_pos, in_tx,
                             bulk_in_wake, was_blocking>>

InReadEpr == /\ utask = "in_epr"
             /\ was_blocking' = (in_dtog = in_sw)
             /\ utask' = "in_release"
             /\ UNCHANGED <<usbhost, out, bulk_out_wake, in, bulk_in_wake>>

\* The interrupt did not take the flag before the register was read.
must_notify_unchecked == was_blocking
must_notify == was_blocking /\ bulk_in_pop_flag # "none"

\* The controller waits: it is given the packet.  The first one after the
\* configuration is held back until there is a second.
InRelease ==
    LET bipp == bulk_in_push_pos
        other == IF bipp % 2 = 0 THEN bipp + 1 ELSE bipp - 1
    IN /\ utask = "in_release"
       /\ IF ~must_notify
          THEN /\ bulk_in_push_pos' = other
               /\ UNCHANGED <<bulk_in_pop_flag, in_sw, in_valid, in_start>>
          ELSE IF bipp = BI_START + 1
          THEN /\ bulk_in_push_pos' = 0 /\ bulk_in_pop_flag' = "KIND"
               /\ in_valid' = TRUE /\ in_start' = TRUE
               /\ UNCHANGED in_sw
          ELSE /\ bulk_in_push_pos' = other /\ bulk_in_pop_flag' = "none"
               /\ in_sw' = IF bipp = BI_START THEN in_sw ELSE 1 - in_sw
               /\ UNCHANGED <<in_valid, in_start>>
       /\ utask' = "in_shift"
       /\ InFrame
       /\ UNCHANGED <<in_buf, in_tx, bulk_in_wake, was_blocking>>

\* What is left of transmit_buf moves to its front.
InShift == /\ utask = "in_shift"
           /\ in_tx' = SubSeq(in_tx, max_tpos + 1, Len(in_tx))
           /\ bulk_in_wake' = IF in_tx' # <<>> THEN TRUE ELSE bulk_in_wake
           /\ utask' = "out"
           /\ InFrame
           /\ UNCHANGED <<in_buf, in_sw, in_valid, in_start, bulk_in_push_pos,
                          bulk_in_pop_flag, was_blocking>>

usb_bulk_in_task == \/ InCheckWake \/ InClearWake \/ SendBulkIn \/ SetPopFlag
                    \/ InReadEpr \/ InRelease \/ InShift

UsbNext == \/ \E n \in UsbMessages : HostWrites(n)
           \/ BulkOutIrq \/ BulkInIrq
           \/ usb_bulk_out_task \/ usb_bulk_in_task

\* The task loop runs the two tasks in turn, the host polls the endpoints.
UsbFairness == /\ WF_usbvars(BulkOutIrq) /\ WF_usbvars(BulkInIrq)
               /\ WF_usbvars(usb_bulk_out_task \/ usb_bulk_in_task)

-----------------------------------------------------------------------------
(* Properties.                                                             *)

\* receive_buf holds the bytes the host wrote next, without a gap or a repeat:
\* the hand-over of the two packet buffers between task and interrupt never
\* lets the controller overwrite a packet, nor the task read one twice.
UsbOutStream == \A i \in DOMAIN out_rx : out_rx[i] = out_taken + i

\* The host receives the bytes of the accepted responses in order and once.
UsbInStream == \A i \in DOMAIN in_wire : in_wire[i] = i

\* Every message of a host that primed the link is answered in the end: no
\* packet and no wake-up is lost, and receive_buf always gets space for the rest
\* of a message.
UsbAnswered == Answered < Len(ends) ~> Answered = Len(ends)
=============================================================================
