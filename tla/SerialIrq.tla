------------------------------ MODULE SerialIrq ------------------------------
(***************************************************************************)
(* The UART console of src/src/generic/serial_irq.c: console_task() with   *)
(* console_pop_input() and console_sendf(), access by access, against the  *)
(* receive and transmit interrupts, which may come between any two         *)
(* accesses to the positions they share with the task.                     *)
(*                                                                         *)
(* Bytes are numbered: the k-th byte on the wire, and the k-th byte of the *)
(* responses, is k.  What command_find_block() finds in the bytes is in    *)
(* module Framing; here a pass of the task takes any number of them and    *)
(* answers, or does not.                                                   *)
(***************************************************************************)
EXTENDS Integers, Sequences

CONSTANTS SerialRxSize, SerialTxSize,   \* sizes of the two buffers
          SerialReplies,                \* lengths of responses
          SerialMaxRx, SerialMaxTx      \* bounds: bytes on the wire, and of responses

ASSUME SerialAssumption ==
    /\ {SerialRxSize, SerialTxSize} \subseteq Nat \ {0}
    /\ SerialReplies \subseteq Nat \ {0}
    /\ {SerialMaxRx, SerialMaxTx} \subseteq Nat

VARIABLES receive_buf, receive_pos,
          transmit_buf, transmit_pos, transmit_max,
          TXEIE,                \* the transmit interrupt is enabled
          stask,                \* where the task is
          rpos, copied, len,    \* its locals: console_pop_input()
          tpos, tmax, msglen,   \* and console_sendf()
          rx_wire,              \* history: bytes that came over the wire
          rx_kept, rx_taken,    \* history: bytes stored, bytes dispatched
          tx_accepted, tx_wire  \* history: bytes of responses, bytes sent

sshared == <<receive_buf, receive_pos, transmit_buf, transmit_pos, transmit_max, TXEIE>>
slocals == <<rpos, copied, len, tpos, tmax, msglen>>
shistory == <<rx_wire, rx_kept, rx_taken, tx_accepted, tx_wire>>
svars == <<sshared, stask, slocals, shistory>>

\* The n elements of a buffer from position i on.
Slice(b, i, n) == [k \in 1 .. n |-> b[i + k - 1]]

\* memmove(&b[to], &b[from], n)
memmove(b, to, from, n) ==
    [i \in DOMAIN b |-> IF i \in to .. to + n - 1 THEN b[i - to + from] ELSE b[i]]

STypeOK ==
    /\ receive_buf \in [0 .. SerialRxSize - 1 -> Nat] /\ receive_pos \in 0 .. SerialRxSize
    /\ transmit_buf \in [0 .. SerialTxSize - 1 -> Nat]
    /\ transmit_pos \in 0 .. SerialTxSize /\ transmit_max \in 0 .. SerialTxSize
    /\ TXEIE \in BOOLEAN
    /\ stask \in {"idle", "read_tpos", "read_tmax", "zero_pos", "fit", "move", "shift",
                  "reset_pos", "restore_max", "encode", "raise_max", "enable", "pop", "commit"}
    /\ {rpos, copied, len} \subseteq 0 .. SerialRxSize
    /\ {tpos, tmax} \subseteq 0 .. SerialTxSize /\ msglen \in SerialReplies \cup {0}
    /\ {rx_wire, tx_accepted} \subseteq Nat /\ {rx_kept, rx_taken, tx_wire} \subseteq Seq(Nat)

SInit == /\ receive_buf = [i \in 0 .. SerialRxSize - 1 |-> 0] /\ receive_pos = 0
         /\ transmit_buf = [i \in 0 .. SerialTxSize - 1 |-> 0]
         /\ transmit_pos = 0 /\ transmit_max = 0
         /\ TXEIE = FALSE
         /\ stask = "idle"
         /\ rpos = 0 /\ copied = 0 /\ len = 0
         /\ tpos = 0 /\ tmax = 0 /\ msglen = 0
         /\ rx_wire = 0 /\ rx_kept = <<>> /\ rx_taken = <<>>
         /\ tx_accepted = 0 /\ tx_wire = <<>>

-----------------------------------------------------------------------------
(* Interrupts.                                                             *)

serial_rx_byte ==
    /\ rx_wire < SerialMaxRx
    /\ rx_wire' = rx_wire + 1
    /\ IF receive_pos >= SerialRxSize
       THEN UNCHANGED <<receive_buf, receive_pos, rx_kept>>
       ELSE /\ receive_buf' = [receive_buf EXCEPT ![receive_pos] = rx_wire']
            /\ receive_pos' = receive_pos + 1
            /\ rx_kept' = Append(rx_kept, rx_wire')
    /\ UNCHANGED <<transmit_buf, transmit_pos, transmit_max, TXEIE, stask, slocals,
                   rx_taken, tx_accepted, tx_wire>>

\* The transmitter is empty; with nothing left the interrupt is disabled.
serial_get_tx_byte ==
    /\ TXEIE
    /\ IF transmit_pos >= transmit_max
       THEN TXEIE' = FALSE /\ UNCHANGED <<transmit_pos, tx_wire>>
       ELSE /\ tx_wire' = Append(tx_wire, transmit_buf[transmit_pos])
            /\ transmit_pos' = transmit_pos + 1
            /\ UNCHANGED TXEIE
    /\ UNCHANGED <<receive_buf, receive_pos, transmit_buf, transmit_max, stask, slocals,
                   rx_wire, rx_kept, rx_taken, tx_accepted>>

-----------------------------------------------------------------------------
(* console_sendf(): every step is one access to what the interrupt shares. *)

\* The frame of a step of console_sendf().
Sendf(from) == /\ stask = from
               /\ UNCHANGED <<receive_buf, receive_pos, rpos, copied, len,
                              rx_wire, rx_kept, rx_taken, tx_wire>>

ReadTpos == /\ Sendf("read_tpos")
            /\ tpos' = transmit_pos
            /\ stask' = "read_tmax"
            /\ UNCHANGED <<transmit_buf, transmit_pos, transmit_max, TXEIE, tmax, msglen, tx_accepted>>

\* An empty buffer starts over: transmit_max first, so that the interrupt
\* never sees old bytes as unsent.
ReadTmax == /\ Sendf("read_tmax")
            /\ IF tpos >= transmit_max
               THEN /\ tpos' = 0 /\ tmax' = 0
                    /\ transmit_max' = 0
                    /\ stask' = "zero_pos"
               ELSE /\ tmax' = transmit_max
                    /\ stask' = "fit"
                    /\ UNCHANGED <<tpos, transmit_max>>
            /\ UNCHANGED <<transmit_buf, transmit_pos, TXEIE, msglen, tx_accepted>>

ZeroPos == /\ Sendf("zero_pos")
           /\ transmit_pos' = 0
           /\ stask' = "fit"
           /\ UNCHANGED <<transmit_buf, transmit_max, TXEIE, tpos, tmax, msglen, tx_accepted>>

\* The response fits behind what is in the buffer.
Fits == tmax + msglen <= SerialTxSize

\* A response that does not fit even after a move is dropped; before a move
\* transmit_max = 0 holds the interrupt off the buffer.
Fit == /\ Sendf("fit")
       /\ IF Fits
          THEN stask' = "encode" /\ UNCHANGED transmit_max
          ELSE IF tmax + msglen - tpos > SerialTxSize
          THEN stask' = "pop" /\ UNCHANGED transmit_max
          ELSE stask' = "move" /\ transmit_max' = 0
       /\ UNCHANGED <<transmit_buf, transmit_pos, TXEIE, tpos, tmax, msglen, tx_accepted>>

\* transmit_pos once more: bytes may have gone since it was read.
current_pos_stale == tpos
current_pos == transmit_pos
Move == /\ Sendf("move")
        /\ tpos' = current_pos
        /\ tmax' = tmax - tpos'
        /\ stask' = "shift"
        /\ UNCHANGED <<transmit_buf, transmit_pos, transmit_max, TXEIE, msglen, tx_accepted>>

Shift == /\ Sendf("shift")
         /\ transmit_buf' = memmove(transmit_buf, 0, tpos, tmax)
         /\ stask' = "reset_pos"
         /\ UNCHANGED <<transmit_pos, transmit_max, TXEIE, tpos, tmax, msglen, tx_accepted>>

ResetPos == /\ Sendf("reset_pos")
            /\ transmit_pos' = 0
            /\ stask' = "restore_max"
            /\ UNCHANGED <<transmit_buf, transmit_max, TXEIE, tpos, tmax, msglen, tx_accepted>>

\* The bytes that were moved may go.
RestoreMax == /\ Sendf("restore_max")
              /\ transmit_max' = tmax
              /\ TXEIE' = TRUE
              /\ stask' = "encode"
              /\ UNCHANGED <<transmit_buf, transmit_pos, tpos, tmax, msglen, tx_accepted>>

Encode == /\ Sendf("encode")
          /\ transmit_buf' = [i \in DOMAIN transmit_buf |->
                                 IF i \in tmax .. tmax + msglen - 1
                                 THEN tx_accepted + i - tmax + 1 ELSE transmit_buf[i]]
          /\ tx_accepted' = tx_accepted + msglen
          /\ stask' = "raise_max"
          /\ UNCHANGED <<transmit_pos, transmit_max, TXEIE, tpos, tmax, msglen>>

RaiseMax == /\ Sendf("raise_max")
            /\ transmit_max' = tmax + msglen
            /\ stask' = "enable"
            /\ UNCHANGED <<transmit_buf, transmit_pos, TXEIE, tpos, tmax, msglen, tx_accepted>>

serial_enable_tx_irq_missing == TXEIE
serial_enable_tx_irq == TRUE
Enable == /\ Sendf("enable")
          /\ TXEIE' = serial_enable_tx_irq
          /\ stask' = "pop"
          /\ UNCHANGED <<transmit_buf, transmit_pos, transmit_max, tpos, tmax, msglen, tx_accepted>>

console_sendf == \/ ReadTpos \/ ReadTmax \/ ZeroPos \/ Fit
                 \/ Move \/ Shift \/ ResetPos \/ RestoreMax
                 \/ Encode \/ RaiseMax \/ Enable

-----------------------------------------------------------------------------
(* console_task() and console_pop_input().                                 *)

\* A block of n bytes is dispatched, or discarded; r bytes answer it.
console_task(n, r) ==
    /\ stask = "idle"
    /\ n <= receive_pos /\ tx_accepted + r <= SerialMaxTx
    /\ rx_taken' = rx_taken \o Slice(receive_buf, 0, n)
    /\ len' = n /\ msglen' = r /\ copied' = 0
    /\ stask' = IF r = 0 THEN "pop" ELSE "read_tpos"
    /\ UNCHANGED <<sshared, rpos, tpos, tmax, rx_wire, rx_kept, tx_accepted, tx_wire>>

\* What is behind the block moves to the front, as far as it has not yet.
PopMove == /\ stask = "pop"
           /\ rpos' = receive_pos
           /\ LET needcopy == rpos' - len
              IN IF needcopy = 0
                 THEN UNCHANGED <<receive_buf, copied>>
                 ELSE /\ receive_buf' = memmove(receive_buf, copied, copied + len, needcopy - copied)
                      /\ copied' = needcopy
           /\ stask' = "commit"
           /\ UNCHANGED <<receive_pos, transmit_buf, transmit_pos, transmit_max, TXEIE,
                          len, tpos, tmax, msglen, shistory>>

\* With interrupts off: either no byte came since, or the move is repeated.
RacedIrq_ignored == FALSE
RacedIrq == rpos # receive_pos
PopCommit == /\ stask = "commit"
             /\ IF RacedIrq
                THEN stask' = "pop" /\ UNCHANGED receive_pos
                ELSE stask' = "idle" /\ receive_pos' = rpos - len
             /\ UNCHANGED <<receive_buf, transmit_buf, transmit_pos, transmit_max, TXEIE,
                            slocals, shistory>>

console_pop_input == PopMove \/ PopCommit

STask == \/ \E n \in 1 .. SerialRxSize, r \in SerialReplies \cup {0} : console_task(n, r)
         \/ console_sendf \/ console_pop_input

SNext == serial_rx_byte \/ serial_get_tx_byte \/ STask

\* The task loop goes on within a pass, and interrupts are served.
SFairness == WF_svars(console_sendf \/ console_pop_input) /\ WF_svars(serial_get_tx_byte)

-----------------------------------------------------------------------------
(* Properties.                                                             *)

\* Between two passes of console_task() the bytes dispatched and those in the
\* buffer are the bytes the interrupt stored, in order and once, however
\* console_pop_input() was raced.
SerialRxStream ==
    stask = "idle" => rx_taken \o Slice(receive_buf, 0, receive_pos) = rx_kept

\* The bytes on the wire are those of the accepted responses, in order and
\* once, whichever accesses of console_sendf() the interrupt falls between.
SerialTxStream == /\ Len(tx_wire) <= tx_accepted
                  /\ \A i \in DOMAIN tx_wire : tx_wire[i] = i

\* Every byte of an accepted response goes out: the transmit interrupt is never
\* left disabled with bytes to send.
SerialTxDrains == Len(tx_wire) < tx_accepted ~> Len(tx_wire) = tx_accepted
=============================================================================
