------------------------------- MODULE Framing -------------------------------
(***************************************************************************)
(* The block parser command_find_block() of src/src/command.c, fed by a    *)
(* byte stream in chunks and called by a receive task that pops what the   *)
(* parser asks for (canserial_rx_task(), console_task()).                  *)
(*                                                                         *)
(* A block of the code is STX1 STX2 cmd len payload crc crc SYNC2 SYNC     *)
(* with 4 * len + 8 bytes.  Here it is STX1 len payload crc SYNC with      *)
(* len + 4 bytes: one byte for each group the parser tests, bytes from a   *)
(* small alphabet, and a checksum in place of crc16_ccitt().  As in the    *)
(* code STX1 is also a legal length, payload and checksum byte.            *)
(***************************************************************************)
EXTENDS Integers, Sequences, FiniteSetsExt

CONSTANTS RxSize,       \* size of the receive buffer
          MaxLen,       \* largest legal len
          Byte          \* the alphabet, 0 .. k

ASSUME FramingAssumption ==
    /\ Byte = 0 .. 3 /\ MaxLen \in Byte
    /\ RxSize \in Nat /\ RxSize >= MaxLen + 4

STX1 == 1
SYNC == 3
MESSAGE_MIN == 4
MESSAGE_MAX_off == MaxLen + 3
MESSAGE_MAX == MaxLen + 4

VARIABLES buf,          \* the receive buffer
          need_sync, need_valid,    \* CF_NEED_SYNC and CF_NEED_VALID of sync_state
          rest,         \* bytes of the host's current block still to arrive
          block,        \* that block, when it started into an empty buffer
          nacks         \* history: NACKs since the last valid block

vars == <<buf, need_sync, need_valid, rest, block, nacks>>

\* A checksum of the len and payload bytes.
crc16_ccitt(s) == (s[1] + s[Len(s)]) % 4

\* The blocks a host can send.
Blocks == UNION { { <<STX1, n>> \o p \o <<crc16_ccitt(<<n>> \o p), SYNC>> : p \in [1 .. n -> Byte] }
                     : n \in 0 .. MaxLen }

\* Position of the first STX1 of b after the first skip bytes, or 0.
memchr(b, skip) == LET at == {i \in skip + 1 .. Len(b) : b[i] = STX1}
                   IN IF at = {} THEN 0 ELSE Min(at)

\* Whether an error is worth a NACK: CF_NEED_VALID is not yet set.
send_nack_always(pending_valid) == TRUE
send_nack(pending_valid) == ~pending_valid

\* Discard bytes until the next STX1; one NACK until a block is valid again.
Resync(b, skip, pending_valid) ==
    LET next == memchr(b, skip)
    IN [ret |-> -1,
        pop |-> IF next = 0 THEN Len(b) ELSE next - 1,
        nack |-> send_nack(pending_valid),
        need_sync |-> next = 0,
        need_valid |-> TRUE]

\* The checks on a whole block at the front of the buffer.
Valid(b, msglen) == /\ b[msglen] = SYNC
                    /\ b[msglen - 1] = crc16_ccitt(SubSeq(b, 2, msglen - 2))

\* A bad block that begins with STX1 is searched from its second byte on.
search_skip_none(b) == 0
search_skip(b) == IF b # <<>> /\ b[1] = STX1 THEN 1 ELSE 0

command_find_block(b, nsync, nvalid) ==
    LET more == [ret |-> 0, pop |-> 0, nack |-> FALSE, need_sync |-> nsync, need_valid |-> nvalid]
        error == Resync(b, search_skip(b), nvalid)
        msglen == b[2] + 4
    IN IF Len(b) > 0 /\ nsync THEN Resync(b, 0, nvalid)
       ELSE IF Len(b) < MESSAGE_MIN THEN more
       ELSE IF b[1] # STX1 THEN error
       ELSE IF msglen < MESSAGE_MIN \/ msglen > MESSAGE_MAX THEN error
       ELSE IF Len(b) < msglen THEN more
       ELSE IF ~Valid(b, msglen) THEN error
       ELSE [ret |-> 1, pop |-> msglen, nack |-> FALSE, need_sync |-> nsync, need_valid |-> FALSE]

-----------------------------------------------------------------------------
TypeOK == /\ buf \in Seq(Byte) /\ Len(buf) <= RxSize
          /\ need_sync \in BOOLEAN /\ need_valid \in BOOLEAN
          /\ rest \in Seq(Byte)
          /\ block \in Blocks \cup {<<>>}
          /\ nacks \in Nat

Init == /\ buf = <<>>
        /\ need_sync = FALSE /\ need_valid = FALSE
        /\ rest = <<>> /\ block = <<>>
        /\ nacks = 0

\* The host starts a block; it counts as clean when nothing precedes it.
StartBlock(f) == /\ rest = <<>>
                 /\ rest' = f
                 /\ block' = IF buf = <<>> THEN f ELSE <<>>
                 /\ UNCHANGED <<buf, need_sync, need_valid, nacks>>

\* The receive interrupt has space for n more bytes.
HasRoom(n) == Len(buf) + n <= RxSize

\* The next n bytes of it arrive; without space for them they are lost.
Arrive(n) == /\ rest # <<>> /\ n <= Len(rest)
             /\ rest' = SubSeq(rest, n + 1, Len(rest))
             /\ buf' = IF HasRoom(n) THEN buf \o SubSeq(rest, 1, n) ELSE buf
             /\ UNCHANGED <<need_sync, need_valid, block, nacks>>

\* A stray byte: noise, or what is left of a block that lost a chunk.
Noise(x) == /\ rest = <<>> /\ Len(buf) < RxSize
            /\ buf' = Append(buf, x)
            /\ block' = <<>>
            /\ UNCHANGED <<need_sync, need_valid, rest, nacks>>

\* One call of the parser and the pop it asks for.
Parse ==
    \E r \in {command_find_block(buf, need_sync, need_valid)} :
       /\ r.ret # 0
       /\ need_sync' = r.need_sync /\ need_valid' = r.need_valid
       /\ buf' = SubSeq(buf, r.pop + 1, Len(buf))
       /\ block' = IF r.pop > 0 THEN <<>> ELSE block
       /\ nacks' = IF r.ret = 1 THEN 0 ELSE IF r.nack THEN nacks + 1 ELSE nacks
       /\ UNCHANGED rest

Next == \/ \E f \in Blocks : StartBlock(f)
        \/ \E n \in 1 .. MESSAGE_MAX : Arrive(n)
        \/ \E x \in Byte : Noise(x)
        \/ Parse

\* The receive task runs again as long as the parser popped or may find more.
Spec == Init /\ [][Next]_vars /\ WF_vars(Parse)

-----------------------------------------------------------------------------
(* Properties.                                                             *)

\* The parser never wedges: a full receive buffer is always emptied again, at
\* least in part, whatever bytes it holds (the comment at "error:" tells how bad
\* bytes once parked in it for ever).
NeverWedged == Len(buf) = RxSize ~> Len(buf) < RxSize

\* A block that arrives into an empty buffer is dispatched whole, in any chunks
\* and in any state of synchronisation that earlier noise has left behind.
CleanBlockDispatched ==
    [][Parse /\ block # <<>> /\ buf' # buf
         => buf = block \o buf' /\ ~need_valid']_vars

\* However long the garbage, the host gets at most one NACK until a block is
\* valid again: noise does not flood the link with answers.
OneNackPerGap == nacks <= 1
=============================================================================
