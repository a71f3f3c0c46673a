---------------------------- MODULE Stm32Update ----------------------------
(***************************************************************************)
(* The STM32 flash backend driven the way flashtool.py's send_file() does: *)
(* the blocks of one image, in order, from the first block of the          *)
(* application area.  A reply may be lost, and then the block is sent      *)
(* again; the host may give up at any block and start over with the same   *)
(* or another image, and must do so after the device lost power.           *)
(***************************************************************************)
EXTENDS Stm32Flash

CONSTANT Images         \* the firmware files, cut in blocks: [Blocks -> Data]

ASSUME ImagesAssumption == Images \subseteq [Blocks -> Data]

VARIABLES image,        \* the file being sent
          block_count,  \* blocks the host knows to be written
          waiting       \* a SEND_BLOCK is unanswered

uvars == <<vars, image, block_count, waiting>>

UTypeOK == /\ TypeOK
           /\ image \in Images
           /\ block_count \in 0 .. NumBlocks
           /\ waiting \in BOOLEAN

UInit == /\ Init
         /\ image \in Images
         /\ block_count = 0
         /\ waiting = FALSE

SendBlock == /\ ~waiting /\ block_count < NumBlocks
             /\ Call(block_count, 0, image[block_count])
             /\ waiting' = TRUE
             /\ UNCHANGED <<image, block_count>>

DeviceStep == /\ Step
              /\ UNCHANGED <<image, block_count, waiting>>

\* A wrong variant: the end of the wait counts as an acknowledgement.
Reply_assumed == /\ waiting
                 /\ waiting' = FALSE
                 /\ block_count' = block_count + 1
                 /\ UNCHANGED <<vars, image>>

\* The acknowledgement arrives, or it is lost and the block will be sent again.
Reply == /\ waiting /\ pc = "idle" /\ ret = 0
         /\ waiting' = FALSE
         /\ block_count' \in {block_count, block_count + 1}
         /\ UNCHANGED <<vars, image>>

\* flashtool is started (again): block 0 of an image comes next.
NewUpdate == /\ pc = "idle"
             /\ image' \in Images
             /\ block_count' = 0
             /\ waiting' = FALSE
             /\ UNCHANGED vars

\* The device restarts; the session is over and the host starts anew.
DevicePowerLoss == /\ PowerLoss
                   /\ block_count' = 0
                   /\ waiting' = FALSE
                   /\ UNCHANGED image

UNext == SendBlock \/ DeviceStep \/ Reply \/ NewUpdate \/ DevicePowerLoss

USpec == UInit /\ [][UNext]_uvars

-----------------------------------------------------------------------------
\* An in-order update is never refused, whatever earlier update, interrupted
\* update or retransmission left in the array: flash_write_block() returns -2
\* only for an "out of order request" and -3 only when the part failed.
InOrderNeverRejected == ret >= 0

\* When every block of the file was acknowledged in order, the array holds the
\* file, whatever was lost, repeated, abandoned or interrupted before.
CompleteMeansFlashed ==
    block_count = NumBlocks => flash = image
=============================================================================
