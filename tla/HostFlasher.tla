----------------------------- MODULE HostFlasher -----------------------------
(***************************************************************************)
(* An update from end to end: CanFlasher of src/scripts/flashtool.py on    *)
(* one side, the flash commands of src/src/flashcmd.c over one of the      *)
(* flash backends on the other, and between them a link that keeps the     *)
(* order of messages but loses, damages and delays them.                   *)
(*                                                                         *)
(* The tool works through CONNECT, GET_CANBUS_ID, SEND_BLOCK for every     *)
(* block, SEND_EOF, REQUEST_BLOCK for every block and COMPLETE; phase is   *)
(* the command it is at.  send_command() repeats a command that times out  *)
(* or is not acknowledged, and drops what it finds in its read buffer      *)
(* before it does; send_file() and verify_file() repeat a send_command()   *)
(* that was acknowledged for another address, and drop nothing.            *)
(***************************************************************************)
EXTENDS BufferedFlash, Sequences

CONSTANTS Images,       \* firmware files, as sequences of blocks
          Devices,      \* pairs of a backend and a transport
          BlockTries, CommandTries,     \* tries of send_command()
          Rounds,       \* tries of send_file() and verify_file()
          MaxTroubles,  \* faults (losses, damages, delays, failures of the part)
                        \* and crashes (losses of power, kills of the tool)
          MaxSessions   \* runs of the tool

\* "usb" is USB with double-buffered endpoints, which only some STM32 have; any
\* other USB is to the tool as a serial line.
Transports == {"can", "serial", "usb"}

ASSUME HostFlasherAssumption ==
    /\ Images # {} /\ Images \subseteq Seq(Data)
    /\ \A m \in Images : Len(m) \in 1 .. NumBlocks
    /\ Devices \subseteq Backends \X Transports
    /\ {BlockTries, CommandTries, Rounds} \subseteq Nat \ {0}
    /\ {MaxTroubles, MaxSessions} \subseteq Nat

VARIABLES transport,
          phase, image, block,  \* the command, the file and the block it is for
          tries, rounds,        \* left of the command, and of the block
          waiting,              \* the command was written, its answer is awaited
          primed,               \* the next answer is that to prime()
          matches,              \* ver_sha and fw_sha agree so far
          result,
          requests, replies,    \* the link
          on,                   \* the device is in the bootloader
          complete,             \* COMPLETE was received, a reset is due
          faults, crashes, sessions,
          restarted,            \* history: the device restarted in this session
          stale                 \* history: answers to an earlier session came into it

host == <<transport, phase, image, block, tries, rounds, waiting, primed, matches, result>>
counts == <<crashes, sessions>>
device == <<backend, flash, ram, on, complete, restarted, stale>>
hvars == <<host, requests, replies, device, faults, counts>>

Commands == {"CONNECT", "GET_CANBUS_ID", "SEND_BLOCK", "SEND_EOF", "REQUEST_BLOCK", "COMPLETE"}
Requests == [cmd : Commands \cup {"INVALID"}, addr : Blocks, data : Data]
Replies == [ack : Commands \cup {"ERROR"}, addr : Blocks, data : Data \cup {Garbage}]

HTypeOK == /\ FlashTypeOK
           /\ transport \in Transports
           /\ phase \in Commands \cup {"idle"}
           /\ image \in Images
           /\ block \in 0 .. Len(image) - 1
           /\ tries \in 0 .. CommandTries + BlockTries /\ rounds \in 0 .. Rounds
           /\ {waiting, primed, matches, on, complete, restarted, stale} \subseteq BOOLEAN
           /\ result \in {"none", "verified", "ok", "error", "killed"}
           /\ requests \in Seq(Requests) /\ replies \in Seq(Replies)
           /\ faults \in 0 .. MaxTroubles /\ crashes \in 0 .. MaxTroubles
           /\ sessions \in 0 .. MaxSessions

\* The application area before the first session: blank, or an older file.
OldFlash == {[b \in Blocks |-> Erased]} \cup
            {[b \in Blocks |-> IF b < Len(m) THEN m[b + 1] ELSE Erased] : m \in Images}

HInit == /\ FlashInit
         /\ flash \in OldFlash
         /\ \E d \in Devices : backend = d[1] /\ transport = d[2]
         /\ phase = "idle" /\ image \in Images /\ block = 0
         /\ tries = 0 /\ rounds = 0
         /\ waiting = FALSE /\ primed = FALSE /\ matches = TRUE
         /\ result = "none"
         /\ requests = <<>> /\ replies = <<>>
         /\ on = FALSE /\ complete = FALSE
         /\ faults = 0 /\ crashes = 0 /\ sessions = 0
         /\ restarted = FALSE /\ stale = FALSE

MoreTrouble == faults + crashes < MaxTroubles

-----------------------------------------------------------------------------
(* The tool.                                                               *)

TriesFor(cmd) == IF cmd = "SEND_BLOCK" THEN BlockTries ELSE CommandTries

\* The next command is for block b.
Issue(cmd, b) == /\ phase' = cmd /\ block' = b
                 /\ tries' = TriesFor(cmd) /\ rounds' = Rounds
                 /\ waiting' = FALSE

\* A FlashError: COMPLETE is sent all the same, and the tool ends.
Raise == /\ result' = "error"
         /\ IF phase = "COMPLETE"
            THEN phase' = "idle" /\ waiting' = FALSE /\ UNCHANGED <<block, tries, rounds>>
            ELSE Issue("COMPLETE", 0)

\* Some of what is on its way was received before; the rest is yet to come.
Suffixes(s) == { SubSeq(s, n + 1, Len(s)) : n \in 0 .. Len(s) }

\* One try of send_command() failed; the read buffer is cleared.
tries_left_same == tries
tries_left == tries - 1
Retry(left) ==
    /\ replies' \in Suffixes(left)
    /\ IF tries_left = 0
       THEN Raise
       ELSE tries' = tries_left /\ waiting' = FALSE /\ UNCHANGED <<phase, block, rounds, result>>
    /\ UNCHANGED <<primed, matches>>

\* The command was acknowledged for another block and is sent once more.
Again == IF rounds = 1
         THEN Raise
         ELSE /\ rounds' = rounds - 1
              /\ tries' = TriesFor(phase) /\ waiting' = FALSE
              /\ UNCHANGED <<phase, block, result>>

\* The answer is for the block that was sent.
SameAddress(r) == r.addr = block

LastBlock == block = Len(image) - 1

connect_btl == /\ phase = "CONNECT"
               /\ IF transport = "can" THEN Issue("GET_CANBUS_ID", 0) ELSE Issue("SEND_BLOCK", 0)
               /\ UNCHANGED <<matches, result>>

verify_canbus_uuid == /\ phase = "GET_CANBUS_ID"
                      /\ Issue("SEND_BLOCK", 0)
                      /\ UNCHANGED <<matches, result>>

send_file(r) ==
    \/ /\ phase = "SEND_BLOCK"
       /\ IF ~SameAddress(r) THEN Again
          ELSE /\ IF LastBlock THEN Issue("SEND_EOF", 0) ELSE Issue("SEND_BLOCK", block + 1)
               /\ UNCHANGED result
       /\ UNCHANGED matches
    \/ /\ phase = "SEND_EOF"
       /\ Issue("REQUEST_BLOCK", 0)
       /\ UNCHANGED <<matches, result>>

\* The digests are compared after the last block.
sha_differs_ignored(same) == FALSE
sha_differs(same) == ~same

verify_file(r) ==
    LET same == matches /\ r.data = image[block + 1]
    IN /\ phase = "REQUEST_BLOCK"
       /\ IF ~SameAddress(r) THEN Again /\ UNCHANGED matches
          ELSE /\ matches' = same
               /\ IF ~LastBlock THEN Issue("REQUEST_BLOCK", block + 1) /\ UNCHANGED result
                  ELSE IF sha_differs(same) THEN Raise
                  ELSE Issue("COMPLETE", 0) /\ result' = "verified"

finish == /\ phase = "COMPLETE"
          /\ phase' = "idle" /\ waiting' = FALSE
          /\ result' = IF result = "verified" THEN "ok" ELSE "error"
          /\ UNCHANGED <<block, tries, rounds, matches>>

\* The tool is started, when the device has worked off what an earlier run
\* sent; an application that runs is told to enter the bootloader.  A USB link
\* is primed with a command the device refuses.
Start == /\ phase = "idle" /\ sessions < MaxSessions /\ requests = <<>>
         /\ sessions' = sessions + 1
         /\ image' \in Images
         /\ Issue("CONNECT", 0)
         /\ primed' = (transport = "usb")
         /\ requests' = IF transport = "usb"
                        THEN <<[cmd |-> "INVALID", addr |-> 0, data |-> Erased]>>
                        ELSE <<>>
         /\ replies' \in Suffixes(replies)
         /\ matches' = TRUE /\ result' = "none"
         /\ on' = TRUE /\ restarted' = FALSE /\ stale' = (replies' # <<>>)
         /\ UNCHANGED <<transport, backend, flash, ram, complete, faults, crashes>>

\* An application makes nothing of a command.
Write == /\ phase # "idle" /\ ~waiting
         /\ requests' = IF on THEN Append(requests, [cmd |-> phase, addr |-> block,
                                                      data |-> image[block + 1]])
                        ELSE requests
         /\ waiting' = TRUE
         /\ UNCHANGED <<transport, phase, image, block, tries, rounds, primed, matches, result,
                        replies, device, faults, counts>>

\* The answer to prime() is thrown away.
DropPrimed == /\ waiting /\ replies # <<>> /\ primed
              /\ primed' = FALSE
              /\ replies' = Tail(replies)
              /\ UNCHANGED <<transport, phase, image, block, tries, rounds, waiting, matches,
                             result, requests, device, faults, counts>>

Receive ==
    LET r == Head(replies)
    IN /\ waiting /\ replies # <<>> /\ ~primed
       /\ IF r.ack # phase
          THEN Retry(Tail(replies))
          ELSE /\ connect_btl \/ verify_canbus_uuid \/ send_file(r) \/ verify_file(r) \/ finish
               /\ replies' = Tail(replies)
               /\ UNCHANGED primed
       /\ UNCHANGED <<transport, image, requests, device, faults, counts>>

\* Nothing is on its way to the tool, so that a time-out is no coincidence.
Quiet == replies = <<>> /\ requests = <<>>

Timeout == /\ waiting
           /\ Quiet \/ MoreTrouble
           /\ faults' = IF Quiet THEN faults ELSE faults + 1
           /\ Retry(replies)
           /\ UNCHANGED <<transport, image, requests, device, counts>>

Kill == /\ phase # "idle" /\ MoreTrouble
        /\ crashes' = crashes + 1
        /\ phase' = "idle" /\ waiting' = FALSE /\ result' = "killed"
        /\ UNCHANGED <<transport, image, block, tries, rounds, primed, matches,
                       requests, replies, device, faults, sessions>>

-----------------------------------------------------------------------------
(* The device.                                                             *)

Answer(r, ack, data) == /\ requests' = Tail(requests)
                        /\ replies' = Append(replies, [ack |-> ack, addr |-> r.addr, data |-> data])
                        /\ UNCHANGED <<host, on, backend, restarted, stale, counts>>

\* The IAP calls of the LPC176x may fail.
HwOutcomes == IF backend = "lpc176x" /\ MoreTrouble
              THEN {"ok", "erase_fails", "write_fails"} ELSE {"ok"}

HwFault(hw, ret) == /\ hw # "ok" => ret \in {-3, -4}
                    /\ faults' = IF hw = "ok" THEN faults ELSE faults + 1

command_write_block(r) ==
    \E ret \in {0, -2, -3, -4}, hw \in HwOutcomes :
        /\ flash_write_block(r.addr, r.data, ret, hw)
        /\ HwFault(hw, ret)
        /\ Answer(r, IF ret < 0 THEN "ERROR" ELSE "SEND_BLOCK", Erased)
        /\ UNCHANGED <<backend, complete>>

command_eof(r) ==
    \E ret \in {0, -2, -3, -4}, hw \in HwOutcomes :
        /\ flash_complete(ret, hw)
        /\ HwFault(hw, ret)
        /\ Answer(r, IF ret < 0 THEN "ERROR" ELSE "SEND_EOF", Erased)
        /\ UNCHANGED <<backend, complete>>

command_read_block(r) == /\ Answer(r, "REQUEST_BLOCK", flash[r.addr])
                         /\ UNCHANGED <<flash, ram, complete, faults>>

command_complete(r) == /\ Answer(r, "COMPLETE", Erased)
                       /\ complete' = TRUE
                       /\ UNCHANGED <<flash, ram, faults>>

\* CONNECT and GET_CANBUS_ID are answered, anything else is refused.
command_other(r) == /\ Answer(r, IF r.cmd = "INVALID" THEN "ERROR" ELSE r.cmd, Erased)
                    /\ UNCHANGED <<flash, ram, complete, faults>>

command_dispatch ==
    /\ on /\ requests # <<>>
    /\ LET r == Head(requests)
       IN CASE r.cmd = "SEND_BLOCK" -> command_write_block(r)
            [] r.cmd = "SEND_EOF" -> command_eof(r)
            [] r.cmd = "REQUEST_BLOCK" -> command_read_block(r)
            [] r.cmd = "COMPLETE" -> command_complete(r)
            [] OTHER -> command_other(r)

\* The device starts again, in the bootloader or in the application.
Restart == /\ FreshRam
           /\ on' \in BOOLEAN
           /\ complete' = FALSE
           /\ restarted' = TRUE
           /\ requests' = <<>>
           /\ UNCHANGED <<host, replies, backend, faults, stale>>

complete_task == /\ on /\ complete
                 /\ Restart
                 /\ UNCHANGED <<flash, counts>>

\* Power goes between two commands or within one.
PowerLoss ==
    /\ on /\ MoreTrouble
    /\ crashes' = crashes + 1
    /\ \/ flash' = flash
       \/ \E n \in Indices : LET r == Head(requests)
                             IN /\ requests # <<>>
                                /\ \/ r.cmd = "SEND_BLOCK" /\ flash' = CutWrite(r.addr, r.data, n)
                                   \/ r.cmd = "SEND_EOF" /\ flash' = CutComplete(n)
    /\ Restart
    /\ UNCHANGED sessions

-----------------------------------------------------------------------------
(* The link.                                                               *)

Fault == /\ MoreTrouble
         /\ faults' = faults + 1
         /\ UNCHANGED <<host, device, counts>>

LoseRequest == /\ requests # <<>> /\ requests' = Tail(requests)
               /\ UNCHANGED replies /\ Fault

\* A block with a wrong CRC draws a NACK.
DamageRequest == /\ on /\ requests # <<>>
                 /\ requests' = Tail(requests)
                 /\ replies' = Append(replies, [ack |-> "ERROR", addr |-> 0, data |-> Erased])
                 /\ Fault

LoseReply == /\ replies # <<>> /\ replies' = Tail(replies)
             /\ UNCHANGED requests /\ Fault

DamageReply == /\ replies # <<>>
               /\ replies' = <<[ack |-> "ERROR", addr |-> 0, data |-> Erased]>> \o Tail(replies)
               /\ UNCHANGED requests /\ Fault

HNext == \/ Start \/ Write \/ DropPrimed \/ Receive \/ Timeout \/ Kill
         \/ command_dispatch \/ complete_task \/ PowerLoss
         \/ LoseRequest \/ DamageRequest \/ LoseReply \/ DamageReply

\* The tool's event loop and the device's task loop keep running.
HFairness == /\ WF_hvars(Write \/ DropPrimed \/ Receive \/ Timeout)
             /\ WF_hvars(command_dispatch)

HSpec == HInit /\ [][HNext]_hvars /\ HFairness

-----------------------------------------------------------------------------
(* Properties.                                                             *)

Undisturbed == ~restarted /\ ~stale
Flashed == \A i \in DOMAIN image : flash[i - 1] = image[i]

\* When the tool reports success the file is in the array, whatever the link
\* lost, damaged or delayed, whenever power went, and whichever answers were
\* taken for another command's: the addresses in the answers and the digests of
\* verify_file() leave no other way to get there.  Answers to a killed run that
\* come into the next one do not open one either, at least while there are fewer
\* of them than an update takes.
VerifiedIsFlashed == result \in {"verified", "ok"} => Flashed

\* An acknowledged SEND_EOF means that no acknowledged block is in RAM any
\* longer: the file is in the array, if the device did not restart on the way
\* and no answer to an earlier run of the tool was taken for one to this.
\* The LPC176x breaks it for files with a blank quarter in a sector, which those
\* of the run do not have.
AckedEofIsDurable == phase = "REQUEST_BLOCK" /\ Undisturbed => Flashed

\* The retries carry an update through fewer faults than a block has tries: if
\* nobody killed the tool or cut the power, it fails only after as many, or
\* after the reset that COMPLETE asked for.
RecoversFromFaults ==
    phase = "idle" /\ result = "error" /\ crashes = 0 /\ Undisturbed
        => faults >= BlockTries

\* Every block of the files has data in its first quarter.
FirstQuarterUsed == \A m \in Images : \A i \in DOMAIN m : BlankQuarters[m[i]] = 0

\* The same for the backends that accept a repeated block: the RP2040 with any
\* file, the STM32 with files that check_erased() cannot take for blank.  A file
\* with padding may find a block in its way there that no retry gets past, and
\* no fault is needed for it.
RetriesRecover ==
    backend = "rp2040" \/ (backend = "stm32" /\ FirstQuarterUsed) => RecoversFromFaults

\* A retransmitted block is acknowledged: the block that was taken last comes
\* again, and the buffer it completes is the one write_buffer() would find in the
\* array and leave alone.
RetransmitAcknowledged ==
    [][LET r == Head(requests)
           start == r.addr - buf_idx(r.addr)
       IN /\ command_dispatch /\ r.cmd = "SEND_BLOCK"
          /\ next_address = r.addr + 1 /\ buf_idx(r.addr) = BufBlocks - 1
          /\ Retransmit(flash, start, [buffer EXCEPT ![buf_idx(r.addr)] = r.data])
          => replies'[Len(replies')].ack = "SEND_BLOCK"]_hvars

\* A run of the tool ends, in success or in an error, on any link and with a
\* device that has left.
UpdateEnds == phase # "idle" ~> phase = "idle"
=============================================================================
