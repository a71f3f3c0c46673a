----------------------------- MODULE Bootloader -----------------------------
(***************************************************************************)
(* The boot path and the flash session of the device: reset handling and   *)
(* bootup codes (generic/armcm_canboot.c, generic/armcm_reset.c), the      *)
(* decision to stay or to leave (bootentry.c), application validation      *)
(* (appvalidate.c), the command timeout (sched.c) and the flash commands   *)
(* (flashcmd.c).  The flash itself is any backend that keeps the contract  *)
(* of module FlashContract.                                                *)
(*                                                                         *)
(* The device is single threaded: while flash_write_block() runs no other  *)
(* command or task does, but a reset or a loss of power can come at any    *)
(* step.  RAM, and the bootup code in it, survives a reset; a loss of      *)
(* power leaves no request code behind.                                    *)
(***************************************************************************)
EXTENDS Integers

CONSTANTS LaunchBlock,    \* CONFIG_LAUNCH_APP_ADDRESS: blocks below hold the bootloader
          NumBlocks,      \* blocks of the whole flash
          PageOf(_),      \* page of a block
          Leads(_),       \* first block of its page
          Metadata,       \* metadata page contents with the fields of app_metadata_t
          Code,           \* contents of a block of code
          ZeroLed,        \* those whose first word is zero
          BootCode,       \* what the bootloader's own blocks hold (one of Code)
          Blank, Torn,    \* erased and damaged blocks
          ENABLE_BUTTON, ENABLE_DOUBLE_RESET,
          MaxResets       \* cap on resets and power losses

Blocks == 0 .. NumBlocks - 1
AppBlocks == LaunchBlock .. NumBlocks - 1
Data == Metadata \cup Code \cup {Blank}
Contents == Data \cup {Torn}

\* An address is a block, perhaps one outside the flash, and an alignment.
Addresses == -1 .. NumBlocks

ASSUME LayoutAssumption ==
    /\ LaunchBlock \in Nat /\ NumBlocks \in Nat
    /\ NumBlocks > LaunchBlock + 1
    \* CONFIG_LAUNCH_APP_ADDRESS is the start of a page
    /\ \A b \in AppBlocks, c \in 0 .. LaunchBlock - 1 : PageOf(b) # PageOf(c)
    /\ BootCode \in Code
    /\ \A m \in Metadata : m.magic \in BOOLEAN /\ m.crc_ok \in BOOLEAN /\ m.app_size \in Nat
    /\ ENABLE_BUTTON \in BOOLEAN /\ ENABLE_DOUBLE_RESET \in BOOLEAN
    /\ MaxResets \in Nat

VARIABLES store, op, result,      \* the flash, see FlashContract
          bootup_code,            \* the request word in RAM
          mode,                   \* what the processor is running
          commanded_entry, timeout_initialized, is_in_transfer, complete,
          expired,                \* the command timeout has run out
          reply,                  \* the last answer to the host
          resets                  \* resets and power losses so far

flashVars == <<store, op, result>>
ramVars == <<commanded_entry, timeout_initialized, is_in_transfer, complete, expired, reply>>
vars == <<flashVars, bootup_code, mode, ramVars, resets>>

Flash == INSTANCE FlashContract WITH Block <- Blocks

NoReply == [cmd |-> "none", ok |-> TRUE]
Commands == {"connect", "write", "read", "eof", "complete"}

TypeOK == /\ store \in [Blocks -> Contents]
          /\ op \in Flash!Writes \cup {Flash!NoOp}
          /\ result \in {"none", "ok", "error"}
          /\ bootup_code \in {"none", "REQUEST_CANBOOT", "REQUEST_START_APP"}
          /\ mode \in {"reset", "entry", "click", "window", "main", "app"}
          /\ commanded_entry \in BOOLEAN
          /\ timeout_initialized \in BOOLEAN
          /\ is_in_transfer \in BOOLEAN
          /\ complete \in BOOLEAN
          /\ expired \in BOOLEAN
          /\ reply \in [cmd : Commands, ok : BOOLEAN] \cup {NoReply}
          /\ resets \in Nat

-----------------------------------------------------------------------------
(* Application validation.  Sizes count blocks of code; fasthash64() of a  *)
(* region stands for the contents of that region.                          *)
MaxAppSize == NumBlocks - LaunchBlock - 1

fasthash64(size) == [i \in 1 .. size |-> store[LaunchBlock + i]]

\* The CRC over the metadata fields.
meta_crc_matches(meta) == meta.crc_ok

appvalidate_verify ==
    LET meta == store[LaunchBlock]
    IN IF meta \notin Metadata \/ ~meta.magic THEN "APP_NO_METADATA"
       ELSE IF ~meta_crc_matches(meta) THEN "APP_META_CORRUPT"
       ELSE IF meta.app_size = 0 \/ meta.app_size > MaxAppSize THEN "APP_SIZE_INVALID"
       ELSE IF meta.app_hash # fasthash64(meta.app_size) THEN "APP_HASH_MISMATCH"
       ELSE "APP_VALID"

\* A wrong variant: the quick check on the first word only.
application_check_valid_quick == store[LaunchBlock + 1] \notin {Blank, Torn} \cup ZeroLed

application_check_valid ==
    /\ store[LaunchBlock + 1] \notin {Blank} \cup ZeroLed
    /\ appvalidate_verify = "APP_VALID"

-----------------------------------------------------------------------------
(* Resets.                                                                 *)

\* do_reset(code)
do_reset(code) == /\ bootup_code' = code
                  /\ mode' = "reset"

application_jump_plain == do_reset("none")
application_jump == do_reset("REQUEST_START_APP")
system_reset == do_reset("none")

\* The start of every run: zeroed globals.
ClearedRam == /\ commanded_entry' = FALSE
              /\ timeout_initialized' = FALSE
              /\ is_in_transfer' = FALSE
              /\ complete' = FALSE
              /\ expired' = FALSE
              /\ reply' = NoReply

\* boot_start_application() clears the code and jumps.
boot_start_application_keeps == mode' = "app" /\ UNCHANGED bootup_code
boot_start_application == mode' = "app" /\ bootup_code' = "none"

\* reset_handler_stage_two(): start the application, without any check, when
\* the code says so; otherwise set up RAM and go on to sched_main().  (RAM is the
\* application's in the first case: the bootloader's globals are gone either way.)
reset_handler_stage_two ==
    /\ mode = "reset"
    /\ IF bootup_code = "REQUEST_START_APP"
       THEN boot_start_application
       ELSE mode' = "entry" /\ UNCHANGED bootup_code
    /\ ClearedRam
    /\ UNCHANGED <<flashVars, resets>>

\* The timeout is for a commanded entry only.
timeout_init_always(commanded) == timeout_initialized' = TRUE
timeout_init(commanded) == timeout_initialized' = commanded

\* bootentry_check() returned 1: run the init functions, enter the task loop.
EnterMain(commanded) ==
    /\ mode' = "main"
    /\ bootup_code' = "none"
    /\ commanded_entry' = commanded
    /\ timeout_init(commanded)
    /\ expired' = FALSE
    /\ UNCHANGED <<is_in_transfer, complete, reply>>

\* bootentry_check(), up to check_double_reset(), and its use in sched_main().
bootentry_check ==
    /\ mode = "entry"
    /\ LET commanded == bootup_code = "REQUEST_CANBOOT"
           stay == commanded \/ ~application_check_valid
       IN \/ stay /\ EnterMain(commanded)
          \/ /\ ~stay /\ ENABLE_BUTTON      \* the button is held
             /\ EnterMain(FALSE)
          \/ /\ ~stay                       \* it is not
             /\ commanded_entry' = FALSE
             /\ IF ENABLE_DOUBLE_RESET
                THEN mode' = "click" /\ UNCHANGED bootup_code
                ELSE application_jump
             /\ UNCHANGED <<timeout_initialized, is_in_transfer, complete, expired, reply>>
    /\ UNCHANGED <<flashVars, resets>>

\* check_double_reset(): DOUBLE_CLICK_MIN_US pass, the request is planted ...
check_double_reset_open ==
    /\ mode = "click"
    /\ bootup_code' = "REQUEST_CANBOOT"
    /\ mode' = "window"
    /\ UNCHANGED <<flashVars, ramVars, resets>>

\* ... and after DOUBLE_CLICK_MAX_US it is withdrawn and the application starts.
check_double_reset_close ==
    /\ mode = "window"
    /\ application_jump
    /\ UNCHANGED <<flashVars, ramVars, resets>>

-----------------------------------------------------------------------------
(* Commands of the host, run to completion by the task loop.               *)
Ready == mode = "main" /\ ~op.busy

Answer(c, good) == reply' = [cmd |-> c, ok |-> good]

OtherRam == <<bootup_code, mode, commanded_entry, timeout_initialized, expired, resets>>

\* A wrong variant: a stale transfer is not forgotten.
command_connect_stale == /\ Ready
                         /\ Answer("connect", TRUE)
                         /\ UNCHANGED <<flashVars, is_in_transfer, complete, OtherRam>>

command_connect == /\ Ready
                   /\ is_in_transfer' = FALSE
                   /\ Answer("connect", TRUE)
                   /\ UNCHANGED <<flashVars, complete, OtherRam>>

\* A wrong variant, off by one block at the start.
flashcmd_block_in_range_start(b) == ~(b < LaunchBlock - 1) /\ ~(b > NumBlocks - 1)

flashcmd_block_in_range(b) == /\ ~(b < LaunchBlock)
                              /\ ~(b > NumBlocks - 1)

command_read_block(b) == /\ Ready
                         /\ is_in_transfer' = TRUE
                         /\ Answer("read", flashcmd_block_in_range(b))
                         /\ UNCHANGED <<flashVars, complete, OtherRam>>

\* A wrong argument count or address is an error before flash_write_block() is
\* called, and an address that is not block aligned is its first error.
command_write_block_refused(b, aligned, args_ok) ==
    /\ Ready
    /\ is_in_transfer' = TRUE
    /\ Answer("write", FALSE)
    /\ \/ (~args_ok \/ ~flashcmd_block_in_range(b)) /\ UNCHANGED flashVars
       \/ args_ok /\ flashcmd_block_in_range(b) /\ ~aligned /\ Flash!Refuse
    /\ UNCHANGED <<complete, OtherRam>>

\* The call of flash_write_block().
command_write_block(b, d) ==
    /\ Ready
    /\ is_in_transfer' = TRUE
    /\ flashcmd_block_in_range(b)
    /\ Flash!Start(b, d)
    /\ UNCHANGED <<reply, complete, OtherRam>>

\* flash_write_block() at work.
flash_write_block == /\ mode = "main"
                     /\ Flash!Wipe \/ Flash!Program
                     /\ UNCHANGED <<reply, is_in_transfer, complete, OtherRam>>

\* flash_write_block() has returned; the rest of command_write_block().
command_write_block_done ==
    /\ mode = "main"
    /\ \/ Flash!Succeed /\ Answer("write", TRUE)
       \/ Flash!Fail /\ Answer("write", FALSE)
    /\ UNCHANGED <<is_in_transfer, complete, OtherRam>>

\* flash_complete() may fail on backends that still have to write a page.
command_eof == /\ Ready
               /\ is_in_transfer' = FALSE
               /\ \E good \in BOOLEAN : Answer("eof", good)
               /\ UNCHANGED <<flashVars, complete, OtherRam>>

command_complete == /\ Ready
                    /\ complete' = TRUE
                    /\ Answer("complete", TRUE)
                    /\ UNCHANGED <<flashVars, is_in_transfer, OtherRam>>

-----------------------------------------------------------------------------
(* Tasks.                                                                  *)

flashcmd_is_in_transfer == is_in_transfer

\* A wrong variant: the transfer holds the reset off.
complete_task_held == /\ Ready /\ complete /\ ~is_in_transfer
                      /\ system_reset
                      /\ UNCHANGED <<flashVars, ramVars, resets>>

\* complete_task(), 100ms after the command.
complete_task == /\ Ready /\ complete
                 /\ system_reset
                 /\ UNCHANGED <<flashVars, ramVars, resets>>

\* The clock reaches timeout_end; it runs on during a transfer.
TimeoutEnds == /\ mode = "main" /\ timeout_initialized /\ ~expired
               /\ expired' = TRUE
               /\ UNCHANGED <<flashVars, bootup_code, mode, commanded_entry,
                              timeout_initialized, is_in_transfer, complete, reply, resets>>

timeout_task ==
    /\ Ready /\ timeout_initialized /\ ~flashcmd_is_in_transfer /\ expired
    /\ IF application_check_valid
       THEN application_jump /\ UNCHANGED expired
       ELSE expired' = FALSE /\ UNCHANGED <<bootup_code, mode>>
    /\ UNCHANGED <<flashVars, commanded_entry, timeout_initialized, is_in_transfer,
                   complete, reply, resets>>

-----------------------------------------------------------------------------
(* The application and the outside world.                                  *)

\* try_request_canboot() in the application.
try_request_canboot == /\ mode = "app"
                       /\ resets < MaxResets /\ resets' = resets + 1
                       /\ do_reset("REQUEST_CANBOOT")
                       /\ UNCHANGED <<flashVars, ramVars>>

\* The application runs on.
application_runs == mode = "app" /\ UNCHANGED vars

\* The reset line or a watchdog: the processor restarts and RAM is kept.  A
\* flash operation under way is abandoned.
Reset == /\ resets < MaxResets /\ resets' = resets + 1
         /\ mode' = "reset"
         /\ Flash!PowerLoss
         /\ UNCHANGED <<bootup_code, ramVars>>

PowerLoss == /\ resets < MaxResets /\ resets' = resets + 1
             /\ mode' = "reset"
             /\ bootup_code' = "none"
             /\ Flash!PowerLoss
             /\ ClearedRam

-----------------------------------------------------------------------------
Init == /\ store \in [Blocks -> Contents]
        /\ \A b \in Blocks : b < LaunchBlock => store[b] = BootCode
        /\ op = Flash!NoOp
        /\ result = "none"
        /\ bootup_code = "none"
        /\ mode = "reset"
        /\ commanded_entry = FALSE
        /\ timeout_initialized = FALSE
        /\ is_in_transfer = FALSE
        /\ complete = FALSE
        /\ expired = FALSE
        /\ reply = NoReply
        /\ resets = 0

Boot == reset_handler_stage_two \/ bootentry_check
        \/ check_double_reset_open \/ check_double_reset_close

Tasks == complete_task \/ TimeoutEnds \/ timeout_task

HostCommand ==
    \/ command_connect
    \/ \E b \in Addresses : command_read_block(b)
    \/ \E b \in Addresses, aligned \in BOOLEAN, args_ok \in BOOLEAN :
          command_write_block_refused(b, aligned, args_ok)
    \/ \E b \in Addresses, d \in Data : command_write_block(b, d)
    \/ command_eof
    \/ command_complete

Next == Boot \/ Tasks \/ HostCommand \/ flash_write_block \/ command_write_block_done
        \/ try_request_canboot \/ application_runs \/ Reset \/ PowerLoss

\* The processor keeps running and time passes.  ctr_run_taskfuncs() visits every
\* task between two commands, so a task that is ready again and again gets to run
\* even if the host never pauses: strong fairness.
Fairness == /\ WF_vars(Boot)
            /\ SF_vars(complete_task)
            /\ WF_vars(TimeoutEnds)
            /\ SF_vars(timeout_task)
            /\ WF_vars(command_write_block_done)

Spec == Init /\ [][Next]_vars
FairSpec == Spec /\ Fairness

-----------------------------------------------------------------------------
(* Properties.                                                             *)

\* The application area holds a released image: metadata that is whole, and the
\* very code the build computed it for.  Stated without appvalidate.c's checks.
IntactImage ==
    \E m \in Metadata :
        /\ store[LaunchBlock] = m
        /\ m.magic /\ m.crc_ok
        /\ m.app_size \in 1 .. MaxAppSize
        /\ m.app_hash = [i \in 1 .. m.app_size |-> store[LaunchBlock + i]]

\* The application only ever runs from an intact image, although
\* boot_start_application() checks nothing: whatever the host wrote, abandoned or
\* lost power over before, nothing invalidates the check made in an earlier run
\* of the bootloader between that check and the jump.
AppOnlyFromIntactImage == mode = "app" => IntactImage

\* flash.c erases whole pages and is handed addresses by the host; the blocks of
\* the bootloader itself survive every command sequence, reset and power loss.
BootloaderIntact == \A b \in 0 .. LaunchBlock - 1 : store[b] = BootCode

\* A bootup code is used once: neither the running application nor the waiting
\* bootloader finds a stale request in RAM, so a plain reset boots afresh.
RequestUsedOnce == mode \in {"app", "main"} => bootup_code = "none"

\* A request by the application, or a reset inside the double-click window, is
\* never swallowed: until power is lost or the window closes, only entering the
\* command loop consumes it, and the timeout of that session is armed exactly
\* then (the button, or an application that is not valid, wait for good).
RequestHonoured ==
    [][/\ bootup_code = "REQUEST_CANBOOT" /\ bootup_code' # bootup_code
            => mode' = "main" \/ check_double_reset_close \/ PowerLoss
       /\ mode # "main" /\ mode' = "main"
            => (timeout_initialized' <=> bootup_code = "REQUEST_CANBOOT")]_vars

\* The application never starts under a host that is in the middle of a transfer:
\* only a COMPLETE, a reset or a loss of power gets the device out of one.
TransferNotCutShort ==
    [][is_in_transfer /\ mode = "main" /\ mode' # "main"
          => complete \/ resets' # resets]_vars

\* Booting ends: every reset leads to the application or to the command loop.
\* There is no cycle of resets between sched_main() and the jump.
BootTerminates == mode = "reset" ~> mode \in {"app", "main"}

\* COMPLETE is never forgotten: the device leaves the command loop.
CompleteLeaves == complete /\ mode = "main" ~> mode # "main"

\* A host that reconnects (after a crash in mid-transfer, say) and then goes
\* silent does not hold a requested bootloader for ever when the application is
\* valid: the timeout fires.
ReconnectUnblocks ==
    (mode = "main" /\ timeout_initialized /\ reply.cmd = "connect" /\ IntactImage)
        ~> (mode # "main" \/ reply.cmd # "connect" \/ op.busy)
=============================================================================
