-------------------------- MODULE BootloaderProofs --------------------------
(***************************************************************************)
(* Proofs about module Bootloader, for every layout of the flash, every    *)
(* set of images and both configurations of button and double reset.       *)
(***************************************************************************)
EXTENDS Bootloader, TLAPS

\* A write is in progress only while the command loop runs, and only inside the
\* application area: flashcmd_block_in_range() has let it through.
WritesInRange == op.busy => mode = "main" /\ op.block \in AppBlocks

\* What a check vouched for: on the way from bootentry_check() or timeout_task()
\* to the application the image is intact and no write is in progress.
Vetted == (mode \in {"click", "window", "app"} \/ bootup_code = "REQUEST_START_APP")
             => IntactImage /\ ~op.busy

\* A pending jump is consumed by the next boot.
JumpPending == bootup_code = "REQUEST_START_APP" => mode = "reset"

IInv == /\ TypeOK
        /\ WritesInRange
        /\ Vetted
        /\ JumpPending
        /\ BootloaderIntact
        /\ RequestUsedOnce

\* appvalidate_verify() and the first-word check accept nothing but an intact image.
LEMMA ValidIsIntact == application_check_valid => IntactImage
<1> SUFFICES ASSUME application_check_valid PROVE IntactImage
    OBVIOUS
<1> DEFINE meta == store[LaunchBlock]
<1>1. meta \in Metadata /\ meta.magic /\ meta.crc_ok
      /\ ~(meta.app_size = 0 \/ meta.app_size > MaxAppSize)
      /\ meta.app_hash = fasthash64(meta.app_size)
  BY LayoutAssumption DEF application_check_valid, appvalidate_verify, meta_crc_matches
<1>2. meta.app_size \in 1 .. MaxAppSize
  BY <1>1, LayoutAssumption DEF MaxAppSize
<1> QED
  BY <1>1, <1>2 DEF IntactImage, fasthash64

\* The payload types of the contract are those of the bootloader.
LEMMA ContentTypes == /\ Flash!Content = Contents
                      /\ Flash!NoOp.busy = FALSE
                      /\ \A w \in Flash!Writes : w.block \in Blocks /\ w.data \in Data /\ w.busy = TRUE
  BY DEF Flash!Content, Contents, Data, Flash!NoOp, Flash!Writes

\* The image survives every step that leaves the flash alone.
LEMMA IntactStable == ASSUME UNCHANGED store, IntactImage PROVE IntactImage'
  BY DEF IntactImage, MaxAppSize

\* The initial states satisfy the invariant.
LEMMA InitIInv == Init => IInv
<1> SUFFICES ASSUME Init PROVE IInv
    OBVIOUS
<1>1. TypeOK
  BY DEF Init, TypeOK
<1>2. ~op.busy
  BY ContentTypes DEF Init
<1>3. BootloaderIntact
  BY LayoutAssumption DEF Init, BootloaderIntact, Blocks
<1> QED
  BY <1>1, <1>2, <1>3 DEF Init, IInv, WritesInRange, Vetted, JumpPending, RequestUsedOnce

-----------------------------------------------------------------------------
\* A step of the flash that disturbs the scope of the write in progress at most
\* leaves the bootloader's own blocks alone: its pages hold no application block.
LEMMA FlashStepsKeepBootloader ==
  ASSUME TypeOK, WritesInRange, BootloaderIntact,
         Flash!Wipe \/ Flash!Program \/ Flash!PowerLoss
  PROVE  BootloaderIntact' /\ store' \in [Blocks -> Contents]
<1> USE LayoutAssumption, ContentTypes
<1>1. \A b \in 0 .. LaunchBlock - 1 : b \in Blocks /\ store[b] = BootCode
  BY DEF BootloaderIntact, Blocks
<1>2. op.busy => \A b \in 0 .. LaunchBlock - 1 :
                    b \notin Flash!Scope(op.block) /\ b \notin Flash!Page(op.block) /\ b # op.block
  BY DEF WritesInRange, Flash!Scope, Flash!Page, AppBlocks
<1>3. op.busy => op.block \in Blocks
  BY DEF TypeOK
<1>4. CASE Flash!Wipe
  <2>1. store' \in [Blocks -> Contents]
    BY <1>4 DEF Flash!Wipe, TypeOK, Contents, Data
  <2>2. \A b \in 0 .. LaunchBlock - 1 : store'[b] = store[b]
    BY <1>1, <1>2, <1>4 DEF Flash!Wipe
  <2> QED BY <1>1, <2>1, <2>2 DEF BootloaderIntact
<1>5. CASE Flash!Program
  <2>1. PICK c \in Flash!Content : store' = [store EXCEPT ![op.block] = c]
    BY <1>5 DEF Flash!Program
  <2>2. store' \in [Blocks -> Contents]
    BY <2>1, <1>3, <1>5 DEF Flash!Program, TypeOK
  <2>3. \A b \in 0 .. LaunchBlock - 1 : store'[b] = store[b]
    BY <1>1, <1>2, <1>5, <2>1 DEF Flash!Program, TypeOK
  <2> QED BY <1>1, <2>2, <2>3 DEF BootloaderIntact
<1>6. CASE Flash!PowerLoss
  <2> DEFINE hit == IF op.busy THEN Flash!Scope(op.block) ELSE {}
  <2>1. PICK s \in [hit -> Flash!Content] :
           store' = [c \in Blocks |-> IF c \in hit THEN s[c] ELSE store[c]]
    BY <1>6 DEF Flash!PowerLoss
  <2>2. store' \in [Blocks -> Contents]
    BY <2>1 DEF TypeOK
  <2>3. \A b \in 0 .. LaunchBlock - 1 : store'[b] = store[b]
    BY <1>1, <1>2, <2>1
  <2> QED BY <1>1, <2>2, <2>3 DEF BootloaderIntact
<1> QED BY <1>4, <1>5, <1>6

\* A loss of power with no write in progress changes nothing in the flash.
LEMMA IdlePowerLoss ==
  ASSUME TypeOK, ~op.busy, Flash!PowerLoss
  PROVE  store' = store
  BY DEF Flash!PowerLoss, TypeOK

-----------------------------------------------------------------------------
\* Steps that leave flash and bootup code alone and stay in the same mode.
LEMMA CalmStep ==
  ASSUME IInv, UNCHANGED <<store, op, bootup_code, mode>>
  PROVE  WritesInRange' /\ Vetted' /\ JumpPending' /\ BootloaderIntact' /\ RequestUsedOnce'
  BY IntactStable
  DEF IInv, WritesInRange, Vetted, JumpPending, BootloaderIntact, RequestUsedOnce

\* What the command handlers answer.
LEMMA AnswerType ==
  ASSUME NEW c \in Commands, NEW good \in BOOLEAN, Answer(c, good)
  PROVE  reply' \in [cmd : Commands, ok : BOOLEAN]
  BY DEF Answer

\* A handler that touches nothing but its own flags and the reply keeps the types.
LEMMA HandlerTypes ==
  ASSUME TypeOK, reply' \in [cmd : Commands, ok : BOOLEAN],
         is_in_transfer' \in BOOLEAN, complete' \in BOOLEAN,
         UNCHANGED <<flashVars, OtherRam>>
  PROVE  TypeOK'
  BY DEF TypeOK, flashVars, OtherRam

\* The invariant is inductive.
LEMMA NextIInv == IInv /\ [Next]_vars => IInv'
<1> SUFFICES ASSUME IInv, [Next]_vars PROVE IInv'
    OBVIOUS
<1> USE ContentTypes DEF IInv
<1>a. TypeOK /\ WritesInRange /\ Vetted /\ JumpPending /\ BootloaderIntact /\ RequestUsedOnce
  OBVIOUS
<1>1. CASE reset_handler_stage_two
  <2>1. TypeOK'
    BY <1>1 DEF reset_handler_stage_two, boot_start_application, ClearedRam, TypeOK, flashVars, NoReply
  <2>2. IntactImage => IntactImage'
    BY <1>1, IntactStable DEF reset_handler_stage_two, boot_start_application, flashVars
  <2> QED
    BY <1>1, <2>1, <2>2 DEF reset_handler_stage_two, boot_start_application, flashVars,
       WritesInRange, Vetted, JumpPending, BootloaderIntact, RequestUsedOnce
<1>2. CASE bootentry_check
  <2>1. TypeOK'
    BY <1>2 DEF bootentry_check, EnterMain, timeout_init, application_jump, do_reset, TypeOK, flashVars
  <2>2. IntactImage => IntactImage'
    BY <1>2, IntactStable DEF bootentry_check, flashVars
  <2>3. ~op.busy /\ ~op'.busy
    BY <1>2 DEF bootentry_check, flashVars, WritesInRange
  <2>4. mode' # "main" => IntactImage
    BY <1>2, ValidIsIntact DEF bootentry_check, EnterMain
  <2> QED
    BY <1>2, <2>1, <2>2, <2>3, <2>4
    DEF bootentry_check, EnterMain, timeout_init, application_jump, do_reset, flashVars,
        WritesInRange, Vetted, JumpPending, BootloaderIntact, RequestUsedOnce
<1>3. CASE check_double_reset_open \/ check_double_reset_close
  <2>1. TypeOK'
    BY <1>3 DEF check_double_reset_open, check_double_reset_close, application_jump, do_reset,
                TypeOK, flashVars, ramVars
  <2>2. IntactImage /\ IntactImage' /\ ~op.busy
    BY <1>3, IntactStable DEF check_double_reset_open, check_double_reset_close, flashVars, Vetted
  <2> QED
    BY <1>3, <2>1, <2>2
    DEF check_double_reset_open, check_double_reset_close, application_jump, do_reset, flashVars,
        WritesInRange, Vetted, JumpPending, BootloaderIntact, RequestUsedOnce
<1>4. CASE complete_task
  <2>1. TypeOK'
    BY <1>4 DEF complete_task, system_reset, do_reset, TypeOK, flashVars, ramVars
  <2> QED
    BY <1>4, <2>1
    DEF complete_task, system_reset, do_reset, Ready, flashVars,
        WritesInRange, Vetted, JumpPending, BootloaderIntact, RequestUsedOnce
<1>5. CASE TimeoutEnds
  <2>1. TypeOK'
    BY <1>5 DEF TimeoutEnds, TypeOK, flashVars
  <2> QED BY <1>5, <2>1, CalmStep DEF TimeoutEnds, flashVars
<1>6. CASE timeout_task
  <2>1. TypeOK'
    <3>1. timeout_initialized' \in BOOLEAN
      BY <1>6 DEF timeout_task, TypeOK
    <3>2. mode' \in {"main", "reset"} /\ bootup_code' \in {bootup_code, "REQUEST_START_APP"}
      BY <1>6 DEF timeout_task, application_jump, do_reset, Ready
    <3>3. expired' \in BOOLEAN /\ UNCHANGED <<flashVars, commanded_entry, timeout_initialized,
                                               is_in_transfer, complete, reply, resets>>
      BY <1>6 DEF timeout_task, TypeOK
    <3> QED BY <3>1, <3>2, <3>3 DEF TypeOK, flashVars
  <2>2. CASE application_check_valid
    <3>1. IntactImage /\ IntactImage' /\ ~op'.busy
      BY <1>6, <2>2, ValidIsIntact, IntactStable DEF timeout_task, flashVars, Ready
    <3> QED
      BY <1>6, <2>1, <2>2, <3>1
      DEF timeout_task, application_jump, do_reset, flashVars,
          WritesInRange, Vetted, JumpPending, BootloaderIntact, RequestUsedOnce
  <2>3. CASE ~application_check_valid
    BY <1>6, <2>1, <2>3, CalmStep DEF timeout_task, flashVars
  <2> QED BY <2>2, <2>3
<1>7. CASE command_connect \/ command_eof \/ command_complete
           \/ \E b \in Addresses : command_read_block(b)
  <2>a. \E c \in Commands, good \in BOOLEAN : Answer(c, good)
    <3>1. CASE \E b \in Addresses : command_read_block(b)
      <4>1. PICK b \in Addresses : Answer("read", flashcmd_block_in_range(b))
        BY <3>1 DEF command_read_block
      <4>2. flashcmd_block_in_range(b) \in BOOLEAN
        BY DEF flashcmd_block_in_range
      <4> QED BY <4>1, <4>2 DEF Commands
    <3>2. CASE command_connect \/ command_eof \/ command_complete
      BY <3>2 DEF command_connect, command_eof, command_complete, Commands
    <3> QED BY <1>7, <3>1, <3>2
  <2>b. reply' \in [cmd : Commands, ok : BOOLEAN]
    BY <2>a, AnswerType
  <2>c. /\ is_in_transfer' \in BOOLEAN /\ complete' \in BOOLEAN
        /\ UNCHANGED <<flashVars, OtherRam>>
    BY <1>7 DEF command_connect, command_eof, command_complete, command_read_block, TypeOK
  <2>1. TypeOK'
    BY <2>b, <2>c, HandlerTypes
  <2>2. UNCHANGED <<store, op, bootup_code, mode>>
    BY <1>7 DEF command_connect, command_eof, command_complete, command_read_block,
                OtherRam, flashVars
  <2> QED BY <2>1, <2>2, CalmStep
<1>8. CASE \E b \in Addresses, aligned \in BOOLEAN, args_ok \in BOOLEAN :
              command_write_block_refused(b, aligned, args_ok)
  <2>a. /\ result' \in {result, "error"} /\ is_in_transfer' = TRUE
        /\ reply' \in [cmd : Commands, ok : BOOLEAN]
        /\ UNCHANGED <<store, op, complete, bootup_code, mode, commanded_entry,
                       timeout_initialized, expired, resets>>
    BY <1>8 DEF command_write_block_refused, Answer, OtherRam, flashVars, Commands, Flash!Refuse
  <2>1. TypeOK'
    BY <2>a DEF TypeOK
  <2>2. UNCHANGED <<store, op, bootup_code, mode>>
    BY <1>8 DEF command_write_block_refused, OtherRam, flashVars, Flash!Refuse
  <2> QED BY <2>1, <2>2, CalmStep
<1>9. CASE \E b \in Addresses, d \in Data : command_write_block(b, d)
  <2>1. PICK b \in Addresses, d \in Data : command_write_block(b, d)
    BY <1>9
  <2>2. b \in AppBlocks /\ b \in Blocks
    BY <2>1, LayoutAssumption
    DEF command_write_block, flashcmd_block_in_range, Addresses, AppBlocks, Blocks
  <2>3. /\ op' = [block |-> b, data |-> d, busy |-> TRUE]
        /\ UNCHANGED <<store, bootup_code, mode>>
        /\ mode = "main"
    BY <2>1 DEF command_write_block, Flash!Start, OtherRam, Ready
  <2>4. TypeOK'
    BY <2>1, <2>2, <2>3 DEF command_write_block, Flash!Start, OtherRam, TypeOK, Flash!Writes
  <2> QED
    BY <2>2, <2>3, <2>4
    DEF WritesInRange, Vetted, JumpPending, BootloaderIntact, RequestUsedOnce
<1>10. CASE flash_write_block
  <2>1. TypeOK' /\ BootloaderIntact'
    BY <1>10, FlashStepsKeepBootloader
    DEF flash_write_block, OtherRam, TypeOK, Flash!Wipe, Flash!Program
  <2> QED
    BY <1>10, <2>1
    DEF flash_write_block, OtherRam, Flash!Wipe, Flash!Program,
        WritesInRange, Vetted, JumpPending, RequestUsedOnce
<1>11. CASE command_write_block_done
  <2>a. Answer("write", TRUE) \/ Answer("write", FALSE)
    BY <1>11 DEF command_write_block_done
  <2>b. reply' \in [cmd : Commands, ok : BOOLEAN]
    BY <2>a, AnswerType DEF Commands
  <2>c. op' = Flash!NoOp /\ result' \in {"ok", "error"} /\ UNCHANGED store
    BY <1>11 DEF command_write_block_done, Flash!Succeed, Flash!Fail
  <2>1. /\ op' = Flash!NoOp /\ result' \in {"ok", "error"}
        /\ reply' \in [cmd : Commands, ok : BOOLEAN]
        /\ UNCHANGED <<store, is_in_transfer, complete, bootup_code, mode, commanded_entry,
                       timeout_initialized, expired, resets>>
    BY <1>11, <2>b, <2>c DEF command_write_block_done, OtherRam
  <2>2. TypeOK'
    BY <2>1 DEF TypeOK
  <2> QED
    BY <2>1, <2>2, IntactStable
    DEF WritesInRange, Vetted, JumpPending, BootloaderIntact, RequestUsedOnce
<1>12. CASE try_request_canboot
  <2>1. TypeOK'
    BY <1>12 DEF try_request_canboot, do_reset, TypeOK, flashVars, ramVars
  <2> QED
    BY <1>12, <2>1
    DEF try_request_canboot, do_reset, flashVars,
        WritesInRange, Vetted, JumpPending, BootloaderIntact, RequestUsedOnce
<1>13. CASE Reset \/ PowerLoss
  <2>a. BootloaderIntact' /\ store' \in [Blocks -> Contents]
    BY <1>13, FlashStepsKeepBootloader DEF Reset, PowerLoss
  <2>b. op' = Flash!NoOp /\ result' = "none"
    BY <1>13 DEF Reset, PowerLoss, Flash!PowerLoss
  <2>c. /\ {commanded_entry', timeout_initialized', is_in_transfer', complete', expired'}
               \subseteq BOOLEAN
        /\ reply' \in [cmd : Commands, ok : BOOLEAN] \cup {NoReply}
    BY <1>13 DEF Reset, PowerLoss, ramVars, ClearedRam, TypeOK
  <2>d. /\ bootup_code' \in {"none", "REQUEST_CANBOOT", "REQUEST_START_APP"}
        /\ mode' = "reset" /\ resets' \in Nat
    BY <1>13 DEF Reset, PowerLoss, TypeOK
  <2>1. TypeOK'
    BY <2>a, <2>b, <2>c, <2>d DEF TypeOK
  <2>2. ~op'.busy /\ mode' = "reset" /\ bootup_code' \in {bootup_code, "none"}
    BY <1>13 DEF Reset, PowerLoss, Flash!PowerLoss
  <2>3. bootup_code' = "REQUEST_START_APP" => IntactImage'
    BY <1>13, <2>2, IdlePowerLoss, IntactStable DEF Reset, PowerLoss, Vetted
  <2> QED
    BY <2>a, <2>1, <2>2, <2>3 DEF WritesInRange, Vetted, JumpPending, RequestUsedOnce
<1>14. CASE application_runs \/ UNCHANGED vars
  <2>1. UNCHANGED vars
    BY <1>14 DEF application_runs
  <2>2. TypeOK'
    BY <2>1 DEF vars, flashVars, ramVars, TypeOK
  <2> QED BY <2>1, <2>2, CalmStep DEF vars, flashVars
<1> QED
  BY <1>1, <1>2, <1>3, <1>4, <1>5, <1>6, <1>7, <1>8, <1>9, <1>10, <1>11, <1>12, <1>13, <1>14
  DEF Next, Boot, Tasks, HostCommand

-----------------------------------------------------------------------------
\* The invariant holds in every reachable state.
LEMMA Invariance == Spec => []IInv
  BY InitIInv, NextIInv, PTL DEF Spec

\* Type correctness, for every layout and every set of images.
THEOREM TypeCorrect == Spec => []TypeOK
  BY Invariance, PTL DEF IInv

\* The application runs from an intact image only: no interrupted, refused or
\* interleaved update, reset or power loss gets an unchecked image started,
\* although the jump itself (boot_start_application()) checks nothing.
THEOREM AppIntact == Spec => []AppOnlyFromIntactImage
<1>1. IInv => AppOnlyFromIntactImage
  BY DEF IInv, Vetted, AppOnlyFromIntactImage
<1> QED BY Invariance, <1>1, PTL

\* No sequence of host commands, resets and power losses changes a block of the
\* bootloader itself, when CONFIG_LAUNCH_APP_ADDRESS is the start of a page.
THEOREM BootloaderSafe == Spec => []BootloaderIntact
  BY Invariance, PTL DEF IInv

\* Bootup codes are used once: neither the application nor the waiting bootloader
\* has a stale request in RAM.
THEOREM CodesUsedOnce == Spec => []RequestUsedOnce
  BY Invariance, PTL DEF IInv

-----------------------------------------------------------------------------
\* Commands, flash operations and the running clock change neither the mode nor
\* the bootup code.
LEMMA SessionSteps ==
  ASSUME HostCommand \/ flash_write_block \/ command_write_block_done \/ TimeoutEnds
         \/ application_runs \/ UNCHANGED vars
  PROVE  UNCHANGED <<bootup_code, mode>>
  BY DEF HostCommand, command_connect, command_read_block, command_write_block_refused,
         command_write_block, command_eof, command_complete, flash_write_block,
         command_write_block_done, TimeoutEnds, application_runs, vars, OtherRam

\* A planted or sent request for the bootloader is never swallowed, and the
\* timeout runs exactly in the sessions that began with one.
THEOREM RequestsAreHonoured == Spec => RequestHonoured
<1> DEFINE Kept == /\ bootup_code = "REQUEST_CANBOOT" /\ bootup_code' # bootup_code
                         => mode' = "main" \/ check_double_reset_close \/ PowerLoss
                   /\ mode # "main" /\ mode' = "main"
                         => (timeout_initialized' <=> bootup_code = "REQUEST_CANBOOT")
<1>1. IInv /\ [Next]_vars => [Kept]_vars
  <2> SUFFICES ASSUME IInv, Next PROVE Kept
      BY DEF Next
  <2>1. CASE HostCommand \/ flash_write_block \/ command_write_block_done \/ TimeoutEnds
             \/ application_runs
    BY <2>1, SessionSteps
  <2>2. CASE reset_handler_stage_two
    BY <2>2 DEF reset_handler_stage_two, boot_start_application
  <2>3. CASE bootentry_check
    <3>1. CASE bootup_code = "REQUEST_CANBOOT"
      BY <2>3, <3>1 DEF bootentry_check, EnterMain, timeout_init
    <3>2. CASE bootup_code # "REQUEST_CANBOOT"
      BY <2>3, <3>2 DEF bootentry_check, EnterMain, timeout_init, application_jump, do_reset
    <3> QED BY <3>1, <3>2
  <2>4. CASE check_double_reset_open \/ check_double_reset_close
    BY <2>4 DEF check_double_reset_open, check_double_reset_close, application_jump, do_reset
  <2>5. CASE complete_task \/ timeout_task
    BY <2>5 DEF complete_task, timeout_task, system_reset, application_jump, do_reset,
                Ready, IInv, RequestUsedOnce
  <2>6. CASE try_request_canboot \/ Reset \/ PowerLoss
    BY <2>6 DEF try_request_canboot, do_reset, Reset, PowerLoss
  <2> QED BY <2>1, <2>2, <2>3, <2>4, <2>5, <2>6 DEF Next, Boot, Tasks
<1> QED BY Invariance, <1>1, PTL DEF Spec, RequestHonoured

\* Only a COMPLETE, a reset or a loss of power ends a transfer that is under way.
THEOREM TransfersAreNotCutShort == Spec => TransferNotCutShort
<1> DEFINE Kept == is_in_transfer /\ mode = "main" /\ mode' # "main"
                      => complete \/ resets' # resets
<1>1. IInv /\ [Next]_vars => [Kept]_vars
  <2> SUFFICES ASSUME IInv, Next, is_in_transfer, mode = "main", mode' # "main"
               PROVE  complete \/ resets' # resets
      BY DEF Next
  <2>1. resets \in Nat
    BY DEF IInv, TypeOK
  <2>2. CASE HostCommand \/ flash_write_block \/ command_write_block_done \/ TimeoutEnds
             \/ application_runs
    BY <2>2, SessionSteps
  <2>3. CASE complete_task \/ timeout_task
    BY <2>3 DEF complete_task, timeout_task, flashcmd_is_in_transfer
  <2>4. CASE Boot \/ try_request_canboot
    BY <2>4 DEF Boot, reset_handler_stage_two, bootentry_check, check_double_reset_open,
                check_double_reset_close, try_request_canboot
  <2>5. CASE Reset \/ PowerLoss
    BY <2>1, <2>5 DEF Reset, PowerLoss
  <2> QED BY <2>2, <2>3, <2>4, <2>5 DEF Next, Tasks
<1> QED BY Invariance, <1>1, PTL DEF Spec, TransferNotCutShort
=============================================================================
