------------------------------ MODULE Deployer ------------------------------
(***************************************************************************)
(* The deployer application, sched_main() of src/src/deployer.c, on the    *)
(* STM32 flash backend: it copies the bootloader it carries over the one   *)
(* that started it, block by block, and requests the new one.  The blocks  *)
(* of Stm32Flash are here those of the bootloader's area.                  *)
(*                                                                         *)
(* A loss of power in the copy leaves a device that starts only if the     *)
(* area holds a whole bootloader; that one starts the deployer again.      *)
(***************************************************************************)
EXTENDS Stm32Flash

CONSTANTS Binary,               \* deployer_canboot_binary in blocks, 0xff behind its end
          OldBootloaders        \* what the area may hold before

ASSUME DeployerAssumption ==
    Binary \in [Blocks -> Data] /\ OldBootloaders \subseteq [Blocks -> [Offsets -> Values]]

VARIABLES old,                  \* the bootloader that was there
          dpc,                  \* where sched_main() is, or what became of the device
          p                     \* blocks copied

dvars == <<vars, old, dpc, p>>

DInit == /\ old \in OldBootloaders
         /\ flash = old
         /\ pc = "idle" /\ req = NoReq /\ idx = 0 /\ locked = TRUE
         /\ page_write_count = 0 /\ ret = 1
         /\ acked = [b \in Blocks |-> Unacked] /\ losses = 0
         /\ dpc = "start" /\ p = 0

\* memcmp() of the area with the binary.
already_written_start == flash[0] = Binary[0]
already_written == flash = Binary

CheckWritten == /\ dpc = "start"
                /\ dpc' = IF already_written THEN "requested" ELSE "copy"
                /\ p' = 0
                /\ UNCHANGED <<vars, old>>

CopyBlock == /\ dpc = "copy"
             /\ Call(p, 0, Binary[p])
             /\ dpc' = "wait"
             /\ UNCHANGED <<old, p>>

WriteStep == /\ dpc = "wait"
             /\ Step
             /\ UNCHANGED <<old, dpc, p>>

\* An error halts the device; the last block is followed by the request.
write_failed_off == ret <= 0
write_failed == ret < 0
Written == /\ dpc = "wait" /\ pc = "idle"
           /\ IF write_failed
              THEN dpc' = "halted" /\ UNCHANGED p
              ELSE /\ p' = p + 1
                   /\ dpc' = IF p' < NumBlocks THEN "copy" ELSE "requested"
           /\ UNCHANGED <<vars, old>>

DPowerLoss == /\ dpc \in {"start", "copy", "wait", "halted"}
              /\ PowerLoss
              /\ dpc' = IF flash' \in {old, Binary} THEN "start" ELSE "dead"
              /\ p' = 0
              /\ UNCHANGED old

sched_main == CheckWritten \/ CopyBlock \/ WriteStep \/ Written

DNext == sched_main \/ DPowerLoss

-----------------------------------------------------------------------------
(* Properties.                                                             *)

\* The new bootloader is requested only when the area holds all of it, however
\* often the power went before and wherever the old one agrees with it.
RequestedMeansDeployed == dpc = "requested" => flash = Binary

\* Every copy ends with the new bootloader requested, unless the power goes in the
\* copy: no block is refused and the device does not halt, for each of the
\* bootloaders that may have been there.
DeployEnds == dpc = "copy" ~> dpc \in {"requested", "dead"}
=============================================================================
