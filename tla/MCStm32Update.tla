--------------------------- MODULE MCStm32Update ---------------------------
(* Stm32Update, and beside it Deployer, on one page of four blocks and the *)
(* start of a second one: a behaviour is one of either, as Init picks.     *)
EXTENDS Stm32Update, Deployer

CONSTANTS x, y,
          Parts         \* {"update"} or {"update", "deploy"}

VARIABLE part

Whole(c) == [i \in 0..3 |-> c]
Half(c) == [i \in 0..3 |-> IF i < 2 THEN c ELSE Erased]

\* Every payload has something programmed in its first quarter.
LedData == {Whole(x), Whole(y), Half(x)}
LedImages == { [b \in Blocks |-> Whole(x)],
               [b \in Blocks |-> IF b = 3 THEN Half(x) ELSE Whole(y)],
               [b \in Blocks |-> IF b = 0 THEN Half(x) ELSE Whole(x)] }

\* Images whose first block is padding, like any file with 0xff fill in it.
PaddedData == {Whole(Erased), Whole(x), Whole(y)}
PaddedImages == { [b \in Blocks |-> IF b = 0 THEN Whole(Erased) ELSE Whole(c)] : c \in {x, y} }

\* The bootloader to deploy, and older ones: one that is shorter, one that
\* begins like the new one, another one, the same.
NewBootloader == [b \in Blocks |-> IF b = 4 THEN Half(x) ELSE Whole(x)]
Bootloaders == { [b \in Blocks |-> IF b < 2 THEN Whole(y) ELSE NoData],
                 [b \in Blocks |-> IF b < 2 THEN Whole(x) ELSE Whole(y)],
                 [b \in Blocks |-> Whole(y)],
                 NewBootloader }
PlainBinary == [b \in Blocks |-> Whole(x)]
PlainBootloaders == {PlainBinary}

\* An interrupted erase leaves the page as it was, or erased.
CleanRemnants == { {}, Blocks \X Offsets }

PartsInit == /\ part \in Parts
             /\ \/ /\ part = "update" /\ UInit
                   /\ old = Binary /\ dpc = "start" /\ p = 0
                \/ /\ part = "deploy" /\ DInit
                   /\ image = (CHOOSE i \in Images : TRUE)
                   /\ block_count = 0 /\ waiting = FALSE

PartsNext == /\ \/ part = "update" /\ UNext /\ UNCHANGED <<old, dpc, p>>
                \/ part = "deploy" /\ DNext /\ UNCHANGED <<image, block_count, waiting>>
                \/ part = "deploy" /\ dpc \in {"requested", "dead", "halted"}
                   /\ UNCHANGED <<uvars, dvars>>
             /\ UNCHANGED part

\* The processor runs the deployer on.
PartsSpec == /\ PartsInit /\ [][PartsNext]_<<uvars, dvars, part>>
             /\ WF_dvars(part = "deploy" /\ sched_main)
=============================================================================
