---------------------------- MODULE MCStm32Flash ----------------------------
(* Stm32Flash on a page of two blocks and one of a single block, four cells a block. *)
EXTENDS Stm32Flash

CONSTANTS x, y

Fill(p, q) == [i \in 0..3 |-> IF i < 2 THEN p ELSE q]

\* Payloads with something programmed in their first quarter.
LedData == {Fill(x, x), Fill(y, Erased)}

\* An interrupted erase got nowhere, finished, or stopped part way.
Remnants == LET all == Blocks \X Offsets
            IN {{}, all, {c \in all : c[1] % 2 = 1}, {c \in all : c[2] < 2}}
=============================================================================
