----------------------------- MODULE Stm32Flash -----------------------------
(***************************************************************************)
(* The STM32 flash backend, src/src/stm32/flash.c.                         *)
(*                                                                         *)
(* An address is a block number and an offset in that block.  A block is   *)
(* CellsPerBlock cells, the unit in which the model programs the array (a  *)
(* run of flash words of the real part); with four cells a block, one cell *)
(* is the quarter of a block that check_erased() looks at.  Interrupts do  *)
(* not touch the flash, so the only thing that happens between two steps   *)
(* of flash_write_block() is a loss of power.                              *)
(***************************************************************************)
EXTENDS Integers

CONSTANTS NumBlocks,      \* blocks of the flash
          CellsPerBlock,  \* cells of a block (CONFIG_BLOCK_SIZE)
          SmallPage,      \* page size, in blocks, below Boundary ...
          LargePage,      \* ... and above it (equal on parts with one size)
          Boundary,       \* first block of the large pages
          Erased,         \* the value of an erased cell (0xffffffff)
          Torn,           \* a cell holding something nobody wrote
          Data,           \* the block payloads a caller may send
          EraseRemnants,  \* cells an interrupted erase may leave erased
          CountLimit,     \* page_write_count wraps here (2^32 in the code)
          MaxLosses       \* cap on the number of power losses

Blocks == 0 .. NumBlocks - 1
Offsets == 0 .. CellsPerBlock - 1
Values == {Erased, Torn} \cup UNION {{d[i] : i \in Offsets} : d \in Data}

ASSUME GeometryAssumption ==
    /\ NumBlocks \in Nat \ {0}
    /\ CellsPerBlock \in Nat /\ CellsPerBlock >= 4
    /\ SmallPage \in Nat \ {0} /\ LargePage \in Nat \ {0}
    /\ Boundary \in Nat
    /\ CountLimit \in Nat \ {0} /\ MaxLosses \in Nat

ASSUME DataAssumption ==
    /\ \A d \in Data : d = [i \in Offsets |-> d[i]] /\ \A i \in Offsets : d[i] # Torn
    /\ Erased # Torn
    /\ EraseRemnants \subseteq SUBSET (Blocks \X Offsets)

VARIABLES flash,            \* the array: [Blocks -> [Offsets -> Values]]
          pc,               \* where flash_write_block() stands
          req,              \* its arguments
          idx,              \* loop index of write_block()
          locked,           \* FLASH_CR_LOCK
          page_write_count,
          ret,              \* what the last call returned
          acked,            \* history: payload each block was acknowledged with
          losses            \* power losses so far

vars == <<flash, pc, req, idx, locked, page_write_count, ret, acked, losses>>

NoData == [i \in Offsets |-> Erased]
Unacked == [i \in Offsets |-> Torn]
NoReq == [block |-> 0, off |-> 0, data |-> NoData]
Requests == [block : Blocks, off : Offsets, data : Data]

-----------------------------------------------------------------------------
\* Page geometry.  flash_get_page_size() is in blocks.
flash_get_page_size(b) == IF b < Boundary THEN SmallPage ELSE LargePage

page_address(b) == b - (b % flash_get_page_size(b))

starts_page(b) == page_address(b) = b

PageBlocks(b) == {c \in Blocks : page_address(c) = page_address(b)}

\* check_erased(addr, count) with addr the first cell of block b and count in
\* cells: "e = (void*)addr + count / 4" ends the scan after a quarter of count.
check_erased(b, count) ==
    \A c \in Blocks, i \in Offsets :
        (c >= b /\ (c - b) * CellsPerBlock + i < count \div 4)
            => flash[c][i] = Erased

\* Wrong variants of erase_page(): a page size that is too large, or too small.
erase_page_beyond(f, b) == [c \in Blocks |-> IF c >= page_address(b) THEN NoData ELSE f[c]]
erase_page_short(f, b) == [f EXCEPT ![b] = NoData]

\* erase_page() erases the page that holds the address.
erase_page(f, b) == [c \in Blocks |-> IF c \in PageBlocks(b) THEN NoData ELSE f[c]]

\* What programming value v can leave in a cell that holds old: an erased cell
\* takes any value; elsewhere bits are only cleared, or the part refuses.
Programmed(old, v) == IF old = Erased THEN {v}
                      ELSE IF v \in {old, Erased} THEN {old}
                      ELSE {old, v, Torn}

unlock_flash == locked' = FALSE

lock_flash == locked' = TRUE

\* The last index of the loop in write_block().
last_index == CellsPerBlock - 1

Return(r) == /\ ret' = r
             /\ pc' = "idle"
             /\ req' = NoReq

Acknowledge == /\ Return(0)
               /\ acked' = [acked EXCEPT ![req.block] = req.data]

-----------------------------------------------------------------------------
TypeOK == /\ flash \in [Blocks -> [Offsets -> Values]]
          /\ pc \in {"idle", "check", "erase", "program", "verify"}
          /\ req \in Requests \cup {NoReq}
          /\ pc # "idle" => req \in Requests
          /\ pc \in {"erase", "program", "verify"} => req.off = 0
          /\ idx \in Offsets
          /\ locked \in BOOLEAN
          /\ page_write_count \in 0 .. CountLimit - 1
          /\ ret \in {1, 0, -1, -2, -3}
          /\ acked \in [Blocks -> Data \cup {Unacked}]
          /\ losses \in Nat

\* A factory-fresh part.
Init == /\ flash = [b \in Blocks |-> NoData]
        /\ pc = "idle"
        /\ req = NoReq
        /\ idx = 0
        /\ locked = TRUE
        /\ page_write_count = 0
        /\ ret = 1               \* nothing returned yet
        /\ acked = [b \in Blocks |-> Unacked]
        /\ losses = 0

\* The caller invokes flash_write_block(block_address, data).
Call(b, o, d) == /\ pc = "idle"
                 /\ req' = [block |-> b, off |-> o, data |-> d]
                 /\ pc' = "check"
                 /\ UNCHANGED <<flash, idx, locked, page_write_count, ret, acked, losses>>

\* memcmp() of the payload with the block in the array.
Same_assumed == TRUE
Same == flash[req.block] = req.data

\* unlock_flash() and on to the erase or the programming of the block.
Proceed(next) == /\ pc' = next
                 /\ idx' = 0
                 /\ unlock_flash
                 /\ UNCHANGED <<flash, req, ret>>

CheckUnaligned == /\ req.off # 0
                  /\ Return(-1)
                  /\ UNCHANGED <<flash, idx, locked, page_write_count, acked>>

CheckPageStart ==
    LET b == req.block
        size == flash_get_page_size(b) * CellsPerBlock
    IN /\ req.off = 0
       /\ starts_page(b)
       /\ \/ /\ check_erased(b, size)
             /\ page_write_count' = (page_write_count + 1) % CountLimit
             /\ Proceed("program")
             /\ UNCHANGED acked
          \/ /\ ~check_erased(b, size)
             /\ Same /\ check_erased(b + 1, size - CellsPerBlock)
             /\ Acknowledge                    \* retransmitted request
             /\ UNCHANGED <<flash, idx, locked, page_write_count>>
          \/ /\ ~check_erased(b, size)
             /\ ~(Same /\ check_erased(b + 1, size - CellsPerBlock))
             /\ page_write_count' = (page_write_count + 1) % CountLimit
             /\ acked' = [c \in Blocks |-> IF c \in PageBlocks(b)
                                           THEN Unacked ELSE acked[c]]
             /\ Proceed("erase")

\* A wrong variant without the test for a retransmitted request.
CheckWithinPage_strict ==
    LET b == req.block
    IN /\ req.off = 0
       /\ ~starts_page(b)
       /\ UNCHANGED <<page_write_count, acked>>
       /\ \/ check_erased(b, CellsPerBlock) /\ Proceed("program")
          \/ /\ ~check_erased(b, CellsPerBlock) /\ Return(-2)
             /\ UNCHANGED <<flash, idx, locked>>

CheckWithinPage ==
    LET b == req.block
    IN /\ req.off = 0
       /\ ~starts_page(b)
       /\ UNCHANGED page_write_count
       /\ \/ /\ check_erased(b, CellsPerBlock)
             /\ Proceed("program")
             /\ UNCHANGED acked
          \/ /\ ~check_erased(b, CellsPerBlock) /\ Same
             /\ Acknowledge                    \* retransmitted request
             /\ UNCHANGED <<flash, idx, locked>>
          \/ /\ ~check_erased(b, CellsPerBlock) /\ ~Same
             /\ Return(-2)                     \* out of order request?
             /\ UNCHANGED <<flash, idx, locked, acked>>

\* The decisions taken before the hardware is touched.
Check == /\ pc = "check"
         /\ UNCHANGED losses
         /\ CheckUnaligned \/ CheckPageStart \/ CheckWithinPage

Erase == /\ pc = "erase"
         /\ flash' = erase_page(flash, req.block)
         /\ pc' = "program"
         /\ UNCHANGED <<req, idx, locked, page_write_count, ret, acked, losses>>

\* One iteration of write_block(); lock_flash() follows the last one.
Program ==
    /\ pc = "program"
    /\ \E v \in Programmed(flash[req.block][idx], req.data[idx]) :
          flash' = [flash EXCEPT ![req.block][idx] = v]
    /\ IF idx = last_index
       THEN idx' = 0 /\ pc' = "verify" /\ lock_flash
       ELSE idx' = idx + 1 /\ UNCHANGED <<pc, locked>>
    /\ UNCHANGED <<req, page_write_count, ret, acked, losses>>

\* The final memcmp().
Verify == /\ pc = "verify"
          /\ \/ Same /\ Acknowledge
             \/ ~Same /\ Return(-3) /\ UNCHANGED acked
          /\ UNCHANGED <<flash, idx, locked, page_write_count, losses>>

\* flash_complete() has nothing left to write and reports the page count.
flash_complete == page_write_count

\* Power is lost.  The step of the hardware that was under way stops midway.
PowerLoss ==
    /\ losses < MaxLosses
    /\ losses' = losses + 1
    /\ \/ pc \notin {"erase", "program"} /\ UNCHANGED flash
       \/ /\ pc = "erase"
          /\ \E left \in EraseRemnants :
                flash' = [c \in Blocks |-> [i \in Offsets |->
                             IF c \in PageBlocks(req.block) /\ <<c, i>> \in left
                             THEN Erased ELSE flash[c][i]]]
       \/ /\ pc = "program"
          /\ \E v \in {flash[req.block][idx], Torn} :
                flash' = [flash EXCEPT ![req.block][idx] = v]
    /\ pc' = "idle"
    /\ req' = NoReq
    /\ idx' = 0
    /\ locked' = TRUE
    /\ page_write_count' = 0
    /\ ret' = 1
    /\ UNCHANGED acked

Step == Check \/ Erase \/ Program \/ Verify

Next == \/ \E b \in Blocks, o \in Offsets, d \in Data : Call(b, o, d)
        \/ Step
        \/ PowerLoss

Spec == Init /\ [][Next]_vars

-----------------------------------------------------------------------------
(* Refinement of the contract: the array read one block at a time.         *)
Payload(c) == IF c \in Data \cup {NoData} THEN c ELSE Unacked

Contract == INSTANCE FlashContract WITH
    Block <- Blocks,
    PageOf <- page_address,
    Leads <- starts_page,
    Blank <- NoData,
    Torn <- Unacked,
    store <- [b \in Blocks |-> Payload(flash[b])],
    op <- IF pc = "idle" \/ req.off # 0
          THEN [block |-> 0, data |-> NoData, busy |-> FALSE]
          ELSE [block |-> req.block, data |-> req.data, busy |-> TRUE],
    result <- IF ret = 1 THEN "none" ELSE IF ret = 0 THEN "ok" ELSE "error"

\* flash_write_block() keeps the promise every backend makes: success only when
\* the block reads back as sent, and no effect outside the block or, for the
\* first block of a page, outside that page - at every step, so also when the
\* power goes between two of them.
RefinesContract == Contract!Spec

\* A payload flash_write_block() acknowledged stays in the array, whatever else
\* is written, retransmitted, refused or interrupted, until a request for the
\* first block of its page starts an erase of that page.
AckedIntact == \A b \in Blocks : acked[b] # Unacked => flash[b] = acked[b]

\* The array is unlocked (FLASH_CR_LOCK clear) exactly while it is being erased
\* or programmed: every return path, errors and retransmissions included, and
\* every restart leave it locked.
LockedAtRest == locked <=> pc \notin {"erase", "program"}

\* Asking again for a block that was just acknowledged (the host lost the reply)
\* is acknowledged again and leaves the array as it is.
RetransmitHarmless ==
    [][(Check /\ req.off = 0 /\ acked[req.block] = req.data
          /\ ~starts_page(req.block))
            => ret' = 0 /\ flash' = flash]_vars
=============================================================================
