---------------------------- MODULE BufferedFlash ----------------------------
(***************************************************************************)
(* The flash backends that gather blocks in RAM before they write:         *)
(* src/src/lpc176x/flash.c and src/src/rp2040/flash.c, and beside them the *)
(* STM32 one as its callers see it, which writes every block at once (its  *)
(* detail is in Stm32Flash).  A device has one of the three.               *)
(*                                                                         *)
(* Addresses are counted in blocks from the start of the application,      *)
(* where a sector begins; all sectors have one size.  A block is one       *)
(* value: the payload that was programmed, Erased (all 0xff), or Garbage   *)
(* after two different payloads were programmed over each other.  Of its   *)
(* bytes check_erased() tells apart only how many quarters of the block    *)
(* from its start are all 0xff: BlankQuarters.                             *)
(***************************************************************************)
EXTENDS Integers

CONSTANTS NumBlocks,    \* blocks of the application area
          BufBlocks,    \* blocks of the RAM buffer: IAP_BUF_MIN_SIZE, PAGE_SIZE
          SectorBlocks, \* blocks of an erase sector
          Data,         \* payloads of one block
          Erased, Garbage,
          BlankQuarters \* quarters of a block that are 0xff, from its start

ASSUME BufferedFlashAssumption ==
    /\ BufBlocks \in Nat \ {0} /\ BufBlocks % 4 = 0
    /\ SectorBlocks \in Nat /\ SectorBlocks > BufBlocks
    /\ SectorBlocks % BufBlocks = 0
    /\ NumBlocks \in Nat \ {0} /\ NumBlocks % SectorBlocks = 0
    /\ Erased \in Data /\ Garbage \notin Data
    /\ BlankQuarters \in [Data \cup {Garbage} -> 0 .. 4]
    /\ \A d \in Data \cup {Garbage} : BlankQuarters[d] = 4 <=> d = Erased

Backends == {"stm32", "lpc176x", "rp2040"}
Blocks == 0 .. NumBlocks - 1
Indices == 0 .. BufBlocks - 1

VARIABLES backend,
          flash,                \* content of the array
          buffer,               \* iap_buf, buffer
          next_address,         \* LPC176x: the block expected next
          buffer_start_address, \* RP2040: where the buffer belongs
          buffer_not_empty,     \* RP2040
          page_write_count

ram == <<buffer, next_address, buffer_start_address, buffer_not_empty, page_write_count>>

FlashTypeOK == /\ backend \in Backends
               /\ flash \in [Blocks -> Data \cup {Garbage}]
               /\ buffer \in [Indices -> Data]
               /\ next_address \in -BufBlocks .. NumBlocks
               /\ buffer_start_address \in Blocks
               /\ buffer_not_empty \in BOOLEAN
               /\ page_write_count \in Nat

\* The zeroed RAM of a start.  next_address 0 is a buffer's start below the
\* application.
FreshRam == /\ buffer' = [i \in Indices |-> Erased]
            /\ next_address' = -BufBlocks
            /\ buffer_start_address' = 0
            /\ buffer_not_empty' = FALSE
            /\ page_write_count' = 0

FlashInit == /\ buffer = [i \in Indices |-> Erased]
             /\ next_address = -BufBlocks
             /\ buffer_start_address = 0
             /\ buffer_not_empty = FALSE
             /\ page_write_count = 0

-----------------------------------------------------------------------------
(* The array.                                                              *)

\* What a cell holds when d is programmed over what it held.
Programmed(old, d) == IF old = Erased \/ old = d THEN d
                      ELSE IF d = Erased THEN old
                      ELSE Garbage

erase_sector(f, a) == [b \in Blocks |-> IF b \div SectorBlocks = a \div SectorBlocks
                                        THEN Erased ELSE f[b]]

\* The first n blocks of data are programmed at a.
write_flash(f, a, data, n) == [b \in Blocks |-> IF b - a \in 0 .. n - 1
                                                THEN Programmed(f[b], data[b - a])
                                                ELSE f[b]]

starts_sector(a) == a % SectorBlocks = 0
buf_idx(a) == a % BufBlocks

\* The scan is of count blocks and ends a quarter of them on, within a block
\* if count is not a multiple of 4.
check_erased(f, a, count) ==
    /\ \A b \in a .. a + count \div 4 - 1 : f[b] = Erased
    /\ count % 4 # 0 => BlankQuarters[f[a + count \div 4]] >= count % 4

-----------------------------------------------------------------------------
(* LPC176x.  hw is the outcome of the IAP calls: "ok", or the one that     *)
(* failed.  n is how many blocks of the buffer were programmed, all of     *)
(* them unless power goes.                                                 *)

\* memcmp() finds the buffer in the array.
Holds(f, a, data) == \A i \in Indices : f[a + i] = data[i]

\* A buffer that is in the array already is not written again.
Retransmit(f, a, data) ==
    IF starts_sector(a)
    THEN /\ ~check_erased(f, a, SectorBlocks)
         /\ Holds(f, a, data)
         /\ check_erased(f, a + BufBlocks, SectorBlocks - BufBlocks)
    ELSE ~check_erased(f, a, BufBlocks) /\ Holds(f, a, data)

\* Data in the way that only a new start of the sector may erase.
Occupied(f, a, data) ==
    ~starts_sector(a) /\ ~check_erased(f, a, BufBlocks) /\ ~Holds(f, a, data)

\* The array before the buffer is programmed.
Cleared(f, a) ==
    IF starts_sector(a) /\ ~check_erased(f, a, SectorBlocks) THEN erase_sector(f, a) ELSE f

\* What write_buffer() returns, what it leaves in the array, and whether it
\* counts a page.
write_buffer(f, a, data, hw, n) ==
    LET needs_erase == Cleared(f, a) # f
    IN CASE Retransmit(f, a, data) -> [ret |-> 0, flash |-> f, pages |-> 0]
         [] Occupied(f, a, data) -> [ret |-> -2, flash |-> f, pages |-> 0]
         [] OTHER ->
              IF needs_erase /\ hw = "erase_fails"
              THEN [ret |-> -3, flash |-> f, pages |-> 0]
              ELSE [ret |-> IF hw = "write_fails" THEN -4 ELSE 0,
                    flash |-> IF hw = "write_fails" THEN Cleared(f, a)
                              ELSE write_flash(Cleared(f, a), a, data, n),
                    pages |-> IF starts_sector(a) THEN 1 ELSE 0]

\* The test for an "out of order request".
OutOfOrder(b) == b # next_address /\ ~(buf_idx(b) = 0 /\ buf_idx(next_address) = 0)

lpc_write_buffer(a, data, ret, hw) ==
    LET w == write_buffer(flash, a, data, hw, BufBlocks)
    IN /\ ret = w.ret
       /\ flash' = w.flash
       /\ page_write_count' = page_write_count + w.pages

lpc_flash_write_block(b, d, ret, hw) ==
    \/ /\ OutOfOrder(b)
       /\ ret = -2
       /\ UNCHANGED <<flash, ram>>
    \/ /\ ~OutOfOrder(b)
       /\ buffer' = [buffer EXCEPT ![buf_idx(b)] = d]
       /\ IF buf_idx(b) = BufBlocks - 1
          THEN lpc_write_buffer(b - buf_idx(b), buffer', ret, hw)
          ELSE ret = 0 /\ UNCHANGED <<flash, page_write_count>>
       /\ next_address' = IF ret < 0 THEN b ELSE b + 1
       /\ UNCHANGED <<buffer_start_address, buffer_not_empty>>

\* The buffer with its tail filled up with 0xff.
Padded == [i \in Indices |-> IF i < buf_idx(next_address) THEN buffer[i] ELSE Erased]

\* next_address stays within the buffer that was written.
lpc_flash_complete(ret, hw) ==
    LET used == buf_idx(next_address)
    IN IF used = 0
       THEN ret = 0 /\ UNCHANGED <<flash, ram>>
       ELSE /\ buffer' = Padded
            /\ lpc_write_buffer(next_address - used, Padded, ret, hw)
            /\ UNCHANGED <<next_address, buffer_start_address, buffer_not_empty>>

-----------------------------------------------------------------------------
(* RP2040.  The SDK's erase and program return nothing.                    *)

\* The array with n blocks of the buffer in it; the first page of a sector
\* erases the sector.
Flushed(n) ==
    write_flash(IF starts_sector(buffer_start_address)
                THEN erase_sector(flash, buffer_start_address) ELSE flash,
                buffer_start_address, buffer, n)

flush_buffer == /\ flash' = Flushed(BufBlocks)
                /\ page_write_count' = page_write_count + 1

\* The buffer has space for the block.
InBuffer(b) == /\ b >= buffer_start_address
               /\ b + 1 <= buffer_start_address + BufBlocks

\* The buffer is for another page and goes to the array first.
MustFlush(b) == buffer_not_empty /\ ~InBuffer(b)

ensure_buffer(b) ==
    LET keep == buffer_not_empty /\ InBuffer(b)
    IN /\ IF MustFlush(b) THEN flush_buffer ELSE UNCHANGED <<flash, page_write_count>>
       /\ buffer_start_address' = IF keep THEN buffer_start_address ELSE b - buf_idx(b)
       /\ buffer_not_empty' = TRUE

\* What the block is copied into: the buffer, or a fresh one of 0xff.
Opened(b) == IF buffer_not_empty /\ InBuffer(b) THEN buffer ELSE [i \in Indices |-> Erased]

\* check_valid_flash_address() refuses nothing that the range check of
\* command_write_block() lets pass.
rp2040_flash_write_block(b, d, ret) ==
    /\ ret = 0
    /\ ensure_buffer(b)
    /\ buffer' = [Opened(b) EXCEPT ![buf_idx(b)] = d]
    /\ UNCHANGED next_address

rp2040_flash_complete(ret) ==
    /\ ret = 0
    /\ IF buffer_not_empty THEN flush_buffer ELSE UNCHANGED <<flash, page_write_count>>
    /\ buffer_not_empty' = FALSE
    /\ UNCHANGED <<buffer, next_address, buffer_start_address>>

-----------------------------------------------------------------------------
(* STM32: each block is written, or found written, before it is answered.  *)

\* What is scanned before a write: the page, or the block within one.
stm32_erased(b) == check_erased(flash, b, IF starts_sector(b) THEN SectorBlocks ELSE 1)

\* The block is in the array already; the one that starts a page must seem to
\* be alone in it.
stm32_retransmit(b, d) ==
    /\ ~stm32_erased(b) /\ flash[b] = d
    /\ starts_sector(b) => check_erased(flash, b + 1, SectorBlocks - 1)

\* Data in the way that only a new start of the page may erase.
stm32_refused(b, d) == ~starts_sector(b) /\ ~stm32_erased(b) /\ flash[b] # d

\* The array before the block is programmed.
stm32_cleared(b) ==
    IF starts_sector(b) /\ ~stm32_erased(b) THEN erase_sector(flash, b) ELSE flash

\* What the block may hold when d is programmed over what was taken for blank.
stm32_programmed(old, d) == IF old \in {Erased, d} THEN {d}
                            ELSE IF d = Erased THEN {old}
                            ELSE {old, d, Garbage}

\* The block is programmed and compared.
stm32_write(b, d, ret) ==
    /\ \E v \in stm32_programmed(stm32_cleared(b)[b], d) :
          /\ flash' = [stm32_cleared(b) EXCEPT ![b] = v]
          /\ ret = IF v = d THEN 0 ELSE -3
    /\ page_write_count' = page_write_count + (IF starts_sector(b) THEN 1 ELSE 0)
    /\ UNCHANGED <<buffer, next_address, buffer_start_address, buffer_not_empty>>

stm32_flash_write_block_strict(b, d, ret) ==
    \/ ~starts_sector(b) /\ ~stm32_erased(b) /\ ret = -2 /\ UNCHANGED <<flash, ram>>
    \/ (starts_sector(b) \/ stm32_erased(b)) /\ stm32_write(b, d, ret)
stm32_flash_write_block(b, d, ret) ==
    \/ stm32_retransmit(b, d) /\ ret = 0 /\ UNCHANGED <<flash, ram>>
    \/ stm32_refused(b, d) /\ ret = -2 /\ UNCHANGED <<flash, ram>>
    \/ ~stm32_retransmit(b, d) /\ ~stm32_refused(b, d) /\ stm32_write(b, d, ret)

\* The array when power goes after n cells of the block were programmed, the
\* second being the last: it is blank, torn or whole.
stm32_cut(b, d, n) ==
    IF stm32_retransmit(b, d) \/ stm32_refused(b, d) THEN flash
    ELSE [stm32_cleared(b) EXCEPT ![b] = IF n = 0 THEN @ ELSE IF n = 1 THEN Garbage ELSE d]

-----------------------------------------------------------------------------
(* The interface of flash.h.  ret = 0 also stands for the page count that  *)
(* flash_complete() returns, which no caller tests.                        *)

flash_write_block(b, d, ret, hw) ==
    \/ backend = "lpc176x" /\ lpc_flash_write_block(b, d, ret, hw)
    \/ backend = "rp2040" /\ rp2040_flash_write_block(b, d, ret)
    \/ backend = "stm32" /\ stm32_flash_write_block(b, d, ret)

flash_complete_early(ret, hw) == ret = 0 /\ UNCHANGED <<flash, ram>>
flash_complete(ret, hw) ==
    \/ backend = "lpc176x" /\ lpc_flash_complete(ret, hw)
    \/ backend = "rp2040" /\ rp2040_flash_complete(ret)
    \/ backend = "stm32" /\ ret = 0 /\ UNCHANGED <<flash, ram>>

\* The array when power goes within a write of block b, after n blocks of the
\* buffer, or n cells of the block, were programmed.
CutWrite(b, d, n) ==
    CASE backend = "lpc176x" /\ ~OutOfOrder(b) /\ buf_idx(b) = BufBlocks - 1 ->
           write_buffer(flash, b - buf_idx(b), [buffer EXCEPT ![buf_idx(b)] = d], "ok", n).flash
      [] backend = "rp2040" /\ MustFlush(b) -> Flushed(n)
      [] backend = "stm32" -> stm32_cut(b, d, n)
      [] OTHER -> flash

\* The same within flash_complete().
CutComplete(n) ==
    CASE backend = "lpc176x" /\ buf_idx(next_address) # 0 ->
           write_buffer(flash, next_address - buf_idx(next_address), Padded, "ok", n).flash
      [] backend = "rp2040" /\ buffer_not_empty -> Flushed(n)
      [] OTHER -> flash
=============================================================================
