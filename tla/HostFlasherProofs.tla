-------------------------- MODULE HostFlasherProofs --------------------------
(* Theorems about HostFlasher, for every file, backend, transport, number  *)
(* of tries, of faults and of runs of the tool.                            *)
EXTENDS HostFlasher, DataLemmas, FiniteSetTheorems

-----------------------------------------------------------------------------
(* Types: the array and the RAM of the backends.                           *)

Cells == Data \cup {Garbage}

LEMMA BufIdxRange ==
    ASSUME NEW a \in Int
    PROVE  buf_idx(a) \in Indices
BY BufferedFlashAssumption DEF buf_idx, Indices

LEMMA BufferStart ==
    ASSUME NEW b \in Blocks
    PROVE  b - buf_idx(b) \in Blocks
<1>1. b \in Nat /\ BufBlocks \in Nat \ {0} /\ NumBlocks \in Nat
  BY BufferedFlashAssumption DEF Blocks
<1>2. b % BufBlocks >= 0 /\ b % BufBlocks <= b
  BY <1>1
<1> QED BY <1>1, <1>2 DEF Blocks, buf_idx

LEMMA EraseType ==
    ASSUME NEW f \in [Blocks -> Cells], NEW a
    PROVE  erase_sector(f, a) \in [Blocks -> Cells]
BY BufferedFlashAssumption DEF erase_sector, Cells

LEMMA ProgrammedType ==
    ASSUME NEW c \in Cells, NEW d \in Data
    PROVE  Programmed(c, d) \in Cells
BY DEF Programmed, Cells

LEMMA WriteFlashType ==
    ASSUME NEW f \in [Blocks -> Cells], NEW a \in Int, NEW data \in [Indices -> Data],
           NEW n \in 0 .. BufBlocks
    PROVE  write_flash(f, a, data, n) \in [Blocks -> Cells]
<1>1. ASSUME NEW b \in Blocks, b - a \in 0 .. n - 1
      PROVE  Programmed(f[b], data[b - a]) \in Cells
  <2>1. b - a \in Indices BY <1>1, BufferedFlashAssumption DEF Indices
  <2> QED BY <2>1, ProgrammedType
<1>2. ASSUME NEW b \in Blocks
      PROVE  (IF b - a \in 0 .. n - 1 THEN Programmed(f[b], data[b - a]) ELSE f[b]) \in Cells
  BY <1>1
<1> QED BY <1>2 DEF write_flash

LEMMA WriteBufferType ==
    ASSUME NEW f \in [Blocks -> Cells], NEW a \in Int, NEW data \in [Indices -> Data],
           NEW hw, NEW n \in 0 .. BufBlocks
    PROVE  /\ write_buffer(f, a, data, hw, n).flash \in [Blocks -> Cells]
           /\ write_buffer(f, a, data, hw, n).pages \in Nat
<1>1. Cleared(f, a) \in [Blocks -> Cells]
  BY EraseType DEF Cleared
<1>2. write_flash(Cleared(f, a), a, data, n) \in [Blocks -> Cells]
  BY <1>1, WriteFlashType
<1> QED BY <1>1, <1>2 DEF write_buffer

\* STM32: what is programmed over a block that is not written yet stays, comes or
\* is destroyed.
LEMMA Stm32Type ==
    ASSUME NEW b \in Blocks, NEW d \in Data, flash \in [Blocks -> Cells]
    PROVE  /\ stm32_cleared(b) \in [Blocks -> Cells]
           /\ stm32_programmed(stm32_cleared(b)[b], d) \subseteq Cells
           /\ \A n \in Nat : stm32_cut(b, d, n) \in [Blocks -> Cells]
<1>1. stm32_cleared(b) \in [Blocks -> Cells] BY EraseType DEF stm32_cleared
<1>2. stm32_cleared(b)[b] \in Cells /\ d \in Cells /\ Garbage \in Cells BY <1>1 DEF Cells
<1>3. \A n \in Nat : stm32_cut(b, d, n) \in [Blocks -> Cells] BY <1>1, <1>2 DEF stm32_cut
<1> QED BY <1>1, <1>2, <1>3 DEF stm32_programmed

LEMMA FlushedType ==
    ASSUME FlashTypeOK, NEW n \in 0 .. BufBlocks
    PROVE  Flushed(n) \in [Blocks -> Cells]
<1> DEFINE a == buffer_start_address
           f == IF starts_sector(a) THEN erase_sector(flash, a) ELSE flash
<1>1. a \in Int /\ flash \in [Blocks -> Cells] /\ buffer \in [Indices -> Data]
  BY DEF FlashTypeOK, Blocks, Cells
<1>2. f \in [Blocks -> Cells]
  BY <1>1, EraseType
<1> HIDE DEF f
<1>3. write_flash(f, a, buffer, n) \in [Blocks -> Cells]
  BY <1>1, <1>2, WriteFlashType
<1> QED BY <1>3 DEF Flushed, f

LEMMA PaddedType == ASSUME FlashTypeOK PROVE Padded \in [Indices -> Data]
BY BufferedFlashAssumption DEF FlashTypeOK, Padded

LEMMA LpcWriteType ==
    ASSUME FlashTypeOK, NEW a \in Int, NEW data \in [Indices -> Data], NEW ret, NEW hw,
           lpc_write_buffer(a, data, ret, hw)
    PROVE  flash' \in [Blocks -> Cells] /\ page_write_count' \in Nat
<1> DEFINE w == write_buffer(flash, a, data, hw, BufBlocks)
<1>1. flash \in [Blocks -> Cells] /\ page_write_count \in Nat /\ BufBlocks \in 0 .. BufBlocks
  BY BufferedFlashAssumption DEF FlashTypeOK, Cells
<1>2. w.flash \in [Blocks -> Cells] /\ w.pages \in Nat
  BY <1>1, WriteBufferType
<1>3. flash' = w.flash /\ page_write_count' = page_write_count + w.pages
  BY DEF lpc_write_buffer
<1> HIDE DEF w
<1> QED BY <1>1, <1>2, <1>3

\* flash_write_block() of any of the backends.
LEMMA WriteBlockType ==
    ASSUME FlashTypeOK, NEW b \in Blocks, NEW d \in Data, NEW ret \in Int, NEW hw,
           flash_write_block(b, d, ret, hw), UNCHANGED backend
    PROVE  FlashTypeOK'
<1>1. /\ flash \in [Blocks -> Cells] /\ buffer \in [Indices -> Data] /\ backend' \in Backends
      /\ next_address \in -BufBlocks .. NumBlocks /\ buffer_start_address \in Blocks
      /\ buffer_not_empty \in BOOLEAN /\ page_write_count \in Nat
      /\ BufBlocks \in Nat \ {0} /\ NumBlocks \in Nat \ {0} /\ b \in Nat /\ b < NumBlocks
      /\ buf_idx(b) \in Indices /\ b - buf_idx(b) \in Blocks
      /\ Erased \in Data
  BY BufferedFlashAssumption, BufIdxRange, BufferStart DEF FlashTypeOK, Cells, Blocks
<1>2. CASE lpc_flash_write_block(b, d, ret, hw)
  <2>1. CASE UNCHANGED <<flash, ram>>
    BY <1>1, <2>1 DEF FlashTypeOK, ram, Cells
  <2>2. CASE /\ buffer' = [buffer EXCEPT ![buf_idx(b)] = d]
             /\ IF buf_idx(b) = BufBlocks - 1
                THEN lpc_write_buffer(b - buf_idx(b), buffer', ret, hw)
                ELSE ret = 0 /\ UNCHANGED <<flash, page_write_count>>
             /\ next_address' = (IF ret < 0 THEN b ELSE b + 1)
             /\ UNCHANGED <<buffer_start_address, buffer_not_empty>>
    <3>1. buffer' \in [Indices -> Data]
      BY <1>1, <2>2
    <3>2. flash' \in [Blocks -> Cells] /\ page_write_count' \in Nat
      <4>1. b - buf_idx(b) \in Int BY <1>1 DEF Blocks
      <4>2. CASE lpc_write_buffer(b - buf_idx(b), buffer', ret, hw)
        BY <3>1, <4>1, <4>2, LpcWriteType
      <4> QED BY <1>1, <2>2, <4>2
    <3>3. next_address' \in -BufBlocks .. NumBlocks
      BY <1>1, <2>2
    <3> QED BY <1>1, <2>2, <3>1, <3>2, <3>3 DEF FlashTypeOK, Cells
  <2> QED BY <1>2, <2>1, <2>2 DEF lpc_flash_write_block
<1>3. CASE rp2040_flash_write_block(b, d, ret)
  <2>1. Opened(b) \in [Indices -> Data]
    BY <1>1 DEF Opened
  <2>2. buffer' \in [Indices -> Data]
    BY <1>1, <1>3, <2>1 DEF rp2040_flash_write_block
  <2>3. flash' \in [Blocks -> Cells] /\ page_write_count' \in Nat
    <3>1. BufBlocks \in 0 .. BufBlocks BY <1>1
    <3>2. Flushed(BufBlocks) \in [Blocks -> Cells] BY <3>1, FlushedType
    <3> QED BY <1>1, <1>3, <3>2 DEF rp2040_flash_write_block, ensure_buffer, flush_buffer
  <2>4. buffer_start_address' \in Blocks /\ buffer_not_empty' \in BOOLEAN
    BY <1>1, <1>3 DEF rp2040_flash_write_block, ensure_buffer
  <2>5. next_address' = next_address
    BY <1>3 DEF rp2040_flash_write_block
  <2> QED BY <1>1, <2>2, <2>3, <2>4, <2>5 DEF FlashTypeOK, Cells
<1>4. CASE stm32_flash_write_block(b, d, ret)
  <2>1. CASE UNCHANGED <<flash, ram>>
    BY <1>1, <2>1 DEF FlashTypeOK, ram, Cells
  <2>2. CASE stm32_write(b, d, ret)
    <3>1. PICK v \in stm32_programmed(stm32_cleared(b)[b], d) :
             flash' = [stm32_cleared(b) EXCEPT ![b] = v]
      BY <2>2 DEF stm32_write
    <3>2. v \in Cells /\ stm32_cleared(b) \in [Blocks -> Cells] BY <1>1, Stm32Type
    <3>3. flash' \in [Blocks -> Cells] BY <3>1, <3>2
    <3>4. /\ page_write_count' \in Nat
          /\ UNCHANGED <<buffer, next_address, buffer_start_address, buffer_not_empty>>
      BY <1>1, <2>2 DEF stm32_write
    <3> QED BY <1>1, <3>3, <3>4 DEF FlashTypeOK, Cells
  <2> QED BY <1>4, <2>1, <2>2 DEF stm32_flash_write_block
<1> QED BY <1>2, <1>3, <1>4 DEF flash_write_block

\* flash_complete() of any of the backends.
LEMMA CompleteType ==
    ASSUME FlashTypeOK, NEW ret, NEW hw, flash_complete(ret, hw), UNCHANGED backend
    PROVE  FlashTypeOK'
<1>1. /\ flash \in [Blocks -> Cells] /\ buffer \in [Indices -> Data] /\ backend' \in Backends
      /\ next_address \in -BufBlocks .. NumBlocks /\ buffer_start_address \in Blocks
      /\ buffer_not_empty \in BOOLEAN /\ page_write_count \in Nat
      /\ BufBlocks \in Nat \ {0} /\ NumBlocks \in Nat
      /\ buf_idx(next_address) \in Indices /\ buf_idx(next_address) \in Int /\ next_address \in Int
  BY BufferedFlashAssumption, BufIdxRange DEF FlashTypeOK, Cells, Indices
<1>2. CASE lpc_flash_complete(ret, hw)
  <2>1. CASE UNCHANGED <<flash, ram>>
    BY <1>1, <2>1 DEF FlashTypeOK, ram, Cells
  <2>2. CASE /\ buffer' = Padded
             /\ lpc_write_buffer(next_address - buf_idx(next_address), Padded, ret, hw)
             /\ UNCHANGED <<next_address, buffer_start_address, buffer_not_empty>>
    <3>1. flash' \in [Blocks -> Cells] /\ page_write_count' \in Nat
      BY <1>1, <2>2, PaddedType, LpcWriteType
    <3> QED BY <1>1, <2>2, <3>1, PaddedType DEF FlashTypeOK, Cells
  <2> QED BY <1>2, <2>1, <2>2 DEF lpc_flash_complete
<1>3. CASE rp2040_flash_complete(ret)
  <2>1. BufBlocks \in 0 .. BufBlocks BY <1>1
  <2>2. Flushed(BufBlocks) \in [Blocks -> Cells] BY <2>1, FlushedType
  <2>3. flash' \in [Blocks -> Cells] /\ page_write_count' \in Nat
    BY <1>1, <1>3, <2>2 DEF rp2040_flash_complete, flush_buffer
  <2> QED BY <1>1, <1>3, <2>3 DEF rp2040_flash_complete, FlashTypeOK, Cells
<1>4. CASE UNCHANGED <<flash, ram>>
  BY <1>1, <1>4 DEF FlashTypeOK, ram, Cells
<1> QED BY <1>2, <1>3, <1>4 DEF flash_complete

\* The array after a loss of power.
LEMMA CutType ==
    ASSUME FlashTypeOK, NEW b \in Blocks, NEW d \in Data, NEW n \in Indices
    PROVE  CutWrite(b, d, n) \in [Blocks -> Cells] /\ CutComplete(n) \in [Blocks -> Cells]
<1>1. /\ flash \in [Blocks -> Cells] /\ buffer \in [Indices -> Data] /\ n \in 0 .. BufBlocks
      /\ buf_idx(b) \in Indices /\ b - buf_idx(b) \in Int
      /\ next_address - buf_idx(next_address) \in Int
  <2>1. /\ flash \in [Blocks -> Cells] /\ buffer \in [Indices -> Data] /\ next_address \in Int
        /\ BufBlocks \in Nat
    BY BufferedFlashAssumption DEF FlashTypeOK, Cells
  <2>2. buf_idx(b) \in Indices /\ buf_idx(next_address) \in Indices /\ b - buf_idx(b) \in Blocks
    BY <2>1, BufIdxRange, BufferStart DEF Blocks
  <2> QED BY <2>1, <2>2 DEF Blocks, Indices
<1>2. write_buffer(flash, b - buf_idx(b), [buffer EXCEPT ![buf_idx(b)] = d], "ok", n).flash
         \in [Blocks -> Cells]
  BY <1>1, WriteBufferType
<1>3. write_buffer(flash, next_address - buf_idx(next_address), Padded, "ok", n).flash
         \in [Blocks -> Cells]
  BY <1>1, PaddedType, WriteBufferType
<1>4. Flushed(n) \in [Blocks -> Cells] /\ stm32_cut(b, d, n) \in [Blocks -> Cells]
  BY <1>1, FlushedType, Stm32Type
<1> QED BY <1>1, <1>2, <1>3, <1>4 DEF CutWrite, CutComplete

LEMMA FreshRamType ==
    ASSUME FlashTypeOK, FreshRam, flash' \in [Blocks -> Cells], UNCHANGED backend
    PROVE  FlashTypeOK'
<1>1. /\ buffer' \in [Indices -> Data] /\ next_address' \in -BufBlocks .. NumBlocks
      /\ buffer_start_address' \in Blocks /\ page_write_count' \in Nat
  BY BufferedFlashAssumption DEF FreshRam, Blocks
<1>2. buffer_not_empty' \in BOOLEAN
  BY Zenon DEF FreshRam
<1> QED BY <1>1, <1>2 DEF FlashTypeOK, Cells

-----------------------------------------------------------------------------
(* Types: the tool and the link.                                           *)

\* What a step of the tool keeps of its own state.
ToolOK == /\ image \in Images
          /\ phase \in Commands \cup {"idle"}
          /\ block \in 0 .. Len(image) - 1
          /\ tries \in 0 .. CommandTries + BlockTries /\ rounds \in 0 .. Rounds
          /\ waiting \in BOOLEAN
          /\ result \in {"none", "verified", "ok", "error", "killed"}
          /\ waiting => phase # "idle"
          /\ phase # "idle" => tries >= 1 /\ rounds >= 1

LinkOK == requests \in Seq(Requests) /\ replies \in Seq(Replies)

RestOK == /\ transport \in Transports
          /\ primed \in BOOLEAN /\ matches \in BOOLEAN /\ on \in BOOLEAN
          /\ complete \in BOOLEAN /\ restarted \in BOOLEAN /\ stale \in BOOLEAN
          /\ faults \in 0 .. MaxTroubles /\ crashes \in 0 .. MaxTroubles
          /\ sessions \in 0 .. MaxSessions

HostInv == FlashTypeOK /\ ToolOK /\ LinkOK /\ RestOK

LEMMA HostInvTypes == HostInv => HTypeOK
<1>1. HostInv => {waiting, primed, matches, on, complete, restarted, stale} \subseteq BOOLEAN
  BY Zenon DEF HostInv, ToolOK, RestOK
<1> QED BY <1>1 DEF HostInv, ToolOK, LinkOK, RestOK, HTypeOK

LEMMA ImageFacts ==
    ASSUME NEW m \in Images
    PROVE  /\ m \in Seq(Data) /\ Len(m) \in Nat \ {0} /\ Len(m) <= NumBlocks
           /\ \A b \in 0 .. Len(m) - 1 : b \in Blocks /\ m[b + 1] \in Data
<1>1. m \in Seq(Data) /\ Len(m) \in 1 .. NumBlocks /\ NumBlocks \in Nat
  BY HostFlasherAssumption, BufferedFlashAssumption
<1>2. \A b \in 0 .. Len(m) - 1 : b + 1 \in 1 .. Len(m) /\ b \in Blocks
  BY <1>1 DEF Blocks
<1> QED BY <1>1, <1>2, ElementOfSeq

LEMMA CountFacts ==
    /\ BlockTries \in Nat \ {0} /\ CommandTries \in Nat \ {0} /\ Rounds \in Nat \ {0}
    /\ MaxTroubles \in Nat /\ MaxSessions \in Nat
BY HostFlasherAssumption

\* What is left of a sequence after a prefix of it was dropped.
LEMMA RestFacts ==
    ASSUME NEW S, NEW s \in Seq(S), NEW n \in 0 .. Len(s), NEW t, t = SubSeq(s, n + 1, Len(s))
    PROVE  /\ t \in Seq(S) /\ Len(t) = Len(s) - n /\ Len(s) \in Nat
           /\ \A i \in 1 .. Len(s) - n : t[i] = s[n + i]
<1>1. Len(s) \in Nat /\ \A i \in 1 .. Len(s) : s[i] \in S
  BY LenProperties, ElementOfSeq
<1>2. \A i \in n + 1 .. Len(s) : s[i] \in S
  BY <1>1
<1>3. n + 1 \in Int /\ Len(s) \in Int BY <1>1
<1>4. /\ t \in Seq(S) /\ Len(t) = (IF n + 1 <= Len(s) THEN Len(s) - (n + 1) + 1 ELSE 0)
      /\ \A i \in 1 .. Len(s) - (n + 1) + 1 : t[i] = s[(n + 1) + i - 1]
  BY <1>2, <1>3, SubSeqProperties
<1>5. Len(t) = Len(s) - n
  <2> DEFINE k == Len(s)
  <2>1. Len(t) = (IF n + 1 <= k THEN k - (n + 1) + 1 ELSE 0) BY <1>4, Zenon
  <2>2. k \in Nat /\ n \in 0 .. k BY <1>1
  <2> HIDE DEF k
  <2>3. (IF n + 1 <= k THEN k - (n + 1) + 1 ELSE 0) = k - n BY <2>2
  <2> QED BY <2>1, <2>3 DEF k
<1>6. ASSUME NEW i \in 1 .. Len(s) - n PROVE t[i] = s[n + i]
  <2>1. i \in 1 .. Len(s) - (n + 1) + 1 /\ (n + 1) + i - 1 = n + i
    BY <1>1
  <2>2. t[i] = s[(n + 1) + i - 1] BY <1>4, <2>1
  <2> QED BY <2>1, <2>2
<1> QED BY <1>1, <1>4, <1>5, <1>6

LEMMA SuffixFacts ==
    ASSUME NEW S, NEW s \in Seq(S), NEW t \in Suffixes(s)
    PROVE  /\ t \in Seq(S)
           /\ \A i \in DOMAIN t : \E j \in DOMAIN s : t[i] = s[j]
<1>1. PICK n \in 0 .. Len(s) : t = SubSeq(s, n + 1, Len(s))
  BY DEF Suffixes
<1>2. Len(s) \in Nat /\ DOMAIN s = 1 .. Len(s)
  BY LenProperties
<1>3. /\ t \in Seq(S) /\ Len(t) = Len(s) - n
      /\ \A i \in 1 .. Len(s) - n : t[i] = s[n + i]
  BY <1>1, RestFacts
<1>4. ASSUME NEW i \in DOMAIN t PROVE \E j \in DOMAIN s : t[i] = s[j]
  <2>1. i \in 1 .. Len(s) - n BY <1>3
  <2>2. n + i \in 1 .. Len(s) BY <2>1, <1>1, <1>2
  <2>3. n + i \in DOMAIN s /\ t[i] = s[n + i] BY <2>1, <2>2, <1>2, <1>3
  <2> QED BY <2>3
<1> QED BY <1>3, <1>4

LEMMA TailFacts ==
    ASSUME NEW S, NEW s \in Seq(S), s # <<>>
    PROVE  /\ Tail(s) \in Seq(S) /\ Head(s) \in S /\ Head(s) = s[1] /\ 1 \in DOMAIN s
           /\ DOMAIN Tail(s) = 1 .. Len(s) - 1 /\ DOMAIN s = 1 .. Len(s) /\ Len(s) \in Nat
           /\ \A i \in DOMAIN Tail(s) : i + 1 \in DOMAIN s /\ Tail(s)[i] = s[i + 1]
OBVIOUS

LEMMA HostInvInit == HInit => HostInv
<1> SUFFICES ASSUME HInit PROVE HostInv
  OBVIOUS
<1>1. FlashTypeOK
  <2>1. flash \in [Blocks -> Data \cup {Garbage}]
    <3>1. ASSUME NEW m \in Images, NEW b \in Blocks
          PROVE  (IF b < Len(m) THEN m[b + 1] ELSE Erased) \in Data
      <4>1. b < Len(m) => b \in 0 .. Len(m) - 1
        BY ImageFacts DEF Blocks
      <4> QED BY <4>1, ImageFacts, BufferedFlashAssumption
    <3>2. flash \in OldFlash BY DEF HInit
    <3> QED BY <3>1, <3>2, BufferedFlashAssumption DEF OldFlash
  <2>2. backend \in Backends /\ transport \in Transports
    BY HostFlasherAssumption DEF HInit
  <2>3. /\ buffer \in [Indices -> Data] /\ next_address \in -BufBlocks .. NumBlocks
        /\ buffer_start_address \in Blocks /\ page_write_count \in Nat
    BY BufferedFlashAssumption DEF HInit, FlashInit, Blocks
  <2>4. buffer_not_empty \in BOOLEAN
    BY Zenon DEF HInit, FlashInit
  <2> QED BY <2>1, <2>2, <2>3, <2>4 DEF FlashTypeOK
<1>2. ToolOK
  <2>1. image \in Images /\ block \in 0 .. Len(image) - 1
    BY ImageFacts DEF HInit
  <2>2. waiting \in BOOLEAN /\ ~waiting
    BY Zenon DEF HInit
  <2>3. /\ phase = "idle" /\ tries \in 0 .. CommandTries + BlockTries /\ rounds \in 0 .. Rounds
        /\ result = "none"
    BY CountFacts DEF HInit
  <2> QED BY <2>1, <2>2, <2>3 DEF ToolOK
<1>3. LinkOK
  <2>1. requests = <<>> /\ replies = <<>> BY DEF HInit
  <2> QED BY <2>1, EmptySeq, Zenon DEF LinkOK
<1>4. RestOK
  <2>1. transport \in Transports
    BY HostFlasherAssumption DEF HInit
  <2>2. /\ primed \in BOOLEAN /\ matches \in BOOLEAN /\ on \in BOOLEAN
        /\ complete \in BOOLEAN /\ restarted \in BOOLEAN /\ stale \in BOOLEAN
    BY Zenon DEF HInit
  <2>3. /\ faults \in 0 .. MaxTroubles /\ crashes \in 0 .. MaxTroubles
        /\ sessions \in 0 .. MaxSessions
    BY CountFacts DEF HInit
  <2> QED BY <2>1, <2>2, <2>3 DEF RestOK
<1> QED BY <1>1, <1>2, <1>3, <1>4 DEF HostInv

LEMMA IssueOK ==
    ASSUME NEW cmd \in Commands, NEW b, Issue(cmd, b),
           image' \in Images, b \in 0 .. Len(image') - 1,
           result' \in {"none", "verified", "ok", "error", "killed"}
    PROVE  ToolOK'
<1>1. /\ phase' = cmd /\ block' = b /\ waiting' = FALSE /\ rounds' = Rounds
      /\ tries' = TriesFor(cmd)
  BY DEF Issue
<1>2. tries' \in 0 .. CommandTries + BlockTries /\ tries' >= 1
      /\ rounds' \in 0 .. Rounds /\ rounds' >= 1
  BY <1>1, CountFacts DEF TriesFor
<1>3. waiting' \in BOOLEAN /\ (waiting' => phase' # "idle")
  BY <1>1, Zenon
<1> QED BY <1>1, <1>2, <1>3 DEF ToolOK

LEMMA RaiseOK ==
    ASSUME ToolOK, phase # "idle", Raise, image' = image
    PROVE  ToolOK'
<1>1. result' = "error"
  BY DEF Raise
<1>2. CASE phase = "COMPLETE"
  <2>1. phase' = "idle" /\ waiting' = FALSE /\ UNCHANGED <<block, tries, rounds>>
    BY <1>2 DEF Raise
  <2>2. waiting' \in BOOLEAN /\ ~waiting'
    BY <2>1, Zenon
  <2> QED BY <1>1, <2>1, <2>2 DEF ToolOK
<1>3. CASE phase # "COMPLETE"
  <2>1. Issue("COMPLETE", 0) BY <1>3 DEF Raise
  <2>2. image' \in Images /\ 0 \in 0 .. Len(image') - 1 BY ImageFacts DEF ToolOK
  <2> QED BY <1>1, <2>1, <2>2, IssueOK DEF Commands
<1> QED BY <1>2, <1>3

LEMMA RetryOK ==
    ASSUME ToolOK, waiting, image' = image, NEW left, Retry(left)
    PROVE  ToolOK'
<1>1. phase # "idle" /\ tries \in Nat /\ tries >= 1
  BY DEF ToolOK
<1>2. CASE tries_left = 0
  BY <1>1, <1>2, RaiseOK DEF Retry
<1>3. CASE tries_left # 0
  <2>1. tries' = tries - 1 /\ waiting' = FALSE /\ UNCHANGED <<phase, block, rounds, result>>
    BY <1>3 DEF Retry, tries_left
  <2>2. tries' >= 1 /\ tries' \in 0 .. CommandTries + BlockTries
    BY <1>1, <1>3, <2>1, CountFacts DEF ToolOK, tries_left
  <2>3. waiting' \in BOOLEAN /\ ~waiting'
    BY <2>1, Zenon
  <2> QED BY <1>1, <2>1, <2>2, <2>3 DEF ToolOK
<1> QED BY <1>2, <1>3

LEMMA AgainOK ==
    ASSUME ToolOK, phase # "idle", image' = image, Again
    PROVE  ToolOK'
<1>1. CASE rounds = 1
  BY <1>1, RaiseOK DEF Again
<1>2. CASE rounds # 1
  <2>1. /\ rounds' = rounds - 1 /\ tries' = TriesFor(phase) /\ waiting' = FALSE
        /\ UNCHANGED <<phase, block, result>>
    BY <1>2 DEF Again
  <2>2. /\ tries' \in 0 .. CommandTries + BlockTries /\ tries' >= 1
        /\ rounds' \in 0 .. Rounds /\ rounds' >= 1
    BY <1>2, <2>1, CountFacts DEF ToolOK, TriesFor
  <2>3. waiting' \in BOOLEAN /\ ~waiting'
    BY <2>1, Zenon
  <2> QED BY <2>1, <2>2, <2>3 DEF ToolOK
<1> QED BY <1>1, <1>2

\* An answer is taken: the next command, the same once more, or the end.
LEMMA TakenOK ==
    ASSUME ToolOK, RestOK, image' = image, NEW r \in Replies,
           connect_btl \/ verify_canbus_uuid \/ send_file(r) \/ verify_file(r) \/ finish
    PROVE  ToolOK' /\ matches' \in BOOLEAN
<1>1. /\ image' \in Images /\ 0 \in 0 .. Len(image') - 1
      /\ block \in Nat /\ (~LastBlock => block + 1 \in 0 .. Len(image') - 1)
  <2>1. Len(image) \in Nat \ {0} /\ block \in 0 .. Len(image) - 1 /\ image \in Images
    BY ImageFacts DEF ToolOK
  <2> QED BY <2>1 DEF LastBlock
<1>2. /\ {"GET_CANBUS_ID", "SEND_BLOCK", "SEND_EOF", "REQUEST_BLOCK", "COMPLETE"} \subseteq Commands
      /\ "idle" \notin Commands
  BY DEF Commands
<1>3. result \in {"none", "verified", "ok", "error", "killed"} /\ matches \in BOOLEAN
  BY DEF ToolOK, RestOK
<1>4. CASE connect_btl
  <2>1. Issue("GET_CANBUS_ID", 0) \/ Issue("SEND_BLOCK", 0) BY <1>4 DEF connect_btl
  <2>2. result' = result /\ matches' = matches BY <1>4 DEF connect_btl
  <2> QED BY <1>1, <1>2, <1>3, <2>1, <2>2, IssueOK
<1>5. CASE verify_canbus_uuid
  <2>1. Issue("SEND_BLOCK", 0) /\ result' = result /\ matches' = matches
    BY <1>5 DEF verify_canbus_uuid
  <2> QED BY <1>1, <1>2, <1>3, <2>1, IssueOK
<1>6. CASE send_file(r)
  <2>1. matches' = matches /\ phase # "idle" BY <1>6 DEF send_file
  <2>2. CASE Again BY <1>3, <2>1, <2>2, AgainOK
  <2>3. CASE Issue("SEND_EOF", 0) /\ UNCHANGED result
    BY <1>1, <1>2, <1>3, <2>1, <2>3, IssueOK
  <2>4. CASE ~LastBlock /\ Issue("SEND_BLOCK", block + 1) /\ UNCHANGED result
    BY <1>1, <1>2, <1>3, <2>1, <2>4, IssueOK
  <2>5. CASE Issue("REQUEST_BLOCK", 0) /\ UNCHANGED result
    BY <1>1, <1>2, <1>3, <2>1, <2>5, IssueOK
  <2> QED BY <1>6, <2>2, <2>3, <2>4, <2>5 DEF send_file
<1>7. CASE verify_file(r)
  <2>1. phase # "idle" BY <1>7 DEF verify_file
  <2>2. CASE ~SameAddress(r)
    <3>1. Again /\ matches' = matches BY <1>7, <2>2 DEF verify_file
    <3> QED BY <1>3, <2>1, <3>1, AgainOK
  <2>3. CASE SameAddress(r)
    <3>1. matches' = (matches /\ r.data = image[block + 1]) BY <1>7, <2>3 DEF verify_file
    <3>2. matches' \in BOOLEAN BY <3>1, Zenon
    <3>3. CASE ~LastBlock
      <4>1. Issue("REQUEST_BLOCK", block + 1) /\ result' = result
        BY <1>7, <2>3, <3>3 DEF verify_file
      <4> QED BY <1>1, <1>2, <1>3, <3>2, <3>3, <4>1, IssueOK
    <3>4. CASE LastBlock
      <4>1. Raise \/ (Issue("COMPLETE", 0) /\ result' = "verified")
        BY <1>7, <2>3, <3>4 DEF verify_file
      <4> QED BY <1>1, <1>2, <2>1, <3>2, <4>1, RaiseOK, IssueOK
    <3> QED BY <3>3, <3>4
  <2> QED BY <2>2, <2>3
<1>8. CASE finish
  <2>1. /\ phase' = "idle" /\ waiting' = FALSE /\ result' \in {"ok", "error"}
        /\ UNCHANGED <<block, tries, rounds, matches>>
    BY <1>8 DEF finish
  <2>2. waiting' \in BOOLEAN /\ ~waiting' BY <2>1, Zenon
  <2> QED BY <1>3, <2>1, <2>2 DEF ToolOK
<1> QED BY <1>4, <1>5, <1>6, <1>7, <1>8

\* One more fault or crash is within the bound.
LEMMA TroubleOK ==
    ASSUME RestOK, MoreTrouble
    PROVE  faults + 1 \in 0 .. MaxTroubles /\ crashes + 1 \in 0 .. MaxTroubles
BY CountFacts DEF RestOK, MoreTrouble

\* The device answers the oldest command.
LEMMA AnswerOK ==
    ASSUME LinkOK, requests # <<>>, NEW ack \in Commands \cup {"ERROR"}, NEW data \in Cells,
           Answer(Head(requests), ack, data)
    PROVE  LinkOK'
<1>1. /\ requests' = Tail(requests)
      /\ replies' = Append(replies, [ack |-> ack, addr |-> Head(requests).addr, data |-> data])
  BY DEF Answer
<1>2. Head(requests) \in Requests /\ Tail(requests) \in Seq(Requests)
  BY TailFacts DEF LinkOK
<1>3. [ack |-> ack, addr |-> Head(requests).addr, data |-> data] \in Replies
  BY <1>2 DEF Requests, Replies, Cells
<1> QED BY <1>1, <1>2, <1>3 DEF LinkOK

LEMMA DispatchOK ==
    ASSUME HostInv, command_dispatch
    PROVE  HostInv'
<1> DEFINE r == Head(requests)
<1>1. /\ requests # <<>> /\ r \in Requests /\ r.addr \in Blocks /\ r.data \in Data
      /\ r.cmd \in Commands \cup {"INVALID"}
  <2>1. requests # <<>> /\ requests \in Seq(Requests)
    BY DEF command_dispatch, HostInv, LinkOK
  <2>2. r \in Requests BY <2>1, TailFacts
  <2> QED BY <2>1, <2>2 DEF Requests
<1>2. {0, -2, -3, -4} \subseteq Int /\ Erased \in Cells /\ flash[r.addr] \in Cells
  BY <1>1, BufferedFlashAssumption DEF HostInv, FlashTypeOK, Cells
<1> HIDE DEF r
<1>3. ASSUME NEW hw \in HwOutcomes, NEW ret, HwFault(hw, ret)
      PROVE  faults' \in 0 .. MaxTroubles
  <2>1. CASE hw = "ok" BY <1>3, <2>1 DEF HwFault, HostInv, RestOK
  <2>2. CASE hw # "ok"
    <3>1. MoreTrouble /\ faults' = faults + 1 BY <1>3, <2>2 DEF HwOutcomes, HwFault
    <3> QED BY <3>1, TroubleOK DEF HostInv
  <2> QED BY <2>1, <2>2
<1>4. ASSUME NEW ack \in Commands \cup {"ERROR"}, NEW data \in Cells, Answer(r, ack, data),
             FlashTypeOK', complete' \in BOOLEAN, faults' \in 0 .. MaxTroubles
      PROVE  HostInv'
  <2>1. LinkOK' BY <1>1, <1>4, AnswerOK DEF HostInv, r
  <2>2. UNCHANGED <<host, on, backend, restarted, stale, counts>> BY <1>4 DEF Answer
  <2>3. ToolOK' BY <2>2 DEF host, HostInv, ToolOK
  <2>4. RestOK' BY <1>4, <2>2 DEF host, counts, HostInv, RestOK
  <2> QED BY <1>4, <2>1, <2>3, <2>4 DEF HostInv
<1>5. complete \in BOOLEAN /\ faults \in 0 .. MaxTroubles /\ FlashTypeOK
  BY DEF HostInv, RestOK
<1>6. CASE command_write_block(r)
  <2>1. PICK ret \in {0, -2, -3, -4}, hw \in HwOutcomes :
           /\ flash_write_block(r.addr, r.data, ret, hw)
           /\ HwFault(hw, ret)
           /\ Answer(r, IF ret < 0 THEN "ERROR" ELSE "SEND_BLOCK", Erased)
           /\ UNCHANGED <<backend, complete>>
    BY <1>6 DEF command_write_block
  <2>2. FlashTypeOK' BY <1>1, <1>2, <1>5, <2>1, WriteBlockType
  <2>3. (IF ret < 0 THEN "ERROR" ELSE "SEND_BLOCK") \in Commands \cup {"ERROR"} BY DEF Commands
  <2> QED BY <1>2, <1>3, <1>4, <1>5, <2>1, <2>2, <2>3
<1>7. CASE command_eof(r)
  <2>1. PICK ret \in {0, -2, -3, -4}, hw \in HwOutcomes :
           /\ flash_complete(ret, hw)
           /\ HwFault(hw, ret)
           /\ Answer(r, IF ret < 0 THEN "ERROR" ELSE "SEND_EOF", Erased)
           /\ UNCHANGED <<backend, complete>>
    BY <1>7 DEF command_eof
  <2>2. FlashTypeOK' BY <1>5, <2>1, CompleteType
  <2>3. (IF ret < 0 THEN "ERROR" ELSE "SEND_EOF") \in Commands \cup {"ERROR"} BY DEF Commands
  <2> QED BY <1>2, <1>3, <1>4, <1>5, <2>1, <2>2, <2>3
<1>8. CASE command_read_block(r)
  <2>1. /\ Answer(r, "REQUEST_BLOCK", flash[r.addr])
        /\ UNCHANGED <<backend, flash, ram, complete, faults>>
    BY <1>8 DEF command_read_block, Answer
  <2>2. FlashTypeOK' BY <1>5, <2>1 DEF FlashTypeOK, ram
  <2> QED BY <1>2, <1>4, <1>5, <2>1, <2>2 DEF Commands
<1>9. CASE command_complete(r)
  <2>1. /\ Answer(r, "COMPLETE", Erased) /\ complete' = TRUE
        /\ UNCHANGED <<backend, flash, ram, faults>>
    BY <1>9 DEF command_complete, Answer
  <2>2. FlashTypeOK' BY <1>5, <2>1 DEF FlashTypeOK, ram
  <2>3. complete' \in BOOLEAN BY <2>1, Zenon
  <2> QED BY <1>2, <1>4, <1>5, <2>1, <2>2, <2>3 DEF Commands
<1>10. CASE command_other(r)
  <2>1. /\ Answer(r, IF r.cmd = "INVALID" THEN "ERROR" ELSE r.cmd, Erased)
        /\ UNCHANGED <<backend, flash, ram, complete, faults>>
    BY <1>10 DEF command_other, Answer
  <2>2. FlashTypeOK' BY <1>5, <2>1 DEF FlashTypeOK, ram
  <2>3. (IF r.cmd = "INVALID" THEN "ERROR" ELSE r.cmd) \in Commands \cup {"ERROR"} BY <1>1
  <2> QED BY <1>2, <1>4, <1>5, <2>1, <2>2, <2>3
<1> QED BY <1>6, <1>7, <1>8, <1>9, <1>10 DEF command_dispatch, r

\* The device restarts with its array intact or cut.
LEMMA RestartOK ==
    ASSUME HostInv, Restart, flash' \in [Blocks -> Cells], UNCHANGED sessions,
           crashes' \in 0 .. MaxTroubles
    PROVE  HostInv'
<1>1. /\ FreshRam /\ on' \in BOOLEAN /\ complete' = FALSE /\ restarted' = TRUE /\ requests' = <<>>
      /\ UNCHANGED <<host, replies, backend, faults, stale>>
  BY DEF Restart
<1>2. FlashTypeOK' BY <1>1, FreshRamType DEF HostInv
<1>3. ToolOK' BY <1>1 DEF host, HostInv, ToolOK
<1>4. LinkOK'
  <2>1. replies' \in Seq(Replies) BY <1>1 DEF HostInv, LinkOK
  <2>2. requests' \in Seq(Requests) BY <1>1, EmptySeq, Zenon
  <2> QED BY <2>1, <2>2 DEF LinkOK
<1>5. RestOK'
  <2>1. complete' \in BOOLEAN /\ restarted' \in BOOLEAN BY <1>1, Zenon
  <2> QED BY <1>1, <2>1 DEF host, HostInv, RestOK
<1> QED BY <1>2, <1>3, <1>4, <1>5 DEF HostInv

\* A fault of the link leaves everything but the link.
LEMMA FaultOK ==
    ASSUME HostInv, Fault, LinkOK'
    PROVE  HostInv'
<1>1. faults' \in 0 .. MaxTroubles /\ UNCHANGED <<host, device, counts>>
  BY TroubleOK DEF Fault, HostInv
<1>2. FlashTypeOK' BY <1>1 DEF device, ram, HostInv, FlashTypeOK
<1>3. ToolOK' BY <1>1 DEF host, HostInv, ToolOK
<1>4. RestOK' BY <1>1 DEF host, device, counts, HostInv, RestOK
<1> QED BY <1>2, <1>3, <1>4 DEF HostInv

LEMMA HostInvStep == HostInv /\ [HNext]_hvars => HostInv'
<1> SUFFICES ASSUME HostInv, [HNext]_hvars PROVE HostInv'
  OBVIOUS
<1>1. FlashTypeOK /\ ToolOK /\ LinkOK /\ RestOK
  BY DEF HostInv
<1>2. CASE Start
  <2>1. /\ Issue("CONNECT", 0) /\ image' \in Images /\ result' = "none"
        /\ sessions < MaxSessions /\ sessions' = sessions + 1
        /\ primed' = (transport = "usb") /\ matches' = TRUE /\ on' = TRUE
        /\ restarted' = FALSE /\ stale' = (replies' # <<>>) /\ replies' \in Suffixes(replies)
        /\ UNCHANGED <<transport, backend, flash, ram, complete, faults, crashes>>
    BY <1>2 DEF Start
  <2>2. ToolOK'
    <3>1. 0 \in 0 .. Len(image') - 1 BY <2>1, ImageFacts
    <3> QED BY <2>1, <3>1, IssueOK DEF Commands
  <2>3. LinkOK'
    <3>1. replies' \in Seq(Replies) BY <1>1, <2>1, SuffixFacts DEF LinkOK
    <3>2. requests' \in Seq(Requests)
      <4>1. [cmd |-> "INVALID", addr |-> 0, data |-> Erased] \in Requests
        BY BufferedFlashAssumption DEF Requests, Blocks
      <4>2. /\ <<>> \in Seq(Requests)
            /\ <<[cmd |-> "INVALID", addr |-> 0, data |-> Erased]>> \in Seq(Requests)
        BY <4>1
      <4> QED BY <1>2, <4>2, Zenon DEF Start
    <3> QED BY <3>1, <3>2 DEF LinkOK
  <2>4. RestOK'
    <3>1. /\ primed' \in BOOLEAN /\ matches' \in BOOLEAN /\ on' \in BOOLEAN
          /\ restarted' \in BOOLEAN /\ stale' \in BOOLEAN
      BY <2>1, Zenon
    <3>2. sessions' \in 0 .. MaxSessions BY <1>1, <2>1, CountFacts DEF RestOK
    <3> QED BY <1>1, <2>1, <3>1, <3>2 DEF RestOK
  <2>5. FlashTypeOK' BY <1>1, <2>1 DEF FlashTypeOK, ram
  <2> QED BY <2>2, <2>3, <2>4, <2>5 DEF HostInv
<1>3. CASE Write
  <2>1. /\ phase # "idle" /\ waiting' = TRUE
        /\ UNCHANGED <<transport, phase, image, block, tries, rounds, primed, matches, result,
                       replies, device, faults, counts>>
    BY <1>3 DEF Write
  <2>2. waiting' \in BOOLEAN BY <2>1, Zenon
  <2>3. ToolOK' BY <1>1, <2>1, <2>2 DEF ToolOK
  <2>4. [cmd |-> phase, addr |-> block, data |-> image[block + 1]] \in Requests
    <3>1. phase \in Commands /\ image \in Images /\ block \in 0 .. Len(image) - 1
      BY <1>1, <2>1 DEF ToolOK
    <3>2. block \in Blocks /\ image[block + 1] \in Data BY <3>1, ImageFacts
    <3> QED BY <3>1, <3>2 DEF Requests
  <2>5. LinkOK' BY <1>1, <1>3, <2>1, <2>4 DEF Write, LinkOK
  <2>6. FlashTypeOK' BY <1>1, <2>1 DEF FlashTypeOK, device, ram
  <2>7. RestOK' BY <1>1, <2>1 DEF RestOK, device, counts
  <2> QED BY <2>3, <2>5, <2>6, <2>7 DEF HostInv
<1>4. CASE DropPrimed
  <2>1. /\ replies # <<>> /\ primed' = FALSE /\ replies' = Tail(replies)
        /\ UNCHANGED <<transport, phase, image, block, tries, rounds, waiting, matches, result,
                       requests, device, faults, counts>>
    BY <1>4 DEF DropPrimed
  <2>2. primed' \in BOOLEAN BY <2>1, Zenon
  <2>3. LinkOK' BY <1>1, <2>1, TailFacts DEF LinkOK
  <2>4. ToolOK' BY <1>1, <2>1 DEF ToolOK
  <2>5. FlashTypeOK' BY <1>1, <2>1 DEF FlashTypeOK, device, ram
  <2>6. RestOK' BY <1>1, <2>1, <2>2 DEF RestOK, device, counts
  <2> QED BY <2>3, <2>4, <2>5, <2>6 DEF HostInv
<1>5. CASE Receive
  <2>1. /\ waiting /\ replies # <<>>
        /\ UNCHANGED <<transport, image, requests, device, faults, counts>>
    BY <1>5 DEF Receive
  <2>2. Tail(replies) \in Seq(Replies) /\ Head(replies) \in Replies
    BY <1>1, <2>1, TailFacts DEF LinkOK
  <2>3. ToolOK' /\ matches' \in BOOLEAN /\ primed' = primed /\ replies' \in Seq(Replies)
    <3>1. CASE Head(replies).ack # phase
      <4>1. Retry(Tail(replies)) BY <1>5, <3>1 DEF Receive
      <4>2. replies' \in Suffixes(Tail(replies)) /\ UNCHANGED <<primed, matches>>
        BY <4>1 DEF Retry
      <4>3. replies' \in Seq(Replies) BY <2>2, <4>2, SuffixFacts
      <4>4. ToolOK' BY <1>1, <2>1, <4>1, RetryOK
      <4> QED BY <1>1, <4>2, <4>3, <4>4 DEF RestOK
    <3>2. CASE Head(replies).ack = phase
      <4>1. /\ \/ connect_btl \/ verify_canbus_uuid \/ send_file(Head(replies))
               \/ verify_file(Head(replies)) \/ finish
            /\ replies' = Tail(replies) /\ primed' = primed
        BY <1>5, <3>2 DEF Receive
      <4>2. ToolOK' /\ matches' \in BOOLEAN BY <1>1, <2>1, <2>2, <4>1, TakenOK
      <4> QED BY <2>2, <4>1, <4>2
    <3> QED BY <3>1, <3>2
  <2>4. LinkOK' BY <1>1, <2>1, <2>3 DEF LinkOK
  <2>5. FlashTypeOK' BY <1>1, <2>1 DEF FlashTypeOK, device, ram
  <2>6. RestOK' BY <1>1, <2>1, <2>3 DEF RestOK, device, counts
  <2> QED BY <2>3, <2>4, <2>5, <2>6 DEF HostInv
<1>6. CASE Timeout
  <2>1. /\ waiting /\ Retry(replies) /\ (Quiet \/ MoreTrouble)
        /\ faults' = (IF Quiet THEN faults ELSE faults + 1)
        /\ UNCHANGED <<transport, image, requests, device, counts>>
    BY <1>6 DEF Timeout
  <2>2. replies' \in Suffixes(replies) /\ UNCHANGED <<primed, matches>>
    BY <2>1 DEF Retry
  <2>3. LinkOK' BY <1>1, <2>1, <2>2, SuffixFacts DEF LinkOK
  <2>4. ToolOK' BY <1>1, <2>1, RetryOK
  <2>5. FlashTypeOK' BY <1>1, <2>1 DEF FlashTypeOK, device, ram
  <2>6. faults' \in 0 .. MaxTroubles BY <1>1, <2>1, TroubleOK DEF RestOK
  <2>7. RestOK' BY <1>1, <2>1, <2>2, <2>6 DEF RestOK, device, counts
  <2> QED BY <2>3, <2>4, <2>5, <2>7 DEF HostInv
<1>7. CASE Kill
  <2>1. /\ MoreTrouble /\ crashes' = crashes + 1
        /\ phase' = "idle" /\ waiting' = FALSE /\ result' = "killed"
        /\ UNCHANGED <<transport, image, block, tries, rounds, primed, matches,
                       requests, replies, device, faults, sessions>>
    BY <1>7 DEF Kill
  <2>2. waiting' \in BOOLEAN /\ ~waiting' BY <2>1, Zenon
  <2>3. ToolOK' BY <1>1, <2>1, <2>2 DEF ToolOK
  <2>4. LinkOK' BY <1>1, <2>1 DEF LinkOK
  <2>5. FlashTypeOK' BY <1>1, <2>1 DEF FlashTypeOK, device, ram
  <2>6. RestOK' BY <1>1, <2>1, TroubleOK DEF RestOK, device
  <2> QED BY <2>3, <2>4, <2>5, <2>6 DEF HostInv
<1>8. CASE command_dispatch
  BY <1>8, DispatchOK
<1>9. CASE complete_task
  <2>1. Restart /\ UNCHANGED <<flash, counts>> BY <1>9 DEF complete_task
  <2>2. flash' \in [Blocks -> Cells] BY <1>1, <2>1 DEF FlashTypeOK, Cells
  <2> QED BY <1>1, <2>1, <2>2, RestartOK DEF counts, RestOK
<1>10. CASE PowerLoss
  <2>1. Restart /\ UNCHANGED sessions /\ crashes' \in 0 .. MaxTroubles
    BY <1>1, <1>10, TroubleOK DEF PowerLoss
  <2>2. flash' \in [Blocks -> Cells]
    <3>1. CASE flash' = flash BY <1>1, <3>1 DEF FlashTypeOK, Cells
    <3>2. ASSUME NEW n \in Indices, requests # <<>>,
                 \/ flash' = CutWrite(Head(requests).addr, Head(requests).data, n)
                 \/ flash' = CutComplete(n)
          PROVE  flash' \in [Blocks -> Cells]
      <4>1. Head(requests) \in Requests BY <1>1, <3>2, TailFacts DEF LinkOK
      <4>2. Head(requests).addr \in Blocks /\ Head(requests).data \in Data
        BY <4>1 DEF Requests
      <4> QED BY <1>1, <3>2, <4>2, CutType
    <3> QED BY <1>10, <3>1, <3>2 DEF PowerLoss
  <2> QED BY <2>1, <2>2, RestartOK
<1>11. CASE LoseRequest
  <2>1. LinkOK' BY <1>1, <1>11, TailFacts DEF LoseRequest, LinkOK
  <2> QED BY <1>11, <2>1, FaultOK DEF LoseRequest
<1>12. CASE DamageRequest
  <2>1. [ack |-> "ERROR", addr |-> 0, data |-> Erased] \in Replies
    BY BufferedFlashAssumption DEF Replies, Blocks
  <2>2. requests' \in Seq(Requests)
    BY <1>1, <1>12, TailFacts DEF DamageRequest, LinkOK
  <2>3. replies' \in Seq(Replies)
    BY <1>1, <1>12, <2>1 DEF DamageRequest, LinkOK
  <2> QED BY <1>12, <2>2, <2>3, FaultOK DEF DamageRequest, LinkOK
<1>13. CASE LoseReply
  <2>1. LinkOK' BY <1>1, <1>13, TailFacts DEF LoseReply, LinkOK
  <2> QED BY <1>13, <2>1, FaultOK DEF LoseReply
<1>14. CASE DamageReply
  <2>1. <<[ack |-> "ERROR", addr |-> 0, data |-> Erased]>> \in Seq(Replies)
    BY BufferedFlashAssumption DEF Replies, Blocks
  <2>2. Tail(replies) \in Seq(Replies) BY <1>1, <1>14, TailFacts DEF DamageReply, LinkOK
  <2>3. replies' \in Seq(Replies) BY <1>14, <2>1, <2>2, ConcatProperties DEF DamageReply
  <2>4. LinkOK' BY <1>1, <1>14, <2>3 DEF DamageReply, LinkOK
  <2> QED BY <1>14, <2>4, FaultOK DEF DamageReply
<1>15. CASE UNCHANGED hvars
  BY <1>1, <1>15 DEF hvars, host, device, ram, counts, HostInv, FlashTypeOK, ToolOK, LinkOK, RestOK
<1> QED BY <1>2, <1>3, <1>4, <1>5, <1>6, <1>7, <1>8, <1>9, <1>10, <1>11, <1>12, <1>13, <1>14,
           <1>15 DEF HNext

\* Type correctness of an update from end to end, for every file, backend,
\* transport and number of tries: in particular no try is taken when none is
\* left, and the buffers of the LPC176x and RP2040 backends stay inside RAM.
THEOREM HostTypeCorrect == HSpec => []HTypeOK
BY HostInvInit, HostInvStep, HostInvTypes, PTL DEF HSpec

-----------------------------------------------------------------------------
(* Verification.  In a run of the tool that began with no old answers on   *)
(* their way, the link keeps the order of commands, so that behind a       *)
(* REQUEST_BLOCK no command follows that writes: what an answer to it says *)
(* about the array is still true when the tool reads it.                   *)

IsRead(r) == r.cmd = "REQUEST_BLOCK"
IsWrite(r) == r.cmd \in {"SEND_BLOCK", "SEND_EOF"}
NoWrites == \A i \in DOMAIN requests : ~IsWrite(requests[i])
NoReads == /\ \A i \in DOMAIN requests : ~IsRead(requests[i])
           /\ \A i \in DOMAIN replies : replies[i].ack # "REQUEST_BLOCK"

\* Nothing was read back yet.
EarlyInv == phase \in {"CONNECT", "GET_CANBUS_ID", "SEND_BLOCK", "SEND_EOF"} => NoReads

\* An answer on its way shows the array as it is, and as it stays.
FreshInv == \A i \in DOMAIN replies : replies[i].ack = "REQUEST_BLOCK"
               => NoWrites /\ flash[replies[i].addr] = replies[i].data

\* Commands are in the order in which the tool works through them.
OrderInv == \A i, j \in DOMAIN requests : i < j /\ IsRead(requests[i]) => ~IsWrite(requests[j])

\* The blocks that were verified are in the array.
SoFarInv == phase = "REQUEST_BLOCK" /\ block > 0
               => NoWrites /\ (matches => \A b \in 0 .. block - 1 : flash[b] = image[b + 1])

\* So is the file when the tool is content.
DoneInv == result \in {"verified", "ok"}
              => NoWrites /\ Flashed /\ phase \in {"COMPLETE", "idle"}

CleanInv == EarlyInv /\ FreshInv /\ OrderInv /\ SoFarInv /\ DoneInv

VerifyInv == HostInv /\ (~stale => CleanInv)

\* The answers to REQUEST_BLOCK among new are among old.
Kept(new, old) == \A i \in DOMAIN new : new[i].ack = "REQUEST_BLOCK"
                     => \E j \in DOMAIN old : new[i] = old[j]

LEMMA VerifyInvInit == HInit => VerifyInv
<1> SUFFICES ASSUME HInit PROVE CleanInv
  BY HostInvInit DEF VerifyInv
<1>1. DOMAIN requests = {} /\ DOMAIN replies = {}
  BY DEF HInit
<1>2. phase = "idle" /\ result = "none"
  BY DEF HInit
<1> QED BY <1>1, <1>2 DEF CleanInv, EarlyInv, FreshInv, OrderInv, SoFarInv, DoneInv

\* Commands that are taken, lost or given up leave the others in their order.
LEMMA LinkStep ==
    ASSUME LinkOK, FreshInv, OrderInv, flash' = flash, Kept(replies', replies),
           \/ requests' = requests
           \/ requests # <<>> /\ requests' = Tail(requests)
           \/ requests' = <<>>
    PROVE  /\ FreshInv' /\ OrderInv'
           /\ NoWrites => NoWrites'
           /\ NoReads => NoReads'
<1>1. PICK k \in 0 .. 1 : \A i \in DOMAIN requests' :
         i \in Int /\ i + k \in DOMAIN requests /\ requests'[i] = requests[i + k]
  <2>1. CASE requests' = requests
    <3>1. \A i \in DOMAIN requests' :
             i \in Int /\ i + 0 \in DOMAIN requests /\ requests'[i] = requests[i + 0]
      BY <2>1, LenProperties DEF LinkOK
    <3> QED BY <3>1
  <2>2. CASE requests # <<>> /\ requests' = Tail(requests)
    <3>1. \A i \in DOMAIN requests' :
             i \in Int /\ i + 1 \in DOMAIN requests /\ requests'[i] = requests[i + 1]
      BY <2>2, TailFacts DEF LinkOK
    <3> QED BY <3>1
  <2>3. CASE requests' = <<>>
    <3>1. DOMAIN requests' = {} BY <2>3
    <3> QED BY <3>1
  <2> QED BY <2>1, <2>2, <2>3
<1>2. NoWrites => NoWrites'
  BY <1>1 DEF NoWrites
<1>3. NoReads => NoReads'
  BY <1>1 DEF NoReads, Kept
<1>4. OrderInv'
  <2> SUFFICES ASSUME NEW i \in DOMAIN requests', NEW j \in DOMAIN requests', i < j,
                      IsRead(requests'[i])
               PROVE  ~IsWrite(requests'[j])
    BY DEF OrderInv, IsRead, IsWrite
  <2>1. i + k < j + k BY <1>1
  <2> QED BY <1>1, <2>1 DEF OrderInv
<1>5. FreshInv'
  BY <1>2 DEF FreshInv, Kept
<1> QED BY <1>2, <1>3, <1>4, <1>5

\* The same for a step that leaves the tool alone.
LEMMA LinkOnlyStep ==
    ASSUME LinkOK, CleanInv, flash' = flash, Kept(replies', replies),
           \/ requests' = requests
           \/ requests # <<>> /\ requests' = Tail(requests)
           \/ requests' = <<>>,
           UNCHANGED <<phase, block, image, matches, result>>
    PROVE  CleanInv'
<1>1. FreshInv' /\ OrderInv' /\ (NoWrites => NoWrites') /\ (NoReads => NoReads')
  BY LinkStep DEF CleanInv
<1>2. EarlyInv' BY <1>1 DEF CleanInv, EarlyInv
<1>3. SoFarInv' BY <1>1 DEF CleanInv, SoFarInv
<1>4. DoneInv' BY <1>1 DEF CleanInv, DoneInv, Flashed
<1> QED BY <1>1, <1>2, <1>3, <1>4 DEF CleanInv

\* As long as a command that writes is to come nothing was verified.
LEMMA WriteStep ==
    ASSUME LinkOK, CleanInv, requests # <<>>, IsWrite(Head(requests)),
           Kept(replies', replies),
           requests' = Tail(requests) \/ requests' = <<>>,
           UNCHANGED <<phase, block, image, matches, result>>
    PROVE  CleanInv'
<1>1. ~NoWrites
  <2>1. 1 \in DOMAIN requests /\ requests[1] = Head(requests) BY TailFacts DEF LinkOK
  <2> QED BY <2>1 DEF NoWrites
<1>2. \A i \in DOMAIN replies : replies[i].ack # "REQUEST_BLOCK"
  BY <1>1 DEF CleanInv, FreshInv
<1>3. \A i \in DOMAIN replies' : replies'[i].ack # "REQUEST_BLOCK"
  BY <1>2 DEF Kept
<1>4. ~(phase = "REQUEST_BLOCK" /\ block > 0) /\ result \notin {"verified", "ok"}
  BY <1>1 DEF CleanInv, SoFarInv, DoneInv
<1>5. OrderInv' /\ (NoReads => NoReads')
  <2>1. CASE requests' = Tail(requests)
    <3>1. \A i \in DOMAIN requests' :
             i \in Int /\ i + 1 \in DOMAIN requests /\ requests'[i] = requests[i + 1]
      BY <2>1, TailFacts DEF LinkOK
    <3>2. \A i, j \in DOMAIN requests' : i < j => i + 1 < j + 1 BY <3>1
    <3> QED BY <1>3, <3>1, <3>2 DEF CleanInv, OrderInv, NoReads
  <2>2. CASE requests' = <<>>
    <3>1. DOMAIN requests' = {} BY <2>2
    <3> QED BY <1>3, <3>1 DEF OrderInv, NoReads
  <2> QED BY <2>1, <2>2
<1>6. EarlyInv' BY <1>5 DEF CleanInv, EarlyInv
<1> QED BY <1>3, <1>4, <1>5, <1>6 DEF CleanInv, FreshInv, SoFarInv, DoneInv

LEMMA RaiseClean ==
    ASSUME FreshInv', OrderInv', Raise
    PROVE  CleanInv'
<1>1. result' = "error" /\ phase' \in {"COMPLETE", "idle"}
  BY DEF Raise, Issue
<1> QED BY <1>1 DEF CleanInv, EarlyInv, SoFarInv, DoneInv

\* The tool moves on to a command that neither verifies nor succeeds.
LEMMA IssueClean ==
    ASSUME FreshInv', OrderInv', NEW cmd \in Commands \ {"REQUEST_BLOCK"}, NEW b, Issue(cmd, b),
           cmd = "COMPLETE" \/ NoReads', result' \notin {"verified", "ok"}
    PROVE  CleanInv'
<1>1. phase' = cmd BY DEF Issue
<1> QED BY <1>1 DEF CleanInv, EarlyInv, SoFarInv, DoneInv

\* The tool takes an answer to the command it is at.
LEMMA TakenClean ==
    ASSUME LinkOK, ToolOK, CleanInv, replies # <<>>, NEW r, r = Head(replies), r.ack = phase,
           connect_btl \/ verify_canbus_uuid \/ send_file(r) \/ verify_file(r) \/ finish,
           replies' = Tail(replies), flash' = flash, requests' = requests, image' = image
    PROVE  CleanInv'
<1>1. /\ Kept(replies', replies) /\ r = replies[1] /\ 1 \in DOMAIN replies
  BY TailFacts DEF LinkOK, Kept
<1>2. FreshInv' /\ OrderInv' /\ (NoWrites => NoWrites') /\ (NoReads => NoReads')
  BY <1>1, LinkStep DEF CleanInv
<1>3. ASSUME Again, matches' = matches PROVE CleanInv'
  <2>1. CASE Raise BY <1>2, <2>1, RaiseClean
  <2>2. CASE UNCHANGED <<phase, block, result>> BY <1>1, <1>3, <2>2, LinkOnlyStep
  <2> QED BY <1>3, <2>1, <2>2 DEF Again
<1>4. phase \notin {"COMPLETE", "idle"} => result \notin {"verified", "ok"}
  BY DEF CleanInv, DoneInv
<1>5. phase \in {"CONNECT", "GET_CANBUS_ID", "SEND_BLOCK", "SEND_EOF"} => NoReads'
  BY <1>2 DEF CleanInv, EarlyInv
<1>6. CASE connect_btl
  <2>1. /\ Issue("GET_CANBUS_ID", 0) \/ Issue("SEND_BLOCK", 0)
        /\ phase = "CONNECT" /\ result' = result
    BY <1>6 DEF connect_btl
  <2> QED BY <1>2, <1>4, <1>5, <2>1, IssueClean DEF Commands
<1>7. CASE verify_canbus_uuid
  <2>1. Issue("SEND_BLOCK", 0) /\ phase = "GET_CANBUS_ID" /\ result' = result
    BY <1>7 DEF verify_canbus_uuid
  <2> QED BY <1>2, <1>4, <1>5, <2>1, IssueClean DEF Commands
<1>8. CASE send_file(r)
  <2>1. CASE phase = "SEND_BLOCK"
    <3>1. \/ Again /\ matches' = matches
          \/ /\ Issue("SEND_EOF", 0) \/ Issue("SEND_BLOCK", block + 1)
             /\ result' = result
      BY <1>8, <2>1 DEF send_file
    <3> QED BY <1>2, <1>3, <1>4, <1>5, <2>1, <3>1, IssueClean DEF Commands
  <2>2. CASE phase = "SEND_EOF"
    <3>1. Issue("REQUEST_BLOCK", 0) /\ result' = result
      BY <1>8, <2>2 DEF send_file
    <3>2. phase' = "REQUEST_BLOCK" /\ block' = 0
      BY <3>1 DEF Issue
    <3> QED BY <1>2, <1>4, <2>2, <3>1, <3>2 DEF CleanInv, EarlyInv, SoFarInv, DoneInv
  <2> QED BY <1>8, <2>1, <2>2 DEF send_file
<1>9. CASE verify_file(r)
  <2>1. phase = "REQUEST_BLOCK" BY <1>9 DEF verify_file
  <2>2. NoWrites /\ flash[r.addr] = r.data
    BY <1>1, <2>1 DEF CleanInv, FreshInv
  <2>3. CASE ~SameAddress(r)
    BY <1>3, <1>9, <2>3 DEF verify_file
  <2>4. CASE SameAddress(r)
    <3> DEFINE same == matches /\ r.data = image[block + 1]
    <3>1. matches' = same BY <1>9, <2>4 DEF verify_file
    <3>2. image \in Images /\ block \in 0 .. Len(image) - 1 BY DEF ToolOK
    <3>3. Len(image) \in Nat /\ DOMAIN image = 1 .. Len(image)
      BY <3>2, ImageFacts, LenProperties
    <3>4. same => \A b \in 0 .. block : flash[b] = image[b + 1]
      <4>1. flash[block] = r.data BY <2>2, <2>4 DEF SameAddress
      <4>2. same => \A b \in 0 .. block - 1 : flash[b] = image[b + 1]
        BY <2>1, <3>2, <3>3 DEF CleanInv, SoFarInv
      <4>3. \A b \in 0 .. block : b = block \/ b \in 0 .. block - 1 BY <3>2, <3>3
      <4> QED BY <4>1, <4>2, <4>3
    <3> HIDE DEF same
    <3>5. CASE ~LastBlock
      <4>1. Issue("REQUEST_BLOCK", block + 1) /\ result' = result
        BY <1>9, <2>4, <3>5 DEF verify_file
      <4>2. phase' = "REQUEST_BLOCK" /\ block' = block + 1 BY <4>1 DEF Issue
      <4>3. \A b \in 0 .. block' - 1 : b \in 0 .. block BY <3>2, <3>3, <4>2
      <4>4. SoFarInv' BY <1>2, <2>2, <3>1, <3>4, <4>2, <4>3 DEF SoFarInv
      <4> QED BY <1>2, <1>4, <2>1, <4>1, <4>2, <4>4 DEF CleanInv, EarlyInv, DoneInv
    <3>6. CASE LastBlock /\ sha_differs(same)
      <4>1. Raise BY <1>9, <2>4, <3>6 DEF verify_file, same
      <4> QED BY <1>2, <4>1, RaiseClean
    <3>7. CASE LastBlock /\ ~sha_differs(same)
      <4>1. Issue("COMPLETE", 0) BY <1>9, <2>4, <3>7 DEF verify_file, same
      <4>2. same BY <3>7 DEF sha_differs
      <4>3. \A i \in DOMAIN image : i - 1 \in 0 .. block /\ (i - 1) + 1 = i
        BY <3>2, <3>3, <3>7 DEF LastBlock
      <4>4. Flashed BY <3>4, <4>2, <4>3 DEF Flashed
      <4>5. Flashed' BY <4>4 DEF Flashed
      <4>6. phase' = "COMPLETE" BY <4>1 DEF Issue
      <4> QED BY <1>2, <2>2, <4>5, <4>6 DEF CleanInv, EarlyInv, SoFarInv, DoneInv
    <3> QED BY <3>5, <3>6, <3>7
  <2> QED BY <2>3, <2>4
<1>10. CASE finish
  <2>1. phase' = "idle" /\ (result' = "ok" => result = "verified") /\ result' # "verified"
    BY <1>10 DEF finish
  <2>2. DoneInv' BY <1>2, <2>1 DEF CleanInv, DoneInv, Flashed
  <2> QED BY <1>2, <2>1, <2>2 DEF CleanInv, EarlyInv, SoFarInv
<1> QED BY <1>6, <1>7, <1>8, <1>9, <1>10

LEMMA RetryClean ==
    ASSUME LinkOK, CleanInv, NEW left, Retry(left), Kept(replies', replies),
           flash' = flash, requests' = requests, image' = image
    PROVE  CleanInv'
<1>1. FreshInv' /\ OrderInv'
  BY LinkStep DEF CleanInv
<1>2. CASE Raise
  BY <1>1, <1>2, RaiseClean
<1>3. CASE UNCHANGED <<phase, block, result>>
  <2>1. matches' = matches BY DEF Retry
  <2> QED BY <1>3, <2>1, LinkOnlyStep
<1> QED BY <1>2, <1>3 DEF Retry

\* An answer that is no answer to REQUEST_BLOCK, or shows the array as it is.
LEMMA AppendKept ==
    ASSUME LinkOK, NEW x \in Replies, replies' = Append(replies, x), x.ack # "REQUEST_BLOCK"
    PROVE  Kept(replies', replies)
<1> SUFFICES ASSUME NEW i \in DOMAIN replies', replies'[i].ack = "REQUEST_BLOCK"
             PROVE  \E j \in DOMAIN replies : replies'[i] = replies[j]
  BY DEF Kept
<1>1. /\ replies \in Seq(Replies) /\ Len(replies) \in Nat /\ DOMAIN replies = 1 .. Len(replies)
      /\ DOMAIN replies' = 1 .. Len(replies) + 1
      /\ replies'[Len(replies) + 1] = x
      /\ \A j \in 1 .. Len(replies) : replies'[j] = replies[j]
  BY DEF LinkOK
<1>2. i # Len(replies) + 1 BY <1>1
<1>3. i \in 1 .. Len(replies) BY <1>1, <1>2
<1> QED BY <1>1, <1>3

LEMMA DispatchClean ==
    ASSUME HostInv, CleanInv, command_dispatch
    PROVE  CleanInv'
<1> DEFINE r == Head(requests)
<1>1. LinkOK /\ FlashTypeOK BY DEF HostInv
<1>2. requests # <<>> /\ requests \in Seq(Requests) BY <1>1 DEF command_dispatch, LinkOK
<1>3. /\ r \in Requests /\ r = requests[1] /\ 1 \in DOMAIN requests
      /\ \A i \in DOMAIN Tail(requests) :
            i \in Int /\ i >= 1 /\ i + 1 \in DOMAIN requests /\ Tail(requests)[i] = requests[i + 1]
  BY <1>2, TailFacts
<1>4. r.addr \in Blocks /\ r.cmd \in Commands \cup {"INVALID"} BY <1>3 DEF Requests
<1> HIDE DEF r
<1>5. ASSUME NEW ack \in Commands \cup {"ERROR"}, NEW data \in Cells, Answer(r, ack, data)
      PROVE  /\ requests' = Tail(requests)
             /\ replies' = Append(replies, [ack |-> ack, addr |-> r.addr, data |-> data])
             /\ [ack |-> ack, addr |-> r.addr, data |-> data] \in Replies
             /\ UNCHANGED <<phase, block, image, matches, result>>
  BY <1>4, <1>5 DEF Answer, host, Replies, Cells
<1>6. ASSUME NEW ack \in (Commands \cup {"ERROR"}) \ {"REQUEST_BLOCK"}, Answer(r, ack, Erased)
      PROVE  /\ requests' = Tail(requests) /\ Kept(replies', replies)
             /\ UNCHANGED <<phase, block, image, matches, result>>
  <2>1. Erased \in Cells BY BufferedFlashAssumption DEF Cells
  <2>2. /\ requests' = Tail(requests)
        /\ replies' = Append(replies, [ack |-> ack, addr |-> r.addr, data |-> Erased])
        /\ [ack |-> ack, addr |-> r.addr, data |-> Erased] \in Replies
        /\ UNCHANGED <<phase, block, image, matches, result>>
    BY <1>5, <1>6, <2>1
  <2>3. Kept(replies', replies) BY <1>1, <2>2, AppendKept
  <2> QED BY <2>2, <2>3
<1>7. CASE r.cmd \in {"SEND_BLOCK", "SEND_EOF"}
  <2>1. command_write_block(r) \/ command_eof(r)
    BY <1>7 DEF command_dispatch, r
  <2>2. \E ack \in (Commands \cup {"ERROR"}) \ {"REQUEST_BLOCK"} : Answer(r, ack, Erased)
    BY <2>1 DEF command_write_block, command_eof, Commands
  <2>3. IsWrite(Head(requests)) BY <1>7 DEF IsWrite, r
  <2> QED BY <1>1, <1>2, <1>6, <2>2, <2>3, WriteStep
<1>8. CASE r.cmd = "REQUEST_BLOCK"
  <2>1. Answer(r, "REQUEST_BLOCK", flash[r.addr]) /\ flash' = flash
    BY <1>8 DEF command_dispatch, command_read_block, r
  <2> DEFINE x == [ack |-> "REQUEST_BLOCK", addr |-> r.addr, data |-> flash[r.addr]]
  <2>2. flash[r.addr] \in Cells BY <1>1, <1>4 DEF FlashTypeOK, Cells
  <2>3. /\ requests' = Tail(requests) /\ replies' = Append(replies, x) /\ x \in Replies
        /\ UNCHANGED <<phase, block, image, matches, result>>
    BY <1>5, <2>1, <2>2 DEF Commands
  <2>4. IsRead(requests[1]) BY <1>3, <1>8 DEF IsRead
  <2>5. NoWrites'
    <3> SUFFICES ASSUME NEW i \in DOMAIN requests' PROVE ~IsWrite(requests'[i])
      BY DEF NoWrites, IsWrite
    <3>1. i + 1 \in DOMAIN requests /\ requests'[i] = requests[i + 1] /\ 1 < i + 1
      BY <1>3, <2>3
    <3> QED BY <1>3, <2>4, <3>1 DEF CleanInv, OrderInv
  <2>6. ~NoReads BY <1>3, <2>4 DEF NoReads
  <2>7. EarlyInv' BY <2>3, <2>6 DEF CleanInv, EarlyInv
  <2>8. OrderInv' BY <2>5 DEF OrderInv, NoWrites
  <2>9. FreshInv'
    <3> SUFFICES ASSUME NEW i \in DOMAIN replies', replies'[i].ack = "REQUEST_BLOCK"
                 PROVE  flash[replies'[i].addr] = replies'[i].data
      BY <2>1, <2>5 DEF FreshInv
    <3>1. /\ Len(replies) \in Nat /\ DOMAIN replies = 1 .. Len(replies)
          /\ DOMAIN replies' = 1 .. Len(replies) + 1 /\ replies'[Len(replies) + 1] = x
          /\ \A j \in 1 .. Len(replies) : replies'[j] = replies[j]
      BY <1>1, <2>3 DEF LinkOK
    <3>2. CASE i = Len(replies) + 1 BY <3>1, <3>2
    <3>3. CASE i \in 1 .. Len(replies) BY <3>1, <3>3 DEF CleanInv, FreshInv
    <3> QED BY <3>1, <3>2, <3>3
  <2>10. SoFarInv' BY <2>1, <2>3, <2>5 DEF CleanInv, SoFarInv
  <2>11. DoneInv' BY <2>1, <2>3, <2>5 DEF CleanInv, DoneInv, Flashed
  <2> QED BY <2>7, <2>8, <2>9, <2>10, <2>11 DEF CleanInv
<1>9. CASE r.cmd \notin {"SEND_BLOCK", "SEND_EOF", "REQUEST_BLOCK"}
  <2>1. command_complete(r) \/ command_other(r)
    BY <1>9 DEF command_dispatch, r
  <2>2. /\ \E ack \in (Commands \cup {"ERROR"}) \ {"REQUEST_BLOCK"} : Answer(r, ack, Erased)
        /\ flash' = flash
    BY <1>4, <1>9, <2>1 DEF command_complete, command_other, Commands
  <2> QED BY <1>1, <1>2, <1>6, <2>2, LinkOnlyStep
<1> QED BY <1>7, <1>8, <1>9

LEMMA VerifyInvStep == VerifyInv /\ [HNext]_hvars => VerifyInv'
<1> SUFFICES ASSUME VerifyInv, [HNext]_hvars, ~stale' PROVE CleanInv'
  BY HostInvStep DEF VerifyInv
<1>1. HostInv /\ LinkOK /\ ToolOK BY DEF VerifyInv, HostInv
<1>2. CASE Start
  <2>1. /\ Issue("CONNECT", 0) /\ result' = "none" /\ replies' = <<>>
        /\ \A i \in DOMAIN requests' : requests'[i].cmd = "INVALID"
    <3>1. stale' = (replies' # <<>>)
      BY <1>2 DEF Start
    <3>2. replies' = <<>>
      BY <3>1, Zenon
    <3>3. requests' = <<[cmd |-> "INVALID", addr |-> 0, data |-> Erased]>> \/ requests' = <<>>
      BY <1>2 DEF Start
    <3>4. \A i \in DOMAIN requests' : requests'[i].cmd = "INVALID"
      BY <3>3
    <3>5. Issue("CONNECT", 0) /\ result' = "none"
      BY <1>2 DEF Start
    <3> QED BY <3>2, <3>4, <3>5
  <2>2. phase' = "CONNECT" BY <2>1 DEF Issue
  <2>3. DOMAIN replies' = {} BY <2>1
  <2> QED BY <2>1, <2>2, <2>3
          DEF CleanInv, EarlyInv, FreshInv, OrderInv, SoFarInv, DoneInv, NoReads, IsRead, IsWrite
<1>3. CASE ~Start
  <2>1. ~stale /\ CleanInv
    <3>1. stale' = stale
      BY <1>3 DEF HNext, Write, DropPrimed, Receive, Timeout, Kill, command_dispatch,
                  command_write_block, command_eof, command_read_block, command_complete,
                  command_other, Answer, complete_task, PowerLoss, Restart, LoseRequest,
                  DamageRequest, LoseReply, DamageReply, Fault, device, hvars
    <3> QED BY <3>1 DEF VerifyInv
  <2>2. CASE Write
    <3>1. /\ phase # "idle" /\ UNCHANGED <<phase, block, image, matches, result, replies, device>>
      BY <2>2 DEF Write
    <3>2. flash' = flash BY <3>1 DEF device
    <3> DEFINE x == [cmd |-> phase, addr |-> block, data |-> image[block + 1]]
    <3>3. CASE requests' = requests
      <4>1. Kept(replies', replies) BY <3>1 DEF Kept
      <4> QED BY <1>1, <2>1, <3>1, <3>2, <3>3, <4>1, LinkOnlyStep
    <3>4. CASE requests' = Append(requests, x)
      <4>1. /\ Len(requests) \in Nat /\ DOMAIN requests = 1 .. Len(requests)
            /\ DOMAIN requests' = 1 .. Len(requests) + 1 /\ requests'[Len(requests) + 1] = x
            /\ \A j \in 1 .. Len(requests) : requests'[j] = requests[j]
        BY <1>1, <3>4 DEF LinkOK
      <4>2. x.cmd = phase OBVIOUS
      <4> HIDE DEF x
      <4>3. \A i \in DOMAIN requests' : i \in DOMAIN requests \/ requests'[i].cmd = phase
        BY <4>1, <4>2
      <4>4. CASE phase \in {"CONNECT", "GET_CANBUS_ID", "SEND_BLOCK", "SEND_EOF"}
        <5>1. NoReads BY <2>1, <4>4 DEF CleanInv, EarlyInv
        <5>2. NoReads' BY <3>1, <4>1, <4>3, <4>4, <5>1 DEF NoReads, IsRead
        <5>3. result' \notin {"verified", "ok"} BY <2>1, <3>1, <4>4 DEF CleanInv, DoneInv
        <5> QED BY <3>1, <4>4, <5>2, <5>3
                DEF CleanInv, EarlyInv, FreshInv, OrderInv, SoFarInv, DoneInv, NoReads
      <4>5. CASE phase \in {"REQUEST_BLOCK", "COMPLETE"}
        <5>1. ~IsWrite(requests'[Len(requests) + 1]) BY <4>1, <4>2, <4>5 DEF IsWrite
        <5>2. NoWrites => NoWrites' BY <4>1, <5>1 DEF NoWrites
        <5>3. OrderInv'
          <6> SUFFICES ASSUME NEW i \in DOMAIN requests', NEW j \in DOMAIN requests', i < j,
                              IsRead(requests'[i])
                       PROVE  ~IsWrite(requests'[j])
            BY DEF OrderInv, IsRead, IsWrite
          <6>1. CASE j = Len(requests) + 1 BY <5>1, <6>1
          <6>2. CASE j \in 1 .. Len(requests)
            <7>1. i \in 1 .. Len(requests) BY <4>1, <6>2
            <7> QED BY <2>1, <4>1, <6>2, <7>1 DEF CleanInv, OrderInv
          <6> QED BY <4>1, <6>1, <6>2
        <5>4. FreshInv' BY <2>1, <3>1, <3>2, <5>2 DEF CleanInv, FreshInv
        <5>5. SoFarInv' BY <2>1, <3>1, <3>2, <5>2 DEF CleanInv, SoFarInv
        <5>6. DoneInv' BY <2>1, <3>1, <3>2, <5>2 DEF CleanInv, DoneInv, Flashed
        <5> QED BY <3>1, <4>5, <5>3, <5>4, <5>5, <5>6 DEF CleanInv, EarlyInv
      <4> QED BY <1>1, <3>1, <4>4, <4>5 DEF ToolOK, Commands
    <3> QED BY <2>2, <3>3, <3>4 DEF Write
  <2>3. CASE DropPrimed
    <3>1. /\ replies # <<>> /\ replies' = Tail(replies)
          /\ UNCHANGED <<phase, block, image, matches, result, requests, device>>
      BY <2>3 DEF DropPrimed
    <3>2. Kept(replies', replies) BY <1>1, <3>1, TailFacts DEF LinkOK, Kept
    <3> QED BY <1>1, <2>1, <3>1, <3>2, LinkOnlyStep DEF device
  <2>4. CASE Receive
    <3>1. replies # <<>> /\ UNCHANGED <<image, requests, device>> BY <2>4 DEF Receive
    <3>2. flash' = flash BY <3>1 DEF device
    <3>3. CASE Head(replies).ack # phase
      <4>1. Retry(Tail(replies)) BY <2>4, <3>3 DEF Receive
      <4>2. replies' \in Suffixes(Tail(replies)) BY <4>1 DEF Retry
      <4>3. Tail(replies) \in Seq(Replies) /\ \A i \in DOMAIN Tail(replies) :
               i + 1 \in DOMAIN replies /\ Tail(replies)[i] = replies[i + 1]
        BY <1>1, <3>1, TailFacts DEF LinkOK
      <4>4. \A i \in DOMAIN replies' : \E j \in DOMAIN Tail(replies) : replies'[i] = Tail(replies)[j]
        BY <4>2, <4>3, SuffixFacts
      <4>5. Kept(replies', replies) BY <4>3, <4>4 DEF Kept
      <4> QED BY <1>1, <2>1, <3>1, <3>2, <4>1, <4>5, RetryClean
    <3>4. CASE Head(replies).ack = phase
      <4>1. /\ \/ connect_btl \/ verify_canbus_uuid \/ send_file(Head(replies))
               \/ verify_file(Head(replies)) \/ finish
            /\ replies' = Tail(replies)
        BY <2>4, <3>4 DEF Receive
      <4> QED BY <1>1, <2>1, <3>1, <3>2, <3>4, <4>1, TakenClean
    <3> QED BY <3>3, <3>4
  <2>5. CASE Timeout
    <3>1. Retry(replies) /\ UNCHANGED <<image, requests, device>> BY <2>5 DEF Timeout
    <3>2. replies' \in Suffixes(replies) /\ replies \in Seq(Replies) BY <1>1, <3>1 DEF Retry, LinkOK
    <3>3. Kept(replies', replies) BY <3>2, SuffixFacts DEF Kept
    <3> QED BY <1>1, <2>1, <3>1, <3>3, RetryClean DEF device
  <2>6. CASE Kill
    <3>1. /\ phase' = "idle" /\ result' = "killed"
          /\ UNCHANGED <<requests, replies, device>>
      BY <2>6 DEF Kill
    <3>2. FreshInv' /\ OrderInv'
      BY <2>1, <3>1 DEF CleanInv, FreshInv, OrderInv, NoWrites, device
    <3> QED BY <3>1, <3>2 DEF CleanInv, EarlyInv, SoFarInv, DoneInv
  <2>7. CASE command_dispatch
    BY <1>1, <2>1, <2>7, DispatchClean
  <2>8. CASE complete_task
    <3>1. /\ requests' = <<>> /\ UNCHANGED <<host, replies, flash>>
      BY <2>8 DEF complete_task, Restart
    <3>2. Kept(replies', replies) BY <3>1 DEF Kept
    <3> QED BY <1>1, <2>1, <3>1, <3>2, LinkOnlyStep DEF host
  <2>9. CASE PowerLoss
    <3>1. requests' = <<>> /\ UNCHANGED <<host, replies>> BY <2>9 DEF PowerLoss, Restart
    <3>2. Kept(replies', replies) BY <3>1 DEF Kept
    <3>3. CASE flash' = flash BY <1>1, <2>1, <3>1, <3>2, <3>3, LinkOnlyStep DEF host
    <3>4. CASE requests # <<>> /\ IsWrite(Head(requests))
      BY <1>1, <2>1, <3>1, <3>2, <3>4, WriteStep DEF host
    <3> QED BY <2>9, <3>3, <3>4 DEF PowerLoss, IsWrite
  <2>10. CASE LoseRequest
    <3>1. requests # <<>> /\ requests' = Tail(requests) /\ UNCHANGED <<host, device, replies>>
      BY <2>10 DEF LoseRequest, Fault
    <3>2. Kept(replies', replies) BY <3>1 DEF Kept
    <3> QED BY <1>1, <2>1, <3>1, <3>2, LinkOnlyStep DEF host, device
  <2>11. CASE DamageRequest
    <3> DEFINE x == [ack |-> "ERROR", addr |-> 0, data |-> Erased]
    <3>1. /\ requests # <<>> /\ requests' = Tail(requests) /\ UNCHANGED <<host, device>>
          /\ replies' = Append(replies, x)
      BY <2>11 DEF DamageRequest, Fault
    <3>2. x \in Replies /\ x.ack # "REQUEST_BLOCK"
      BY BufferedFlashAssumption DEF Replies, Blocks
    <3>3. Kept(replies', replies) BY <1>1, <3>1, <3>2, AppendKept
    <3> QED BY <1>1, <2>1, <3>1, <3>3, LinkOnlyStep DEF host, device
  <2>12. CASE LoseReply
    <3>1. /\ replies # <<>> /\ replies' = Tail(replies) /\ requests' = requests
          /\ UNCHANGED <<host, device>>
      BY <2>12 DEF LoseReply, Fault
    <3>2. Kept(replies', replies) BY <1>1, <3>1, TailFacts DEF LinkOK, Kept
    <3> QED BY <1>1, <2>1, <3>1, <3>2, LinkOnlyStep DEF host, device
  <2>13. CASE DamageReply
    <3> DEFINE x == [ack |-> "ERROR", addr |-> 0, data |-> Erased]
    <3>1. /\ replies # <<>> /\ replies' = <<x>> \o Tail(replies) /\ requests' = requests
          /\ UNCHANGED <<host, device>>
      BY <2>13 DEF DamageReply, Fault
    <3>2. Kept(replies', replies)
      <4> SUFFICES ASSUME NEW i \in DOMAIN replies', replies'[i].ack = "REQUEST_BLOCK"
                   PROVE  \E j \in DOMAIN replies : replies'[i] = replies[j]
        BY DEF Kept
      <4>1. /\ DOMAIN replies' = 1 .. Len(replies) /\ replies'[1] = x
            /\ \A j \in 2 .. Len(replies) : replies'[j] = Tail(replies)[j - 1]
        BY <1>1, <3>1 DEF LinkOK
      <4>2. /\ DOMAIN replies = 1 .. Len(replies) /\ Len(replies) \in Nat
            /\ DOMAIN Tail(replies) = 1 .. Len(replies) - 1
            /\ \A j \in DOMAIN Tail(replies) : Tail(replies)[j] = replies[j + 1]
        BY <1>1, <3>1, TailFacts DEF LinkOK
      <4>3. i # 1 BY <4>1
      <4>4. i \in 2 .. Len(replies) /\ i - 1 \in DOMAIN Tail(replies) /\ (i - 1) + 1 = i
        BY <4>1, <4>2, <4>3
      <4>5. replies'[i] = replies[i] BY <4>1, <4>2, <4>4
      <4> QED BY <4>2, <4>4, <4>5
    <3> QED BY <1>1, <2>1, <3>1, <3>2, LinkOnlyStep DEF host, device
  <2>14. CASE UNCHANGED hvars
    <3>1. UNCHANGED <<phase, block, image, matches, result, requests, replies, flash>>
      BY <2>14 DEF hvars, host, device
    <3>2. Kept(replies', replies) BY <3>1 DEF Kept
    <3> QED BY <1>1, <2>1, <3>1, <3>2, LinkOnlyStep
  <2> QED BY <1>3, <2>2, <2>3, <2>4, <2>5, <2>6, <2>7, <2>8, <2>9, <2>10, <2>11, <2>12, <2>13,
             <2>14 DEF HNext
<1> QED BY <1>2, <1>3

\* When flashtool.py reports success the file is in the array: for every file,
\* backend and transport, however often the link loses, damages or delays a
\* command or an answer, a part fails or power goes, and in every run of the tool
\* that began with no answers to an earlier run still on their way.
THEOREM VerifiedIsFlashedSafe == HSpec => [](~stale => VerifiedIsFlashed)
<1>1. VerifyInv => (~stale => VerifiedIsFlashed)
  BY DEF VerifyInv, CleanInv, DoneInv, VerifiedIsFlashed
<1> QED BY <1>1, VerifyInvInit, VerifyInvStep, PTL DEF HSpec

-----------------------------------------------------------------------------
(* Durability.  The device has taken the first blocks of the file, and has *)
(* them in the array or in the RP2040's buffer, whose page goes to the     *)
(* array whole and into erased cells; SEND_BLOCK commands on their way     *)
(* repeat the last of these or carry the next.                             *)

Aligned == buffer_start_address % BufBlocks = 0

\* RP2040: what is to be programmed over is erased, or will be first.
SectorReady ==
    \/ starts_sector(buffer_start_address)
    \/ \A b \in Blocks : b >= buffer_start_address
                         /\ b \div SectorBlocks = buffer_start_address \div SectorBlocks
                            => flash[b] = Erased

\* RP2040: block c as the buffer or the array has it.
Held(c) == IF buffer_not_empty /\ c >= buffer_start_address
           THEN buffer[c - buffer_start_address] ELSE flash[c]

\* The device has taken m blocks of the file.
Taken(m) ==
    /\ backend = "stm32" => \A c \in 0 .. m - 1 : flash[c] = image[c + 1]
    /\ backend = "rp2040" /\ m > 0 =>
         /\ buffer_not_empty => m - 1 - buffer_start_address \in Indices /\ SectorReady
         /\ \A c \in 0 .. m - 1 : Held(c) = image[c + 1]

\* RP2040: the last of them are in the buffer still.
Open(m) == backend = "rp2040" /\ m > 0 => buffer_not_empty

\* A page of the buffer lies within a sector.
LEMMA PageInSector ==
    ASSUME NEW s \in Nat, s % BufBlocks = 0
    PROVE  /\ \A i \in Indices : (s + i) \div SectorBlocks = s \div SectorBlocks
           /\ starts_sector(s + BufBlocks)
              \/ (s + BufBlocks) \div SectorBlocks = s \div SectorBlocks
<1> DEFINE d == s \div SectorBlocks
           r == s % SectorBlocks
           p == SectorBlocks \div BufBlocks
           q == r \div BufBlocks
<1>1. /\ BufBlocks \in Nat \ {0} /\ SectorBlocks \in Nat \ {0} /\ SectorBlocks > BufBlocks
      /\ SectorBlocks % BufBlocks = 0
  BY BufferedFlashAssumption
<1>2. d \in Int /\ r \in 0 .. SectorBlocks - 1 /\ s = SectorBlocks * d + r
  BY <1>1, DivMod
<1>3. r % BufBlocks = 0
  <2>1. s \in Int OBVIOUS
  <2>2. (s % SectorBlocks) % BufBlocks = s % BufBlocks BY <1>1, <2>1, ModMod, Zenon
  <2> QED BY <2>2
<1>4. p \in Int /\ SectorBlocks = BufBlocks * p + 0 BY <1>1, DivMod
<1> HIDE DEF d, r, p
<1>5. q \in Int /\ r = BufBlocks * q + 0 BY <1>1, <1>2, <1>3, DivMod
<1> HIDE DEF q
<1>6. r + BufBlocks <= SectorBlocks
  <2> SUFFICES ASSUME r + BufBlocks > SectorBlocks PROVE FALSE
    BY <1>1, <1>2
  <2>1. /\ BufBlocks * (p - q) = BufBlocks * p - BufBlocks * q
        /\ BufBlocks * p \in Int /\ BufBlocks * q \in Int
    BY <1>1, <1>4, <1>5, MulDistr
  <2>2. BufBlocks * (p - q) = SectorBlocks - r BY <1>1, <1>2, <1>4, <1>5, <2>1
  <2>3. p - q = 0 BY <1>1, <1>2, <1>4, <1>5, <2>2, NoMultipleBetween
  <2>4. BufBlocks * (p - q) = 0 BY <2>3, <1>1
  <2> QED BY <1>1, <1>2, <2>2, <2>4
<1>7. ASSUME NEW i \in 0 .. BufBlocks, r + i < SectorBlocks
      PROVE  (s + i) \div SectorBlocks = d
  <2>1. SectorBlocks * d \in Int BY <1>1, <1>2, MulDistr
  <2>2. s + i = SectorBlocks * d + (r + i) /\ r + i \in 0 .. SectorBlocks - 1 /\ s + i \in Int
    BY <1>1, <1>2, <1>7, <2>1
  <2> QED BY <1>1, <1>2, <2>2, ModUnique
<1>8. \A i \in Indices : (s + i) \div SectorBlocks = d
  <2> TAKE i \in Indices
  <2>1. i \in 0 .. BufBlocks /\ r + i < SectorBlocks BY <1>1, <1>2, <1>6 DEF Indices
  <2> QED BY <1>7, <2>1
<1>9. CASE r + BufBlocks = SectorBlocks
  <2>1. SectorBlocks * (d + 1) = SectorBlocks * d + SectorBlocks * 1 /\ SectorBlocks * d \in Int
    BY <1>1, <1>2, MulDistr
  <2>2. /\ s + BufBlocks = SectorBlocks * (d + 1) + 0 /\ s + BufBlocks \in Int
        /\ d + 1 \in Int /\ 0 \in 0 .. SectorBlocks - 1
    BY <1>1, <1>2, <1>9, <2>1
  <2>3. (s + BufBlocks) % SectorBlocks = 0 BY <1>1, <2>2, ModUnique, Zenon
  <2> QED BY <1>8, <2>3 DEF starts_sector, d
<1>10. CASE r + BufBlocks < SectorBlocks
  <2>1. (s + BufBlocks) \div SectorBlocks = d
    <3>1. BufBlocks \in 0 .. BufBlocks BY <1>1
    <3> QED BY <1>7, <1>10, <3>1
  <2> QED BY <1>8, <2>1 DEF d
<1> QED BY <1>1, <1>2, <1>6, <1>9, <1>10

\* Erasing a sector from its start leaves what is below it.
LEMMA BelowSector ==
    ASSUME NEW a \in Nat, NEW c \in Nat, c < a, starts_sector(a)
    PROVE  c \div SectorBlocks # a \div SectorBlocks
<1> DEFINE d == a \div SectorBlocks
<1>1. SectorBlocks \in Nat \ {0} BY BufferedFlashAssumption
<1>2. d \in Int /\ a = SectorBlocks * d + 0 BY <1>1, DivMod DEF starts_sector
<1>3. SectorBlocks * d \in Int BY <1>1, <1>2, MulDistr
<1> HIDE DEF d
<1>4. ~(d <= c \div SectorBlocks) BY <1>1, <1>2, <1>3, DivGalois
<1>5. c \div SectorBlocks \in Int BY <1>1
<1> QED BY <1>2, <1>4, <1>5 DEF d

LEMMA SectorStart == starts_sector(0)
<1>1. SectorBlocks \in Nat \ {0} /\ 0 \in Int /\ 0 \in 0 .. SectorBlocks - 1
  BY BufferedFlashAssumption
<1>2. 0 % SectorBlocks = 0 BY <1>1, ModSmall, Zenon
<1> QED BY <1>2 DEF starts_sector

\* A block that starts no sector is in the sector of the block before it.
LEMMA WithinSector ==
    ASSUME NEW a \in Nat, ~starts_sector(a)
    PROVE  a > 0 /\ (a - 1) \div SectorBlocks = a \div SectorBlocks
<1> DEFINE d == a \div SectorBlocks
           r == a % SectorBlocks
<1>1. SectorBlocks \in Nat \ {0} BY BufferedFlashAssumption
<1>2. d \in Int /\ r \in 0 .. SectorBlocks - 1 /\ a = SectorBlocks * d + r
  BY <1>1, DivMod
<1>3. r # 0 BY DEF starts_sector
<1>4. a # 0
  <2>1. 0 \in Int /\ 0 \in 0 .. SectorBlocks - 1 BY <1>1
  <2>2. 0 % SectorBlocks = 0 BY <1>1, <2>1, ModSmall, Zenon
  <2> QED BY <2>2 DEF starts_sector
<1>5. SectorBlocks * d \in Int BY <1>1, <1>2, MulDistr
<1> HIDE DEF d, r
<1> DEFINE k == r - 1
<1>6. a - 1 = SectorBlocks * d + k /\ a - 1 \in Int /\ k \in 0 .. SectorBlocks - 1
  BY <1>1, <1>2, <1>3, <1>5
<1> HIDE DEF k
<1>7. (a - 1) \div SectorBlocks = d BY <1>1, <1>2, <1>6, ModUnique
<1> QED BY <1>4, <1>7 DEF d

\* An aligned buffer has a block at the block's index in its page.
LEMMA AlignedIndex ==
    ASSUME NEW s \in Nat, s % BufBlocks = 0, NEW a \in Nat, a - s \in Indices
    PROVE  buf_idx(a) = a - s
<1> DEFINE q == s \div BufBlocks
<1>1. BufBlocks \in Nat \ {0} BY BufferedFlashAssumption
<1>2. q \in Int /\ s = BufBlocks * q + 0 BY <1>1, DivMod
<1>3. BufBlocks * q \in Int BY <1>1, <1>2, MulDistr
<1> HIDE DEF q
<1> DEFINE k == a - s
<1>4. a = BufBlocks * q + k /\ a \in Int BY <1>2, <1>3
<1>5. k \in 0 .. BufBlocks - 1 BY DEF Indices
<1> HIDE DEF k
<1>6. a % BufBlocks = k BY <1>1, <1>2, <1>4, <1>5, ModUnique
<1> QED BY <1>6 DEF buf_idx, k

LEMMA AlignedStart ==
    ASSUME NEW a \in Nat
    PROVE  (a - buf_idx(a)) % BufBlocks = 0
<1> DEFINE q == a \div BufBlocks
           r == a % BufBlocks
<1>1. BufBlocks \in Nat \ {0} BY BufferedFlashAssumption
<1>2. q \in Int /\ r \in 0 .. BufBlocks - 1 /\ a = BufBlocks * q + r BY <1>1, DivMod
<1>3. BufBlocks * q \in Int BY <1>1, <1>2, MulDistr
<1> HIDE DEF q, r
<1>4. a - r = BufBlocks * q + 0 /\ a - r \in Int BY <1>2, <1>3
<1>5. (a - r) % BufBlocks = 0 BY <1>1, <1>2, <1>4, ModUnique
<1> QED BY <1>5 DEF buf_idx, r

\* The page in the buffer goes to the array as it is, and leaves what is below it
\* and, in a sector that was erased, what is above it.
LEMMA FlushTaken ==
    ASSUME FlashTypeOK, Aligned, image \in Images, NEW m \in 1 .. Len(image),
           backend = "rp2040", Taken(m), buffer_not_empty
    PROVE  /\ \A c \in 0 .. m - 1 : Flushed(BufBlocks)[c] = image[c + 1]
           /\ \A b \in Blocks :
                 b >= buffer_start_address + BufBlocks
                 /\ b \div SectorBlocks = buffer_start_address \div SectorBlocks
                    => Flushed(BufBlocks)[b] = Erased
<1> DEFINE s == buffer_start_address
           n == Len(image)
           f == IF starts_sector(s) THEN erase_sector(flash, s) ELSE flash
<1>1. /\ s \in Blocks /\ flash \in [Blocks -> Cells] /\ buffer \in [Indices -> Data]
      /\ BufBlocks \in Nat \ {0} /\ NumBlocks \in Nat \ {0} /\ s % BufBlocks = 0
      /\ Erased \in Data
  BY BufferedFlashAssumption DEF FlashTypeOK, Cells, Aligned
<1>2. s \in Nat /\ n \in Nat /\ n <= NumBlocks /\ m \in 1 .. n
  BY <1>1, ImageFacts DEF Blocks
<1>3. m - 1 - s \in Indices /\ SectorReady /\ \A c \in 0 .. m - 1 : Held(c) = image[c + 1]
  BY <1>2 DEF Taken
<1>4. \A b \in Blocks : Flushed(BufBlocks)[b] =
         (IF b - s \in Indices THEN Programmed(f[b], buffer[b - s]) ELSE f[b])
  BY DEF Flushed, write_flash, Indices
<1>5. \A b \in Blocks : b >= s /\ b \div SectorBlocks = s \div SectorBlocks => f[b] = Erased
  BY <1>3 DEF SectorReady, erase_sector
<1>6. \A b \in Blocks : b < s => f[b] = flash[b]
  <2> SUFFICES ASSUME NEW b \in Blocks, b < s, starts_sector(s) PROVE f[b] = flash[b]
    OBVIOUS
  <2>1. b \div SectorBlocks # s \div SectorBlocks BY <1>1, <1>2, BelowSector DEF Blocks
  <2> QED BY <2>1 DEF erase_sector
<1> HIDE DEF f, n
<1>7. ASSUME NEW c \in 0 .. m - 1 PROVE Flushed(BufBlocks)[c] = image[c + 1]
  <2>1. c \in Blocks /\ c \in Nat BY <1>1, <1>2 DEF Blocks
  <2>2. CASE c >= s
    <3>1. c - s \in Indices BY <1>1, <1>2, <1>3, <2>1, <2>2 DEF Indices
    <3>2. c \div SectorBlocks = s \div SectorBlocks
      <4>1. s + (c - s) = c BY <1>2, <2>1
      <4>2. (s + (c - s)) \div SectorBlocks = s \div SectorBlocks
        BY <1>1, <1>2, <3>1, PageInSector
      <4> QED BY <4>1, <4>2
    <3>3. f[c] = Erased BY <1>5, <2>1, <2>2, <3>2
    <3>4. buffer[c - s] = image[c + 1] BY <1>3, <2>2 DEF Held
    <3> QED BY <1>4, <2>1, <3>1, <3>3, <3>4 DEF Programmed
  <2>3. CASE c < s
    <3>1. c - s \notin Indices BY <1>1, <1>2, <2>1, <2>3 DEF Indices
    <3>2. flash[c] = image[c + 1] BY <1>2, <1>3, <2>1, <2>3 DEF Held
    <3> QED BY <1>4, <1>6, <2>1, <2>3, <3>1, <3>2
  <2> QED BY <1>2, <2>1, <2>2, <2>3
<1>8. ASSUME NEW b \in Blocks, b >= s + BufBlocks, b \div SectorBlocks = s \div SectorBlocks
      PROVE  Flushed(BufBlocks)[b] = Erased
  <2>1. b >= s /\ b - s \notin Indices BY <1>1, <1>2, <1>8 DEF Indices, Blocks
  <2> QED BY <1>4, <1>5, <1>8, <2>1
<1> QED BY <1>7, <1>8

\* RP2040: block a, the last that was taken once more or the next.
LEMMA Rp2040Taken ==
    ASSUME FlashTypeOK, Aligned, image \in Images, NEW m \in 0 .. Len(image),
           backend = "rp2040", Taken(m), Open(m),
           NEW a \in 0 .. Len(image) - 1, a \in {m - 1, m},
           rp2040_flash_write_block(a, image[a + 1], 0), UNCHANGED <<backend, image>>
    PROVE  Taken(a + 1)' /\ Open(a + 1)'
<1> DEFINE s == buffer_start_address
           n == Len(image)
           d == image[a + 1]
<1>1. /\ s \in Blocks /\ flash \in [Blocks -> Cells] /\ buffer \in [Indices -> Data]
      /\ BufBlocks \in Nat \ {0} /\ NumBlocks \in Nat \ {0} /\ s % BufBlocks = 0
      /\ Erased \in Data
  BY BufferedFlashAssumption DEF FlashTypeOK, Cells, Aligned
<1>2. /\ s \in Nat /\ n \in Nat /\ n <= NumBlocks /\ m \in 0 .. n /\ a \in 0 .. n - 1
      /\ a \in Nat /\ a \in Blocks
  BY <1>1, ImageFacts DEF Blocks
<1>3. /\ ensure_buffer(a) /\ buffer' = [Opened(a) EXCEPT ![buf_idx(a)] = d]
      /\ buf_idx(a) \in Indices
  BY <1>2, BufIdxRange DEF rp2040_flash_write_block
<1>4. buffer_not_empty' = TRUE BY <1>3, Zenon DEF ensure_buffer
<1> HIDE DEF n, d
<1>5. SUFFICES /\ a - buffer_start_address' \in Indices /\ SectorReady'
               /\ \A c \in 0 .. a : Held(c)' = image[c + 1]
  <2>1. Open(a + 1)' BY <1>4 DEF Open
  <2>2. (a + 1) - 1 = a /\ a + 1 > 0 BY <1>2
  <2>3. backend' # "stm32" OBVIOUS
  <2> QED BY <1>5, <2>1, <2>2, <2>3 DEF Taken
<1>6. \A c \in 0 .. a : Held(c)' = (IF c >= buffer_start_address' THEN buffer'[c - buffer_start_address']
                                   ELSE flash'[c])
  BY <1>4 DEF Held
<1>7. CASE m = 0
  <2>1. a = 0 BY <1>2, <1>7
  <2>2. buf_idx(0) = 0
    <3>1. 0 \in Int /\ 0 \in 0 .. BufBlocks - 1 BY <1>1
    <3> QED BY <1>1, <3>1, ModSmall, Zenon DEF buf_idx
  <2>3. buffer_start_address' = 0
    <3>1. CASE buffer_not_empty /\ InBuffer(a)
      BY <1>2, <1>3, <2>1, <3>1 DEF ensure_buffer, InBuffer
    <3>2. CASE ~(buffer_not_empty /\ InBuffer(a))
      BY <1>3, <2>1, <2>2, <3>2 DEF ensure_buffer
    <3> QED BY <3>1, <3>2
  <2>4. SectorReady'
    <3>1. SectorBlocks \in Nat \ {0} /\ 0 \in Int /\ 0 \in 0 .. SectorBlocks - 1
      BY BufferedFlashAssumption
    <3>2. 0 % SectorBlocks = 0 BY <3>1, ModSmall, Zenon
    <3> QED BY <2>3, <3>2 DEF SectorReady, starts_sector
  <2>5. Opened(a) \in [Indices -> Data] BY <1>1 DEF Opened
  <2>6. buffer'[0] = d BY <1>3, <2>1, <2>2, <2>5
  <2>7. a - buffer_start_address' \in Indices BY <1>1, <2>1, <2>3 DEF Indices
  <2>8. \A c \in 0 .. a : c = 0 /\ c - buffer_start_address' = 0 BY <2>1, <2>3
  <2>9. \A c \in 0 .. a : Held(c)' = image[c + 1] BY <1>6, <2>1, <2>3, <2>6, <2>8 DEF d
  <2> QED BY <2>4, <2>7, <2>9
<1>8. CASE m > 0
  <2>1. buffer_not_empty /\ m - 1 - s \in Indices /\ SectorReady
        /\ \A c \in 0 .. m - 1 : Held(c) = image[c + 1]
    BY <1>8 DEF Taken, Open
  <2>2. CASE InBuffer(a)
    <3>1. a - s \in Indices BY <1>1, <1>2, <2>2 DEF InBuffer, Indices
    <3>2. buffer_start_address' = s /\ UNCHANGED flash /\ Opened(a) = buffer
      BY <1>3, <2>1, <2>2 DEF ensure_buffer, MustFlush, Opened
    <3>3. buf_idx(a) = a - s BY <1>1, <1>2, <3>1, AlignedIndex
    <3>4. buffer' = [buffer EXCEPT ![a - s] = d] BY <1>3, <3>2, <3>3
    <3>5. SectorReady' BY <2>1, <3>2 DEF SectorReady
    <3>6. ASSUME NEW c \in 0 .. a PROVE Held(c)' = image[c + 1]
      <4>1. CASE c = a BY <1>1, <1>2, <1>6, <3>1, <3>2, <3>4, <4>1 DEF d, Indices
      <4>2. CASE c # a
        <5>1. c \in 0 .. m - 1 /\ c - s # a - s BY <1>2, <4>2
        <5>2. Held(c) = image[c + 1] BY <2>1, <5>1
        <5>3. c >= s => c - s \in Indices BY <1>1, <1>2, <3>1, <5>1 DEF Indices
        <5>4. c >= s => buffer'[c - s] = buffer[c - s] BY <1>1, <3>4, <5>1, <5>3
        <5> QED BY <1>6, <2>1, <3>2, <5>2, <5>4 DEF Held
      <4> QED BY <4>1, <4>2
    <3> QED BY <3>1, <3>2, <3>5, <3>6
  <2>3. CASE ~InBuffer(a)
    <3>1. a = m /\ a = s + BufBlocks
      BY <1>1, <1>2, <1>8, <2>1, <2>3 DEF InBuffer, Indices
    <3>2. flash' = Flushed(BufBlocks) /\ Opened(a) = [i \in Indices |-> Erased]
      BY <1>3, <2>1, <2>3 DEF ensure_buffer, MustFlush, flush_buffer, Opened
    <3>3. buf_idx(a) = 0
      <4>1. s \in Int /\ 1 \in Int /\ a = s + BufBlocks * 1 BY <1>1, <1>2, <3>1
      <4>2. (s + BufBlocks * 1) % BufBlocks = s % BufBlocks BY <1>1, <4>1, ModShift, Zenon
      <4> QED BY <1>1, <4>1, <4>2 DEF buf_idx
    <3>4. buffer_start_address' = a BY <1>2, <1>3, <2>3, <3>3 DEF ensure_buffer
    <3>5. buffer'[0] = d BY <1>1, <1>3, <3>2, <3>3 DEF Indices
    <3>6. m \in 1 .. Len(image) BY <1>2, <1>8 DEF n
    <3>7. /\ \A c \in 0 .. m - 1 : flash'[c] = image[c + 1]
          /\ \A b \in Blocks : b >= s + BufBlocks /\ b \div SectorBlocks = s \div SectorBlocks
                => flash'[b] = Erased
      BY <2>1, <3>2, <3>6, FlushTaken
    <3>8. SectorReady'
      <4>1. starts_sector(a) \/ a \div SectorBlocks = s \div SectorBlocks
        BY <1>1, <1>2, <3>1, PageInSector
      <4> QED BY <3>1, <3>4, <3>7, <4>1 DEF SectorReady
    <3>9. ASSUME NEW c \in 0 .. a PROVE Held(c)' = image[c + 1]
      <4>1. CASE c = a
        <5>1. c - buffer_start_address' = 0 /\ c >= buffer_start_address' BY <1>2, <3>4, <4>1
        <5> QED BY <1>6, <3>5, <4>1, <5>1 DEF d
      <4>2. CASE c # a
        <5>1. c \in 0 .. m - 1 /\ ~(c >= a) BY <1>2, <3>1, <4>2
        <5> QED BY <1>6, <3>4, <3>7, <5>1
      <4> QED BY <4>1, <4>2
    <3>10. a - buffer_start_address' \in Indices BY <1>1, <1>2, <3>4 DEF Indices
    <3> QED BY <3>8, <3>9, <3>10
  <2> QED BY <2>2, <2>3
<1> QED BY <1>2, <1>7, <1>8

\* STM32: a write leaves the blocks below it alone, and a block that is there
\* already is acknowledged.
LEMMA Stm32Writes ==
    ASSUME flash \in [Blocks -> Cells], NEW a \in Blocks, NEW d \in Data, NEW ret,
           stm32_flash_write_block(a, d, ret)
    PROVE  /\ \A c \in Blocks : c < a => flash'[c] = flash[c]
           /\ ret = 0 => flash'[a] = d
           /\ flash[a] = d => ret = 0
<1>1. a \in Nat /\ \A c \in Blocks : c \in Nat BY BufferedFlashAssumption DEF Blocks
<1>2. CASE /\ UNCHANGED flash
           /\ \/ stm32_retransmit(a, d) /\ ret = 0
              \/ stm32_refused(a, d) /\ ret = -2
  <2>1. stm32_retransmit(a, d) => flash[a] = d BY DEF stm32_retransmit
  <2>2. stm32_refused(a, d) => flash[a] # d BY DEF stm32_refused
  <2> QED BY <1>2, <2>1, <2>2
<1>3. CASE stm32_write(a, d, ret)
  <2> DEFINE f == stm32_cleared(a)
  <2>1. PICK v \in stm32_programmed(f[a], d) :
           flash' = [f EXCEPT ![a] = v] /\ ret = IF v = d THEN 0 ELSE -3
    BY <1>3 DEF stm32_write
  <2>2. f \in [Blocks -> Cells] BY EraseType DEF stm32_cleared
  <2>3. flash'[a] = v /\ \A c \in Blocks : c # a => flash'[c] = f[c] BY <2>1, <2>2
  <2>4. ASSUME NEW c \in Blocks, c < a PROVE f[c] = flash[c]
    <3>1. starts_sector(a) => c \div SectorBlocks # a \div SectorBlocks
      BY <1>1, <2>4, BelowSector
    <3> QED BY <3>1 DEF stm32_cleared, erase_sector
  <2>5. ASSUME flash[a] = d PROVE v = d
    <3>1. f[a] \in {Erased, d} BY <2>5 DEF stm32_cleared, erase_sector
    <3> QED BY <3>1 DEF stm32_programmed
  <2> HIDE DEF f
  <2>6. \A c \in Blocks : c < a => c # a BY <1>1
  <2>7. v = d => ret = 0 BY <2>1
  <2>8. ret = 0 => v = d BY <2>1
  <2> QED BY <2>3, <2>4, <2>5, <2>6, <2>7, <2>8
<1> QED BY <1>2, <1>3 DEF stm32_flash_write_block

\* STM32: what was taken stays, and the block is taken when it is acknowledged.
LEMMA Stm32Taken ==
    ASSUME FlashTypeOK, image \in Images, NEW m \in 0 .. Len(image),
           backend = "stm32", Taken(m),
           NEW a \in 0 .. Len(image) - 1, a \in {m - 1, m}, NEW ret,
           stm32_flash_write_block(a, image[a + 1], ret), UNCHANGED <<backend, image>>
    PROVE  /\ ret = 0 => Taken(a + 1)' /\ Open(a + 1)'
           /\ ret # 0 => Taken(m)'
<1> DEFINE n == Len(image)
<1>1. /\ n \in Nat /\ n <= NumBlocks /\ NumBlocks \in Nat
      /\ m \in 0 .. n /\ a \in 0 .. n - 1 /\ a \in Nat /\ a \in Blocks
      /\ image[a + 1] \in Data
  BY ImageFacts, BufferedFlashAssumption DEF Blocks
<1>2. flash \in [Blocks -> Cells] BY DEF FlashTypeOK, Cells
<1>3. /\ \A c \in Blocks : c < a => flash'[c] = flash[c]
      /\ ret = 0 => flash'[a] = image[a + 1]
      /\ flash[a] = image[a + 1] => ret = 0
  BY <1>1, <1>2, Stm32Writes
<1>4. \A c \in 0 .. m - 1 : flash[c] = image[c + 1] BY DEF Taken
<1> HIDE DEF n
<1>5. ASSUME NEW c \in 0 .. a - 1 PROVE flash'[c] = image[c + 1]
  <2>1. c \in Blocks /\ c < a /\ c \in 0 .. m - 1 BY <1>1 DEF Blocks
  <2> QED BY <1>3, <1>4, <2>1
<1>6. ASSUME ret = 0, NEW c \in 0 .. (a + 1) - 1 PROVE flash'[c] = image[c + 1]
  <2>1. c = a \/ c \in 0 .. a - 1 BY <1>1
  <2> QED BY <1>3, <1>5, <1>6, <2>1
<1>7. ASSUME ret # 0, NEW c \in 0 .. m - 1 PROVE flash'[c] = image[c + 1]
  <2>1. a # m - 1
    <3>1. a = m - 1 => a \in 0 .. m - 1 BY <1>1
    <3> QED BY <1>3, <1>4, <1>7, <3>1
  <2>2. c \in 0 .. a - 1 BY <1>1, <2>1
  <2> QED BY <1>5, <2>2
<1> QED BY <1>6, <1>7 DEF Taken, Open

\* flash_complete() leaves the file in the array when all of it was taken.
LEMMA CompleteTaken ==
    ASSUME FlashTypeOK, Aligned, image \in Images, backend # "lpc176x", Taken(Len(image)),
           NEW ret, NEW hw, flash_complete(ret, hw), UNCHANGED <<backend, image>>
    PROVE  /\ ret = 0 /\ Taken(Len(image))' /\ Flashed'
           /\ backend' = "rp2040" => ~buffer_not_empty'
<1> DEFINE n == Len(image)
<1>1. n \in Nat \ {0} /\ DOMAIN image = 1 .. n
  BY ImageFacts, LenProperties
<1>2. \A i \in DOMAIN image : i - 1 \in 0 .. n - 1 /\ (i - 1) + 1 = i BY <1>1
<1>3. (\A c \in 0 .. n - 1 : flash'[c] = image[c + 1]) => Flashed'
  BY <1>2 DEF Flashed
<1>4. CASE backend = "stm32"
  <2>1. ret = 0 /\ UNCHANGED <<flash, ram>> BY <1>4 DEF flash_complete
  <2>2. Taken(n)' BY <1>4, <2>1 DEF Taken, n
  <2>3. \A c \in 0 .. n - 1 : flash'[c] = image[c + 1] BY <1>4, <2>2 DEF Taken
  <2> QED BY <1>3, <1>4, <2>1, <2>2, <2>3 DEF n
<1>5. CASE backend = "rp2040"
  <2>1. rp2040_flash_complete(ret) BY <1>5 DEF flash_complete
  <2>2. ret = 0 /\ ~buffer_not_empty'
    BY <2>1, Zenon DEF rp2040_flash_complete
  <2>3. \A c \in 0 .. n - 1 : flash'[c] = image[c + 1]
    <3>1. CASE buffer_not_empty
      <4>1. n \in 1 .. Len(image) BY <1>1
      <4>2. \A c \in 0 .. n - 1 : Flushed(BufBlocks)[c] = image[c + 1]
        BY <1>5, <3>1, <4>1, FlushTaken
      <4>3. flash' = Flushed(BufBlocks)
        BY <2>1, <3>1 DEF rp2040_flash_complete, flush_buffer
      <4> QED BY <4>2, <4>3
    <3>2. CASE ~buffer_not_empty
      <4>1. flash' = flash BY <2>1, <3>2 DEF rp2040_flash_complete
      <4> QED BY <1>1, <1>5, <3>2, <4>1 DEF Taken, Held
    <3> QED BY <3>1, <3>2
  <2>4. Taken(n)' BY <1>5, <2>2, <2>3 DEF Taken, Held
  <2> QED BY <1>3, <2>2, <2>3, <2>4
<1> QED BY <1>4, <1>5 DEF FlashTypeOK, Backends

IsBlock(r) == r.cmd = "SEND_BLOCK"
IsEof(r) == r.cmd = "SEND_EOF"
NoBlocks == \A i \in DOMAIN requests : ~IsBlock(requests[i])
NoEofs == /\ \A i \in DOMAIN requests : ~IsEof(requests[i])
          /\ \A i \in DOMAIN replies : replies[i].ack # "SEND_EOF"

\* The file is in the array, and nothing is on its way that could change that.
EofDone == Flashed /\ NoBlocks /\ (backend = "rp2040" => ~buffer_not_empty)

\* Block a of the file is the last of m that were taken, or the next.
Due(m, a) == a \in {m - 1, m} /\ a \in 0 .. Len(image) - 1 /\ Open(m)

BlocksInv(m) == \A i \in DOMAIN requests : IsBlock(requests[i]) =>
                   /\ Due(m, requests[i].addr)
                   /\ requests[i].data = image[requests[i].addr + 1]
InOrderInv == \A i, j \in DOMAIN requests : i < j /\ IsBlock(requests[j]) =>
                 /\ ~IsEof(requests[i])
                 /\ IsBlock(requests[i]) => requests[i].addr <= requests[j].addr
EofInv(m) == \A i \in DOMAIN requests : IsEof(requests[i]) => m = Len(image)
AcksInv(m) == \A i \in DOMAIN replies :
                 /\ replies[i].ack = "SEND_BLOCK" => replies[i].addr < m
                 /\ replies[i].ack = "SEND_EOF" => EofDone

\* The commands and answers on their way.
WireInv(m) == BlocksInv(m) /\ InOrderInv /\ EofInv(m) /\ AcksInv(m)

\* Where the tool is.
ToolInv(m) ==
    /\ phase \in {"CONNECT", "GET_CANBUS_ID"} => m = 0 /\ NoBlocks
    /\ phase \in {"CONNECT", "GET_CANBUS_ID", "SEND_BLOCK"} => NoEofs
    /\ phase = "SEND_BLOCK" =>
         /\ Due(m, block)
         /\ \A i \in DOMAIN requests : IsBlock(requests[i]) => requests[i].addr <= block
    /\ phase = "SEND_EOF" => m = Len(image)
    /\ phase = "REQUEST_BLOCK" => EofDone

Progress(m) == Taken(m) /\ WireInv(m) /\ ToolInv(m)

DurInv == /\ HostInv /\ Aligned
          /\ Undisturbed /\ backend # "lpc176x" => \E m \in 0 .. Len(image) : Progress(m)

\* The acknowledgements of writes among new are among old.
KeptAcks(new, old) == \A i \in DOMAIN new : new[i].ack \in {"SEND_BLOCK", "SEND_EOF"}
                         => \E j \in DOMAIN old : new[i] = old[j]

\* Nothing is added to the link.
LEMMA WireLess ==
    ASSUME LinkOK, NEW m, WireInv(m), UNCHANGED <<backend, image>>, Open(m) => Open(m)',
           NoBlocks => UNCHANGED <<flash, ram>>, KeptAcks(replies', replies),
           requests' = requests \/ (requests # <<>> /\ requests' = Tail(requests))
    PROVE  /\ WireInv(m)' /\ (NoBlocks => NoBlocks') /\ (NoEofs => NoEofs') /\ (EofDone => EofDone')
           /\ \A i \in DOMAIN requests' : \E j \in DOMAIN requests : requests'[i] = requests[j]
<1>1. PICK k \in 0 .. 1 : \A i \in DOMAIN requests' :
         i \in Int /\ i + k \in DOMAIN requests /\ requests'[i] = requests[i + k]
  <2>1. CASE requests' = requests
    <3>1. \A i \in DOMAIN requests' :
             i \in Int /\ i + 0 \in DOMAIN requests /\ requests'[i] = requests[i + 0]
      BY <2>1, LenProperties DEF LinkOK
    <3> QED BY <3>1
  <2>2. CASE requests # <<>> /\ requests' = Tail(requests)
    <3>1. \A i \in DOMAIN requests' :
             i \in Int /\ i + 1 \in DOMAIN requests /\ requests'[i] = requests[i + 1]
      BY <2>2, TailFacts DEF LinkOK
    <3> QED BY <3>1
  <2> QED BY <2>1, <2>2
<1>2. \A i \in DOMAIN requests' : \E j \in DOMAIN requests : requests'[i] = requests[j]
  BY <1>1
<1>3. NoBlocks => NoBlocks' BY <1>2 DEF NoBlocks
<1>4. EofDone => EofDone' BY <1>3 DEF EofDone, Flashed, ram
<1>5. NoEofs => NoEofs' BY <1>2 DEF NoEofs, KeptAcks
<1>6. BlocksInv(m)'
  BY <1>2 DEF WireInv, BlocksInv, Due
<1>7. EofInv(m)' BY <1>2 DEF WireInv, EofInv
<1>8. AcksInv(m)' BY <1>4 DEF WireInv, AcksInv, KeptAcks
<1>9. InOrderInv'
  <2> SUFFICES ASSUME NEW i \in DOMAIN requests', NEW j \in DOMAIN requests', i < j,
                      IsBlock(requests'[j])
               PROVE  /\ ~IsEof(requests'[i])
                      /\ IsBlock(requests'[i]) => requests'[i].addr <= requests'[j].addr
    BY DEF InOrderInv, IsBlock, IsEof
  <2>1. i + k < j + k BY <1>1
  <2> QED BY <1>1, <2>1 DEF WireInv, InOrderInv
<1> QED BY <1>2, <1>3, <1>4, <1>5, <1>6, <1>7, <1>8, <1>9 DEF WireInv

LEMMA WireStep ==
    ASSUME LinkOK, NEW m, WireInv(m), UNCHANGED <<backend, flash, ram, image>>,
           KeptAcks(replies', replies),
           requests' = requests \/ (requests # <<>> /\ requests' = Tail(requests))
    PROVE  /\ WireInv(m)' /\ (NoBlocks => NoBlocks') /\ (NoEofs => NoEofs') /\ (EofDone => EofDone')
           /\ \A i \in DOMAIN requests' : \E j \in DOMAIN requests : requests'[i] = requests[j]
<1>1. Open(m) => Open(m)' BY DEF Open, ram
<1> QED BY <1>1, WireLess

LEMMA TakenSame ==
    ASSUME NEW m, Taken(m), UNCHANGED <<backend, flash, ram, image>>
    PROVE  Taken(m)'
BY DEF Taken, Held, SectorReady, ram

\* The same for a step that leaves the tool alone.
LEMMA WireOnlyStep ==
    ASSUME LinkOK, NEW m, Progress(m), UNCHANGED <<backend, flash, ram, image, phase, block>>,
           KeptAcks(replies', replies),
           requests' = requests \/ (requests # <<>> /\ requests' = Tail(requests))
    PROVE  Progress(m)'
<1>1. /\ WireInv(m)' /\ (NoBlocks => NoBlocks') /\ (NoEofs => NoEofs') /\ (EofDone => EofDone')
      /\ \A i \in DOMAIN requests' : \E j \in DOMAIN requests : requests'[i] = requests[j]
  BY WireStep DEF Progress
<1>2. Taken(m)' BY TakenSame DEF Progress
<1>3. ToolInv(m)'
  <2>1. Due(m, block) => Due(m, block)' BY DEF Due, Open, ram
  <2>2. phase' = "SEND_BLOCK" =>
           \A i \in DOMAIN requests' : IsBlock(requests'[i]) => requests'[i].addr <= block'
    BY <1>1 DEF Progress, ToolInv
  <2> QED BY <1>1, <2>1, <2>2 DEF Progress, ToolInv
<1> QED BY <1>1, <1>2, <1>3 DEF Progress

\* The tool gives up.
LEMMA RaiseProgress ==
    ASSUME NEW m, Taken(m)', WireInv(m)', Raise
    PROVE  Progress(m)'
<1>1. phase' \in {"COMPLETE", "idle"} BY DEF Raise, Issue
<1> QED BY <1>1 DEF Progress, ToolInv

LEMMA RetryProgress ==
    ASSUME LinkOK, NEW m, Progress(m), NEW left, Retry(left), KeptAcks(replies', replies),
           UNCHANGED <<backend, flash, ram, image, requests>>
    PROVE  Progress(m)'
<1>1. Taken(m)' /\ WireInv(m)' BY TakenSame, WireStep DEF Progress
<1>2. CASE Raise BY <1>1, <1>2, RaiseProgress
<1>3. CASE UNCHANGED <<phase, block>> BY <1>3, WireOnlyStep
<1> QED BY <1>2, <1>3 DEF Retry

\* The tool takes an answer to the command it is at.
LEMMA AnswerProgress ==
    ASSUME LinkOK, ToolOK, NEW m \in 0 .. Len(image), Progress(m), replies # <<>>, NEW r,
           r = Head(replies), r.ack = phase,
           connect_btl \/ verify_canbus_uuid \/ send_file(r) \/ verify_file(r) \/ finish,
           replies' = Tail(replies), UNCHANGED <<backend, flash, ram, image, requests>>
    PROVE  Progress(m)'
<1> DEFINE n == Len(image)
<1>1. /\ KeptAcks(replies', replies) /\ r = replies[1] /\ 1 \in DOMAIN replies
  BY TailFacts DEF LinkOK, KeptAcks
<1>2. /\ WireInv(m)' /\ (NoBlocks => NoBlocks') /\ (NoEofs => NoEofs') /\ (EofDone => EofDone')
      /\ Taken(m)'
  BY <1>1, TakenSame, WireStep DEF Progress
<1>3. n \in Nat \ {0} /\ m \in 0 .. n /\ block \in 0 .. n - 1
  BY ImageFacts DEF ToolOK
<1>4. \A b : Due(m, b)' <=> Due(m, b) BY DEF Due, Open, ram
<1>5. ASSUME Again PROVE Progress(m)'
  <2>1. CASE Raise BY <1>2, <2>1, RaiseProgress
  <2>2. CASE UNCHANGED <<phase, block>> BY <1>1, <2>2, WireOnlyStep
  <2> QED BY <1>5, <2>1, <2>2 DEF Again
<1>6. ASSUME m = 0, NoBlocks, NoEofs, Issue("GET_CANBUS_ID", 0) \/ Issue("SEND_BLOCK", 0)
      PROVE  Progress(m)'
  <2>1. phase' \in {"GET_CANBUS_ID", "SEND_BLOCK"} /\ block' = 0 BY <1>6 DEF Issue
  <2>2. Due(m, 0)
    <3>1. 0 \in {m - 1, m} /\ 0 \in 0 .. n - 1 /\ ~(m > 0) BY <1>3, <1>6
    <3> QED BY <3>1 DEF Due, Open
  <2>3. Due(m, block)' BY <2>1, <2>2 DEF Due, Open, ram
  <2>4. NoBlocks' /\ NoEofs' BY <1>2, <1>6
  <2> QED BY <1>2, <1>6, <2>1, <2>3, <2>4 DEF Progress, ToolInv, NoBlocks
<1>7. CASE connect_btl
  <2>1. phase = "CONNECT" /\ (Issue("GET_CANBUS_ID", 0) \/ Issue("SEND_BLOCK", 0))
    BY <1>7 DEF connect_btl
  <2> QED BY <1>6, <2>1 DEF Progress, ToolInv
<1>8. CASE verify_canbus_uuid
  <2>1. phase = "GET_CANBUS_ID" /\ Issue("SEND_BLOCK", 0)
    BY <1>8 DEF verify_canbus_uuid
  <2> QED BY <1>6, <2>1 DEF Progress, ToolInv
<1>9. CASE phase = "SEND_BLOCK" /\ send_file(r)
  <2>1. CASE ~SameAddress(r)
    <3>1. Again BY <1>9, <2>1 DEF send_file
    <3> QED BY <1>5, <3>1
  <2>2. CASE SameAddress(r)
    <3>1. r.addr < m BY <1>1, <1>9 DEF Progress, WireInv, AcksInv
    <3>2. Due(m, block) BY <1>9 DEF Progress, ToolInv
    <3>3. block = m - 1 /\ m > 0
      <4>1. block \in {m - 1, m} BY <3>2 DEF Due
      <4> QED BY <1>3, <2>2, <3>1, <4>1 DEF SameAddress
    <3>4. CASE LastBlock
      <4>1. Issue("SEND_EOF", 0) BY <1>9, <2>2, <3>4 DEF send_file
      <4>2. phase' = "SEND_EOF" BY <4>1 DEF Issue
      <4>3. m = n BY <1>3, <3>3, <3>4 DEF LastBlock
      <4> QED BY <1>2, <4>2, <4>3 DEF Progress, ToolInv
    <3>5. CASE ~LastBlock
      <4>1. Issue("SEND_BLOCK", block + 1) BY <1>9, <2>2, <3>5 DEF send_file
      <4>2. phase' = "SEND_BLOCK" /\ block' = block + 1 BY <4>1 DEF Issue
      <4>3. Due(m, block)'
        <5>1. block + 1 \in {m - 1, m} /\ block + 1 \in 0 .. n - 1
          BY <1>3, <3>3, <3>5 DEF LastBlock
        <5> QED BY <3>2, <4>2, <5>1 DEF Due, Open, ram
      <4>4. \A i \in DOMAIN requests' : IsBlock(requests'[i]) => requests'[i].addr <= block'
        <5> SUFFICES ASSUME NEW i \in DOMAIN requests, IsBlock(requests[i])
                     PROVE  requests[i].addr <= block + 1
          BY <4>2
        <5>1. requests[i].addr <= block /\ requests[i].addr \in 0 .. n - 1
          BY <1>9 DEF Progress, ToolInv, WireInv, BlocksInv, Due
        <5> QED BY <1>3, <5>1
      <4>5. NoEofs' BY <1>2, <1>9 DEF Progress, ToolInv
      <4> QED BY <1>2, <4>2, <4>3, <4>4, <4>5 DEF Progress, ToolInv
    <3> QED BY <3>4, <3>5
  <2> QED BY <2>1, <2>2
<1>10. CASE phase = "SEND_EOF" /\ send_file(r)
  <2>1. Issue("REQUEST_BLOCK", 0) BY <1>10 DEF send_file
  <2>2. phase' = "REQUEST_BLOCK" BY <2>1 DEF Issue
  <2>3. EofDone BY <1>1, <1>10 DEF Progress, WireInv, AcksInv
  <2> QED BY <1>2, <2>2, <2>3 DEF Progress, ToolInv
<1>11. CASE verify_file(r)
  <2>1. phase = "REQUEST_BLOCK" BY <1>11 DEF verify_file
  <2>2. EofDone' BY <1>2, <2>1 DEF Progress, ToolInv
  <2>3. Again \/ Raise \/ Issue("REQUEST_BLOCK", block + 1) \/ Issue("COMPLETE", 0)
    BY <1>11 DEF verify_file
  <2>4. CASE phase' \in {"REQUEST_BLOCK", "COMPLETE"}
    BY <1>2, <2>2, <2>4 DEF Progress, ToolInv
  <2> QED BY <1>2, <1>5, <2>3, <2>4, RaiseProgress DEF Issue
<1>12. CASE finish
  <2>1. phase' = "idle" BY <1>12 DEF finish
  <2> QED BY <1>2, <2>1 DEF Progress, ToolInv
<1> QED BY <1>7, <1>8, <1>9, <1>10, <1>11, <1>12 DEF send_file

\* The tool writes the command it is at.
LEMMA WriteProgress ==
    ASSUME LinkOK, ToolOK, NEW m \in 0 .. Len(image), Progress(m), Write
    PROVE  Progress(m)'
<1> DEFINE x == [cmd |-> phase, addr |-> block, data |-> image[block + 1]]
           n == Len(image)
           last == Len(requests) + 1
<1>1. /\ phase # "idle"
      /\ UNCHANGED <<phase, block, image, replies, backend, flash, ram>>
  BY DEF Write, device
<1>2. KeptAcks(replies', replies) BY <1>1 DEF KeptAcks
<1>3. CASE requests' = requests BY <1>1, <1>2, <1>3, WireOnlyStep
<1>4. CASE requests' = Append(requests, x)
  <2>1. /\ Len(requests) \in Nat /\ DOMAIN requests = 1 .. Len(requests)
        /\ DOMAIN requests' = 1 .. last /\ requests'[last] = x
        /\ \A j \in 1 .. Len(requests) : requests'[j] = requests[j]
    BY <1>4 DEF LinkOK
  <2>2. x.cmd = phase /\ x.addr = block /\ x.data = image[block + 1] OBVIOUS
  <2>3. n \in Nat /\ block \in 0 .. n - 1 BY ImageFacts DEF ToolOK
  <2>4. \A i \in DOMAIN requests' : \/ i \in DOMAIN requests /\ requests'[i] = requests[i]
                                    \/ i = last /\ requests'[i] = x
    BY <2>1
  <2> HIDE DEF x
  <2>5. \A b : Due(m, b)' <=> Due(m, b) BY <1>1 DEF Due, Open, ram
  <2>6. IsBlock(x) => Due(m, block) /\ NoEofs
    BY <2>2 DEF IsBlock, Progress, ToolInv
  <2>7. Taken(m)' BY <1>1, TakenSame DEF Progress
  <2>8. phase # "SEND_BLOCK" /\ NoBlocks => NoBlocks'
    BY <2>2, <2>4 DEF NoBlocks, IsBlock
  <2>9. phase # "SEND_EOF" /\ NoEofs => NoEofs'
    BY <1>1, <2>2, <2>4 DEF NoEofs, IsEof
  <2>10. phase # "SEND_BLOCK" /\ EofDone => EofDone'
    BY <1>1, <2>8 DEF EofDone, Flashed, ram
  <2>11. BlocksInv(m)'
    <3> SUFFICES ASSUME NEW i \in DOMAIN requests', IsBlock(requests'[i])
                 PROVE  /\ Due(m, requests'[i].addr)
                        /\ requests'[i].data = image[requests'[i].addr + 1]
      BY <1>1 DEF BlocksInv, IsBlock, Due, Open, ram
    <3> QED BY <2>2, <2>4, <2>6 DEF Progress, WireInv, BlocksInv
  <2>12. EofInv(m)'
    <3> SUFFICES ASSUME NEW i \in DOMAIN requests', IsEof(requests'[i]) PROVE m = Len(image)
      BY <1>1 DEF EofInv, IsEof
    <3>1. IsEof(x) => m = Len(image) BY <2>2 DEF IsEof, Progress, ToolInv
    <3> QED BY <2>4, <3>1 DEF Progress, WireInv, EofInv
  <2>13. InOrderInv'
    <3> SUFFICES ASSUME NEW i \in DOMAIN requests', NEW j \in DOMAIN requests', i < j,
                        IsBlock(requests'[j])
                 PROVE  /\ ~IsEof(requests'[i])
                        /\ IsBlock(requests'[i]) => requests'[i].addr <= requests'[j].addr
      BY DEF InOrderInv, IsBlock, IsEof
    <3>1. i \in DOMAIN requests /\ requests'[i] = requests[i] BY <2>1
    <3>2. CASE j = last
      <4>1. requests'[j] = x BY <2>1, <3>2
      <4>2. NoEofs /\ phase = "SEND_BLOCK" BY <2>2, <2>6, <4>1 DEF IsBlock
      <4> QED BY <2>2, <3>1, <4>1, <4>2 DEF NoEofs, Progress, ToolInv
    <3>3. CASE j \in DOMAIN requests /\ requests'[j] = requests[j]
      BY <3>1, <3>3 DEF Progress, WireInv, InOrderInv
    <3> QED BY <2>4, <3>2, <3>3
  <2>14. AcksInv(m)'
    <3> SUFFICES ASSUME NEW i \in DOMAIN replies
                 PROVE  /\ replies[i].ack = "SEND_BLOCK" => replies[i].addr < m
                        /\ replies[i].ack = "SEND_EOF" => EofDone'
      BY <1>1 DEF AcksInv
    <3>1. replies[i].ack = "SEND_EOF" => EofDone /\ phase # "SEND_BLOCK"
      BY DEF Progress, WireInv, AcksInv, ToolInv, NoEofs
    <3> QED BY <2>10, <3>1 DEF Progress, WireInv, AcksInv
  <2>15. ToolInv(m)'
    <3>1. phase = "SEND_BLOCK" => /\ Due(m, block)'
             /\ \A i \in DOMAIN requests' : IsBlock(requests'[i]) => requests'[i].addr <= block'
      <4> SUFFICES ASSUME phase = "SEND_BLOCK"
                   PROVE  /\ Due(m, block)'
                          /\ \A i \in DOMAIN requests' :
                                IsBlock(requests'[i]) => requests'[i].addr <= block'
        OBVIOUS
      <4>1. Due(m, block)' BY <1>1 DEF Due, Open, ram, Progress, ToolInv
      <4>2. x.addr <= block BY <2>2, <2>3
      <4> QED BY <1>1, <2>4, <4>1, <4>2 DEF Progress, ToolInv
    <3> QED BY <1>1, <2>8, <2>9, <2>10, <3>1 DEF Progress, ToolInv
  <2> QED BY <2>7, <2>11, <2>12, <2>13, <2>14, <2>15 DEF Progress, WireInv
<1> QED BY <1>3, <1>4 DEF Write

LEMMA AppendKeptAcks ==
    ASSUME LinkOK, NEW x \in Replies, replies' = Append(replies, x),
           x.ack \notin {"SEND_BLOCK", "SEND_EOF"}
    PROVE  KeptAcks(replies', replies)
<1> SUFFICES ASSUME NEW i \in DOMAIN replies', replies'[i].ack \in {"SEND_BLOCK", "SEND_EOF"}
             PROVE  \E j \in DOMAIN replies : replies'[i] = replies[j]
  BY DEF KeptAcks
<1>1. /\ replies \in Seq(Replies) /\ Len(replies) \in Nat /\ DOMAIN replies = 1 .. Len(replies)
      /\ DOMAIN replies' = 1 .. Len(replies) + 1
      /\ replies'[Len(replies) + 1] = x
      /\ \A j \in 1 .. Len(replies) : replies'[j] = replies[j]
  BY DEF LinkOK
<1>2. i # Len(replies) + 1 BY <1>1
<1>3. i \in 1 .. Len(replies) BY <1>1, <1>2
<1> QED BY <1>1, <1>3

\* A block is stored and acknowledged: one block more of the file was taken, or
\* the last of them once more.
LEMMA StoredProgress ==
    ASSUME HostInv, NEW m \in 0 .. Len(image), Progress(m), requests # <<>>,
           IsBlock(Head(requests)), NEW a, a = Head(requests).addr, Taken(a + 1)', Open(a + 1)',
           NEW x \in Replies, x.ack = "SEND_BLOCK", x.addr = a,
           requests' = Tail(requests), replies' = Append(replies, x),
           UNCHANGED <<phase, block, image, backend>>
    PROVE  a + 1 \in 0 .. Len(image) /\ Progress(a + 1)'
<1> DEFINE n == Len(image)
<1>1. LinkOK /\ ToolOK BY DEF HostInv
<1>2. /\ Head(requests) = requests[1] /\ 1 \in DOMAIN requests
      /\ \A i \in DOMAIN requests' :
            i \in Int /\ i >= 1 /\ i + 1 \in DOMAIN requests /\ requests'[i] = requests[i + 1]
  BY <1>1, TailFacts DEF LinkOK
<1>3. /\ Len(replies) \in Nat /\ DOMAIN replies' = 1 .. Len(replies) + 1
      /\ DOMAIN replies = 1 .. Len(replies)
      /\ replies'[Len(replies) + 1] = x
      /\ \A j \in 1 .. Len(replies) : replies'[j] = replies[j]
  BY <1>1 DEF LinkOK
<1>4. n \in Nat \ {0} /\ m \in 0 .. n BY <1>1, ImageFacts DEF ToolOK
<1>5. ~NoBlocks BY <1>2 DEF NoBlocks
<1>6. Due(m, a) BY <1>2 DEF Progress, WireInv, BlocksInv
<1>7. a \in {m - 1, m} /\ a \in 0 .. n - 1 BY <1>6 DEF Due
<1>8. a + 1 \in 0 .. n /\ a + 1 >= m /\ (m = n => a + 1 = m) BY <1>4, <1>7
<1> HIDE DEF n
<1>9. ASSUME NEW b \in {m - 1, m}, b \in 0 .. n - 1, a <= b
      PROVE  b \in {(a + 1) - 1, a + 1}
  BY <1>4, <1>7, <1>9
<1>10. BlocksInv(a + 1)'
  <2> SUFFICES ASSUME NEW i \in DOMAIN requests', IsBlock(requests'[i])
               PROVE  /\ requests'[i].addr \in {(a + 1) - 1, a + 1}
                      /\ requests'[i].addr \in 0 .. Len(image) - 1
                      /\ requests'[i].data = image[requests'[i].addr + 1]
    BY DEF BlocksInv, IsBlock, Due
  <2>1. i + 1 \in DOMAIN requests /\ requests'[i] = requests[i + 1] /\ 1 < i + 1 BY <1>2
  <2>2. Due(m, requests'[i].addr) /\ requests'[i].data = image[requests'[i].addr + 1]
    BY <2>1 DEF Progress, WireInv, BlocksInv
  <2>3. a <= requests'[i].addr BY <1>2, <2>1 DEF Progress, WireInv, InOrderInv
  <2>4. requests'[i].addr \in {m - 1, m} /\ requests'[i].addr \in 0 .. n - 1
    BY <2>2 DEF Due, n
  <2>5. requests'[i].addr \in {(a + 1) - 1, a + 1} BY <1>9, <2>3, <2>4
  <2> QED BY <2>2, <2>4, <2>5 DEF n
<1>11. EofInv(a + 1)'
  BY <1>2, <1>8 DEF EofInv, Progress, WireInv, n
<1>12. InOrderInv'
  <2> SUFFICES ASSUME NEW i \in DOMAIN requests', NEW j \in DOMAIN requests', i < j,
                      IsBlock(requests'[j])
               PROVE  /\ ~IsEof(requests'[i])
                      /\ IsBlock(requests'[i]) => requests'[i].addr <= requests'[j].addr
    BY DEF InOrderInv, IsBlock, IsEof
  <2>1. i + 1 < j + 1 BY <1>2
  <2> QED BY <1>2, <2>1 DEF Progress, WireInv, InOrderInv
<1>13. AcksInv(a + 1)'
  <2> SUFFICES ASSUME NEW i \in DOMAIN replies'
               PROVE  /\ replies'[i].ack = "SEND_BLOCK" => replies'[i].addr < a + 1
                      /\ replies'[i].ack # "SEND_EOF"
    BY DEF AcksInv
  <2>1. CASE i = Len(replies) + 1 BY <1>3, <1>7, <2>1
  <2>2. CASE i \in 1 .. Len(replies)
    <3>1. replies[i] \in Replies BY <1>1, <2>2, ElementOfSeq DEF LinkOK
    <3>2. replies[i].addr \in Int BY <3>1, BufferedFlashAssumption DEF Replies, Blocks
    <3>3. /\ replies[i].ack = "SEND_BLOCK" => replies[i].addr < m
          /\ replies[i].ack # "SEND_EOF"
      BY <1>3, <1>5, <2>2 DEF Progress, WireInv, AcksInv, EofDone
    <3>4. replies[i].ack = "SEND_BLOCK" => replies[i].addr < a + 1 BY <1>4, <1>7, <1>8, <3>2, <3>3
    <3> QED BY <1>3, <2>2, <3>3, <3>4
  <2> QED BY <1>3, <2>1, <2>2
<1>14. ToolInv(a + 1)'
  <2>1. phase \notin {"CONNECT", "GET_CANBUS_ID", "REQUEST_BLOCK"}
    BY <1>5 DEF Progress, ToolInv, EofDone
  <2>2. phase = "SEND_EOF" => a + 1 = Len(image)
    BY <1>8 DEF Progress, ToolInv, n
  <2>3. ASSUME phase = "SEND_BLOCK"
        PROVE  /\ Due(a + 1, block)' /\ NoEofs'
               /\ \A i \in DOMAIN requests' : IsBlock(requests'[i]) => requests'[i].addr <= block'
    <3>1. /\ Due(m, block) /\ NoEofs
          /\ \A i \in DOMAIN requests : IsBlock(requests[i]) => requests[i].addr <= block
      BY <2>3 DEF Progress, ToolInv
    <3>2. a <= block BY <1>2, <3>1
    <3>3. block \in {m - 1, m} /\ block \in 0 .. n - 1 BY <3>1 DEF Due, n
    <3>4. block \in {(a + 1) - 1, a + 1} BY <1>9, <3>2, <3>3
    <3>5. Due(a + 1, block)' BY <3>3, <3>4 DEF Due, n
    <3>6. NoEofs'
      <4>1. \A i \in DOMAIN requests' : ~IsEof(requests'[i]) BY <1>2, <3>1 DEF NoEofs
      <4>2. \A i \in DOMAIN replies' : replies'[i].ack # "SEND_EOF"
        BY <1>3, <3>1 DEF NoEofs
      <4> QED BY <4>1, <4>2 DEF NoEofs
    <3> QED BY <1>2, <3>1, <3>5, <3>6
  <2> QED BY <2>1, <2>2, <2>3 DEF ToolInv
<1> QED BY <1>8, <1>10, <1>11, <1>12, <1>13, <1>14 DEF Progress, WireInv, n

\* flash_complete() is acknowledged: the file is in the array.
LEMMA EofProgress ==
    ASSUME HostInv, NEW m, Progress(m), requests # <<>>, IsEof(Head(requests)),
           Taken(m)', Flashed', backend' = "rp2040" => ~buffer_not_empty',
           NEW x \in Replies, x.ack = "SEND_EOF",
           requests' = Tail(requests), replies' = Append(replies, x),
           UNCHANGED <<phase, block, image, backend>>
    PROVE  Progress(m)'
<1>1. LinkOK BY DEF HostInv
<1>2. /\ Head(requests) = requests[1] /\ 1 \in DOMAIN requests
      /\ \A i \in DOMAIN requests' :
            i \in Int /\ i >= 1 /\ i + 1 \in DOMAIN requests /\ requests'[i] = requests[i + 1]
  BY <1>1, TailFacts DEF LinkOK
<1>3. /\ Len(replies) \in Nat /\ DOMAIN replies' = 1 .. Len(replies) + 1
      /\ DOMAIN replies = 1 .. Len(replies)
      /\ replies'[Len(replies) + 1] = x
      /\ \A j \in 1 .. Len(replies) : replies'[j] = replies[j]
  BY <1>1 DEF LinkOK
<1>4. NoBlocks'
  <2> SUFFICES ASSUME NEW i \in DOMAIN requests', IsBlock(requests'[i]) PROVE FALSE
    BY DEF NoBlocks, IsBlock
  <2>1. i + 1 \in DOMAIN requests /\ requests'[i] = requests[i + 1] /\ 1 < i + 1 BY <1>2
  <2> QED BY <1>2, <2>1 DEF Progress, WireInv, InOrderInv
<1>5. EofDone' BY <1>4 DEF EofDone
<1>6. BlocksInv(m)' /\ InOrderInv' BY <1>4 DEF NoBlocks, BlocksInv, InOrderInv
<1>7. EofInv(m)' BY <1>2 DEF Progress, WireInv, EofInv
<1>8. AcksInv(m)'
  <2> SUFFICES ASSUME NEW i \in DOMAIN replies', replies'[i].ack = "SEND_BLOCK"
               PROVE  replies'[i].addr < m
    BY <1>5 DEF AcksInv
  <2>1. i # Len(replies) + 1 BY <1>3
  <2>2. i \in 1 .. Len(replies) BY <1>3, <2>1
  <2> QED BY <1>3, <2>2 DEF Progress, WireInv, AcksInv
<1>9. phase \notin {"CONNECT", "GET_CANBUS_ID", "SEND_BLOCK"}
  BY <1>2 DEF Progress, ToolInv, NoEofs
<1>10. ToolInv(m)' BY <1>5, <1>9 DEF Progress, ToolInv
<1> QED BY <1>6, <1>7, <1>8, <1>10 DEF Progress, WireInv

\* STM32: a block could not be stored.
LEMMA FailedProgress ==
    ASSUME LinkOK, NEW m, Progress(m), requests # <<>>, IsBlock(Head(requests)),
           backend = "stm32", Taken(m)', KeptAcks(replies', replies),
           requests' = Tail(requests), UNCHANGED <<phase, block, image, backend>>
    PROVE  Progress(m)'
<1>1. ~NoBlocks
  <2>1. Head(requests) = requests[1] /\ 1 \in DOMAIN requests BY TailFacts DEF LinkOK
  <2> QED BY <2>1 DEF NoBlocks
<1>2. Open(m) => Open(m)' BY DEF Open
<1>3. /\ WireInv(m)' /\ (NoBlocks => NoBlocks') /\ (NoEofs => NoEofs') /\ (EofDone => EofDone')
      /\ \A i \in DOMAIN requests' : \E j \in DOMAIN requests : requests'[i] = requests[j]
  BY <1>1, <1>2, WireLess DEF Progress
<1>4. ToolInv(m)'
  <2>1. Due(m, block) => Due(m, block)' BY <1>2 DEF Due
  <2>2. phase' = "SEND_BLOCK" =>
           \A i \in DOMAIN requests' : IsBlock(requests'[i]) => requests'[i].addr <= block'
    BY <1>3 DEF Progress, ToolInv
  <2> QED BY <1>3, <2>1, <2>2 DEF Progress, ToolInv
<1> QED BY <1>3, <1>4 DEF Progress

\* STM32: of m blocks taken k are taken after the step, which leaves the array
\* alone or writes the last of them again or the next.
Moved(m, k) ==
    \/ k = m /\ flash' = flash
    \/ \E a \in 0 .. Len(image) - 1, ret \in {0, -2, -3, -4} :
          /\ a \in {m - 1, m} /\ stm32_flash_write_block(a, image[a + 1], ret)
          /\ k = IF ret = 0 THEN a + 1 ELSE m

LEMMA DispatchProgress ==
    ASSUME HostInv, Aligned, backend # "lpc176x", NEW m \in 0 .. Len(image), Progress(m),
           command_dispatch
    PROVE  \E k \in 0 .. Len(image) : Progress(k)' /\ (backend = "stm32" => Moved(m, k))
<1> DEFINE r == Head(requests)
<1>1. LinkOK /\ FlashTypeOK /\ ToolOK BY DEF HostInv
<1>2. /\ requests # <<>> /\ requests \in Seq(Requests) /\ image \in Images
  BY <1>1 DEF command_dispatch, LinkOK, ToolOK
<1>3. r \in Requests /\ r = requests[1] /\ 1 \in DOMAIN requests
  BY <1>2, TailFacts
<1>4. r.addr \in Blocks /\ r.cmd \in Commands \cup {"INVALID"} BY <1>3 DEF Requests
<1> HIDE DEF r
<1>5. ASSUME NEW ack \in Commands \cup {"ERROR"}, NEW data \in Cells, Answer(r, ack, data)
      PROVE  /\ requests' = Tail(requests)
             /\ replies' = Append(replies, [ack |-> ack, addr |-> r.addr, data |-> data])
             /\ [ack |-> ack, addr |-> r.addr, data |-> data] \in Replies
             /\ UNCHANGED <<phase, block, image, backend>>
  BY <1>4, <1>5 DEF Answer, host, Replies, Cells
<1>6. ASSUME NEW ack \in (Commands \cup {"ERROR"}) \ {"SEND_BLOCK", "SEND_EOF"},
             NEW data \in Cells, Answer(r, ack, data), UNCHANGED <<flash, ram>>
      PROVE  Progress(m)'
  <2> DEFINE x == [ack |-> ack, addr |-> r.addr, data |-> data]
  <2>1. /\ requests' = Tail(requests) /\ replies' = Append(replies, x) /\ x \in Replies
        /\ UNCHANGED <<phase, block, image, backend>>
    BY <1>5, <1>6
  <2>2. x.ack \notin {"SEND_BLOCK", "SEND_EOF"} BY <1>6
  <2>3. KeptAcks(replies', replies) BY <1>1, <2>1, <2>2, AppendKeptAcks
  <2> QED BY <1>1, <1>2, <1>6, <2>1, <2>3, WireOnlyStep
<1>7. Erased \in Cells BY BufferedFlashAssumption DEF Cells
<1>8. CASE r.cmd = "SEND_BLOCK"
  <2>1. PICK ret \in {0, -2, -3, -4}, hw \in HwOutcomes :
           /\ flash_write_block(r.addr, r.data, ret, hw)
           /\ Answer(r, IF ret < 0 THEN "ERROR" ELSE "SEND_BLOCK", Erased)
    BY <1>8 DEF command_dispatch, command_write_block, r
  <2>2. IsBlock(r) BY <1>8 DEF IsBlock
  <2>3. Due(m, r.addr) /\ r.data = image[r.addr + 1]
    BY <1>3, <2>2 DEF Progress, WireInv, BlocksInv
  <2>4. /\ r.addr \in {m - 1, m} /\ r.addr \in 0 .. Len(image) - 1 /\ Open(m) /\ Taken(m)
    BY <2>3 DEF Due, Progress
  <2>5. CASE ret < 0
    <3>1. backend = "stm32" /\ stm32_flash_write_block(r.addr, r.data, ret)
      BY <2>1, <2>5 DEF flash_write_block, rp2040_flash_write_block
    <3>2. Answer(r, "ERROR", Erased) BY <2>1, <2>5
    <3> DEFINE x == [ack |-> "ERROR", addr |-> r.addr, data |-> Erased]
    <3>3. /\ requests' = Tail(requests) /\ replies' = Append(replies, x) /\ x \in Replies
          /\ UNCHANGED <<phase, block, image, backend>>
      BY <1>5, <1>7, <3>2 DEF Commands
    <3>4. x.ack \notin {"SEND_BLOCK", "SEND_EOF"} OBVIOUS
    <3> HIDE DEF x
    <3>5. KeptAcks(replies', replies) BY <1>1, <3>3, <3>4, AppendKeptAcks
    <3>6. PICK a \in 0 .. Len(image) - 1 : a = r.addr BY <2>4
    <3>7. stm32_flash_write_block(a, image[a + 1], ret) BY <2>3, <3>1, <3>6
    <3>8. ret # 0 BY <2>5
    <3>9. Taken(m)' BY <1>1, <1>2, <2>4, <3>1, <3>3, <3>6, <3>7, <3>8, Stm32Taken
    <3>10. Progress(m)' BY <1>1, <1>2, <2>2, <3>1, <3>3, <3>5, <3>9, FailedProgress DEF r
    <3>11. Moved(m, m) BY <2>4, <3>6, <3>7, <3>8 DEF Moved
    <3> QED BY <3>10, <3>11
  <2>6. CASE ret = 0
    <3> DEFINE x == [ack |-> "SEND_BLOCK", addr |-> r.addr, data |-> Erased]
    <3>1. Answer(r, "SEND_BLOCK", Erased) BY <2>1, <2>6
    <3>2. /\ requests' = Tail(requests) /\ replies' = Append(replies, x) /\ x \in Replies
          /\ UNCHANGED <<phase, block, image, backend>>
      BY <1>5, <1>7, <3>1 DEF Commands
    <3>3. x.ack = "SEND_BLOCK" /\ x.addr = r.addr OBVIOUS
    <3> HIDE DEF x
    <3>4. PICK a \in 0 .. Len(image) - 1 : a = r.addr
      BY <2>4
    <3>5. Taken(a + 1)' /\ Open(a + 1)'
      <4>1. CASE backend = "rp2040"
        <5>1. rp2040_flash_write_block(a, image[a + 1], 0)
          BY <2>1, <2>3, <2>6, <3>4, <4>1 DEF flash_write_block
        <5> QED BY <1>1, <1>2, <2>4, <3>2, <3>4, <4>1, <5>1, Rp2040Taken
      <4>2. CASE backend = "stm32"
        <5>1. stm32_flash_write_block(a, image[a + 1], ret)
          BY <2>1, <2>3, <3>4, <4>2 DEF flash_write_block
        <5> QED BY <2>6, <1>1, <1>2, <2>4, <3>2, <3>4, <4>2, <5>1, Stm32Taken
      <4> QED BY <1>1, <4>1, <4>2 DEF FlashTypeOK, Backends
    <3>6. a + 1 \in 0 .. Len(image) /\ Progress(a + 1)'
      BY <1>2, <2>2, <3>2, <3>3, <3>4, <3>5, StoredProgress DEF r
    <3>7. backend = "stm32" => Moved(m, a + 1)
      BY <2>1, <2>3, <2>4, <2>6, <3>4 DEF Moved, flash_write_block
    <3> QED BY <3>6, <3>7
  <2> QED BY <2>5, <2>6
<1>9. CASE r.cmd = "SEND_EOF"
  <2>1. PICK ret \in {0, -2, -3, -4}, hw \in HwOutcomes :
           /\ flash_complete(ret, hw)
           /\ Answer(r, IF ret < 0 THEN "ERROR" ELSE "SEND_EOF", Erased)
    BY <1>9 DEF command_dispatch, command_eof, r
  <2>2. IsEof(r) BY <1>9 DEF IsEof
  <2>3. m = Len(image) /\ Taken(m) BY <1>3, <2>2 DEF Progress, WireInv, EofInv
  <2>4. UNCHANGED <<image, backend>> BY <2>1 DEF Answer, host
  <2>5. /\ ret = 0 /\ Taken(Len(image))' /\ Flashed'
        /\ backend' = "rp2040" => ~buffer_not_empty'
    BY <1>1, <1>2, <2>1, <2>3, <2>4, CompleteTaken
  <2>6. Taken(m)' BY <2>3, <2>4, <2>5
  <2> DEFINE x == [ack |-> "SEND_EOF", addr |-> r.addr, data |-> Erased]
  <2>7. Answer(r, "SEND_EOF", Erased) BY <2>1, <2>5
  <2>8. /\ requests' = Tail(requests) /\ replies' = Append(replies, x) /\ x \in Replies
        /\ UNCHANGED <<phase, block, image, backend>>
    BY <1>5, <1>7, <2>7 DEF Commands
  <2>9. x.ack = "SEND_EOF" OBVIOUS
  <2> HIDE DEF x
  <2>10. Progress(m)' BY <1>2, <2>2, <2>5, <2>6, <2>8, <2>9, EofProgress DEF r
  <2>11. backend = "stm32" => flash' = flash BY <2>1 DEF flash_complete
  <2> QED BY <2>10, <2>11 DEF Moved
<1>10. CASE r.cmd = "REQUEST_BLOCK"
  <2>1. Answer(r, "REQUEST_BLOCK", flash[r.addr]) /\ UNCHANGED <<flash, ram>>
    BY <1>10 DEF command_dispatch, command_read_block, r
  <2>2. flash[r.addr] \in Cells BY <1>1, <1>4 DEF FlashTypeOK, Cells
  <2>3. Progress(m)' BY <1>6, <2>1, <2>2 DEF Commands
  <2> QED BY <2>1, <2>3 DEF Moved
<1>11. CASE r.cmd \notin {"SEND_BLOCK", "SEND_EOF", "REQUEST_BLOCK"}
  <2>1. command_complete(r) \/ command_other(r)
    BY <1>11 DEF command_dispatch, r
  <2>2. /\ \E ack \in (Commands \cup {"ERROR"}) \ {"SEND_BLOCK", "SEND_EOF"} : Answer(r, ack, Erased)
        /\ UNCHANGED <<flash, ram>>
    BY <1>4, <1>11, <2>1 DEF command_complete, command_other, Commands
  <2>3. Progress(m)' BY <1>6, <1>7, <2>2
  <2> QED BY <2>2, <2>3 DEF Moved
<1> QED BY <1>8, <1>9, <1>10, <1>11

LEMMA AlignedStep == HostInv /\ Aligned /\ [HNext]_hvars => Aligned'
<1> SUFFICES ASSUME HostInv, Aligned, [HNext]_hvars PROVE Aligned'
  OBVIOUS
<1>1. CASE UNCHANGED ram BY <1>1 DEF Aligned, ram
<1>2. CASE command_dispatch
  <2> DEFINE r == Head(requests)
  <2>1. CASE r.cmd = "SEND_BLOCK"
    <3>1. PICK ret, hw : flash_write_block(r.addr, r.data, ret, hw)
      BY <1>2, <2>1 DEF command_dispatch, command_write_block
    <3>2. r \in Requests BY <1>2, TailFacts DEF command_dispatch, HostInv, LinkOK
    <3>3. r.addr \in Nat BY <3>2 DEF Requests, Blocks
    <3> HIDE DEF r
    <3>4. CASE buffer_start_address' = buffer_start_address BY <3>4 DEF Aligned
    <3>5. CASE buffer_start_address' = r.addr - buf_idx(r.addr)
      BY <3>3, <3>5, AlignedStart DEF Aligned
    <3> QED BY <3>1, <3>4, <3>5 DEF flash_write_block, lpc_flash_write_block,
               rp2040_flash_write_block, stm32_flash_write_block, stm32_write, ensure_buffer, ram
  <2>2. CASE r.cmd = "SEND_EOF"
    <3>1. PICK ret, hw : flash_complete(ret, hw)
      BY <1>2, <2>2 DEF command_dispatch, command_eof
    <3>2. buffer_start_address' = buffer_start_address
      BY <3>1 DEF flash_complete, lpc_flash_complete, rp2040_flash_complete, ram
    <3> QED BY <3>2 DEF Aligned
  <2>3. CASE r.cmd \notin {"SEND_BLOCK", "SEND_EOF"}
    BY <1>1, <1>2, <2>3 DEF command_dispatch, command_read_block, command_complete, command_other
  <2> QED BY <2>1, <2>2, <2>3
<1>3. CASE complete_task \/ PowerLoss
  <2>1. buffer_start_address' = 0 BY <1>3 DEF complete_task, PowerLoss, Restart, FreshRam
  <2>2. BufBlocks \in Nat \ {0} /\ 0 \in Int /\ 0 \in 0 .. BufBlocks - 1
    BY BufferedFlashAssumption
  <2>3. 0 % BufBlocks = 0 BY <2>2, ModSmall, Zenon
  <2> QED BY <2>1, <2>3 DEF Aligned
<1>4. CASE Start \/ Write \/ DropPrimed \/ Receive \/ Timeout \/ Kill \/ LoseRequest
           \/ DamageRequest \/ LoseReply \/ DamageReply \/ UNCHANGED hvars
  BY <1>1, <1>4 DEF Start, Write, DropPrimed, Receive, Timeout, Kill, LoseRequest, DamageRequest,
                    LoseReply, DamageReply, Fault, device, hvars
<1> QED BY <1>2, <1>3, <1>4 DEF HNext

LEMMA DurInvInit == HInit => DurInv
<1> SUFFICES ASSUME HInit PROVE DurInv
  OBVIOUS
<1>1. HostInv BY HostInvInit
<1>2. Aligned
  <2>1. BufBlocks \in Nat \ {0} /\ 0 \in Int /\ 0 \in 0 .. BufBlocks - 1
    BY BufferedFlashAssumption
  <2>2. 0 % BufBlocks = 0 BY <2>1, ModSmall, Zenon
  <2> QED BY <2>2 DEF HInit, FlashInit, Aligned
<1>3. Progress(0)
  <2>1. DOMAIN requests = {} /\ DOMAIN replies = {} /\ phase = "idle" BY DEF HInit
  <2>2. Taken(0) BY DEF Taken
  <2> QED BY <2>1, <2>2 DEF Progress, WireInv, ToolInv, BlocksInv, InOrderInv, EofInv, AcksInv
<1>4. 0 \in 0 .. Len(image) BY <1>1, ImageFacts DEF HostInv, ToolOK
<1> QED BY <1>1, <1>2, <1>3, <1>4 DEF DurInv

\* A new run of the tool begins.
LEMMA StartProgress ==
    ASSUME HostInv, Start, ~stale'
    PROVE  0 \in 0 .. Len(image') /\ Progress(0)'
<1>1. /\ Issue("CONNECT", 0) /\ replies' = <<>>
      /\ \A i \in DOMAIN requests' : requests'[i].cmd = "INVALID"
  <2>1. stale' = (replies' # <<>>)
    BY DEF Start
  <2>2. replies' = <<>>
    BY <2>1, Zenon
  <2>3. requests' = <<[cmd |-> "INVALID", addr |-> 0, data |-> Erased]>> \/ requests' = <<>>
    BY DEF Start
  <2>4. \A i \in DOMAIN requests' : requests'[i].cmd = "INVALID"
    BY <2>3
  <2> QED BY <2>2, <2>4 DEF Start
<1>2. phase' = "CONNECT" BY <1>1 DEF Issue
<1>3. DOMAIN replies' = {} BY <1>1
<1>4. NoBlocks' /\ NoEofs' BY <1>1, <1>3 DEF NoBlocks, NoEofs, IsBlock, IsEof
<1>5. Taken(0)' BY DEF Taken
<1>6. WireInv(0)'
  BY <1>1, <1>3 DEF WireInv, BlocksInv, InOrderInv, EofInv, AcksInv, IsBlock, IsEof
<1>7. Progress(0)' BY <1>2, <1>4, <1>5, <1>6 DEF Progress, ToolInv
<1>8. 0 \in 0 .. Len(image') BY ImageFacts DEF Start
<1> QED BY <1>7, <1>8

\* Any step that starts neither the tool nor the device.
LEMMA StepProgress ==
    ASSUME HostInv, Aligned, backend # "lpc176x", NEW m \in 0 .. Len(image), Progress(m),
           [HNext]_hvars, ~Start, ~complete_task, ~PowerLoss
    PROVE  \E k \in 0 .. Len(image) : Progress(k)' /\ (backend = "stm32" => Moved(m, k))
<1>1. HostInv /\ LinkOK /\ ToolOK /\ Aligned BY DEF HostInv
<1>2. CASE command_dispatch BY <1>1, <1>2, DispatchProgress
<1>3. CASE ~command_dispatch
  <2>1. flash' = flash
    BY <1>3 DEF HNext, Write, DropPrimed, Receive, Timeout, Kill, LoseRequest, DamageRequest,
                LoseReply, DamageReply, Fault, device, hvars
  <2>2. Moved(m, m) BY <2>1 DEF Moved
  <2>3. SUFFICES Progress(m)' BY <2>2
  <2>6. CASE Write
    BY <1>1, <2>6, WriteProgress
  <2>7. CASE DropPrimed
    <3>1. /\ replies # <<>> /\ replies' = Tail(replies)
          /\ UNCHANGED <<phase, block, image, requests, backend, flash, ram>>
      BY <2>7 DEF DropPrimed, device
    <3>2. KeptAcks(replies', replies) BY <1>1, <3>1, TailFacts DEF LinkOK, KeptAcks
    <3> QED BY <1>1, <3>1, <3>2, WireOnlyStep
  <2>8. CASE Receive
    <3>1. replies # <<>> /\ UNCHANGED <<image, requests, backend, flash, ram>>
      BY <2>8 DEF Receive, device
    <3>2. CASE Head(replies).ack # phase
      <4>1. Retry(Tail(replies)) BY <2>8, <3>2 DEF Receive
      <4>2. replies' \in Suffixes(Tail(replies)) BY <4>1 DEF Retry
      <4>3. Tail(replies) \in Seq(Replies) /\ \A i \in DOMAIN Tail(replies) :
               i + 1 \in DOMAIN replies /\ Tail(replies)[i] = replies[i + 1]
        BY <1>1, <3>1, TailFacts DEF LinkOK
      <4>4. \A i \in DOMAIN replies' : \E j \in DOMAIN Tail(replies) : replies'[i] = Tail(replies)[j]
        BY <4>2, <4>3, SuffixFacts
      <4>5. KeptAcks(replies', replies) BY <4>3, <4>4 DEF KeptAcks
      <4> QED BY <1>1, <3>1, <4>1, <4>5, RetryProgress
    <3>3. CASE Head(replies).ack = phase
      <4>1. /\ \/ connect_btl \/ verify_canbus_uuid \/ send_file(Head(replies))
               \/ verify_file(Head(replies)) \/ finish
            /\ replies' = Tail(replies)
        BY <2>8, <3>3 DEF Receive
      <4> QED BY <1>1, <3>1, <3>3, <4>1, AnswerProgress
    <3> QED BY <3>2, <3>3
  <2>9. CASE Timeout
    <3>1. Retry(replies) /\ UNCHANGED <<image, requests, backend, flash, ram>>
      BY <2>9 DEF Timeout, device
    <3>2. replies' \in Suffixes(replies) /\ replies \in Seq(Replies) BY <1>1, <3>1 DEF Retry, LinkOK
    <3>3. KeptAcks(replies', replies) BY <3>2, SuffixFacts DEF KeptAcks
    <3> QED BY <1>1, <3>1, <3>3, RetryProgress
  <2>10. CASE Kill
    <3>1. /\ phase' = "idle" /\ UNCHANGED <<image, requests, replies, backend, flash, ram>>
      BY <2>10 DEF Kill, device
    <3>2. KeptAcks(replies', replies) BY <3>1 DEF KeptAcks
    <3>3. Taken(m)' /\ WireInv(m)' BY <1>1, <3>1, <3>2, TakenSame, WireStep DEF Progress
    <3> QED BY <3>1, <3>3 DEF Progress, ToolInv
  <2>11. CASE LoseRequest
    <3>1. /\ requests # <<>> /\ requests' = Tail(requests)
          /\ UNCHANGED <<phase, block, image, replies, backend, flash, ram>>
      BY <2>11 DEF LoseRequest, Fault, host, device
    <3>2. KeptAcks(replies', replies) BY <3>1 DEF KeptAcks
    <3> QED BY <1>1, <3>1, <3>2, WireOnlyStep
  <2>12. CASE DamageRequest
    <3> DEFINE x == [ack |-> "ERROR", addr |-> 0, data |-> Erased]
    <3>1. /\ requests # <<>> /\ requests' = Tail(requests) /\ replies' = Append(replies, x)
          /\ UNCHANGED <<phase, block, image, backend, flash, ram>>
      BY <2>12 DEF DamageRequest, Fault, host, device
    <3>2. x \in Replies /\ x.ack \notin {"SEND_BLOCK", "SEND_EOF"}
      BY BufferedFlashAssumption DEF Replies, Blocks
    <3>3. KeptAcks(replies', replies) BY <1>1, <3>1, <3>2, AppendKeptAcks
    <3> QED BY <1>1, <3>1, <3>3, WireOnlyStep
  <2>13. CASE LoseReply
    <3>1. /\ replies # <<>> /\ replies' = Tail(replies)
          /\ UNCHANGED <<phase, block, image, requests, backend, flash, ram>>
      BY <2>13 DEF LoseReply, Fault, host, device
    <3>2. KeptAcks(replies', replies) BY <1>1, <3>1, TailFacts DEF LinkOK, KeptAcks
    <3> QED BY <1>1, <3>1, <3>2, WireOnlyStep
  <2>14. CASE DamageReply
    <3> DEFINE x == [ack |-> "ERROR", addr |-> 0, data |-> Erased]
    <3>1. /\ replies # <<>> /\ replies' = <<x>> \o Tail(replies)
          /\ UNCHANGED <<phase, block, image, requests, backend, flash, ram>>
      BY <2>14 DEF DamageReply, Fault, host, device
    <3>2. KeptAcks(replies', replies)
      <4> SUFFICES ASSUME NEW i \in DOMAIN replies', replies'[i].ack \in {"SEND_BLOCK", "SEND_EOF"}
                   PROVE  \E j \in DOMAIN replies : replies'[i] = replies[j]
        BY DEF KeptAcks
      <4>1. /\ DOMAIN replies' = 1 .. Len(replies) /\ replies'[1] = x
            /\ \A j \in 2 .. Len(replies) : replies'[j] = Tail(replies)[j - 1]
        BY <1>1, <3>1 DEF LinkOK
      <4>2. /\ DOMAIN replies = 1 .. Len(replies) /\ Len(replies) \in Nat
            /\ DOMAIN Tail(replies) = 1 .. Len(replies) - 1
            /\ \A j \in DOMAIN Tail(replies) : Tail(replies)[j] = replies[j + 1]
        BY <1>1, <3>1, TailFacts DEF LinkOK
      <4>3. i # 1 BY <4>1
      <4>4. i \in 2 .. Len(replies) /\ i - 1 \in DOMAIN Tail(replies) /\ (i - 1) + 1 = i
        BY <4>1, <4>2, <4>3
      <4>5. replies'[i] = replies[i] BY <4>1, <4>2, <4>4
      <4> QED BY <4>2, <4>4, <4>5
    <3> QED BY <1>1, <3>1, <3>2, WireOnlyStep
  <2>15. CASE UNCHANGED hvars
    <3>1. UNCHANGED <<phase, block, image, requests, replies, backend, flash, ram>>
      BY <2>15 DEF hvars, host, device
    <3>2. KeptAcks(replies', replies) BY <3>1 DEF KeptAcks
    <3> QED BY <1>1, <3>1, <3>2, WireOnlyStep
  <2> QED BY <1>3, <2>6, <2>7, <2>8, <2>9, <2>10, <2>11, <2>12, <2>13, <2>14, <2>15
          DEF HNext
<1> QED BY <1>2, <1>3

LEMMA DurInvStep == DurInv /\ [HNext]_hvars => DurInv'
<1> SUFFICES ASSUME DurInv, [HNext]_hvars, ~restarted', ~stale', backend' # "lpc176x"
             PROVE  \E m \in 0 .. Len(image') : Progress(m)'
  BY HostInvStep, AlignedStep DEF DurInv, Undisturbed
<1>1. HostInv /\ Aligned BY DEF DurInv
<1>2. CASE Start BY <1>1, <1>2, StartProgress
<1>3. CASE ~Start
  <2>1. /\ ~restarted /\ ~stale /\ backend # "lpc176x" /\ image' = image
        /\ ~complete_task /\ ~PowerLoss
    <3>1. stale' = stale /\ backend' = backend /\ image' = image
      BY <1>3 DEF HNext, Write, DropPrimed, Receive, Timeout, Kill, command_dispatch,
                  command_write_block, command_eof, command_read_block, command_complete,
                  command_other, Answer, complete_task, PowerLoss, Restart, LoseRequest,
                  DamageRequest, LoseReply, DamageReply, Fault, device, host, hvars
    <3>2. ~complete_task /\ ~PowerLoss
      BY Zenon DEF complete_task, PowerLoss, Restart
    <3>3. restarted' = restarted
      BY <1>3, <3>2 DEF HNext, Write, DropPrimed, Receive, Timeout, Kill, command_dispatch,
                  command_write_block, command_eof, command_read_block, command_complete,
                  command_other, Answer, LoseRequest,
                  DamageRequest, LoseReply, DamageReply, Fault, device, host, hvars
    <3> QED BY <3>1, <3>2, <3>3
  <2>2. PICK m \in 0 .. Len(image) : Progress(m)
    BY <2>1 DEF DurInv, Undisturbed
  <2>3. \E k \in 0 .. Len(image) : Progress(k)'
    BY <1>1, <1>3, <2>1, <2>2, StepProgress
  <2> QED BY <2>1, <2>3
<1> QED BY <1>2, <1>3

\* An acknowledged SEND_EOF means that the file is in the array and none of it in
\* RAM any longer, on the STM32 and the RP2040: for every file, size of page and
\* sector and transport, whatever the link loses, damages or delays, in every run
\* of the tool in which the device did not restart and that no answer to an
\* earlier run came into.
THEOREM AckedEofIsDurableSafe == HSpec => [](backend # "lpc176x" => AckedEofIsDurable)
<1>1. DurInv => (backend # "lpc176x" => AckedEofIsDurable)
  BY DEF DurInv, Progress, ToolInv, EofDone, AckedEofIsDurable
<1> QED BY <1>1, DurInvInit, DurInvStep, PTL DEF HSpec

-----------------------------------------------------------------------------
(* STM32: pages fill from their start.  With files that have data in the   *)
(* first quarter of each block, check_erased() takes nothing for blank     *)
(* that is not: behind a blank block of a page all is blank, and so is the *)
(* block after the last that was taken.  A lost block that a late answer   *)
(* to an earlier run let the tool skip would leave a hole, and a torn      *)
(* block may look blank, so both are left out.                             *)

Ordered == \A b, c \in Blocks :
              b < c /\ b \div SectorBlocks = c \div SectorBlocks /\ flash[b] = Erased
                 => flash[c] = Erased

\* The block after m others is blank, or the first of its page.
NextBlank(m) == m \in Blocks /\ ~starts_sector(m) => flash[m] = Erased

PageInv == backend = "stm32" /\ FirstQuarterUsed /\ crashes = 0 =>
              Ordered /\ \E m \in 0 .. Len(image) : Progress(m) /\ NextBlank(m)

\* The scan covers a block at least.
LEMMA BlankScan ==
    ASSUME NEW f, NEW a \in Int, NEW n \in Int, n >= 4, check_erased(f, a, n)
    PROVE  f[a] = Erased
<1>1. a \in a .. a + n \div 4 - 1 OBVIOUS
<1> QED BY <1>1 DEF check_erased

\* Of one block it covers a quarter.
LEMMA BlankBlock ==
    ASSUME NEW f, NEW a \in Int
    PROVE  check_erased(f, a, 1) <=> BlankQuarters[f[a]] >= 1
<1>1. 1 \div 4 = 0 /\ 1 % 4 = 1 OBVIOUS
<1>2. a .. a + 0 - 1 = {} /\ a + 0 = a OBVIOUS
<1> QED BY <1>1, <1>2 DEF check_erased

LEMMA BlankPayloads ==
    /\ BlankQuarters[Erased] = 4
    /\ FirstQuarterUsed => \A f \in Images : \A c \in 0 .. Len(f) - 1 :
          BlankQuarters[f[c + 1]] = 0 /\ f[c + 1] # Erased
<1>1. BlankQuarters[Erased] = 4 BY BufferedFlashAssumption
<1>2. ASSUME FirstQuarterUsed, NEW f \in Images, NEW c \in 0 .. Len(f) - 1
      PROVE  BlankQuarters[f[c + 1]] = 0
  <2>1. f \in Seq(Data) /\ Len(f) \in Nat BY HostFlasherAssumption
  <2>2. c + 1 \in DOMAIN f BY <2>1
  <2> QED BY <1>2, <2>2 DEF FirstQuarterUsed
<1> QED BY <1>1, <1>2

LEMMA SectorSize == SectorBlocks \in Int /\ SectorBlocks >= 5
<1>1. /\ BufBlocks \in Nat \ {0} /\ BufBlocks % 4 = 0
      /\ SectorBlocks \in Nat /\ SectorBlocks > BufBlocks
  BY BufferedFlashAssumption
<1>2. BufBlocks >= 4 BY ONLY <1>1
<1> QED BY <1>1, <1>2

\* The block that was taken last, or the next, is stored and acknowledged, and
\* the pages stay in order.
LEMMA PageWrite ==
    ASSUME FlashTypeOK, image \in Images, FirstQuarterUsed, NEW m \in 0 .. Len(image),
           backend = "stm32", Taken(m), Ordered, NextBlank(m),
           NEW a \in 0 .. Len(image) - 1, a \in {m - 1, m}, NEW ret,
           stm32_flash_write_block(a, image[a + 1], ret)
    PROVE  ret = 0 /\ Ordered' /\ NextBlank(a + 1)'
<1> DEFINE n == Len(image)
           d == image[a + 1]
<1>1. /\ n \in Nat /\ n <= NumBlocks /\ NumBlocks \in Nat /\ m \in 0 .. n /\ a \in 0 .. n - 1
      /\ a \in Nat /\ a \in Blocks /\ \A c \in Blocks : c \in Nat
      /\ BlankQuarters[d] = 0 /\ d # Erased
  BY ImageFacts, BufferedFlashAssumption, BlankPayloads DEF Blocks
<1>2. flash \in [Blocks -> Cells] BY DEF FlashTypeOK, Cells
<1>3. \A c \in 0 .. m - 1 : flash[c] = image[c + 1] /\ flash[c] # Erased
  <2>1. \A c \in 0 .. m - 1 : flash[c] = image[c + 1] BY DEF Taken
  <2>2. \A c \in 0 .. m - 1 : c \in 0 .. n - 1 BY <1>1
  <2> QED BY <2>1, <2>2, BlankPayloads
<1> HIDE DEF n, d
<1>4. a + 1 \in Blocks /\ ~starts_sector(a + 1) => (a + 1) \div SectorBlocks = a \div SectorBlocks
  <2>1. a + 1 \in Nat /\ (a + 1) - 1 = a BY <1>1
  <2> QED BY <2>1, WithinSector
<1>5. stm32_flash_write_block(a, d, ret) BY DEF d
<1>6. CASE starts_sector(a)
  <2>1. ~stm32_refused(a, d) BY <1>6 DEF stm32_refused
  <2>2. CASE stm32_retransmit(a, d)
    <3>1. flash' = flash /\ ret = 0 BY <1>5, <2>1, <2>2 DEF stm32_flash_write_block
    <3>2. check_erased(flash, a + 1, SectorBlocks - 1) BY <1>6, <2>2 DEF stm32_retransmit
    <3>3. flash[a + 1] = Erased
      <4>1. a + 1 \in Int /\ SectorBlocks - 1 \in Int /\ SectorBlocks - 1 >= 4 BY <1>1, SectorSize
      <4> QED BY <3>2, <4>1, BlankScan
    <3> QED BY <3>1, <3>3 DEF Ordered, NextBlank
  <2>3. CASE ~stm32_retransmit(a, d)
    <3> DEFINE f == stm32_cleared(a)
    <3>1. PICK v \in stm32_programmed(f[a], d) :
             flash' = [f EXCEPT ![a] = v] /\ ret = IF v = d THEN 0 ELSE -3
      BY <1>5, <2>1, <2>3 DEF stm32_flash_write_block, stm32_write
    <3>2. f \in [Blocks -> Cells] BY <1>2, EraseType DEF stm32_cleared
    <3>3. ASSUME NEW c \in Blocks, c \div SectorBlocks = a \div SectorBlocks
          PROVE  f[c] = Erased
      <4>1. CASE stm32_erased(a)
        <5>1. check_erased(flash, a, SectorBlocks) BY <1>6, <4>1 DEF stm32_erased
        <5>2. flash[a] = Erased
          <6>1. SectorBlocks \in Int /\ SectorBlocks >= 4 BY SectorSize
          <6> QED BY <1>1, <5>1, <6>1, BlankScan
        <5>3. ~(c < a) BY <1>1, <1>6, <3>3, BelowSector
        <5>4. c = a \/ a < c BY <1>1, <5>3
        <5>5. flash[c] = Erased BY <1>1, <3>3, <5>2, <5>4 DEF Ordered
        <5> QED BY <4>1, <5>5 DEF stm32_cleared
      <4>2. CASE ~stm32_erased(a) BY <1>6, <3>3, <4>2 DEF stm32_cleared, erase_sector
      <4> QED BY <4>1, <4>2
    <3>4. ASSUME NEW c \in Blocks, c \div SectorBlocks # a \div SectorBlocks
          PROVE  f[c] = flash[c]
      BY <3>4 DEF stm32_cleared, erase_sector
    <3>5. f[a] = Erased BY <1>1, <3>3
    <3>6. v = d BY <3>1, <3>5 DEF stm32_programmed
    <3> HIDE DEF f
    <3>7. ret = 0 BY <3>1, <3>6
    <3>8. flash'[a] = d /\ \A c \in Blocks : c # a => flash'[c] = f[c] BY <1>1, <3>1, <3>2, <3>6
    <3>9. ASSUME NEW b \in Blocks, NEW c \in Blocks, b < c,
                 b \div SectorBlocks = c \div SectorBlocks, flash'[b] = Erased
          PROVE  flash'[c] = Erased
      <4>1. CASE c \div SectorBlocks = a \div SectorBlocks
        <5>1. ~(b < a) BY <1>1, <1>6, <3>9, <4>1, BelowSector
        <5>2. c # a BY <3>9, <5>1
        <5> QED BY <3>3, <3>8, <4>1, <5>2
      <4>2. CASE c \div SectorBlocks # a \div SectorBlocks
        <5>1. b # a /\ c # a BY <3>9, <4>2
        <5>2. flash'[b] = flash[b] /\ flash'[c] = flash[c] BY <3>4, <3>8, <3>9, <4>2, <5>1
        <5> QED BY <3>9, <5>2 DEF Ordered
      <4> QED BY <4>1, <4>2
    <3>10. NextBlank(a + 1)'
      <4>1. a + 1 # a BY <1>1
      <4> QED BY <1>4, <3>3, <3>8, <4>1 DEF NextBlank
    <3> QED BY <3>7, <3>9, <3>10 DEF Ordered
  <2> QED BY <2>2, <2>3
<1>7. CASE ~starts_sector(a) /\ a = m
  <2>1. flash[a] = Erased BY <1>1, <1>7 DEF NextBlank
  <2>2. stm32_erased(a)
    <3>1. BlankQuarters[flash[a]] >= 1 BY <2>1, BlankPayloads
    <3>2. check_erased(flash, a, 1) BY <1>1, <3>1, BlankBlock
    <3> QED BY <1>7, <3>2 DEF stm32_erased
  <2>3. ~stm32_retransmit(a, d) /\ ~stm32_refused(a, d) /\ stm32_cleared(a) = flash
    BY <1>7, <2>2 DEF stm32_retransmit, stm32_refused, stm32_cleared
  <2>4. PICK v \in stm32_programmed(flash[a], d) :
           flash' = [flash EXCEPT ![a] = v] /\ ret = IF v = d THEN 0 ELSE -3
    BY <1>5, <2>3 DEF stm32_flash_write_block, stm32_write
  <2>5. v = d BY <2>1, <2>4 DEF stm32_programmed
  <2>6. ret = 0 BY <2>4, <2>5
  <2>7. flash'[a] = d /\ \A c \in Blocks : c # a => flash'[c] = flash[c] BY <1>1, <1>2, <2>4, <2>5
  <2>8. ASSUME NEW b \in Blocks, NEW c \in Blocks, b < c,
               b \div SectorBlocks = c \div SectorBlocks, flash'[b] = Erased
        PROVE  flash'[c] = Erased
    <3>1. b # a BY <1>1, <2>7, <2>8
    <3>2. flash[b] = Erased BY <2>7, <2>8, <3>1
    <3>3. c # a
      <4>1. c = a => b \in 0 .. m - 1 BY <1>1, <1>7, <2>8
      <4> QED BY <1>3, <3>2, <4>1
    <3>4. flash[c] = Erased BY <2>8, <3>2 DEF Ordered
    <3> QED BY <2>7, <3>3, <3>4
  <2>9. NextBlank(a + 1)'
    <3>1. a + 1 # a /\ a < a + 1 BY <1>1
    <3>2. a + 1 \in Blocks /\ ~starts_sector(a + 1) => flash[a + 1] = Erased
      BY <1>1, <1>4, <2>1, <3>1 DEF Ordered
    <3> QED BY <2>7, <3>1, <3>2 DEF NextBlank
  <2> QED BY <2>6, <2>8, <2>9 DEF Ordered
<1>8. CASE ~starts_sector(a) /\ a = m - 1
  <2>1. a \in 0 .. m - 1 /\ a + 1 = m BY <1>1, <1>8
  <2>2. flash[a] = d BY <1>3, <2>1 DEF d
  <2>3. ~stm32_erased(a)
    <3>1. ~(BlankQuarters[flash[a]] >= 1) BY <1>1, <2>2
    <3>2. ~check_erased(flash, a, 1) BY <1>1, <3>1, BlankBlock
    <3> QED BY <1>8, <3>2 DEF stm32_erased
  <2>4. stm32_retransmit(a, d) /\ ~stm32_refused(a, d)
    BY <1>8, <2>2, <2>3 DEF stm32_retransmit, stm32_refused
  <2>5. ret = 0 /\ flash' = flash BY <1>5, <2>4 DEF stm32_flash_write_block
  <2> QED BY <2>1, <2>5 DEF Ordered, NextBlank
<1> QED BY <1>6, <1>7, <1>8

\* The device restarts, with its flash and what it had answered.
LEMMA RestartProgress ==
    ASSUME NEW m, Progress(m), backend = "stm32", complete_task
    PROVE  Progress(m)' /\ UNCHANGED <<flash, image>>
<1>1. /\ requests' = <<>> /\ UNCHANGED <<phase, block, image, replies, backend, flash>>
  BY DEF complete_task, Restart, host
<1>2. DOMAIN requests' = {} BY <1>1
<1>3. NoBlocks' /\ (NoEofs => NoEofs') BY <1>1, <1>2 DEF NoBlocks, NoEofs
<1>4. EofDone => EofDone' BY <1>1, <1>3 DEF EofDone, Flashed
<1>5. Taken(m)' BY <1>1 DEF Progress, Taken
<1>6. WireInv(m)'
  BY <1>1, <1>2, <1>4 DEF Progress, WireInv, BlocksInv, InOrderInv, EofInv, AcksInv
<1>7. ToolInv(m)'
  <2>1. Due(m, block) => Due(m, block)' BY <1>1 DEF Due, Open
  <2> QED BY <1>1, <1>2, <1>3, <1>4, <2>1 DEF Progress, ToolInv
<1> QED BY <1>1, <1>5, <1>6, <1>7 DEF Progress

LEMMA PageInvInit == HInit => PageInv
<1> SUFFICES ASSUME HInit, FirstQuarterUsed
             PROVE  Ordered /\ \E m \in 0 .. Len(image) : Progress(m) /\ NextBlank(m)
  BY DEF PageInv
<1>1. HostInv BY HostInvInit
<1>2. Progress(0)
  <2>1. DOMAIN requests = {} /\ DOMAIN replies = {} /\ phase = "idle" BY DEF HInit
  <2>2. Taken(0) BY DEF Taken
  <2> QED BY <2>1, <2>2 DEF Progress, WireInv, ToolInv, BlocksInv, InOrderInv, EofInv, AcksInv
<1>3. 0 \in 0 .. Len(image) BY <1>1, ImageFacts DEF HostInv, ToolOK
<1>4. NextBlank(0) BY SectorStart DEF NextBlank
<1>5. Ordered
  <2> SUFFICES ASSUME NEW b \in Blocks, NEW c \in Blocks, b < c, flash[b] = Erased
               PROVE  flash[c] = Erased
    BY DEF Ordered
  <2>1. flash \in OldFlash /\ b \in Nat /\ c \in Nat BY BufferedFlashAssumption DEF HInit, Blocks
  <2>2. CASE flash = [e \in Blocks |-> Erased] BY <2>2
  <2>3. CASE \E f \in Images : flash = [e \in Blocks |-> IF e < Len(f) THEN f[e + 1] ELSE Erased]
    <3>1. PICK f \in Images : flash = [e \in Blocks |-> IF e < Len(f) THEN f[e + 1] ELSE Erased]
      BY <2>3
    <3>2. Len(f) \in Nat BY HostFlasherAssumption
    <3>3. ~(b < Len(f))
      <4>1. b < Len(f) => b \in 0 .. Len(f) - 1 /\ flash[b] = f[b + 1] BY <2>1, <3>1, <3>2
      <4> QED BY <4>1, BlankPayloads
    <3>4. ~(c < Len(f)) BY <2>1, <3>2, <3>3
    <3> QED BY <3>1, <3>4
  <2> QED BY <2>1, <2>2, <2>3 DEF OldFlash
<1> QED BY <1>2, <1>3, <1>4, <1>5

LEMMA PageInvStep ==
    ASSUME HostInv, Aligned, PageInv, [HNext]_hvars, ~stale'
    PROVE  PageInv'
<1> SUFFICES ASSUME backend' = "stm32", FirstQuarterUsed, crashes' = 0
             PROVE  (Ordered /\ \E m \in 0 .. Len(image) : Progress(m) /\ NextBlank(m))'
  BY DEF PageInv
<1>1. ~PowerLoss /\ ~Kill
  <2>1. crashes \in Nat BY CountFacts DEF HostInv, RestOK
  <2> QED BY <2>1 DEF PowerLoss, Kill
<1>2. backend = "stm32" /\ crashes = 0
  BY <1>1 DEF HNext, Start, Write, DropPrimed, Receive, Timeout, command_dispatch,
              command_write_block, command_eof, command_read_block, command_complete,
              command_other, Answer, complete_task, Restart, LoseRequest,
              DamageRequest, LoseReply, DamageReply, Fault, device, host, counts, hvars
<1>3. Ordered BY <1>2 DEF PageInv
<1>4. PICK m \in 0 .. Len(image) : Progress(m) /\ NextBlank(m) BY <1>2 DEF PageInv
<1>5. CASE Start
  <2>1. 0 \in 0 .. Len(image') /\ Progress(0)' BY <1>5, StartProgress
  <2>2. flash' = flash BY <1>5 DEF Start
  <2>3. NextBlank(0)' BY SectorStart DEF NextBlank
  <2> QED BY <1>3, <2>1, <2>2, <2>3 DEF Ordered
<1>6. CASE complete_task
  <2>1. Progress(m)' /\ UNCHANGED <<flash, image>> BY <1>2, <1>4, <1>6, RestartProgress
  <2> QED BY <1>3, <1>4, <2>1 DEF Ordered, NextBlank
<1>7. CASE ~Start /\ ~complete_task
  <2>1. image' = image
    BY <1>1, <1>7 DEF HNext, Write, DropPrimed, Receive, Timeout, command_dispatch,
                command_write_block, command_eof, command_read_block, command_complete,
                command_other, Answer, LoseRequest,
                DamageRequest, LoseReply, DamageReply, Fault, host, hvars
  <2>2. PICK k \in 0 .. Len(image) : Progress(k)' /\ Moved(m, k)
    BY <1>1, <1>2, <1>4, <1>7, StepProgress
  <2>3. CASE k = m /\ flash' = flash BY <1>3, <1>4, <2>1, <2>2, <2>3 DEF Ordered, NextBlank
  <2>4. CASE ~(k = m /\ flash' = flash)
    <3>1. PICK a \in 0 .. Len(image) - 1, ret \in {0, -2, -3, -4} :
             /\ a \in {m - 1, m} /\ stm32_flash_write_block(a, image[a + 1], ret)
             /\ k = IF ret = 0 THEN a + 1 ELSE m
      BY <2>2, <2>4 DEF Moved
    <3>2. FlashTypeOK /\ image \in Images /\ Taken(m) BY <1>4 DEF HostInv, ToolOK, Progress
    <3>3. ret = 0 /\ Ordered' /\ NextBlank(a + 1)'
      BY <1>2, <1>3, <1>4, <3>1, <3>2, PageWrite
    <3>4. k = a + 1 BY <3>1, <3>3
    <3> QED BY <2>1, <2>2, <3>3, <3>4
  <2> QED BY <2>3, <2>4
<1> QED BY <1>1, <1>5, <1>6, <1>7

-----------------------------------------------------------------------------
(* Recovery.  What is on its way and of no use to the tool, and every try  *)
(* that is used up, stands for a fault (Budget): commands that are         *)
(* answered, or written again, add nothing, the silence after a loss and   *)
(* an answer to another command cost one try each.  The tool therefore     *)
(* runs out of tries only after as many faults.                            *)

\* The elements of a sequence that are not in S.
OthersAt(s, S) == {i \in DOMAIN s : s[i] \notin S}
Others(s, S) == Cardinality(OthersAt(s, S))

LEMMA OthersType ==
    ASSUME NEW T, NEW s \in Seq(T), NEW S
    PROVE  /\ IsFiniteSet(OthersAt(s, S)) /\ Others(s, S) \in Nat /\ Others(s, S) <= Len(s)
<1> DEFINE n == Len(s)
<1>1. n \in Nat /\ DOMAIN s = 1 .. n BY LenProperties
<1> HIDE DEF n
<1>2. IsFiniteSet(1 .. n) /\ Cardinality(1 .. n) = n
  <2>1. 1 \in Int /\ n \in Int BY <1>1
  <2>2. IsFiniteSet(1 .. n) /\ Cardinality(1 .. n) = (IF 1 > n THEN 0 ELSE n - 1 + 1)
    BY <2>1, FS_Interval
  <2>3. (IF 1 > n THEN 0 ELSE n - 1 + 1) = n BY <1>1
  <2> QED BY <2>2, <2>3
<1>3. OthersAt(s, S) \in SUBSET (1 .. n) BY <1>1 DEF OthersAt
<1>4. IsFiniteSet(OthersAt(s, S)) /\ Cardinality(OthersAt(s, S)) <= n
  BY <1>2, <1>3, FS_Subset
<1> QED BY <1>4, FS_CardinalityType DEF Others, n

\* Elements are dropped from the front.
LEMMA OthersSkip ==
    ASSUME NEW T, NEW s \in Seq(T), NEW t \in Seq(T), NEW S, NEW n \in Nat,
           \A i \in DOMAIN t : i + n \in DOMAIN s /\ t[i] = s[i + n]
    PROVE  /\ Others(t, S) <= Others(s, S)
           /\ n > 0 /\ s # <<>> /\ s[1] \notin S => Others(t, S) + 1 <= Others(s, S)
<1> DEFINE A == OthersAt(t, S)
           B == OthersAt(s, S)
           f == [i \in A |-> i + n]
<1>1. IsFiniteSet(A) /\ IsFiniteSet(B) /\ Cardinality(A) \in Nat /\ Cardinality(B) \in Nat
  BY OthersType DEF Others
<1>2. \A i \in A : i \in Nat /\ i >= 1 /\ i + n \in B
  <2> TAKE i \in A
  <2>1. i \in DOMAIN t /\ t[i] \notin S BY DEF OthersAt
  <2>2. i \in 1 .. Len(t) /\ Len(t) \in Nat BY <2>1, LenProperties
  <2>3. i + n \in DOMAIN s /\ s[i + n] \notin S BY <2>1
  <2> QED BY <2>2, <2>3 DEF OthersAt
<1> HIDE DEF A, B
<1>3. ASSUME NEW C, IsFiniteSet(C), \A i \in A : i + n \in C
      PROVE  Cardinality(A) <= Cardinality(C)
  <2>1. f \in [A -> C] BY <1>3
  <2>2. \A i, j \in A : f[i] = f[j] => i = j BY <1>2
  <2>3. f \in Injection(A, C) BY <2>1, <2>2 DEF Injection, IsInjective
  <2> HIDE DEF f
  <2> QED BY <1>3, <2>3, FS_Injection
<1>4. Cardinality(A) <= Cardinality(B) BY <1>1, <1>2, <1>3
<1>5. ASSUME n > 0, s # <<>>, s[1] \notin S PROVE Cardinality(A) + 1 <= Cardinality(B)
  <2>1. 1 \in B
    <3>1. 1 \in DOMAIN s BY <1>5, TailFacts
    <3> QED BY <1>5, <3>1 DEF B, OthersAt
  <2>2. IsFiniteSet(B \ {1}) /\ Cardinality(B \ {1}) = Cardinality(B) - 1
    BY <1>1, <2>1, FS_RemoveElement
  <2>3. \A i \in A : i + n \in B \ {1} BY <1>2, <1>5
  <2>4. Cardinality(A) <= Cardinality(B \ {1}) BY <1>3, <2>2, <2>3
  <2> QED BY <1>1, <2>2, <2>4
<1> QED BY <1>4, <1>5 DEF Others, A, B

\* One element is added or changed.
LEMMA OthersPut ==
    ASSUME NEW T, NEW s \in Seq(T), NEW t \in Seq(T), NEW S, NEW k,
           \A i \in DOMAIN t : i = k \/ (i \in DOMAIN s /\ t[i] = s[i])
    PROVE  /\ Others(t, S) <= Others(s, S) + 1
           /\ t[k] \in S => Others(t, S) <= Others(s, S)
<1> DEFINE A == OthersAt(t, S)
           B == OthersAt(s, S)
<1>1. IsFiniteSet(A) /\ IsFiniteSet(B) /\ Cardinality(A) \in Nat /\ Cardinality(B) \in Nat
  BY OthersType DEF Others
<1>2. A \subseteq B \cup {k} /\ (t[k] \in S => A \subseteq B) BY DEF OthersAt
<1> HIDE DEF A, B
<1>3. /\ IsFiniteSet(B \cup {k})
      /\ Cardinality(B \cup {k}) = (IF k \in B THEN Cardinality(B) ELSE Cardinality(B) + 1)
  BY <1>1, FS_AddElement
<1>4. Cardinality(A) <= Cardinality(B \cup {k}) BY <1>2, <1>3, FS_Subset
<1>5. t[k] \in S => Cardinality(A) <= Cardinality(B) BY <1>1, <1>2, FS_Subset
<1>6. Cardinality(A) <= Cardinality(B) + 1 BY <1>1, <1>3, <1>4
<1> QED BY <1>5, <1>6 DEF Others, A, B

\* Answers and commands for what the tool is at.
OwnReplies == {x \in Replies : x.ack = phase /\ x.addr = block}
OwnRequests == {x \in Requests : x.cmd = phase /\ x.addr = block}

\* What is on its way, and how much of it is of no use to the tool.
InFlight == Len(replies) + Len(requests)
Strays == Others(replies, OwnReplies) + Others(requests, OwnRequests)

\* What the tool will read next is of use to it.
FirstOwn == IF replies # <<>> THEN replies[1] \in OwnReplies
            ELSE requests # <<>> => requests[1] \in OwnRequests

LEMMA LineFacts ==
    ASSUME LinkOK
    PROVE  /\ Strays \in Nat /\ InFlight \in Nat /\ Strays <= InFlight
           /\ Others(replies, OwnReplies) \in Nat /\ Others(requests, OwnRequests) \in Nat
           /\ Len(replies) \in Nat /\ Len(requests) \in Nat
           /\ replies # <<>> => InFlight > 0
           /\ requests # <<>> => InFlight > 0
           /\ replies = <<>> /\ requests = <<>> => InFlight = 0 /\ Strays = 0
<1>1. /\ Others(replies, OwnReplies) \in Nat /\ Others(replies, OwnReplies) <= Len(replies)
      /\ Others(requests, OwnRequests) \in Nat /\ Others(requests, OwnRequests) <= Len(requests)
  BY OthersType DEF LinkOK
<1>2. Len(replies) \in Nat /\ Len(requests) \in Nat BY LenProperties DEF LinkOK
<1>3. replies # <<>> => Len(replies) > 0 BY DEF LinkOK
<1>4. requests # <<>> => Len(requests) > 0 BY DEF LinkOK
<1>5. replies = <<>> => Len(replies) = 0 OBVIOUS
<1>6. requests = <<>> => Len(requests) = 0 OBVIOUS
<1> QED BY <1>1, <1>2, <1>3, <1>4, <1>5, <1>6 DEF Strays, InFlight

\* The tool stays at what it is.
LEMMA SameOwn ==
    ASSUME UNCHANGED <<phase, block>>
    PROVE  /\ OwnReplies' = OwnReplies /\ OwnRequests' = OwnRequests
           /\ Strays' = Others(replies', OwnReplies) + Others(requests', OwnRequests)
<1>1. OwnReplies' = OwnReplies /\ OwnRequests' = OwnRequests BY DEF OwnReplies, OwnRequests
<1> QED BY <1>1 DEF Strays

\* The tool clears its read buffer, or an answer is lost.
LEMMA SkipReplies ==
    ASSUME LinkOK, LinkOK', UNCHANGED <<phase, block, requests>>, NEW n \in 0 .. Len(replies),
           replies' = SubSeq(replies, n + 1, Len(replies))
    PROVE  /\ InFlight' = InFlight - n /\ Strays' <= Strays
           /\ n > 0 /\ replies[1] \notin OwnReplies => Strays' + 1 <= Strays
           /\ (FirstOwn' => FirstOwn) \/ Strays' + 1 <= Strays
<1>1. replies \in Seq(Replies) /\ replies' \in Seq(Replies) BY DEF LinkOK
<1>2. /\ Len(replies) \in Nat /\ n \in Nat /\ DOMAIN replies = 1 .. Len(replies)
      /\ Len(replies') = Len(replies) - n
      /\ \A i \in DOMAIN replies' : i + n \in DOMAIN replies /\ replies'[i] = replies[i + n]
  BY <1>1
<1>3. /\ Others(replies', OwnReplies) <= Others(replies, OwnReplies)
      /\ n > 0 /\ replies # <<>> /\ replies[1] \notin OwnReplies
            => Others(replies', OwnReplies) + 1 <= Others(replies, OwnReplies)
  BY <1>1, <1>2, OthersSkip
<1>4. n > 0 => replies # <<>>
  <2>1. replies = <<>> => Len(replies) = 0 OBVIOUS
  <2> DEFINE k == Len(replies)
  <2>2. n \in 0 .. k /\ k \in Nat BY <1>2
  <2> HIDE DEF k
  <2> QED BY <2>1, <2>2 DEF k
<1>5. /\ Others(replies', OwnReplies) \in Nat /\ Others(replies, OwnReplies) \in Nat
      /\ Others(requests, OwnRequests) \in Nat
  BY <1>1, OthersType DEF LinkOK
<1>6. Strays' = Others(replies', OwnReplies) + Others(requests, OwnRequests)
  BY SameOwn
<1>7. Strays' <= Strays /\ (n > 0 /\ replies[1] \notin OwnReplies => Strays' + 1 <= Strays)
  BY <1>3, <1>4, <1>5, <1>6 DEF Strays
<1>8. InFlight' = InFlight - n
  <2>1. Len(requests) \in Nat /\ Len(requests') = Len(requests) BY DEF LinkOK
  <2>2. Len(replies) \in Nat /\ Len(replies') = Len(replies) - n /\ n \in Nat BY <1>2
  <2> QED BY ONLY <2>1, <2>2 DEF InFlight
<1>9. (FirstOwn' => FirstOwn) \/ Strays' + 1 <= Strays
  <2>1. CASE n = 0
    <3>1. replies' = replies
      <4>1. replies' = SubSeq(replies, 1, Len(replies)) BY <2>1
      <4> QED BY <1>1, <4>1
    <3> QED BY <3>1, SameOwn DEF FirstOwn
  <2>2. CASE n > 0 BY <1>4, <1>7, <2>2 DEF FirstOwn
  <2>3. n = 0 \/ n > 0 BY ONLY n \in 0 .. Len(replies)
  <2> QED BY ONLY <2>1, <2>2, <2>3
<1> QED BY <1>7, <1>8, <1>9

\* A command is lost.
LEMMA SkipRequest ==
    ASSUME LinkOK, LinkOK', UNCHANGED <<phase, block, replies>>, requests # <<>>,
           requests' = Tail(requests)
    PROVE  /\ InFlight' = InFlight - 1 /\ Strays' <= Strays
           /\ (FirstOwn' => FirstOwn) \/ Strays' + 1 <= Strays
<1>1. requests \in Seq(Requests) /\ requests' \in Seq(Requests) BY DEF LinkOK
<1>2. /\ Len(requests) \in Nat /\ Len(requests') = Len(requests) - 1
      /\ \A i \in DOMAIN requests' : i + 1 \in DOMAIN requests /\ requests'[i] = requests[i + 1]
  BY <1>1
<1>3. /\ Others(requests', OwnRequests) <= Others(requests, OwnRequests)
      /\ requests[1] \notin OwnRequests
            => Others(requests', OwnRequests) + 1 <= Others(requests, OwnRequests)
  <2>1. 1 \in Nat /\ 1 > 0 OBVIOUS
  <2> QED BY <1>1, <1>2, <2>1, OthersSkip
<1>4. /\ Others(requests', OwnRequests) \in Nat /\ Others(requests, OwnRequests) \in Nat
      /\ Others(replies, OwnReplies) \in Nat
  BY <1>1, OthersType DEF LinkOK
<1>5. Strays' = Others(replies, OwnReplies) + Others(requests', OwnRequests)
  BY SameOwn
<1>6. Strays' <= Strays /\ (requests[1] \notin OwnRequests => Strays' + 1 <= Strays)
  BY <1>3, <1>4, <1>5 DEF Strays
<1>7. InFlight' = InFlight - 1
  <2>1. Len(replies) \in Nat BY DEF LinkOK
  <2> QED BY <1>2, <2>1 DEF InFlight
<1>8. (FirstOwn' => FirstOwn) \/ Strays' + 1 <= Strays
  BY <1>6, SameOwn DEF FirstOwn
<1> QED BY <1>6, <1>7, <1>8

\* The two ends of a line.
LEMMA OthersAppend ==
    ASSUME NEW T, NEW s \in Seq(T), NEW x \in T, NEW S
    PROVE  /\ Append(s, x) \in Seq(T) /\ Len(Append(s, x)) = Len(s) + 1 /\ Len(s) \in Nat
           /\ Append(s, x)[1] = (IF s = <<>> THEN x ELSE s[1])
           /\ Others(Append(s, x), S) \in Nat /\ Others(s, S) \in Nat
           /\ Others(Append(s, x), S) <= Others(s, S) + 1
           /\ x \in S => Others(Append(s, x), S) <= Others(s, S)
<1> DEFINE t == Append(s, x)
           k == Len(s) + 1
<1>1. /\ t \in Seq(T) /\ Len(t) = k /\ Len(s) \in Nat /\ t[k] = x
      /\ \A i \in DOMAIN t : i = k \/ (i \in DOMAIN s /\ t[i] = s[i])
  OBVIOUS
<1>2. t[1] = (IF s = <<>> THEN x ELSE s[1]) OBVIOUS
<1> HIDE DEF t, k
<1>3. /\ Others(t, S) <= Others(s, S) + 1
      /\ t[k] \in S => Others(t, S) <= Others(s, S)
  BY <1>1, OthersPut
<1>4. Others(t, S) \in Nat /\ Others(s, S) \in Nat BY <1>1, OthersType
<1> QED BY <1>1, <1>2, <1>3, <1>4 DEF t, k

LEMMA OthersTail ==
    ASSUME NEW T, NEW s \in Seq(T), s # <<>>, NEW S
    PROVE  /\ Tail(s) \in Seq(T) /\ Len(Tail(s)) = Len(s) - 1 /\ Len(s) \in Nat
           /\ Others(Tail(s), S) \in Nat /\ Others(s, S) \in Nat
           /\ Others(Tail(s), S) <= Others(s, S)
           /\ s[1] \notin S => Others(Tail(s), S) + 1 <= Others(s, S)
<1> DEFINE t == Tail(s)
<1>1. /\ t \in Seq(T) /\ Len(t) = Len(s) - 1 /\ Len(s) \in Nat
      /\ \A i \in DOMAIN t : i + 1 \in DOMAIN s /\ t[i] = s[i + 1]
  OBVIOUS
<1> HIDE DEF t
<1>2. 1 \in Nat /\ 1 > 0 OBVIOUS
<1>3. /\ Others(t, S) <= Others(s, S)
      /\ s[1] \notin S => Others(t, S) + 1 <= Others(s, S)
  BY <1>1, <1>2, OthersSkip
<1>4. Others(t, S) \in Nat /\ Others(s, S) \in Nat BY <1>1, OthersType
<1> QED BY <1>1, <1>3, <1>4 DEF t

\* The tool writes what it is at.
LEMMA WriteLine ==
    ASSUME LinkOK, UNCHANGED <<phase, block, replies>>, NEW x \in OwnRequests,
           requests' = Append(requests, x)
    PROVE  InFlight' = InFlight + 1 /\ Strays' <= Strays /\ (FirstOwn' => FirstOwn)
<1> DEFINE w == Append(requests, x)
<1>1. /\ requests \in Seq(Requests) /\ replies \in Seq(Replies) /\ x \in Requests
      /\ Len(replies) \in Nat
  BY DEF LinkOK, OwnRequests
<1>2. /\ Len(w) = Len(requests) + 1 /\ Len(requests) \in Nat
      /\ w[1] = (IF requests = <<>> THEN x ELSE requests[1])
      /\ Others(w, OwnRequests) <= Others(requests, OwnRequests)
      /\ Others(w, OwnRequests) \in Nat /\ Others(requests, OwnRequests) \in Nat
  BY <1>1, OthersAppend
<1>3. requests' = w OBVIOUS
<1> HIDE DEF w
<1>4. Others(replies, OwnReplies) \in Nat BY <1>1, OthersType
<1>5. Strays' = Others(replies, OwnReplies) + Others(w, OwnRequests) BY <1>3, SameOwn
<1>6. Strays' <= Strays BY ONLY <1>2, <1>4, <1>5 DEF Strays
<1>7. InFlight' = InFlight + 1
  <2>1. Len(replies') = Len(replies) /\ Len(requests') = Len(w) BY <1>3
  <2> QED BY ONLY <1>1, <1>2, <2>1 DEF InFlight
<1>8. FirstOwn' => FirstOwn
  <2>1. FirstOwn' = (IF replies # <<>> THEN replies[1] \in OwnReplies
                     ELSE w # <<>> => w[1] \in OwnRequests)
    BY <1>3, SameOwn DEF FirstOwn
  <2>2. w # <<>>
    <3>1. w = <<>> => Len(w) = 0 OBVIOUS
    <3> QED BY <1>2, <3>1
  <2> QED BY ONLY <1>2, <2>1, <2>2 DEF FirstOwn
<1> QED BY <1>6, <1>7, <1>8

\* A command is answered.
LEMMA AnswerLine ==
    ASSUME LinkOK, UNCHANGED <<phase, block>>, requests # <<>>, NEW x \in Replies,
           requests' = Tail(requests), replies' = Append(replies, x)
    PROVE  /\ InFlight' = InFlight /\ Strays' <= Strays + 1
           /\ (requests[1] \in OwnRequests => x \in OwnReplies) => Strays' <= Strays
           /\ (x \in OwnReplies => requests[1] \in OwnRequests) => (FirstOwn' => FirstOwn)
<1> DEFINE t == Tail(requests)
           w == Append(replies, x)
<1>1. requests \in Seq(Requests) /\ replies \in Seq(Replies) BY DEF LinkOK
<1>2. /\ Len(t) = Len(requests) - 1 /\ Len(requests) \in Nat
      /\ Others(t, OwnRequests) \in Nat /\ Others(requests, OwnRequests) \in Nat
      /\ Others(t, OwnRequests) <= Others(requests, OwnRequests)
      /\ requests[1] \notin OwnRequests
            => Others(t, OwnRequests) + 1 <= Others(requests, OwnRequests)
  BY <1>1, OthersTail
<1>3. /\ Len(w) = Len(replies) + 1 /\ Len(replies) \in Nat
      /\ w[1] = (IF replies = <<>> THEN x ELSE replies[1])
      /\ Others(w, OwnReplies) \in Nat /\ Others(replies, OwnReplies) \in Nat
      /\ Others(w, OwnReplies) <= Others(replies, OwnReplies) + 1
      /\ x \in OwnReplies => Others(w, OwnReplies) <= Others(replies, OwnReplies)
  BY <1>1, OthersAppend
<1>4. replies' = w /\ requests' = t OBVIOUS
<1> HIDE DEF t, w
<1>5. Strays' = Others(w, OwnReplies) + Others(t, OwnRequests) BY <1>4, SameOwn
<1>6. /\ Strays' <= Strays + 1
      /\ (requests[1] \in OwnRequests => x \in OwnReplies) => Strays' <= Strays
  BY ONLY <1>2, <1>3, <1>5 DEF Strays
<1>7. InFlight' = InFlight
  <2>1. Len(replies') = Len(w) /\ Len(requests') = Len(t) BY <1>4
  <2> QED BY ONLY <1>2, <1>3, <2>1 DEF InFlight
<1>8. ASSUME x \in OwnReplies => requests[1] \in OwnRequests, FirstOwn' PROVE FirstOwn
  <2>1. w # <<>>
    <3>1. w = <<>> => Len(w) = 0 OBVIOUS
    <3> QED BY <1>3, <3>1
  <2>2. w[1] \in OwnReplies BY <1>4, <1>8, <2>1, SameOwn DEF FirstOwn
  <2> QED BY <1>3, <1>8, <2>2 DEF FirstOwn
<1> QED BY <1>6, <1>7, <1>8

\* An answer is damaged.
LEMMA DamagedLine ==
    ASSUME LinkOK, LinkOK', UNCHANGED <<phase, block, requests>>, replies # <<>>,
           NEW x \in Replies, x \notin OwnReplies, replies' = <<x>> \o Tail(replies)
    PROVE  InFlight' = InFlight /\ Strays' <= Strays + 1 /\ ~FirstOwn'
<1>1. replies \in Seq(Replies) /\ replies' \in Seq(Replies) BY DEF LinkOK
<1>2. /\ Tail(replies) \in Seq(Replies) /\ Len(Tail(replies)) = Len(replies) - 1
      /\ Len(replies) \in Nat /\ DOMAIN replies = 1 .. Len(replies)
      /\ \A i \in 1 .. Len(replies) - 1 : Tail(replies)[i] = replies[i + 1]
  BY <1>1
<1>3. /\ Len(replies') = Len(replies) /\ replies'[1] = x
      /\ DOMAIN replies' = 1 .. Len(replies)
      /\ \A j \in 2 .. Len(replies) : replies'[j] = Tail(replies)[j - 1]
  BY <1>1, <1>2
<1>4. \A i \in DOMAIN replies' : i = 1 \/ (i \in DOMAIN replies /\ replies'[i] = replies[i])
  <2> SUFFICES ASSUME NEW i \in 2 .. Len(replies) PROVE replies'[i] = replies[i]
    BY <1>2, <1>3
  <2>1. i - 1 \in 1 .. Len(replies) - 1 /\ (i - 1) + 1 = i BY <1>2
  <2> QED BY <1>2, <1>3, <2>1
<1>5. Others(replies', OwnReplies) <= Others(replies, OwnReplies) + 1
  BY <1>1, <1>4, OthersPut
<1>6. /\ Others(replies', OwnReplies) \in Nat /\ Others(replies, OwnReplies) \in Nat
      /\ Others(requests, OwnRequests) \in Nat /\ Len(requests) \in Nat
  <2>1. Others(replies', OwnReplies) \in Nat BY <1>1, OthersType
  <2> QED BY <2>1, LineFacts
<1>7. Strays' = Others(replies', OwnReplies) + Others(requests, OwnRequests) BY SameOwn
<1>8. Strays' <= Strays + 1 BY ONLY <1>5, <1>6, <1>7 DEF Strays
<1>9. InFlight' = InFlight
  <2>1. Len(requests') = Len(requests) OBVIOUS
  <2> QED BY ONLY <1>2, <1>3, <1>6, <2>1 DEF InFlight
<1>10. ~FirstOwn'
  <2>1. replies' # <<>>
    <3>1. DOMAIN replies' # {}
      <4>1. 1 \in DOMAIN replies BY <1>1, TailFacts
      <4> QED BY <1>2, <1>3, <4>1
    <3> QED BY <3>1
  <2> QED BY <1>3, <2>1, SameOwn DEF FirstOwn
<1> QED BY <1>8, <1>9, <1>10

\* The answer to a command that was written, and that to prime().
Awaited == IF waiting THEN 1 ELSE 0
Priming == IF primed THEN 1 ELSE 0

\* The tries of the command at hand that are used up, or will be: what is of no
\* use and on its way takes one each, and so does the silence when nothing is.
Owed == IF waiting /\ InFlight = 0 THEN 1 ELSE Strays

\* The answer to prime() may use up a try of CONNECT without a fault: when the
\* tool throws away the answer to CONNECT for it.
Allowance == IF phase = "CONNECT" /\ transport = "usb" /\ ~(primed /\ FirstOwn)
             THEN 1 ELSE 0

\* Every further message and every try that is used up stands for a fault.
Budget == /\ InFlight <= faults + Awaited + Priming
          /\ TriesFor(phase) - tries + Owed <= faults + Allowance
          /\ Rounds - rounds + Owed <= faults + Allowance

\* The update is under way or has succeeded.
Steady == /\ result # "error"
          /\ phase \notin {"COMPLETE", "idle"} => matches
          /\ phase = "COMPLETE" => result = "verified"
          /\ phase # "idle" => /\ on /\ Budget
                               /\ primed => phase = "CONNECT" /\ transport = "usb"

\* The devices that accept a repeated block.
Retriable == backend = "rp2040" \/ (backend = "stm32" /\ FirstQuarterUsed)

RecInv == Undisturbed /\ Retriable /\ crashes = 0 => faults >= BlockTries \/ Steady

RecoverInv == VerifyInv /\ DurInv /\ RecInv

\* The code has 3, 3 and 5.  CONNECT needs the one more for prime(), whose answer
\* the tool may mistake for that to CONNECT and the other way round.
EnoughTries == BlockTries <= Rounds /\ BlockTries < CommandTries

Numbers == /\ Strays \in Nat /\ InFlight \in Nat /\ Strays <= InFlight
           /\ Allowance \in {0, 1} /\ Awaited \in {0, 1} /\ Priming \in {0, 1}
           /\ TriesFor(phase) \in Nat /\ tries \in Nat /\ rounds \in Nat /\ faults \in Nat
           /\ Rounds \in Nat /\ rounds <= Rounds

BudgetFacts == /\ Numbers
               /\ waiting => Awaited = 1
               /\ ~waiting => Awaited = 0 /\ Owed = Strays
               /\ InFlight > 0 => Owed = Strays
               /\ waiting /\ InFlight = 0 => Owed = 1
               /\ primed => Priming = 1
               /\ ~primed => Priming = 0

LEMMA BudgetTypes == HostInv => BudgetFacts
<1> SUFFICES ASSUME HostInv PROVE BudgetFacts
  OBVIOUS
<1>1. Strays \in Nat /\ InFlight \in Nat /\ Strays <= InFlight
  BY LineFacts DEF HostInv
<1>2. Allowance \in {0, 1} /\ Awaited \in {0, 1} /\ Priming \in {0, 1}
  BY Zenon DEF Allowance, Awaited, Priming
<1>3. /\ TriesFor(phase) \in Nat /\ tries \in Nat /\ rounds \in Nat /\ faults \in Nat
      /\ Rounds \in Nat /\ rounds <= Rounds
  BY CountFacts DEF HostInv, ToolOK, RestOK, TriesFor
<1>4. /\ waiting => Awaited = 1
      /\ ~waiting => Awaited = 0 /\ Owed = Strays
      /\ waiting /\ InFlight = 0 => Owed = 1
      /\ InFlight # 0 => Owed = Strays
      /\ primed => Priming = 1
      /\ ~primed => Priming = 0
  BY Zenon DEF Awaited, Priming, Owed
<1>5. InFlight > 0 => InFlight # 0 BY <1>1
<1> QED BY <1>1, <1>2, <1>3, <1>4, <1>5 DEF BudgetFacts, Numbers

LEMMA AllowanceStep ==
    ASSUME HostInv, HostInv', UNCHANGED <<phase, transport, primed>>
    PROVE  /\ Allowance' >= Allowance - 1
           /\ (FirstOwn' => FirstOwn) \/ ~primed => Allowance' >= Allowance
<1>0. BudgetFacts /\ BudgetFacts' BY BudgetTypes, PTL
<1>1. Allowance \in {0, 1} /\ Allowance' \in {0, 1}
  BY <1>0 DEF BudgetFacts, Numbers
<1>2. /\ Allowance = 1 <=> phase = "CONNECT" /\ transport = "usb" /\ ~(primed /\ FirstOwn)
      /\ Allowance' = 1 <=> phase = "CONNECT" /\ transport = "usb" /\ ~(primed /\ FirstOwn')
  <2>1. 1 # 0 OBVIOUS
  <2> QED BY <2>1, Zenon DEF Allowance
<1>3. (FirstOwn' => FirstOwn) \/ ~primed => (Allowance = 1 => Allowance' = 1)
  BY <1>2, Zenon
<1>4. Allowance' >= Allowance - 1 BY <1>1
<1>5. (Allowance = 1 => Allowance' = 1) => Allowance' >= Allowance BY <1>1
<1> QED BY <1>3, <1>4, <1>5

\* One fault more covers what a fault of the link does.
LEMMA FaultBudget ==
    ASSUME HostInv, HostInv', Budget, InFlight > 0, InFlight' <= InFlight,
           Strays' <= Strays + 1, InFlight' < InFlight => Strays' <= Strays,
           (FirstOwn' => FirstOwn) \/ Strays' + 1 <= Strays,
           UNCHANGED <<phase, tries, rounds, waiting, primed, transport>>, faults' = faults + 1
    PROVE  Budget'
<1>0. BudgetFacts /\ BudgetFacts' BY BudgetTypes, PTL
<1>1. PICK s \in Nat, i \in Nat, a \in {0, 1}, w \in {0, 1}, p \in {0, 1}, most \in Nat,
           t \in Nat, r \in Nat, f \in Nat :
        /\ s = Strays /\ i = InFlight /\ a = Allowance /\ w = Awaited /\ p = Priming
        /\ most = TriesFor(phase) /\ t = tries /\ r = rounds /\ f = faults
  BY <1>0 DEF BudgetFacts, Numbers
<1>2. PICK s2 \in Nat, i2 \in Nat, a2 \in {0, 1} :
        s2 = Strays' /\ i2 = InFlight' /\ a2 = Allowance'
  BY <1>0 DEF BudgetFacts, Numbers
<1>3. PICK o2 \in Nat : o2 = Owed' /\ (o2 = s2 \/ (i2 = 0 /\ o2 = 1))
  <2>1. i2 > 0 \/ i2 = 0 OBVIOUS
  <2>2. Owed' = Strays' \/ (InFlight' = 0 /\ Owed' = 1)
    BY <1>0, <1>2, <2>1, Zenon DEF BudgetFacts
  <2> QED BY <1>2, <2>2
<1>4. /\ i > 0 /\ i2 <= i /\ s <= i /\ s2 <= i2 /\ s2 <= s + 1 /\ (i2 < i => s2 <= s)
      /\ a2 >= a - 1
  BY <1>0, <1>1, <1>2, AllowanceStep DEF BudgetFacts, Numbers
<1>5. a2 >= a \/ s2 + 1 <= s
  BY <1>1, <1>2, AllowanceStep
<1>6. Owed = s
  BY <1>0, <1>1, Zenon DEF BudgetFacts
<1>7. o2 - a2 <= s - a + 1
  <2>1. /\ a2 \in Int /\ a \in Int /\ s \in Nat /\ s2 \in Nat /\ i \in Nat /\ i2 \in Nat
        /\ o2 \in Nat /\ (o2 = s2 \/ (i2 = 0 /\ o2 = 1))
    BY <1>3
  <2>2. CASE a2 >= a BY ONLY <1>4, <2>1, <2>2
  <2>3. CASE s2 + 1 <= s BY ONLY <1>4, <2>1, <2>3
  <2> QED BY <1>5, <2>2, <2>3
<1>8. i <= f + w + p /\ most - t + s <= f + a /\ Rounds - r + s <= f + a
  BY <1>1, <1>6 DEF Budget
<1>9. /\ TriesFor(phase') = most /\ Awaited' = w /\ Priming' = p /\ tries' = t /\ rounds' = r
      /\ faults' = f + 1
  <2>1. Awaited' = Awaited /\ Priming' = Priming BY Zenon DEF Awaited, Priming
  <2> QED BY <1>1, <2>1
<1>10. Rounds \in Nat BY CountFacts
<1>11. /\ i2 <= (f + 1) + w + p /\ most - t + o2 <= (f + 1) + a2
       /\ Rounds - r + o2 <= (f + 1) + a2
  BY ONLY <1>4, <1>7, <1>8, <1>10
<1> QED BY <1>2, <1>3, <1>9, <1>11 DEF Budget

\* A command that is written, or answered as it should be, needs no fault.
LEMMA SteadyBudget ==
    ASSUME HostInv, HostInv', Budget, Strays' <= Strays, FirstOwn' => FirstOwn, InFlight' > 0,
           \/ InFlight' = InFlight /\ waiting' = waiting
           \/ InFlight' = InFlight + 1 /\ ~waiting /\ waiting',
           UNCHANGED <<phase, tries, rounds, primed, transport, faults>>
    PROVE  Budget'
<1>0. BudgetFacts /\ BudgetFacts' BY BudgetTypes, PTL
<1>1. PICK s \in Nat, i \in Nat, a \in {0, 1}, w \in {0, 1}, p \in {0, 1}, most \in Nat,
           t \in Nat, r \in Nat, f \in Nat :
        /\ s = Strays /\ i = InFlight /\ a = Allowance /\ w = Awaited /\ p = Priming
        /\ most = TriesFor(phase) /\ t = tries /\ r = rounds /\ f = faults
  BY <1>0 DEF BudgetFacts, Numbers
<1>2. PICK s2 \in Nat, i2 \in Nat, a2 \in {0, 1}, w2 \in {0, 1} :
        s2 = Strays' /\ i2 = InFlight' /\ a2 = Allowance' /\ w2 = Awaited'
  BY <1>0 DEF BudgetFacts, Numbers
<1>3. Owed = s /\ Owed' = s2
  <2>1. InFlight' = InFlight => InFlight > 0 OBVIOUS
  <2> QED BY <1>0, <1>1, <1>2, <2>1, Zenon DEF BudgetFacts
<1>4. s2 <= s /\ i2 > 0 /\ a2 >= a
  BY <1>1, <1>2, AllowanceStep
<1>5. (i2 = i /\ w2 = w) \/ (i2 = i + 1 /\ w = 0 /\ w2 = 1)
  <2>1. (i2 = i /\ waiting' = waiting) \/ (i2 = i + 1 /\ ~waiting /\ waiting')
    BY <1>1, <1>2
  <2>2. waiting' = waiting => w2 = w BY <1>1, <1>2 DEF Awaited
  <2> QED BY <1>0, <1>1, <1>2, <2>1, <2>2, Zenon DEF BudgetFacts
<1>8. i <= f + w + p /\ most - t + s <= f + a /\ Rounds - r + s <= f + a
  BY <1>1, <1>3 DEF Budget
<1>9. /\ TriesFor(phase') = most /\ Priming' = p /\ tries' = t /\ rounds' = r /\ faults' = f
  BY <1>1 DEF Priming
<1>10. Rounds \in Nat BY CountFacts
<1>11. /\ i2 <= f + w2 + p /\ most - t + s2 <= f + a2
       /\ Rounds - r + s2 <= f + a2
  BY ONLY <1>4, <1>5, <1>8, <1>10
<1> QED BY <1>2, <1>3, <1>9, <1>11 DEF Budget

\* The tool gives up only after as many faults as a block has tries.
LEMMA LastTry ==
    ASSUME EnoughTries, HostInv, Budget, tries = 1,
           \/ Owed >= 1 /\ faults' = faults
           \/ faults' = faults + 1
    PROVE  faults' >= BlockTries
<1>0. BudgetFacts BY BudgetTypes
<1>1. PICK s \in Nat, i \in Nat, a \in {0, 1}, most \in Nat, f \in Nat :
        s = Strays /\ i = InFlight /\ a = Allowance /\ most = TriesFor(phase) /\ f = faults
  BY <1>0 DEF BudgetFacts, Numbers
<1>2. PICK o \in Nat : o = Owed
  <2>1. s = Owed \/ 1 = Owed BY <1>1 DEF Owed
  <2> QED BY <2>1
<1>3. PICK g \in Nat : g = faults' /\ ((o >= 1 /\ g = f) \/ g = f + 1)
  BY <1>1, <1>2
<1>4. most - 1 + o <= f + a BY <1>1, <1>2 DEF Budget
<1>5. a = 0 \/ most > BlockTries
  <2>1. Allowance = 1 => phase = "CONNECT"
    <3>1. 1 # 0 OBVIOUS
    <3> QED BY <3>1, Zenon DEF Allowance
  <2> QED BY <1>1, <2>1 DEF EnoughTries, TriesFor
<1>6. most >= BlockTries /\ BlockTries \in Nat
  BY <1>1, CountFacts DEF EnoughTries, TriesFor
<1>7. (o >= 1 /\ g = f) \/ g = f + 1 BY <1>3
<1>8. g >= BlockTries BY ONLY <1>4, <1>5, <1>6, <1>7
<1> QED BY <1>3, <1>8

LEMMA LastRound ==
    ASSUME EnoughTries, HostInv, Budget, rounds = 1, phase # "CONNECT", Owed >= 1
    PROVE  faults >= BlockTries
<1>0. BudgetFacts BY BudgetTypes
<1>1. PICK f \in Nat : f = faults
  BY <1>0 DEF BudgetFacts, Numbers
<1>2. Allowance = 0 BY DEF Allowance
<1>3. PICK o \in Nat : o = Owed /\ o >= 1
  <2>1. Strays = Owed \/ 1 = Owed BY DEF Owed
  <2> QED BY <1>0, <2>1 DEF BudgetFacts, Numbers
<1>4. Rounds - 1 + o <= f + 0 BY <1>1, <1>2, <1>3 DEF Budget
<1> QED BY <1>1, <1>3, <1>4, CountFacts DEF EnoughTries

\* The tool tries the command once more.
LEMMA NextTry ==
    ASSUME HostInv, HostInv', Budget, waiting, ~waiting', InFlight' <= InFlight,
           \/ /\ faults' = faults /\ Strays' + 1 <= Owed
              /\ InFlight' + 1 <= InFlight \/ InFlight' = 0
              /\ (FirstOwn' => FirstOwn) \/ ~primed
           \/ /\ faults' = faults + 1 /\ InFlight > 0 /\ Strays' <= Strays
              /\ (FirstOwn' => FirstOwn) \/ Strays' + 1 <= Strays,
           tries' = tries - 1, UNCHANGED <<phase, rounds, primed, transport>>
    PROVE  Budget'
<1>0. BudgetFacts /\ BudgetFacts' BY BudgetTypes, PTL
<1>1. PICK s \in Nat, i \in Nat, a \in {0, 1}, p \in {0, 1}, most \in Nat,
           t \in Nat, r \in Nat, f \in Nat :
        /\ s = Strays /\ i = InFlight /\ a = Allowance /\ p = Priming
        /\ most = TriesFor(phase) /\ t = tries /\ r = rounds /\ f = faults
  BY <1>0 DEF BudgetFacts, Numbers
<1>2. PICK s2 \in Nat, i2 \in Nat, a2 \in {0, 1}, f2 \in Nat :
        s2 = Strays' /\ i2 = InFlight' /\ a2 = Allowance' /\ f2 = faults'
  BY <1>0 DEF BudgetFacts, Numbers
<1>3. Awaited = 1 /\ Awaited' = 0 /\ Owed' = s2
  BY <1>0, <1>2, Zenon DEF BudgetFacts
<1>4. PICK o \in Nat : o = Owed
  <2>1. s = Owed \/ 1 = Owed BY <1>1 DEF Owed
  <2> QED BY <2>1
<1>5. a2 >= a - 1 /\ ((FirstOwn' => FirstOwn) \/ ~primed => a2 >= a)
  BY <1>1, <1>2, AllowanceStep
<1>6. i2 <= f2 + p /\ s2 - a2 + 1 <= o - a + (f2 - f)
  <2>1. i <= f + 1 + p
    BY <1>1, <1>3 DEF Budget
  <2>2. CASE /\ faults' = faults /\ Strays' + 1 <= Owed
             /\ InFlight' + 1 <= InFlight \/ InFlight' = 0
             /\ (FirstOwn' => FirstOwn) \/ ~primed
    <3>1. /\ f2 = f /\ s2 + 1 <= o /\ (i2 + 1 <= i \/ i2 = 0) /\ a2 >= a
      BY <1>1, <1>2, <1>4, <1>5, <2>2
    <3> QED BY ONLY <2>1, <3>1
  <2>3. CASE /\ faults' = faults + 1 /\ InFlight > 0 /\ Strays' <= Strays
             /\ (FirstOwn' => FirstOwn) \/ Strays' + 1 <= Strays
    <3>1. f2 = f + 1 /\ i > 0 /\ s2 <= s /\ (a2 >= a \/ s2 + 1 <= s) /\ i2 <= i /\ a2 >= a - 1
      BY <1>1, <1>2, <1>5, <2>3
    <3>2. o = s BY <1>0, <1>1, <1>4, <2>3, Zenon DEF BudgetFacts
    <3> QED BY ONLY <2>1, <3>1, <3>2
  <2> QED BY <2>2, <2>3
<1>8. most - t + o <= f + a /\ Rounds - r + o <= f + a
  BY <1>1, <1>4 DEF Budget
<1>9. /\ TriesFor(phase') = most /\ tries' = t - 1 /\ rounds' = r /\ Priming' = p
  <2>1. Priming' = Priming BY Zenon DEF Priming
  <2> QED BY <1>1, <2>1
<1>10. Rounds \in Nat BY CountFacts
<1>11. /\ i2 <= f2 + 0 + p /\ most - (t - 1) + s2 <= f2 + a2 /\ Rounds - r + s2 <= f2 + a2
  BY ONLY <1>6, <1>8, <1>10
<1> QED BY <1>2, <1>3, <1>9, <1>11 DEF Budget

\* The tool tries the block once more.
LEMMA NextRound ==
    ASSUME HostInv, HostInv', Budget, waiting, ~waiting', ~primed, InFlight' + 1 <= InFlight,
           Strays' + 1 <= Strays, tries' = TriesFor(phase), rounds' = rounds - 1,
           UNCHANGED <<phase, primed, transport, faults>>
    PROVE  Budget'
<1>0. BudgetFacts /\ BudgetFacts' BY BudgetTypes, PTL
<1>a. Allowance \in Nat /\ Allowance' \in Nat
  BY <1>0 DEF BudgetFacts, Numbers
<1>1. PICK s \in Nat, i \in Nat, a \in Nat, most \in Nat, r \in Nat, f \in Nat :
        /\ s = Strays /\ i = InFlight /\ a = Allowance
        /\ most = TriesFor(phase) /\ r = rounds /\ f = faults
  BY <1>0, <1>a DEF BudgetFacts, Numbers
<1>2. PICK s2 \in Nat, i2 \in Nat, a2 \in Nat :
        s2 = Strays' /\ i2 = InFlight' /\ a2 = Allowance'
  BY <1>0, <1>a DEF BudgetFacts, Numbers
<1>3. Awaited = 1 /\ Priming = 0 /\ Awaited' = 0 /\ Priming' = 0 /\ Owed' = s2
  BY <1>0, <1>2, Zenon DEF BudgetFacts
<1>4. s2 + 1 <= s /\ i2 + 1 <= i /\ s2 <= i2 /\ a2 >= a
  BY <1>0, <1>1, <1>2, AllowanceStep DEF BudgetFacts, Numbers
<1>5. Owed = s
  <2>1. i > 0 BY <1>4
  <2> QED BY <1>0, <1>1, <2>1, Zenon DEF BudgetFacts
<1>8. i <= f + 1 + 0 /\ Rounds - r + s <= f + a
  BY <1>1, <1>3, <1>5 DEF Budget
<1>9. TriesFor(phase') = most /\ tries' = most /\ rounds' = r - 1 /\ faults' = f
  BY <1>1
<1>10. Rounds \in Nat BY CountFacts
<1>11. i2 <= f + 0 + 0 /\ most - most + s2 <= f + a2
  BY <1>4, <1>8
<1>12. Rounds - (r - 1) + s2 <= f + a2
  <2>1. PICK n \in Nat : n = Rounds BY <1>10
  <2>2. n - r + s <= f + a BY <1>8, <2>1
  <2>3. n - (r - 1) + s2 <= f + a2 BY ONLY <1>4, <2>2
  <2> QED BY <2>1, <2>3
<1> QED BY <1>2, <1>3, <1>9, <1>11, <1>12 DEF Budget

\* The tool goes on to the next command: what is on its way of the last one is
\* no more than the faults there were.
LEMMA IssueBudget ==
    ASSUME HostInv, HostInv', Budget, waiting, ~primed, ~primed', InFlight' + 1 <= InFlight,
           NEW cmd, NEW b, Issue(cmd, b), faults' = faults
    PROVE  Budget'
<1>0. BudgetFacts /\ BudgetFacts' BY BudgetTypes, PTL
<1>1. PICK i \in Nat, f \in Nat : i = InFlight /\ f = faults
  BY <1>0 DEF BudgetFacts, Numbers
<1>2. PICK s2 \in Nat, i2 \in Nat, a2 \in {0, 1}, most \in Nat :
        /\ s2 = Strays' /\ i2 = InFlight' /\ a2 = Allowance' /\ most = TriesFor(phase')
        /\ s2 <= i2
  BY <1>0 DEF BudgetFacts, Numbers
<1>3. phase' = cmd /\ tries' = most /\ rounds' = Rounds /\ ~waiting'
  BY <1>2, Zenon DEF Issue
<1>4. Awaited = 1 /\ Priming = 0 /\ Awaited' = 0 /\ Priming' = 0 /\ Owed' = s2
  BY <1>0, <1>2, <1>3, Zenon DEF BudgetFacts
<1>5. i <= f + 1 + 0 /\ i2 + 1 <= i BY <1>1, <1>2, <1>4 DEF Budget
<1>10. Rounds \in Nat BY CountFacts
<1>11. /\ i2 <= f + 0 + 0 /\ most - most + s2 <= f + a2 /\ Rounds - Rounds + s2 <= f + a2
  <2>1. PICK n \in Nat : n = Rounds BY <1>10
  <2>2. s2 <= i2 BY <1>2
  <2>3. a2 >= 0 OBVIOUS
  <2>4. i2 <= f /\ s2 <= f + a2 /\ n - n + s2 <= f + a2 BY ONLY <1>5, <2>2, <2>3
  <2> QED BY <2>1, <2>4
<1> QED BY <1>1, <1>2, <1>3, <1>4, <1>11 DEF Budget

\* What the tool takes for the answer to prime().
LEMMA DropBudget ==
    ASSUME HostInv, HostInv', Budget, waiting, primed, ~primed', phase = "CONNECT",
           transport = "usb", InFlight' = InFlight - 1, InFlight > 0, Strays' <= Strays,
           FirstOwn \/ Strays' + 1 <= Strays,
           UNCHANGED <<phase, tries, rounds, waiting, transport, faults>>
    PROVE  Budget'
<1>0. BudgetFacts /\ BudgetFacts' BY BudgetTypes, PTL
<1>1. PICK s \in Nat, i \in Nat, a \in {0, 1}, most \in Nat,
           t \in Nat, r \in Nat, f \in Nat :
        /\ s = Strays /\ i = InFlight /\ a = Allowance
        /\ most = TriesFor(phase) /\ t = tries /\ r = rounds /\ f = faults
  BY <1>0 DEF BudgetFacts, Numbers
<1>2. PICK s2 \in Nat, i2 \in Nat : s2 = Strays' /\ i2 = InFlight'
  BY <1>0 DEF BudgetFacts, Numbers
<1>3. Awaited = 1 /\ Awaited' = 1 /\ Priming = 1 /\ Priming' = 0
  BY <1>0, Zenon DEF BudgetFacts
<1>4. PICK o2 \in Nat : o2 = Owed' /\ (o2 = s2 \/ o2 = 1)
  <2>1. Owed' = s2 \/ Owed' = 1 BY <1>2, Zenon DEF Owed
  <2> QED BY <2>1
<1>5. Allowance' = 1 BY Zenon DEF Allowance
<1>6. /\ i2 = i - 1 /\ s2 <= s /\ i > 0 /\ (a = 0 \/ s2 + 1 <= s)
  <2>1. FirstOwn => Allowance = 0 BY Zenon DEF Allowance
  <2> QED BY <1>1, <1>2, <2>1
<1>7. Owed = s BY <1>0, <1>1, Zenon DEF BudgetFacts
<1>8. i <= f + 1 + 1 /\ most - t + s <= f + a /\ Rounds - r + s <= f + a
  BY <1>1, <1>3, <1>7 DEF Budget
<1>9. TriesFor(phase') = most /\ tries' = t /\ rounds' = r /\ faults' = f
  BY <1>1
<1>10. Rounds \in Nat BY CountFacts
<1>11. o2 = s2 \/ o2 = 1 BY <1>4
<1>12. /\ i2 <= f + 1 + 0 /\ most - t + o2 <= f + 1 /\ Rounds - r + o2 <= f + 1
  BY ONLY <1>6, <1>8, <1>10, <1>11
<1> QED BY <1>2, <1>3, <1>4, <1>5, <1>9, <1>12 DEF Budget

\* One element is taken from the front.
LEMMA TailSkip ==
    ASSUME NEW S, NEW s \in Seq(S), s # <<>>
    PROVE  1 \in 0 .. Len(s) /\ Tail(s) = SubSeq(s, 1 + 1, Len(s))
<1>1. Len(s) \in Nat /\ Len(s) # 0 OBVIOUS
<1>2. 1 \in 0 .. Len(s) BY <1>1
<1>3. Tail(s) = SubSeq(s, 2, Len(s)) OBVIOUS
<1>4. 1 + 1 = 2 OBVIOUS
<1> QED BY <1>2, <1>3, <1>4

\* An answer is dropped, and more behind it.
LEMMA SuffixSkip ==
    ASSUME NEW S, NEW s \in Seq(S), s # <<>>, NEW t \in Suffixes(Tail(s))
    PROVE  \E n \in 0 .. Len(s) : n > 0 /\ t = SubSeq(s, n + 1, Len(s))
<1> DEFINE v == Tail(s)
<1>1. /\ v \in Seq(S) /\ Len(s) \in Nat /\ Len(v) = Len(s) - 1 /\ Len(s) > 0
      /\ \A i \in 1 .. Len(s) - 1 : v[i] = s[i + 1]
  OBVIOUS
<1>2. PICK k \in 0 .. Len(v) : t = SubSeq(v, k + 1, Len(v))
  BY DEF Suffixes
<1> HIDE DEF v
<1>3. /\ t \in Seq(S) /\ Len(t) = Len(s) - 1 - k
      /\ \A i \in 1 .. Len(s) - 1 - k : t[i] = v[k + i]
  <2>1. /\ t \in Seq(S) /\ Len(t) = Len(v) - k
        /\ \A i \in 1 .. Len(v) - k : t[i] = v[k + i]
    BY <1>1, <1>2, RestFacts
  <2> QED BY <1>1, <2>1
<1> DEFINE u == SubSeq(s, (k + 1) + 1, Len(s))
<1>4. k + 1 \in 0 .. Len(s) /\ k + 1 > 0 BY <1>1
<1>5. /\ u \in Seq(S) /\ Len(u) = Len(s) - (k + 1)
      /\ \A i \in 1 .. Len(s) - (k + 1) : u[i] = s[(k + 1) + i]
  BY <1>4, RestFacts
<1> HIDE DEF u
<1>6. ASSUME NEW i \in 1 .. Len(t) PROVE t[i] = u[i]
  <2>1. /\ k + i \in 1 .. Len(s) - 1 /\ (k + i) + 1 = (k + 1) + i
        /\ i \in 1 .. Len(s) - 1 - k /\ i \in 1 .. Len(s) - (k + 1)
    BY <1>1, <1>3
  <2> QED BY <1>1, <1>3, <1>5, <2>1
<1>7. Len(t) = Len(u) BY <1>1, <1>3, <1>5
<1>8. t = u BY <1>3, <1>5, <1>6, <1>7, SeqEqual
<1> QED BY <1>4, <1>8 DEF u

\* The tool finds something that is of no use to it.
LEMMA StrayFirst ==
    ASSUME HostInv, replies # <<>>, replies[1] \notin OwnReplies
    PROVE  Owed >= 1 /\ Owed = Strays
<1>1. LinkOK /\ replies \in Seq(Replies) BY DEF HostInv, LinkOK
<1>2. /\ Others(Tail(replies), OwnReplies) + 1 <= Others(replies, OwnReplies)
      /\ Others(Tail(replies), OwnReplies) \in Nat /\ Others(replies, OwnReplies) \in Nat
  BY <1>1, OthersTail
<1>3. Others(requests, OwnRequests) \in Nat /\ InFlight > 0 BY <1>1, LineFacts
<1>4. Owed = Strays BY <1>3, BudgetTypes, Zenon DEF BudgetFacts
<1>5. Strays >= 1 BY ONLY <1>2, <1>3 DEF Strays
<1> QED BY <1>4, <1>5

\* One try of send_command() failed.
LEMMA RetryRecovers ==
    ASSUME EnoughTries, HostInv, HostInv', Steady, waiting, NEW left, Retry(left),
           UNCHANGED <<transport, on>>,
           \/ Owed >= 1 /\ faults' = faults
           \/ faults' = faults + 1,
           UNCHANGED <<phase, block>> =>
              /\ InFlight' <= InFlight
              /\ \/ /\ faults' = faults /\ Strays' + 1 <= Owed
                    /\ InFlight' + 1 <= InFlight \/ InFlight' = 0
                    /\ (FirstOwn' => FirstOwn) \/ ~primed
                 \/ /\ faults' = faults + 1 /\ InFlight > 0 /\ Strays' <= Strays
                    /\ (FirstOwn' => FirstOwn) \/ Strays' + 1 <= Strays
    PROVE  faults' >= BlockTries \/ Steady'
<1>1. /\ phase # "idle" /\ Budget /\ on /\ tries \in Nat
  BY DEF HostInv, ToolOK, Steady
<1>2. CASE tries_left = 0
  <2>1. tries = 1 BY <1>1, <1>2 DEF tries_left
  <2> QED BY <1>1, <2>1, LastTry
<1>3. CASE tries_left # 0
  <2>1. /\ tries' = tries - 1 /\ waiting' = FALSE /\ UNCHANGED <<phase, block, rounds, result>>
        /\ UNCHANGED <<primed, matches>>
    BY <1>3 DEF Retry, tries_left
  <2>2. ~waiting' BY <2>1, Zenon
  <2>3. Budget' BY <1>1, <2>1, <2>2, NextTry
  <2> QED BY <1>1, <2>1, <2>3 DEF Steady
<1> QED BY <1>2, <1>3

\* An answer to another command.
LEMMA MismatchRecovers ==
    ASSUME EnoughTries, HostInv, HostInv', Steady, Receive, Head(replies).ack # phase
    PROVE  faults' >= BlockTries \/ Steady'
<1>1. /\ waiting /\ replies # <<>> /\ ~primed /\ Retry(Tail(replies))
      /\ UNCHANGED <<transport, requests, on, faults>>
  BY DEF Receive, device
<1>2. LinkOK /\ LinkOK' /\ replies \in Seq(Replies) BY DEF HostInv, LinkOK
<1>3. replies[1] \notin OwnReplies
  BY <1>1, <1>2, TailFacts DEF OwnReplies
<1>4. Owed >= 1 /\ Owed = Strays BY <1>1, <1>3, StrayFirst
<1>5. PICK n \in 0 .. Len(replies) : n > 0 /\ replies' = SubSeq(replies, n + 1, Len(replies))
  <2>1. replies' \in Suffixes(Tail(replies)) BY <1>1 DEF Retry
  <2> QED BY <1>1, <1>2, <2>1, SuffixSkip
<1>6. ASSUME UNCHANGED <<phase, block>>
      PROVE  InFlight' <= InFlight /\ InFlight' + 1 <= InFlight /\ Strays' + 1 <= Owed
  <2>1. InFlight' = InFlight - n /\ Strays' + 1 <= Strays
    BY <1>1, <1>2, <1>3, <1>5, <1>6, SkipReplies
  <2>2. InFlight \in Nat /\ n \in Int BY <1>2, LineFacts
  <2> QED BY <1>4, <1>5, <2>1, <2>2
<1> QED BY <1>1, <1>4, <1>6, RetryRecovers

\* No answer in time.
LEMMA TimeoutRecovers ==
    ASSUME EnoughTries, HostInv, HostInv', Steady, Timeout
    PROVE  faults' >= BlockTries \/ Steady'
<1>1. /\ waiting /\ Retry(replies) /\ UNCHANGED <<transport, requests, on>>
      /\ faults' = IF Quiet THEN faults ELSE faults + 1
  BY DEF Timeout, device
<1>2. LinkOK /\ LinkOK' /\ replies \in Seq(Replies) BY DEF HostInv, LinkOK
<1>3. PICK n \in 0 .. Len(replies) : replies' = SubSeq(replies, n + 1, Len(replies))
  BY <1>1 DEF Retry, Suffixes
<1>4. /\ InFlight \in Nat /\ InFlight' \in Nat /\ Strays' \in Nat /\ Strays' <= InFlight'
      /\ n \in Nat
  <2>1. Len(replies) \in Nat BY <1>2
  <2>2. n \in Nat BY <2>1
  <2>3. BudgetFacts /\ BudgetFacts' BY BudgetTypes, PTL
  <2> QED BY <2>2, <2>3 DEF BudgetFacts, Numbers
<1>5. ASSUME UNCHANGED <<phase, block>>
      PROVE  /\ InFlight' = InFlight - n /\ Strays' <= Strays
             /\ (FirstOwn' => FirstOwn) \/ Strays' + 1 <= Strays
  BY <1>1, <1>2, <1>3, <1>5, SkipReplies
<1>6. CASE Quiet
  <2>1. InFlight = 0 BY <1>2, <1>6, LineFacts DEF Quiet
  <2>2. Owed = 1 BY <1>1, <2>1, BudgetTypes DEF BudgetFacts
  <2>3. faults' = faults BY <1>1, <1>6
  <2>4. replies' = <<>> /\ requests' = <<>> /\ replies = <<>> /\ requests = <<>>
    <3>1. replies = <<>> /\ requests = <<>> BY <1>6 DEF Quiet
    <3>2. replies' = <<>> BY <1>3, <3>1
    <3> QED BY <1>1, <3>1, <3>2
  <2>5. FirstOwn BY <2>4 DEF FirstOwn
  <2>6. InFlight' = 0 /\ Strays' = 0
    <3>1. InFlight' = 0 BY <2>4 DEF InFlight
    <3> QED BY <1>4, <3>1
  <2>7. Strays' + 1 <= Owed /\ InFlight' <= InFlight
    BY <2>1, <2>2, <2>6
  <2> QED BY <1>1, <2>2, <2>3, <2>5, <2>6, <2>7, RetryRecovers
<1>7. CASE ~Quiet
  <2>1. InFlight > 0 BY <1>2, <1>7, LineFacts DEF Quiet
  <2>2. faults' = faults + 1 BY <1>1, <1>7
  <2>3. UNCHANGED <<phase, block>> => InFlight' <= InFlight
    BY <1>4, <1>5
  <2> QED BY <1>1, <1>5, <2>1, <2>2, <2>3, RetryRecovers
<1> QED BY <1>6, <1>7

\* An answer to the command the tool is at, for another block.
LEMMA AgainRecovers ==
    ASSUME EnoughTries, HostInv, HostInv', Steady, waiting, ~primed, replies # <<>>,
           Head(replies).addr # block, phase # "CONNECT", Again, replies' = Tail(replies),
           UNCHANGED <<transport, requests, on, faults, primed, matches>>
    PROVE  faults' >= BlockTries \/ Steady'
<1>1. /\ phase # "idle" /\ Budget /\ on /\ rounds \in Nat
  BY DEF HostInv, ToolOK, Steady
<1>2. LinkOK /\ LinkOK' /\ replies \in Seq(Replies) BY DEF HostInv, LinkOK
<1>3. replies[1] \notin OwnReplies
  BY <1>2, TailFacts DEF OwnReplies
<1>4. Owed >= 1 /\ Owed = Strays BY <1>3, StrayFirst
<1>5. CASE rounds = 1
  <2>1. faults >= BlockTries BY <1>1, <1>4, <1>5, LastRound
  <2> QED BY <2>1
<1>6. CASE rounds # 1
  <2>1. /\ rounds' = rounds - 1 /\ tries' = TriesFor(phase) /\ waiting' = FALSE
        /\ UNCHANGED <<phase, block, result>>
    BY <1>6 DEF Again
  <2>2. ~waiting' BY <2>1, Zenon
  <2>3. 1 \in 0 .. Len(replies) /\ replies' = SubSeq(replies, 1 + 1, Len(replies)) /\ 1 > 0
    BY <1>2, TailSkip
  <2>4. InFlight' = InFlight - 1 /\ Strays' + 1 <= Strays
    BY <1>2, <1>3, <2>1, <2>3, SkipReplies
  <2>5. InFlight' + 1 <= InFlight BY <1>2, <2>4, LineFacts
  <2>6. Budget' BY <1>1, <2>1, <2>2, <2>4, <2>5, NextRound
  <2> QED BY <1>1, <2>1, <2>6 DEF Steady
<1> QED BY <1>5, <1>6

\* The tool goes on to another command.
LEMMA IssueRecovers ==
    ASSUME HostInv, HostInv', Steady, waiting, ~primed, replies # <<>>,
           NEW cmd \in Commands, NEW b, Issue(cmd, b), replies' = Tail(replies),
           UNCHANGED <<requests, on, faults, primed>>,
           cmd # "COMPLETE" => matches', result' = "verified" \/ UNCHANGED result,
           cmd = "COMPLETE" => result' = "verified"
    PROVE  Steady'
<1>1. /\ phase # "idle" /\ Budget /\ on /\ result # "error" /\ LinkOK /\ LinkOK'
  BY DEF HostInv, ToolOK, Steady
<1>2. phase' = cmd BY DEF Issue
<1>3. InFlight' + 1 <= InFlight
  <2>1. /\ replies \in Seq(Replies) /\ Len(requests) \in Nat
    BY <1>1 DEF LinkOK
  <2>2. Len(replies') = Len(replies) - 1 /\ Len(replies) \in Nat BY <2>1
  <2>3. Len(requests') = Len(requests) OBVIOUS
  <2> QED BY ONLY <2>1, <2>2, <2>3 DEF InFlight
<1>4. Budget' BY <1>1, <1>3, IssueBudget
<1>5. cmd # "idle" BY DEF Commands
<1> QED BY <1>1, <1>2, <1>4, <1>5 DEF Steady

\* An answer to the command the tool is at.
LEMMA AckRecovers ==
    ASSUME EnoughTries, VerifyInv, DurInv, HostInv, HostInv', Steady, Undisturbed,
           backend # "lpc176x", Receive, Head(replies).ack = phase
    PROVE  faults' >= BlockTries \/ Steady'
<1> DEFINE r == Head(replies)
<1>1. /\ waiting /\ replies # <<>> /\ ~primed /\ replies' = Tail(replies)
      /\ connect_btl \/ verify_canbus_uuid \/ send_file(r) \/ verify_file(r) \/ finish
      /\ UNCHANGED <<transport, image, requests, on, faults, primed>>
  BY DEF Receive, device
<1>2. /\ phase # "idle" /\ on
      /\ phase = "COMPLETE" => result = "verified"
      /\ result # "error" /\ ToolOK /\ LinkOK
  BY <1>1 DEF HostInv, ToolOK, Steady
<1>3. r.ack = phase OBVIOUS
<1>4. phase # "COMPLETE" => matches
  <2>1. phase \notin {"COMPLETE", "idle"} => matches BY Zenon DEF Steady
  <2> QED BY <1>2, <2>1
<1>5. r = replies[1] /\ 1 \in DOMAIN replies BY <1>1, <1>2, TailFacts DEF LinkOK
<1> HIDE DEF r
<1>6. CASE connect_btl \/ verify_canbus_uuid
  <2>1. PICK cmd \in {"GET_CANBUS_ID", "SEND_BLOCK"} : Issue(cmd, 0)
    BY <1>6 DEF connect_btl, verify_canbus_uuid
  <2>2. phase # "COMPLETE" /\ UNCHANGED <<matches, result>>
    BY <1>6 DEF connect_btl, verify_canbus_uuid
  <2>3. matches' BY <1>4, <2>2
  <2>4. cmd \in Commands /\ cmd # "COMPLETE" BY DEF Commands
  <2>5. UNCHANGED <<requests, on, faults, primed>> BY <1>1
  <2>6. result' = "verified" \/ UNCHANGED result BY <2>2
  <2>7. Steady' BY <1>1, <2>1, <2>3, <2>4, <2>5, <2>6, IssueRecovers
  <2> QED BY <2>7
<1>7. CASE send_file(r)
  <2>1. phase \in {"SEND_BLOCK", "SEND_EOF"} /\ UNCHANGED matches
    BY <1>7 DEF send_file
  <2>2. phase # "COMPLETE" /\ phase # "CONNECT" BY <2>1
  <2>3. matches' BY <1>4, <2>1, <2>2
  <2>4. CASE phase = "SEND_BLOCK" /\ ~SameAddress(r)
    <3>1. Again BY <1>7, <2>4 DEF send_file
    <3>2. r.addr # block BY <2>4 DEF SameAddress
    <3>3. UNCHANGED <<transport, requests, on, faults, primed, matches>> BY <1>1, <2>1
    <3>4. Head(replies).addr # block BY <3>2 DEF r
    <3> QED BY <1>1, <2>2, <3>1, <3>3, <3>4, AgainRecovers
  <2>5. CASE phase = "SEND_EOF" \/ SameAddress(r)
    <3>1. /\ \E cmd \in {"SEND_EOF", "SEND_BLOCK", "REQUEST_BLOCK"} : \E b : Issue(cmd, b)
          /\ UNCHANGED result
      BY <1>7, <2>5 DEF send_file
    <3>2. PICK cmd \in {"SEND_EOF", "SEND_BLOCK", "REQUEST_BLOCK"} : \E b : Issue(cmd, b)
      BY <3>1
    <3>3. PICK b : Issue(cmd, b) BY <3>2
    <3>4. cmd \in Commands /\ cmd # "COMPLETE" BY DEF Commands
    <3>5. UNCHANGED <<requests, on, faults, primed>> BY <1>1
    <3>6. result' = "verified" \/ UNCHANGED result BY <3>1
    <3>7. Steady' BY <1>1, <2>3, <3>3, <3>4, <3>5, <3>6, IssueRecovers
    <3> QED BY <3>7
  <2> QED BY <2>1, <2>4, <2>5
<1>8. CASE verify_file(r)
  <2>1. phase = "REQUEST_BLOCK" BY <1>8 DEF verify_file
  <2>2. phase # "CONNECT" /\ phase # "COMPLETE" BY <2>1
  <2>3. matches BY <1>4, <2>2
  <2>4. UNCHANGED <<requests, on, faults, primed>> BY <1>1
  <2>5. CASE ~SameAddress(r)
    <3>1. Again /\ UNCHANGED matches BY <1>8, <2>5 DEF verify_file
    <3>2. r.addr # block BY <2>5 DEF SameAddress
    <3>3. UNCHANGED <<transport, requests, on, faults, primed, matches>> BY <1>1, <3>1
    <3>4. Head(replies).addr # block BY <3>2 DEF r
    <3> QED BY <1>1, <2>2, <3>1, <3>3, <3>4, AgainRecovers
  <2>6. CASE SameAddress(r)
    <3>1. r.data = image[block + 1]
      <4>1. flash[r.addr] = r.data
        BY <1>3, <1>5, <2>1 DEF VerifyInv, CleanInv, FreshInv, Undisturbed
      <4>2. Flashed
        BY <2>1 DEF DurInv, Progress, ToolInv, EofDone
      <4>3. block + 1 \in DOMAIN image /\ (block + 1) - 1 = block
        <5>1. /\ image \in Seq(Data) /\ Len(image) \in Nat /\ block \in 0 .. Len(image) - 1
          BY <1>2, ImageFacts DEF ToolOK
        <5> QED BY <5>1
      <4>4. flash[block] = image[block + 1] BY <4>2, <4>3 DEF Flashed
      <4> QED BY <2>6, <4>1, <4>4 DEF SameAddress
    <3> DEFINE same == matches /\ r.data = image[block + 1]
    <3>2. /\ matches' = same
          /\ IF ~LastBlock THEN Issue("REQUEST_BLOCK", block + 1) /\ UNCHANGED result
             ELSE IF ~same THEN Raise ELSE Issue("COMPLETE", 0) /\ result' = "verified"
      BY <1>8, <2>6, Zenon DEF verify_file, sha_differs
    <3>3. same BY <2>3, <3>1
    <3> HIDE DEF same
    <3>4. matches' BY <3>2, <3>3, Zenon
    <3>5. "REQUEST_BLOCK" \in Commands /\ "COMPLETE" \in Commands BY DEF Commands
    <3>6. CASE LastBlock
      <4>1. Issue("COMPLETE", 0) /\ result' = "verified" BY <3>2, <3>6, <3>3
      <4>2. Steady' BY <1>1, <2>4, <3>4, <3>5, <4>1, IssueRecovers
      <4> QED BY <4>2
    <3>7. CASE ~LastBlock
      <4>1. Issue("REQUEST_BLOCK", block + 1) /\ UNCHANGED result BY <3>2, <3>7
      <4>2. Steady' BY <1>1, <2>4, <3>4, <3>5, <4>1, IssueRecovers
      <4> QED BY <4>2
    <3> QED BY <3>6, <3>7
  <2> QED BY <2>5, <2>6
<1>9. CASE finish
  <2>1. phase' = "idle" /\ result' = "ok" BY <1>2, <1>9 DEF finish
  <2> QED BY <2>1 DEF Steady
<1> QED BY <1>1, <1>6, <1>7, <1>8, <1>9

\* The command of prime() is the first stray message.
LEMMA StartRecovers ==
    ASSUME HostInv, HostInv', Start, ~stale'
    PROVE  Steady'
<1> DEFINE hello == [cmd |-> "INVALID", addr |-> 0, data |-> Erased]
<1>1. /\ Issue("CONNECT", 0) /\ result' = "none" /\ on' = TRUE
      /\ requests' = IF transport = "usb" THEN <<hello>> ELSE <<>>
      /\ transport' = transport
  BY DEF Start
<1>2. matches' BY Zenon DEF Start
<1>3. on' BY Zenon DEF Start
<1>4. replies' = <<>>
  <2>1. stale' = (replies' # <<>>) BY DEF Start
  <2> QED BY <2>1, Zenon
<1>5. primed' => transport' = "usb"
  <2>1. primed' = (transport = "usb") BY DEF Start
  <2> QED BY <1>1, <2>1, Zenon
<1>6. transport = "usb" => primed'
  <2>1. primed' = (transport = "usb") BY DEF Start
  <2> QED BY <2>1, Zenon
<1>7. phase' = "CONNECT" /\ tries' = TriesFor("CONNECT") /\ rounds' = Rounds BY <1>1 DEF Issue
<1>8. ~waiting' BY <1>1, Zenon DEF Issue
<1>9. BudgetFacts /\ BudgetFacts' BY BudgetTypes, PTL
<1>10. PICK s \in Nat, i \in Nat, a \in {0, 1}, p \in {0, 1}, f \in Nat :
         /\ s = Strays' /\ i = InFlight' /\ a = Allowance' /\ p = Priming' /\ f = faults'
         /\ s <= i
  BY <1>9 DEF BudgetFacts, Numbers
<1>11. Owed' = s /\ Awaited' = 0 BY <1>8, <1>9, <1>10, Zenon DEF BudgetFacts
<1>12. i <= p /\ i <= a
  <2>1. CASE transport = "usb"
    <3>1. requests' = <<hello>> BY <1>1, <2>1
    <3>2. i = 1
      <4>1. Len(replies') = 0 /\ Len(requests') = 1 BY <1>4, <3>1
      <4> QED BY <1>10, <4>1 DEF InFlight
    <3>3. p = 1 BY <1>6, <1>9, <1>10, <2>1, Zenon DEF BudgetFacts
    <3>4. requests' # <<>> /\ requests'[1] \notin OwnRequests'
      <4>1. requests'[1] = hello BY <3>1
      <4>2. hello.cmd # phase' BY <1>7
      <4>3. requests' # <<>> BY <3>1
      <4> QED BY <4>1, <4>2, <4>3 DEF OwnRequests
    <3>5. ~FirstOwn' BY <1>4, <3>4, Zenon DEF FirstOwn
    <3>6. a = 1 BY <1>1, <1>7, <1>10, <2>1, <3>5, Zenon DEF Allowance
    <3> QED BY <3>2, <3>3, <3>6
  <2>2. CASE transport # "usb"
    <3>1. requests' = <<>> BY <1>1, <2>2
    <3>2. i = 0 BY <1>4, <1>10, <3>1 DEF InFlight
    <3> QED BY <3>2
  <2> QED BY <2>1, <2>2
<1>13. PICK n \in Nat, most \in Nat : n = Rounds /\ most = TriesFor("CONNECT")
  BY CountFacts DEF TriesFor
<1>14. s <= i BY <1>10
<1>15. i <= f + 0 + p /\ most - most + s <= f + a /\ n - n + s <= f + a
  BY ONLY <1>12, <1>14
<1>16. Budget' BY <1>7, <1>10, <1>11, <1>13, <1>15 DEF Budget
<1>17. result' # "error" /\ phase' # "COMPLETE" BY <1>1, <1>7
<1> QED BY <1>2, <1>3, <1>5, <1>7, <1>16, <1>17, Zenon DEF Steady

LEMMA WriteRecovers ==
    ASSUME HostInv, HostInv', Steady, Write
    PROVE  Steady'
<1> DEFINE x == [cmd |-> phase, addr |-> block, data |-> image[block + 1]]
<1>1. /\ phase # "idle" /\ ~waiting /\ waiting' = TRUE
      /\ requests' = IF on THEN Append(requests, x) ELSE requests
      /\ UNCHANGED <<transport, phase, block, tries, rounds, primed, matches, result, replies,
                     on, faults>>
  BY DEF Write, device
<1>2. LinkOK /\ LinkOK' /\ ToolOK /\ Budget /\ on BY <1>1 DEF HostInv, Steady
<1>3. x \in OwnRequests
  <2>1. image \in Seq(Data) /\ \A b \in 0 .. Len(image) - 1 : b \in Blocks /\ image[b + 1] \in Data
    BY <1>2, ImageFacts DEF ToolOK
  <2>2. phase \in Commands BY <1>1, <1>2 DEF ToolOK
  <2>3. block \in Blocks /\ image[block + 1] \in Data BY <1>2, <2>1 DEF ToolOK
  <2> QED BY <2>2, <2>3 DEF OwnRequests, Requests
<1>4. requests' = Append(requests, x) BY <1>1, <1>2
<1> HIDE DEF x
<1>5. InFlight' = InFlight + 1 /\ Strays' <= Strays /\ (FirstOwn' => FirstOwn)
  BY <1>1, <1>2, <1>3, <1>4, WriteLine
<1>6. InFlight' > 0 BY <1>2, <1>5, LineFacts
<1>7. waiting' BY <1>1, Zenon
<1>8. Budget' BY <1>1, <1>2, <1>5, <1>6, <1>7, SteadyBudget
<1> QED BY <1>1, <1>2, <1>8 DEF Steady

\* The answer to prime(), or what is taken for it.
LEMMA DropRecovers ==
    ASSUME HostInv, HostInv', Steady, DropPrimed
    PROVE  Steady'
<1>1. /\ waiting /\ primed /\ replies # <<>> /\ primed' = FALSE /\ replies' = Tail(replies)
      /\ UNCHANGED <<transport, phase, block, tries, rounds, waiting, matches, result, requests,
                     on, faults>>
  BY DEF DropPrimed, device
<1>2. /\ LinkOK /\ LinkOK' /\ replies \in Seq(Replies) /\ phase # "idle" BY <1>1 DEF HostInv, LinkOK, ToolOK
<1>3. /\ Budget /\ on /\ phase = "CONNECT" /\ transport = "usb"
  BY <1>1, <1>2 DEF Steady
<1>4. 1 \in 0 .. Len(replies) /\ replies' = SubSeq(replies, 1 + 1, Len(replies)) /\ 1 > 0
  BY <1>1, <1>2, TailSkip
<1>5. /\ InFlight' = InFlight - 1 /\ Strays' <= Strays
      /\ replies[1] \notin OwnReplies => Strays' + 1 <= Strays
  BY <1>1, <1>2, <1>4, SkipReplies
<1>6. FirstOwn \/ Strays' + 1 <= Strays BY <1>1, <1>5 DEF FirstOwn
<1>7. InFlight > 0 BY <1>1, <1>2, LineFacts
<1>8. ~primed' BY <1>1, Zenon
<1>9. Budget' BY <1>1, <1>3, <1>5, <1>6, <1>7, <1>8, DropBudget
<1> QED BY <1>1, <1>3, <1>8, <1>9 DEF Steady

\* A device that has not restarted does what it is told.
LEMMA NotRefused ==
    ASSUME DurInv, PageInv, Undisturbed, Retriable, crashes = 0, command_dispatch,
           NEW r, r = Head(requests)
    PROVE  \E ack \in Commands \cup {"ERROR"}, data \in Cells :
              /\ ack = r.cmd \/ (r.cmd = "INVALID" /\ ack = "ERROR")
              /\ Answer(r, ack, data) /\ faults' = faults
<1>1. HostInv /\ LinkOK /\ FlashTypeOK /\ ToolOK /\ Aligned BY DEF DurInv, HostInv
<1>2. PICK m \in 0 .. Len(image) :
         Progress(m) /\ (backend = "stm32" => FirstQuarterUsed /\ Ordered /\ NextBlank(m))
  BY DEF DurInv, PageInv, Retriable
<1>3. /\ requests # <<>> /\ requests \in Seq(Requests) /\ image \in Images
  BY <1>1 DEF command_dispatch, LinkOK, ToolOK
<1>4. r \in Requests /\ r = requests[1] /\ 1 \in DOMAIN requests
  BY <1>3, TailFacts
<1>5. r.addr \in Blocks /\ r.cmd \in Commands \cup {"INVALID"} BY <1>4 DEF Requests
<1>6. Erased \in Cells BY BufferedFlashAssumption DEF Cells
<1>7. ASSUME NEW hw \in HwOutcomes, NEW ret, HwFault(hw, ret) PROVE faults' = faults
  BY <1>7 DEF Retriable, HwOutcomes, HwFault
<1>8. CASE r.cmd = "SEND_BLOCK"
  <2>1. PICK ret \in {0, -2, -3, -4}, hw \in HwOutcomes :
           /\ flash_write_block(r.addr, r.data, ret, hw) /\ HwFault(hw, ret)
           /\ Answer(r, IF ret < 0 THEN "ERROR" ELSE "SEND_BLOCK", Erased)
    BY <1>8 DEF command_dispatch, command_write_block
  <2>2. IsBlock(r) BY <1>8 DEF IsBlock
  <2>3. Due(m, r.addr) /\ r.data = image[r.addr + 1]
    BY <1>2, <1>4, <2>2 DEF Progress, WireInv, BlocksInv
  <2>4. /\ r.addr \in {m - 1, m} /\ r.addr \in 0 .. Len(image) - 1 /\ Taken(m)
    BY <1>2, <2>3 DEF Due, Progress
  <2>5. ret = 0
    <3>1. CASE backend = "stm32"
      <4>1. PICK a \in 0 .. Len(image) - 1 : a = r.addr BY <2>4
      <4>2. stm32_flash_write_block(a, image[a + 1], ret)
        BY <2>1, <2>3, <3>1, <4>1 DEF flash_write_block
      <4> QED BY <1>1, <1>2, <1>3, <2>4, <3>1, <4>1, <4>2, PageWrite
    <3>2. CASE backend = "rp2040"
      BY <2>1, <3>2 DEF flash_write_block, rp2040_flash_write_block
    <3> QED BY <3>1, <3>2 DEF Retriable
  <2>6. Answer(r, "SEND_BLOCK", Erased) BY <2>1, <2>5
  <2>7. faults' = faults BY <1>7, <2>1
  <2> QED BY <1>6, <1>8, <2>6, <2>7 DEF Commands
<1>9. CASE r.cmd = "SEND_EOF"
  <2>1. PICK ret \in {0, -2, -3, -4}, hw \in HwOutcomes :
           /\ flash_complete(ret, hw) /\ HwFault(hw, ret)
           /\ Answer(r, IF ret < 0 THEN "ERROR" ELSE "SEND_EOF", Erased)
    BY <1>9 DEF command_dispatch, command_eof
  <2>2. IsEof(r) BY <1>9 DEF IsEof
  <2>3. Taken(Len(image)) BY <1>2, <1>4, <2>2 DEF Progress, WireInv, EofInv
  <2>4. UNCHANGED <<image, backend>> BY <2>1 DEF Answer, host
  <2>5. ret = 0
    <3>1. backend # "lpc176x" BY DEF Retriable
    <3> QED BY <1>1, <1>3, <2>1, <2>3, <2>4, <3>1, CompleteTaken
  <2>6. Answer(r, "SEND_EOF", Erased) BY <2>1, <2>5
  <2>7. faults' = faults BY <1>7, <2>1
  <2> QED BY <1>6, <1>9, <2>6, <2>7 DEF Commands
<1>10. CASE r.cmd = "REQUEST_BLOCK"
  <2>1. Answer(r, "REQUEST_BLOCK", flash[r.addr]) /\ faults' = faults
    BY <1>10 DEF command_dispatch, command_read_block
  <2>2. flash[r.addr] \in Cells BY <1>1, <1>5 DEF FlashTypeOK, Cells
  <2> QED BY <1>10, <2>1, <2>2 DEF Commands
<1>11. CASE r.cmd = "COMPLETE"
  <2>1. Answer(r, "COMPLETE", Erased) /\ faults' = faults
    BY <1>11 DEF command_dispatch, command_complete
  <2> QED BY <1>6, <1>11, <2>1 DEF Commands
<1>12. CASE r.cmd \notin {"SEND_BLOCK", "SEND_EOF", "REQUEST_BLOCK", "COMPLETE"}
  <2>1. Answer(r, IF r.cmd = "INVALID" THEN "ERROR" ELSE r.cmd, Erased) /\ faults' = faults
    BY <1>12 DEF command_dispatch, command_other
  <2> QED BY <1>5, <1>6, <2>1
<1> QED BY <1>8, <1>9, <1>10, <1>11, <1>12

LEMMA DispatchRecovers ==
    ASSUME DurInv, PageInv, HostInv', Undisturbed, Retriable, crashes = 0, Steady,
           command_dispatch
    PROVE  Steady'
<1> DEFINE r == Head(requests)
<1>1. HostInv /\ LinkOK /\ LinkOK' /\ ToolOK BY DEF DurInv, HostInv
<1>2. requests # <<>> /\ requests \in Seq(Requests)
  BY <1>1 DEF command_dispatch, LinkOK
<1>3. r \in Requests /\ r = requests[1] BY <1>2, TailFacts
<1> HIDE DEF r
<1>4. PICK ack \in Commands \cup {"ERROR"}, data \in Cells :
         /\ ack = r.cmd \/ (r.cmd = "INVALID" /\ ack = "ERROR")
         /\ Answer(r, ack, data) /\ faults' = faults
  BY NotRefused DEF r
<1> DEFINE x == [ack |-> ack, addr |-> r.addr, data |-> data]
<1>5. /\ requests' = Tail(requests) /\ replies' = Append(replies, x)
      /\ UNCHANGED <<transport, phase, block, tries, rounds, waiting, primed, matches, result,
                     on, faults>>
  BY <1>4 DEF Answer, host
<1>6. CASE phase = "idle" BY <1>5, <1>6 DEF Steady
<1>7. CASE phase # "idle"
  <2>1. Budget /\ phase \in Commands BY <1>1, <1>7 DEF Steady, ToolOK
  <2>2. x \in Replies BY <1>3 DEF Requests, Replies, Cells
  <2>3. requests[1] \in OwnRequests <=> x \in OwnReplies
    <3>1. x \in OwnReplies <=> ack = phase /\ r.addr = block BY <2>2 DEF OwnReplies
    <3>2. r \in OwnRequests <=> r.cmd = phase /\ r.addr = block BY <1>3 DEF OwnRequests
    <3>3. "ERROR" \notin Commands /\ "INVALID" \notin Commands BY DEF Commands
    <3> QED BY <1>3, <1>4, <2>1, <3>1, <3>2, <3>3
  <2> HIDE DEF x
  <2>4. InFlight' = InFlight /\ Strays' <= Strays /\ (FirstOwn' => FirstOwn)
    BY <1>1, <1>2, <1>5, <2>2, <2>3, AnswerLine
  <2>5. InFlight' > 0 BY <1>1, <1>2, <2>4, LineFacts
  <2>6. Budget' BY <1>1, <1>5, <2>1, <2>4, <2>5, SteadyBudget
  <2> QED BY <1>5, <2>6 DEF Steady
<1> QED BY <1>6, <1>7

LEMMA LinkRecovers ==
    ASSUME HostInv, HostInv', Steady, LoseRequest \/ DamageRequest \/ LoseReply \/ DamageReply
    PROVE  Steady'
<1> DEFINE x == [ack |-> "ERROR", addr |-> 0, data |-> Erased]
<1>1. /\ UNCHANGED <<transport, phase, block, tries, rounds, waiting, primed, matches, result, on>>
      /\ faults' = faults + 1
  BY DEF LoseRequest, DamageRequest, LoseReply, DamageReply, Fault, host, device
<1>2. LinkOK /\ LinkOK' /\ ToolOK /\ replies \in Seq(Replies) BY DEF HostInv, LinkOK
<1>3. /\ InFlight > 0 /\ InFlight' <= InFlight /\ Strays' <= Strays + 1
      /\ InFlight' < InFlight => Strays' <= Strays
      /\ (FirstOwn' => FirstOwn) \/ Strays' + 1 <= Strays
  <2>1. x \in Replies /\ x \notin OwnReplies
    <3>1. phase # "ERROR" BY <1>2 DEF ToolOK, Commands
    <3>2. x \in Replies BY BufferedFlashAssumption DEF Replies, Blocks
    <3> QED BY <3>1, <3>2 DEF OwnReplies
  <2> HIDE DEF x
  <2>2. BudgetFacts /\ BudgetFacts' BY BudgetTypes, PTL
  <2>3. PICK s \in Nat, i \in Nat, s2 \in Nat, i2 \in Nat :
           s = Strays /\ i = InFlight /\ s2 = Strays' /\ i2 = InFlight'
    BY <2>2 DEF BudgetFacts, Numbers
  <2>4. SUFFICES /\ i > 0 /\ i2 <= i /\ s2 <= s + 1 /\ (i2 < i => s2 <= s)
                 /\ (FirstOwn' => FirstOwn) \/ s2 + 1 <= s
    BY <2>3
  <2>5. CASE LoseRequest
    <3>1. requests # <<>> /\ requests' = Tail(requests) /\ UNCHANGED replies
      BY <2>5 DEF LoseRequest
    <3>2. /\ InFlight' = InFlight - 1 /\ Strays' <= Strays
          /\ (FirstOwn' => FirstOwn) \/ Strays' + 1 <= Strays
      BY <1>1, <1>2, <3>1, SkipRequest
    <3>3. i2 = i - 1 /\ s2 <= s BY <2>3, <3>2
    <3>4. i > 0 BY <1>2, <2>3, <3>1, LineFacts
    <3>5. i2 <= i /\ s2 <= s + 1 BY ONLY <3>3
    <3> QED BY <2>3, <3>2, <3>3, <3>4, <3>5
  <2>6. CASE DamageRequest
    <3>1. requests # <<>> /\ requests' = Tail(requests) /\ replies' = Append(replies, x)
      BY <2>6 DEF DamageRequest, x
    <3>2. InFlight' = InFlight /\ Strays' <= Strays + 1 /\ (FirstOwn' => FirstOwn)
      BY <1>1, <1>2, <2>1, <3>1, AnswerLine
    <3>3. i2 = i /\ s2 <= s + 1 BY <2>3, <3>2
    <3>4. i > 0 BY <1>2, <2>3, <3>1, LineFacts
    <3>5. i2 <= i /\ ~(i2 < i) BY ONLY <3>3
    <3> QED BY <3>2, <3>3, <3>4, <3>5
  <2>7. CASE LoseReply
    <3>1. replies # <<>> /\ replies' = Tail(replies) /\ UNCHANGED requests
      BY <2>7 DEF LoseReply
    <3>2. 1 \in 0 .. Len(replies) /\ replies' = SubSeq(replies, 1 + 1, Len(replies))
      BY <1>2, <3>1, TailSkip
    <3>3. /\ InFlight' = InFlight - 1 /\ Strays' <= Strays
          /\ (FirstOwn' => FirstOwn) \/ Strays' + 1 <= Strays
      BY <1>1, <1>2, <3>1, <3>2, SkipReplies
    <3>4. i2 = i - 1 /\ s2 <= s BY <2>3, <3>3
    <3>5. i > 0 BY <1>2, <2>3, <3>1, LineFacts
    <3>6. i2 <= i /\ s2 <= s + 1 BY ONLY <3>4
    <3> QED BY <2>3, <3>3, <3>4, <3>5, <3>6
  <2>8. CASE DamageReply
    <3>1. replies # <<>> /\ replies' = <<x>> \o Tail(replies) /\ UNCHANGED requests
      BY <2>8 DEF DamageReply, x
    <3>2. InFlight' = InFlight /\ Strays' <= Strays + 1 /\ ~FirstOwn'
      BY <1>1, <1>2, <2>1, <3>1, DamagedLine
    <3>3. i2 = i /\ s2 <= s + 1 BY <2>3, <3>2
    <3>4. i > 0 BY <1>2, <2>3, <3>1, LineFacts
    <3>5. i2 <= i /\ ~(i2 < i) BY ONLY <3>3
    <3> QED BY <3>2, <3>3, <3>4, <3>5
  <2> QED BY <2>5, <2>6, <2>7, <2>8
<1>4. CASE phase = "idle" BY <1>1, <1>4 DEF Steady
<1>5. CASE phase # "idle"
  <2>1. Budget BY <1>5 DEF Steady
  <2>2. Budget' BY <1>1, <1>3, <2>1, FaultBudget
  <2> QED BY <1>1, <2>2 DEF Steady
<1> QED BY <1>4, <1>5

LEMMA RecoverInvInit == HInit => RecoverInv
<1>1. HInit => Steady BY DEF HInit, Steady
<1> QED BY <1>1, VerifyInvInit, DurInvInit DEF RecoverInv, RecInv

LEMMA BackendSame == [HNext]_hvars => backend' = backend
BY DEF HNext, Start, Write, DropPrimed, Receive, Timeout, Kill, command_dispatch,
       command_write_block, command_eof, command_read_block, command_complete,
       command_other, Answer, complete_task, PowerLoss, Restart, LoseRequest,
       DamageRequest, LoseReply, DamageReply, Fault, device, hvars

LEMMA RecoverInvStep ==
    ASSUME EnoughTries, RecoverInv, backend = "stm32" => PageInv, [HNext]_hvars
    PROVE  RecoverInv'
<1> SUFFICES ASSUME ~restarted', ~stale', Retriable', crashes' = 0
             PROVE  faults' >= BlockTries \/ Steady'
  BY VerifyInvStep, DurInvStep DEF RecoverInv, RecInv, Undisturbed
<1>1. VerifyInv /\ DurInv /\ HostInv BY DEF RecoverInv, DurInv
<1>2. HostInv' BY <1>1, HostInvStep
<1>3. CASE Start BY <1>1, <1>2, <1>3, StartRecovers
<1>4. CASE ~Start
  <2>1. UNCHANGED <<stale, backend>>
    BY <1>4 DEF HNext, Write, DropPrimed, Receive, Timeout, Kill, command_dispatch,
                command_write_block, command_eof, command_read_block, command_complete,
                command_other, Answer, complete_task, PowerLoss, Restart, LoseRequest,
                DamageRequest, LoseReply, DamageReply, Fault, device, host, hvars
  <2>2. ~complete_task /\ ~PowerLoss
    BY Zenon DEF complete_task, PowerLoss, Restart
  <2>3. ~Kill
    <3>1. crashes \in Nat BY <1>1, CountFacts DEF HostInv, RestOK
    <3> QED BY <3>1 DEF Kill
  <2>4. UNCHANGED <<restarted, crashes>>
    BY <1>4, <2>2, <2>3
       DEF HNext, Write, DropPrimed, Receive, Timeout, command_dispatch,
           command_write_block, command_eof, command_read_block, command_complete,
           command_other, Answer, LoseRequest, DamageRequest, LoseReply, DamageReply, Fault,
           device, host, counts, hvars
  <2>5. Undisturbed /\ Retriable /\ backend # "lpc176x" /\ crashes = 0
    BY <2>1, <2>4 DEF Undisturbed, Retriable
  <2>6. PageInv BY <2>5 DEF PageInv, Retriable
  <2>7. CASE faults >= BlockTries
    <3>1. faults' = faults \/ faults' = faults + 1
      BY <1>4, <2>2, <2>3
         DEF HNext, Write, DropPrimed, Receive, Timeout, command_dispatch,
             command_write_block, command_eof, command_read_block, command_complete,
             command_other, HwFault, LoseRequest, DamageRequest, LoseReply, DamageReply, Fault,
             device, host, hvars
    <3>2. faults \in Nat BY <1>1, CountFacts DEF HostInv, RestOK
    <3> QED BY <2>7, <3>1, <3>2, CountFacts
  <2>8. CASE ~(faults >= BlockTries)
    <3>1. Steady BY <2>5, <2>8 DEF RecoverInv, RecInv
    <3>2. CASE Write BY <1>1, <1>2, <3>1, <3>2, WriteRecovers
    <3>3. CASE DropPrimed BY <1>1, <1>2, <3>1, <3>3, DropRecovers
    <3>4. CASE Receive
      <4>1. CASE Head(replies).ack # phase
        BY <1>1, <1>2, <3>1, <3>4, <4>1, MismatchRecovers
      <4>2. CASE Head(replies).ack = phase
        BY <1>1, <1>2, <2>5, <3>1, <3>4, <4>2, AckRecovers
      <4> QED BY <4>1, <4>2
    <3>5. CASE Timeout BY <1>1, <1>2, <3>1, <3>5, TimeoutRecovers
    <3>6. CASE command_dispatch BY <1>1, <1>2, <2>5, <2>6, <3>1, <3>6, DispatchRecovers
    <3>7. CASE LoseRequest \/ DamageRequest \/ LoseReply \/ DamageReply
      BY <1>1, <1>2, <3>1, <3>7, LinkRecovers
    <3>8. CASE UNCHANGED hvars
      <4>1. UNCHANGED <<requests, replies, transport, phase, block, tries, rounds, waiting,
                        primed, matches, result, on, faults>>
        BY <3>8 DEF hvars, host, device
      <4>2. Steady'
        BY <3>1, <4>1 DEF Steady, Budget, InFlight, Awaited, Priming, Owed, Strays, OwnReplies,
              OwnRequests, Allowance, FirstOwn
      <4> QED BY <4>2
    <3> QED BY <1>4, <2>2, <2>3, <3>2, <3>3, <3>4, <3>5, <3>6, <3>7, <3>8 DEF HNext
  <2> QED BY <2>7, <2>8
<1> QED BY <1>3, <1>4

\* On the RP2040 an update that nobody killed or cut off fails only after as many
\* faults as a block has tries: for every file, size of page and sector and
\* transport, whichever messages are lost, damaged or late, and however much an
\* earlier run left in the array.  EnoughTries is what the tool has; with as many
\* tries for CONNECT as for a block it would be false on USB.
THEOREM Rp2040RecoversSafe ==
    ASSUME EnoughTries
    PROVE  HSpec => [](backend = "rp2040" => RetriesRecover)
<1> DEFINE Inv == VerifyInv /\ DurInv /\ (backend = "rp2040" => RecInv)
<1>1. HInit => Inv BY RecoverInvInit DEF RecoverInv
<1>2. Inv /\ [HNext]_hvars => Inv'
  <2> SUFFICES ASSUME Inv, [HNext]_hvars PROVE Inv'
    OBVIOUS
  <2>1. backend' = backend BY BackendSame
  <2>2. CASE backend = "rp2040"
    <3>1. RecoverInv BY <2>2 DEF RecoverInv
    <3> QED BY <2>2, <3>1, RecoverInvStep DEF RecoverInv
  <2>3. CASE backend # "rp2040" BY <2>1, <2>3, VerifyInvStep, DurInvStep
  <2> QED BY <2>2, <2>3
<1>3. Inv => (backend = "rp2040" => RetriesRecover)
  BY DEF RecInv, Retriable, Steady, RetriesRecover, RecoversFromFaults
<1> QED BY <1>1, <1>2, <1>3, PTL DEF HSpec

\* The same with the STM32, for files that have data in the first quarter of each
\* block, and as long as no answer to one run of the tool came into a later one.
THEOREM RetriesRecoverSafe ==
    ASSUME EnoughTries
    PROVE  HSpec /\ []~stale => []RetriesRecover
<1> DEFINE Inv == RecoverInv /\ PageInv
<1>1. HInit => Inv BY RecoverInvInit, PageInvInit
<1>2. Inv /\ [HNext]_hvars /\ ~stale' => Inv'
  <2> SUFFICES ASSUME Inv, [HNext]_hvars, ~stale' PROVE Inv'
    OBVIOUS
  <2>1. HostInv /\ Aligned BY DEF RecoverInv, DurInv
  <2> QED BY <2>1, RecoverInvStep, PageInvStep
<1>3. Inv => RetriesRecover
  BY DEF RecoverInv, RecInv, Retriable, Steady, RetriesRecover, RecoversFromFaults
<1> QED BY <1>1, <1>2, <1>3, PTL DEF HSpec
=============================================================================
