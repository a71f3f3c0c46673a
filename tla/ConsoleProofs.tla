---------------------------- MODULE ConsoleProofs ----------------------------
(* Theorems about the block parser, the UART console and the USB console.  *)
EXTENDS Framing, SerialIrq, UsbCdc, DataLemmas

-----------------------------------------------------------------------------
(* The block parser.                                                       *)

\* The host has been told of every gap, once.
NackInv == nacks = IF need_valid THEN 1 ELSE 0

\* However long the garbage: command_find_block() asks for at most one NACK
\* between two valid blocks, for every buffer size and every block length.
THEOREM OneNackPerGapSafe == Spec => []OneNackPerGap
<1>1. Init => NackInv
  BY DEF Init, NackInv
<1>2. NackInv /\ [Next]_vars => NackInv'
  <2> SUFFICES ASSUME NackInv, [Next]_vars PROVE NackInv' OBVIOUS
  <2>1. CASE Parse
    <3>1. PICK r \in {command_find_block(buf, need_sync, need_valid)} :
            /\ r.ret # 0 /\ need_valid' = r.need_valid
            /\ nacks' = IF r.ret = 1 THEN 0 ELSE IF r.nack THEN nacks + 1 ELSE nacks
      BY <2>1 DEF Parse
    <3>2. \/ r.ret = 0
          \/ r.ret = -1 /\ r.nack = ~need_valid /\ r.need_valid = TRUE
          \/ r.ret = 1 /\ r.need_valid = FALSE
      BY <3>1 DEF command_find_block, Resync, send_nack
    <3>3. CASE r.ret = -1 /\ r.nack = ~need_valid /\ r.need_valid = TRUE
      <4>1. nacks' = IF need_valid THEN nacks ELSE nacks + 1
        <5>1. r.nack <=> ~need_valid BY <3>3, Zenon
        <5>2. nacks' = IF r.nack THEN nacks + 1 ELSE nacks BY <3>1, <3>3
        <5> QED BY <5>1, <5>2, Zenon
      <4>2. need_valid'
        BY <3>1, <3>3
      <4> QED BY <4>1, <4>2 DEF NackInv
    <3>4. CASE r.ret = 1 /\ r.need_valid = FALSE
      <4>1. nacks' = 0 /\ ~need_valid'
        BY <3>1, <3>4
      <4> QED BY <4>1 DEF NackInv
    <3> QED BY <3>1, <3>2, <3>3, <3>4
  <2>2. CASE UNCHANGED <<need_valid, nacks>>
    BY <2>2 DEF NackInv
  <2> QED BY <2>1, <2>2 DEF Next, StartBlock, Arrive, Noise, vars
<1>3. NackInv => OneNackPerGap
  BY DEF NackInv, OneNackPerGap
<1> QED BY <1>1, <1>2, <1>3, PTL DEF Spec

LEMMA CrcByte == \A s \in Seq(Byte) : Len(s) >= 1 => crc16_ccitt(s) \in Byte
<1> SUFFICES ASSUME NEW s \in Seq(Byte), Len(s) >= 1 PROVE crc16_ccitt(s) \in Byte OBVIOUS
<1>1. s[1] \in 0 .. 3 /\ s[Len(s)] \in 0 .. 3 BY FramingAssumption
<1>2. \A u \in Nat : u % 4 \in 0 .. 3 OBVIOUS
<1>3. s[1] + s[Len(s)] \in Nat BY <1>1
<1> QED BY <1>2, <1>3, FramingAssumption DEF crc16_ccitt

\* The parts of a block are where the parser looks for them.
LEMMA BlockShape ==
  ASSUME NEW f \in Blocks
  PROVE  \E n \in 0 .. MaxLen : /\ f \in Seq(Byte) /\ Len(f) = n + 4
                                /\ f[1] = STX1 /\ f[2] = n /\ f[n + 4] = SYNC
                                /\ f[n + 3] = crc16_ccitt(SubSeq(f, 2, n + 2))
<1>0. PICK n \in 0 .. MaxLen : \E p \in [1 .. n -> Byte] :
        f = <<STX1, n>> \o p \o <<crc16_ccitt(<<n>> \o p), SYNC>>
  BY DEF Blocks
<1>1. PICK p \in [1 .. n -> Byte] : f = <<STX1, n>> \o p \o <<crc16_ccitt(<<n>> \o p), SYNC>>
  BY <1>0
<1>2. n \in Byte /\ n \in Nat /\ STX1 \in Byte /\ SYNC \in Byte
  BY FramingAssumption DEF STX1, SYNC
<1>3. p \in Seq(Byte) /\ Len(p) = n
  BY <1>2, IsASeq
<1> DEFINE q == <<n>> \o p
           c == crc16_ccitt(q)
<1>4. q \in Seq(Byte) /\ Len(q) = n + 1
  BY <1>2, <1>3
<1>5. c \in Byte
  <2> HIDE DEF q
  <2> QED BY <1>2, <1>4, CrcByte
<1> HIDE DEF c
<1>6. f = <<STX1, n>> \o p \o <<c, SYNC>> BY <1>1 DEF c, q
<1>7. /\ f \in Seq(Byte) /\ Len(f) = n + 4
      /\ f[1] = STX1 /\ f[2] = n /\ f[n + 3] = c /\ f[n + 4] = SYNC
  BY <1>2, <1>3, <1>5, <1>6
<1>8. SubSeq(f, 2, n + 2) = q
  <2>1. \A i \in 1 .. n : f[i + 2] = p[i]
    BY <1>2, <1>3, <1>5, <1>6
  <2>2. q[1] = n /\ \A i \in 1 .. n : q[i + 1] = p[i]
    BY <1>2, <1>3
  <2> DEFINE g == SubSeq(f, 2, n + 2)
  <2>3. g \in Seq(Byte) /\ Len(g) = n + 1 /\ \A i \in 1 .. n + 1 : g[i] = f[i + 1]
    BY <1>2, <1>7
  <2> HIDE DEF g, q
  <2>4. \A i \in 1 .. n + 1 : g[i] = q[i]
    <3> SUFFICES ASSUME NEW i \in 1 .. n + 1 PROVE g[i] = q[i] OBVIOUS
    <3>1. CASE i = 1 BY <1>7, <2>2, <2>3, <3>1
    <3>2. CASE i - 1 \in 1 .. n
      <4>1. f[(i - 1) + 2] = p[i - 1] /\ q[(i - 1) + 1] = p[i - 1] BY <2>1, <2>2, <3>2
      <4>2. (i - 1) + 2 = i + 1 /\ (i - 1) + 1 = i BY <1>2
      <4> QED BY <2>3, <4>1, <4>2
    <3> QED BY <1>2, <3>1, <3>2
  <2>5. g = q
    BY <1>4, <2>3, <2>4, SeqEqual
  <2> QED BY <2>5 DEF g
<1> QED BY <1>7, <1>8 DEF c

\* Where the parser finds the next STX1.
LEMMA MemchrPlace ==
  ASSUME NEW b \in Seq(Byte), NEW skip \in Nat
  PROVE  /\ memchr(b, skip) \in 0 .. Len(b)
         /\ skip + 1 <= Len(b) /\ b[skip + 1] = STX1 => memchr(b, skip) = skip + 1
<1> DEFINE at == {i \in skip + 1 .. Len(b) : b[i] = STX1}
<1>0. Len(b) \in Nat OBVIOUS
<1>1. CASE at = {}
  BY <1>0, <1>1 DEF memchr
<1>2. CASE at # {}
  <2>1. at \in SUBSET Nat BY <1>0
  <2>2. \E i \in at : \A j \in at : i <= j
    BY <1>2, <2>1, LeastNatural
  <2>3. Min(at) \in at /\ \A j \in at : Min(at) <= j
    BY <2>2 DEF Min
  <2>4. memchr(b, skip) = Min(at)
    BY <1>2 DEF memchr
  <2>5. skip + 1 <= Len(b) /\ b[skip + 1] = STX1 => Min(at) = skip + 1
    BY <1>0, <2>3
  <2> QED BY <1>0, <2>3, <2>4, <2>5
<1> QED BY <1>1, <1>2

\* What the parser asks to be popped is in the buffer.
LEMMA PopBound ==
  ASSUME NEW b \in Seq(Byte), NEW nsync \in BOOLEAN, NEW nvalid \in BOOLEAN,
         NEW r, r = command_find_block(b, nsync, nvalid)
  PROVE  r.pop \in 0 .. Len(b) /\ r.need_sync \in BOOLEAN /\ r.need_valid \in BOOLEAN
<1> DEFINE Good(q) == q.pop \in 0 .. Len(b) /\ q.need_sync \in BOOLEAN /\ q.need_valid \in BOOLEAN
           more == [ret |-> 0, pop |-> 0, nack |-> FALSE, need_sync |-> nsync, need_valid |-> nvalid]
           valid == [ret |-> 1, pop |-> b[2] + 4, nack |-> FALSE, need_sync |-> nsync, need_valid |-> FALSE]
<1>0. Len(b) \in Nat OBVIOUS
<1>1. ASSUME NEW skip \in {0, 1} PROVE Good(Resync(b, skip, nvalid))
  BY <1>0, MemchrPlace DEF Resync
<1>2. search_skip(b) \in {0, 1} BY DEF search_skip
<1>3. Len(b) >= MESSAGE_MIN /\ ~(Len(b) < b[2] + 4) => b[2] + 4 \in 0 .. Len(b)
  BY <1>0, FramingAssumption DEF MESSAGE_MIN
<1>4. Good(more) BY <1>0
<1>5. Len(b) >= MESSAGE_MIN /\ ~(Len(b) < b[2] + 4) => Good(valid) BY <1>3
<1>6. \/ r = more
      \/ r = Resync(b, 0, nvalid) \/ r = Resync(b, search_skip(b), nvalid)
      \/ Len(b) >= MESSAGE_MIN /\ ~(Len(b) < b[2] + 4) /\ r = valid
  BY <1>0 DEF command_find_block, MESSAGE_MIN
<1>7. Good(Resync(b, 0, nvalid)) /\ Good(Resync(b, search_skip(b), nvalid))
  BY <1>1, <1>2
<1> HIDE DEF more, valid, Good
<1>8. Good(r) BY <1>4, <1>5, <1>6, <1>7
<1> QED BY <1>8 DEF Good

\* A clean block is in the buffer and on its way, with nothing else.
CleanInv == block # <<>> => buf \o rest = block
FInv == TypeOK /\ CleanInv

\* The parser waits for the rest of a clean block, finds its start, or takes it.
LEMMA ParseClean ==
  ASSUME FInv, block # <<>>, NEW r, r = command_find_block(buf, need_sync, need_valid), r.ret # 0
  PROVE  \/ r.pop = 0
         \/ r.ret = 1 /\ r.pop = Len(buf) /\ buf = block /\ r.need_valid = FALSE
<1>0. /\ buf \in Seq(Byte) /\ rest \in Seq(Byte) /\ block \in Blocks /\ buf \o rest = block
      /\ Len(buf) \in Nat
  BY DEF FInv, TypeOK, CleanInv
<1>1. PICK n \in 0 .. MaxLen : /\ block \in Seq(Byte) /\ Len(block) = n + 4
                               /\ block[1] = STX1 /\ block[2] = n /\ block[n + 4] = SYNC
                               /\ block[n + 3] = crc16_ccitt(SubSeq(block, 2, n + 2))
  BY <1>0, BlockShape
<1>2. n \in Nat /\ MaxLen \in Nat /\ n <= MaxLen BY FramingAssumption
<1>3. \A i \in 1 .. Len(buf) : buf[i] = block[i]
  <2>1. \A i \in 1 .. Len(buf) : (buf \o rest)[i] = buf[i] BY <1>0, ConcatProperties
  <2> QED BY <1>0, <2>1
<1>4. CASE Len(buf) > 0 /\ need_sync
  <2>1. buf[0 + 1] = STX1 /\ 0 + 1 <= Len(buf) BY <1>0, <1>1, <1>3, <1>4
  <2>2. memchr(buf, 0) = 0 + 1 BY <1>0, <2>1, MemchrPlace, Zenon
  <2>3. r = Resync(buf, 0, need_valid) BY <1>4 DEF command_find_block
  <2> QED BY <2>2, <2>3 DEF Resync
<1>5. CASE ~(Len(buf) > 0 /\ need_sync) /\ Len(buf) < MESSAGE_MIN
  BY <1>5 DEF command_find_block
<1>6. CASE ~(Len(buf) > 0 /\ need_sync) /\ ~(Len(buf) < MESSAGE_MIN)
  <2>1. Len(buf) >= 4 BY <1>0, <1>6 DEF MESSAGE_MIN
  <2>2. buf[1] = STX1 /\ buf[2] = n BY <1>1, <1>3, <2>1
  <2>3. ~(buf[2] + 4 < MESSAGE_MIN \/ buf[2] + 4 > MESSAGE_MAX)
    BY <1>2, <2>2 DEF MESSAGE_MIN, MESSAGE_MAX
  <2>4. CASE Len(buf) < buf[2] + 4
    BY <1>6, <2>2, <2>3, <2>4 DEF command_find_block
  <2>5. CASE ~(Len(buf) < buf[2] + 4)
    <3>1. Len(buf) >= Len(block) BY <1>0, <1>1, <1>2, <2>2, <2>5
    <3>2. Len(buf) + Len(rest) = Len(block) /\ Len(rest) \in Nat BY <1>0
    <3>3. buf = block /\ Len(buf) = n + 4 BY <1>0, <1>1, <3>1, <3>2
    <3>4. Valid(buf, buf[2] + 4)
      <4>1. (n + 4) - 1 = n + 3 /\ (n + 4) - 2 = n + 2 BY <1>2
      <4> QED BY <1>1, <2>2, <3>3, <4>1 DEF Valid
    <3>5. r = [ret |-> 1, pop |-> buf[2] + 4, nack |-> FALSE, need_sync |-> need_sync,
               need_valid |-> FALSE]
      BY <1>6, <2>2, <2>3, <2>5, <3>4 DEF command_find_block
    <3> QED BY <2>2, <3>3, <3>5
  <2> QED BY <2>4, <2>5
<1> QED BY <1>4, <1>5, <1>6

LEMMA FInvStep == FInv /\ [Next]_vars => FInv'
<1> SUFFICES ASSUME FInv, [Next]_vars PROVE FInv' OBVIOUS
<1>0. /\ buf \in Seq(Byte) /\ rest \in Seq(Byte) /\ Len(buf) <= RxSize /\ Len(buf) \in Nat
      /\ Len(rest) \in Nat /\ block \in Blocks \cup {<<>>} /\ need_sync \in BOOLEAN
      /\ need_valid \in BOOLEAN /\ nacks \in Nat /\ RxSize \in Nat
      /\ block # <<>> => buf \o rest = block
  BY FramingAssumption DEF FInv, TypeOK, CleanInv
<1>1. ASSUME NEW f \in Blocks, StartBlock(f) PROVE FInv'
  <2>1. f \in Seq(Byte) BY BlockShape
  <2>2. CleanInv'
    <3>1. CASE buf = <<>> BY <1>1, <2>1, <3>1 DEF StartBlock, CleanInv
    <3>2. CASE buf # <<>> BY <1>1, <3>2 DEF StartBlock, CleanInv
    <3> QED BY <3>1, <3>2
  <2>3. TypeOK' BY <1>0, <1>1, <2>1 DEF StartBlock, TypeOK
  <2> QED BY <2>2, <2>3 DEF FInv
<1>2. ASSUME NEW n \in 1 .. MESSAGE_MAX, Arrive(n) PROVE FInv'
  <2> DEFINE x == SubSeq(rest, 1, n)
             y == SubSeq(rest, n + 1, Len(rest))
  <2>1. n \in Nat /\ n >= 1 /\ n <= Len(rest) /\ rest' = y /\ block' = block
        /\ UNCHANGED <<need_sync, need_valid, nacks>>
    BY <1>2 DEF Arrive
  <2>2. x \in Seq(Byte) /\ y \in Seq(Byte) /\ Len(x) = n /\ x \o y = rest
    BY <1>0, <2>1
  <2> HIDE DEF x, y
  <2>3. CASE HasRoom(n)
    <3>1. buf' = buf \o x BY <1>2, <2>3 DEF Arrive, x
    <3>2. buf' \in Seq(Byte) /\ Len(buf') = Len(buf) + n
      <4>1. buf \o x \in Seq(Byte) /\ Len(buf \o x) = Len(buf) + Len(x) BY <1>0, <2>2, ConcatProperties
      <4> QED BY <2>2, <3>1, <4>1
    <3>3. Len(buf') <= RxSize BY <2>3, <3>2 DEF HasRoom
    <3>4. buf' \o rest' = buf \o rest
      <4>1. n \in 0 .. Len(rest) BY <1>0, <2>1
      <4>2. (buf \o x) \o y = buf \o rest BY <1>0, <4>1, MoveFront DEF x, y
      <4> QED BY <2>1, <3>1, <4>2
    <3>5. TypeOK' BY <1>0, <2>1, <2>2, <3>2, <3>3 DEF TypeOK
    <3> QED BY <1>0, <2>1, <3>4, <3>5 DEF FInv, CleanInv
  <2>4. CASE ~HasRoom(n)
    <3>1. buf' = buf BY <1>2, <2>4 DEF Arrive
    <3>2. block = <<>>
      <4> SUFFICES ASSUME block # <<>> PROVE FALSE OBVIOUS
      <4>1. PICK m \in 0 .. MaxLen : Len(block) = m + 4 BY <1>0, BlockShape
      <4>2. Len(buf) + Len(rest) = Len(block) BY <1>0
      <4>3. MaxLen \in Nat /\ RxSize >= MaxLen + 4 BY FramingAssumption
      <4> QED BY <1>0, <2>1, <2>4, <4>1, <4>2, <4>3 DEF HasRoom
    <3>3. TypeOK' BY <1>0, <2>1, <2>2, <3>1 DEF TypeOK
    <3> QED BY <2>1, <3>2, <3>3 DEF FInv, CleanInv
  <2> QED BY <2>3, <2>4
<1>3. ASSUME NEW x \in Byte, Noise(x) PROVE FInv'
  <2>1. buf' \in Seq(Byte) /\ Len(buf') = Len(buf) + 1 /\ Len(buf') <= RxSize
    BY <1>0, <1>3 DEF Noise
  <2> QED BY <1>0, <1>3, <2>1 DEF Noise, FInv, TypeOK, CleanInv
<1>4. CASE Parse
  <2>1. PICK r \in {command_find_block(buf, need_sync, need_valid)} :
          /\ r.ret # 0 /\ need_sync' = r.need_sync /\ need_valid' = r.need_valid
          /\ buf' = SubSeq(buf, r.pop + 1, Len(buf))
          /\ block' = IF r.pop > 0 THEN <<>> ELSE block
          /\ nacks' = IF r.ret = 1 THEN 0 ELSE IF r.nack THEN nacks + 1 ELSE nacks
          /\ rest' = rest
    BY <1>4 DEF Parse
  <2>2. r.pop \in 0 .. Len(buf) /\ r.need_sync \in BOOLEAN /\ r.need_valid \in BOOLEAN
    BY <1>0, <2>1, PopBound
  <2>3. buf' \in Seq(Byte) /\ Len(buf') <= RxSize /\ (r.pop = 0 => buf' = buf)
    BY <1>0, <2>1, <2>2
  <2>4. nacks' \in Nat BY <1>0, <2>1
  <2>5. TypeOK' BY <1>0, <2>1, <2>2, <2>3, <2>4 DEF TypeOK
  <2>6. CleanInv'
    <3>1. CASE r.pop = 0
      <4>1. block' = block /\ buf' = buf BY <2>1, <2>3, <3>1
      <4> QED BY <1>0, <2>1, <4>1 DEF CleanInv
    <3>2. CASE r.pop > 0
      BY <2>1, <3>2 DEF CleanInv
    <3> QED BY <2>2, <3>1, <3>2
  <2> QED BY <2>5, <2>6 DEF FInv
<1>5. CASE UNCHANGED vars
  BY <1>5 DEF vars, FInv, TypeOK, CleanInv
<1> QED BY <1>1, <1>2, <1>3, <1>4, <1>5 DEF Next

LEMMA FInvInit == Init => FInv
<1> SUFFICES ASSUME Init PROVE FInv OBVIOUS
<1>1. need_sync \in BOOLEAN /\ need_valid \in BOOLEAN BY Zenon DEF Init
<1>2. buf \in Seq(Byte) /\ rest \in Seq(Byte) /\ Len(buf) <= RxSize
  BY FramingAssumption DEF Init
<1> QED BY <1>1, <1>2 DEF Init, FInv, TypeOK, CleanInv

\* The receive buffer never overflows and command_find_block() never asks for more
\* bytes to be popped than there are.
THEOREM FramingTypeCorrect == Spec => []TypeOK
<1>1. FInv => TypeOK BY DEF FInv
<1> QED BY <1>1, FInvInit, FInvStep, PTL DEF Spec

\* A block that arrives into an empty buffer is dispatched whole, for every size
\* of buffer and block, in any chunks and any state of synchronisation.
THEOREM CleanBlockDispatchedHolds == Spec => CleanBlockDispatched
<1>1. ASSUME FInv, Parse, block # <<>>, buf' # buf PROVE buf = block \o buf' /\ ~need_valid'
  <2>1. PICK r \in {command_find_block(buf, need_sync, need_valid)} :
          /\ r.ret # 0 /\ need_valid' = r.need_valid
          /\ buf' = SubSeq(buf, r.pop + 1, Len(buf))
    BY <1>1 DEF Parse
  <2>2. buf \in Seq(Byte) /\ Len(buf) \in Nat BY <1>1 DEF FInv, TypeOK
  <2>3. r.pop # 0 BY <1>1, <2>1, <2>2
  <2>4. r.pop = Len(buf) /\ buf = block /\ r.need_valid = FALSE
    BY <1>1, <2>1, <2>3, ParseClean
  <2>5. buf' = <<>> BY <2>1, <2>2, <2>4
  <2> QED BY <2>1, <2>2, <2>4, <2>5
<1>2. FInv /\ [Next]_vars => [Parse /\ block # <<>> /\ buf' # buf
                                 => buf = block \o buf' /\ ~need_valid']_vars
  BY <1>1
<1> QED BY <1>2, FInvInit, FInvStep, PTL DEF Spec, CleanBlockDispatched

-----------------------------------------------------------------------------
(* The UART console: reception.                                            *)

Places == {"idle", "read_tpos", "read_tmax", "zero_pos", "fit", "move", "shift",
           "reset_pos", "restore_max", "encode", "raise_max", "enable", "pop", "commit"}

RxType == /\ receive_buf \in [0 .. SerialRxSize - 1 -> Nat] /\ receive_pos \in 0 .. SerialRxSize
          /\ rpos \in 0 .. SerialRxSize /\ copied \in 0 .. SerialRxSize /\ len \in 0 .. SerialRxSize
          /\ rx_wire \in Nat /\ rx_kept \in Seq(Nat) /\ rx_taken \in Seq(Nat)

\* Bytes at the front of receive_buf that were dispatched.
Behind == IF stask = "idle" THEN 0 ELSE len

\* Of the bytes stored and not dispatched, console_pop_input() has moved the first
\* copied ones; the others, also the ones that came since, are where they were.
RxInv ==
    /\ Behind <= receive_pos
    /\ Len(rx_kept) = Len(rx_taken) + receive_pos - Behind
    /\ \A i \in 1 .. Len(rx_taken) : rx_kept[i] = rx_taken[i]
    /\ \A k \in 0 .. receive_pos - Behind - 1 :
          rx_kept[Len(rx_taken) + k + 1] = receive_buf[IF k < copied THEN k ELSE k + Behind]
    /\ stask # "idle" => copied <= receive_pos - len
    /\ stask = "commit" => rpos \in len .. receive_pos /\ copied = rpos - len

\* The steps of the task that leave reception alone.
LEMMA RxSkip ==
  ASSUME RxType, RxInv, stask # "idle", stask' \notin {"idle", "commit"},
         UNCHANGED <<receive_buf, receive_pos, rpos, copied, len, rx_wire, rx_kept, rx_taken>>
  PROVE  RxType' /\ RxInv'
BY DEF RxType, RxInv, Behind

\* A byte arrives, or is lost when the buffer is full.
LEMMA RxByte ==
  ASSUME RxType, RxInv, serial_rx_byte
  PROVE  RxType' /\ RxInv'
<1> DEFINE d == Behind
           t == Len(rx_taken)
<1>0. /\ SerialRxSize \in Nat /\ receive_pos \in Nat /\ d \in Nat /\ copied \in Nat /\ len \in Nat
      /\ t \in Nat /\ d <= receive_pos /\ receive_pos <= SerialRxSize /\ d' = d
  BY SerialAssumption DEF RxType, RxInv, Behind, serial_rx_byte, slocals
<1>1. /\ rx_wire' = rx_wire + 1 /\ rx_wire' \in Nat
      /\ UNCHANGED <<stask, rpos, copied, len, rx_taken>>
  BY DEF serial_rx_byte, slocals, RxType
<1>2. CASE receive_pos >= SerialRxSize
  <2>1. UNCHANGED <<receive_buf, receive_pos, rx_kept>> BY <1>2 DEF serial_rx_byte
  <2> QED BY <1>1, <2>1 DEF RxType, RxInv, Behind
<1>3. CASE ~(receive_pos >= SerialRxSize)
  <2>1. /\ receive_buf' = [receive_buf EXCEPT ![receive_pos] = rx_wire']
        /\ receive_pos' = receive_pos + 1 /\ rx_kept' = Append(rx_kept, rx_wire')
    BY <1>3 DEF serial_rx_byte
  <2>2. receive_pos \in 0 .. SerialRxSize - 1 BY <1>0, <1>3
  <2>3. /\ receive_buf' \in [0 .. SerialRxSize - 1 -> Nat] /\ receive_buf'[receive_pos] = rx_wire'
        /\ \A j \in 0 .. SerialRxSize - 1 : j # receive_pos => receive_buf'[j] = receive_buf[j]
    BY <1>1, <2>1, <2>2 DEF RxType
  <2>4. /\ rx_kept' \in Seq(Nat) /\ Len(rx_kept') = Len(rx_kept) + 1
        /\ rx_kept'[Len(rx_kept) + 1] = rx_wire'
        /\ \A i \in 1 .. Len(rx_kept) : rx_kept'[i] = rx_kept[i]
    BY <1>1, <2>1 DEF RxType
  <2>5. RxType' BY <1>0, <1>1, <2>1, <2>2, <2>3, <2>4 DEF RxType
  <2>6. Len(rx_kept) = t + receive_pos - d BY DEF RxInv
  <2>7. \A i \in 1 .. t : rx_kept'[i] = rx_taken[i]
    BY <1>0, <2>4, <2>6 DEF RxInv
  <2>8. ASSUME NEW k \in 0 .. receive_pos' - d - 1
        PROVE  rx_kept'[t + k + 1] = receive_buf'[IF k < copied THEN k ELSE k + d]
    <3> DEFINE j == IF k < copied THEN k ELSE k + d
    <3>0. k \in Nat BY <1>0, <2>1
    <3>1. CASE k = receive_pos - d
      <4>1. j = receive_pos
        BY <1>0, <3>0, <3>1 DEF RxInv, Behind
      <4>2. t + k + 1 = Len(rx_kept) + 1 BY <1>0, <2>6, <3>1
      <4> QED BY <2>3, <2>4, <4>1, <4>2
    <3>2. CASE k # receive_pos - d
      <4>1. k \in 0 .. receive_pos - d - 1 BY <1>0, <2>1, <3>0, <3>2
      <4>2. j \in 0 .. receive_pos - 1 BY <1>0, <3>0, <4>1
      <4>3. rx_kept[t + k + 1] = receive_buf[j] BY <4>1 DEF RxInv
      <4>4. t + k + 1 \in 1 .. Len(rx_kept) BY <1>0, <2>6, <4>1
      <4>5. j \in 0 .. SerialRxSize - 1 /\ j # receive_pos BY <1>0, <4>2
      <4> HIDE DEF j
      <4>6. rx_kept'[t + k + 1] = receive_buf'[j] BY <2>3, <2>4, <4>3, <4>4, <4>5
      <4> QED BY <4>6 DEF j
    <3> QED BY <3>1, <3>2
  <2>9. d <= receive_pos' /\ Len(rx_kept') = t + receive_pos' - d
    BY <1>0, <2>1, <2>4, <2>6
  <2>10. /\ stask # "idle" => copied <= receive_pos' - len
         /\ stask = "commit" => rpos \in len .. receive_pos' /\ copied = rpos - len
    BY <1>0, <2>1 DEF RxInv, RxType
  <2> QED BY <1>0, <1>1, <2>5, <2>7, <2>8, <2>9, <2>10 DEF RxInv
<1> QED BY <1>2, <1>3

\* A pass of console_task() takes the n bytes at the front.
LEMMA RxTake ==
  ASSUME RxType, RxInv, NEW n \in 1 .. SerialRxSize, NEW r, console_task(n, r)
  PROVE  RxType' /\ RxInv'
<1> DEFINE t == Len(rx_taken)
           sl == Slice(receive_buf, 0, n)
<1>0. /\ SerialRxSize \in Nat /\ receive_pos \in Nat /\ t \in Nat /\ n \in Nat
      /\ receive_pos <= SerialRxSize /\ n <= receive_pos /\ Behind = 0
  BY SerialAssumption DEF RxType, Behind, console_task
<1>1. /\ stask' \notin {"idle", "commit"} /\ copied' = 0 /\ len' = n /\ rx_taken' = rx_taken \o sl
      /\ UNCHANGED <<receive_buf, receive_pos, rpos, rx_wire, rx_kept>>
  BY DEF console_task, sshared
<1>2. sl \in Seq(Nat) /\ Len(sl) = n /\ \A i \in 1 .. n : sl[i] = receive_buf[i - 1]
  <2>1. \A k \in 1 .. n : 0 + k - 1 = k - 1 /\ k - 1 \in 0 .. SerialRxSize - 1 BY <1>0
  <2>2. sl \in [1 .. n -> Nat] BY <2>1 DEF Slice, RxType
  <2>3. \A i \in 1 .. n : sl[i] = receive_buf[i - 1] BY <2>1 DEF Slice
  <2>4. sl \in Seq(Nat) /\ Len(sl) = n BY <1>0, <2>2, IsASeq
  <2> QED BY <2>3, <2>4
<1> HIDE DEF sl
<1>3. /\ rx_taken' \in Seq(Nat) /\ Len(rx_taken') = t + n
      /\ \A i \in 1 .. t + n : rx_taken'[i] = IF i <= t THEN rx_taken[i] ELSE sl[i - t]
  <2>1. rx_taken \in Seq(Nat) BY DEF RxType
  <2> QED BY <1>1, <1>2, <2>1, ConcatElements
<1>4. RxType' BY <1>0, <1>1, <1>3 DEF RxType
<1>5. /\ Len(rx_kept) = t + receive_pos /\ \A i \in 1 .. t : rx_kept[i] = rx_taken[i]
      /\ \A k \in 0 .. receive_pos - 1 : rx_kept[t + k + 1] = receive_buf[k]
  <2>1. receive_pos - Behind = receive_pos /\ t + receive_pos - Behind = t + receive_pos BY <1>0
  <2>2. \A k \in 0 .. receive_pos - 1 : (IF k < copied THEN k ELSE k + Behind) = k BY <1>0
  <2> QED BY <2>1, <2>2 DEF RxInv
<1> HIDE DEF t
<1>6. ASSUME NEW i \in 1 .. t + n PROVE rx_kept[i] = rx_taken'[i]
  <2>1. CASE i <= t
    <3>1. i \in 1 .. t BY <1>0, <2>1
    <3> QED BY <1>3, <1>5, <2>1, <3>1
  <2>2. CASE ~(i <= t)
    <3>1. i - t \in 1 .. n /\ i - t - 1 \in 0 .. receive_pos - 1 /\ t + (i - t - 1) + 1 = i
      BY <1>0, <2>2
    <3>2. rx_kept[i] = receive_buf[i - t - 1] BY <1>5, <3>1
    <3> QED BY <1>2, <1>3, <2>2, <3>1, <3>2
  <2> QED BY <2>1, <2>2
<1>7. ASSUME NEW k \in 0 .. receive_pos - n - 1 PROVE rx_kept[t + n + k + 1] = receive_buf[k + n]
  <2>1. k + n \in 0 .. receive_pos - 1 /\ t + (k + n) + 1 = t + n + k + 1 BY <1>0
  <2> QED BY <1>5, <2>1
<1>8. \A k \in 0 .. receive_pos - n - 1 : ~(k < 0) BY <1>0
<1>9. Behind' = n BY <1>1 DEF Behind
<1>10. Len(rx_kept) = t + n + receive_pos - n /\ n <= receive_pos /\ 0 <= receive_pos - n
  BY <1>0, <1>5
<1> QED BY <1>1, <1>3, <1>4, <1>6, <1>7, <1>8, <1>9, <1>10 DEF RxInv

\* memmove() to the front, from len further back.
LEMMA RxMove ==
  ASSUME RxType, RxInv, PopMove
  PROVE  RxType' /\ RxInv'
<1> DEFINE t == Len(rx_taken)
           m == receive_pos - len
<1>0. /\ SerialRxSize \in Nat /\ receive_pos \in Nat /\ t \in Nat /\ len \in Nat /\ copied \in Nat
      /\ receive_pos <= SerialRxSize /\ Behind = len /\ m \in Nat /\ copied <= m
      /\ m + len = receive_pos
  BY SerialAssumption DEF RxType, RxInv, Behind, PopMove
<1>1. /\ stask' = "commit" /\ rpos' = receive_pos
      /\ UNCHANGED <<receive_pos, len, rx_wire, rx_kept, rx_taken>>
  BY DEF PopMove, shistory
<1>2. /\ Len(rx_kept) = t + m /\ \A i \in 1 .. t : rx_kept[i] = rx_taken[i]
      /\ \A k \in 0 .. m - 1 : rx_kept[t + k + 1] = receive_buf[IF k < copied THEN k ELSE k + len]
  BY <1>0 DEF RxInv
<1>3. /\ receive_buf' \in [0 .. SerialRxSize - 1 -> Nat] /\ copied' = m
      /\ \A k \in 0 .. m - 1 : receive_buf'[k] = receive_buf[IF k < copied THEN k ELSE k + len]
  <2>1. CASE m = 0
    <3>1. receive_buf' = receive_buf /\ copied' = copied BY <1>1, <2>1 DEF PopMove
    <3>2. \A k \in 0 .. m - 1 : FALSE BY <2>1
    <3> QED BY <1>0, <2>1, <3>1, <3>2 DEF RxType
  <2>2. CASE m # 0
    <3>1. receive_buf' = memmove(receive_buf, copied, copied + len, m - copied) /\ copied' = m
      BY <1>1, <2>2 DEF PopMove
    <3>2. DOMAIN receive_buf = 0 .. SerialRxSize - 1 BY DEF RxType
    <3>3. receive_buf' = [i \in 0 .. SerialRxSize - 1 |->
                             IF i \in copied .. copied + (m - copied) - 1
                             THEN receive_buf[i - copied + (copied + len)] ELSE receive_buf[i]]
      BY <3>1, <3>2 DEF memmove
    <3> HIDE DEF m
    <3>4. ASSUME NEW i \in 0 .. SerialRxSize - 1
          PROVE  /\ receive_buf'[i] = IF i \in copied .. m - 1 THEN receive_buf[i + len] ELSE receive_buf[i]
                 /\ i \in copied .. m - 1 => i + len \in 0 .. SerialRxSize - 1
      <4>1. copied + (m - copied) - 1 = m - 1 /\ i - copied + (copied + len) = i + len BY <1>0
      <4>2. i \in copied .. m - 1 => i + len \in 0 .. SerialRxSize - 1 BY <1>0
      <4> QED BY <3>3, <4>1, <4>2
    <3>5. receive_buf' \in [0 .. SerialRxSize - 1 -> Nat]
      <4>1. \A i \in 0 .. SerialRxSize - 1 : receive_buf'[i] \in Nat BY <3>4 DEF RxType
      <4>2. receive_buf' = [i \in 0 .. SerialRxSize - 1 |-> receive_buf'[i]] BY <3>3
      <4> QED BY <4>1, <4>2
    <3>6. ASSUME NEW k \in 0 .. m - 1
          PROVE  receive_buf'[k] = receive_buf[IF k < copied THEN k ELSE k + len]
      <4>1. k \in 0 .. SerialRxSize - 1 /\ (k \in copied .. m - 1 <=> ~(k < copied)) BY <1>0
      <4> QED BY <3>4, <4>1
    <3> QED BY <3>1, <3>5, <3>6
  <2> QED BY <2>1, <2>2
<1> HIDE DEF m
<1>4. RxType' BY <1>0, <1>1, <1>3 DEF RxType
<1>5. \A k \in 0 .. m - 1 : rx_kept[t + k + 1] = receive_buf'[k] /\ k < m
  BY <1>0, <1>2, <1>3
<1>6. \A k \in 0 .. m - 1 : (IF k < m THEN k ELSE k + len) = k BY <1>0
<1>7. /\ len <= receive_pos /\ receive_pos - len - 1 = m - 1 /\ t + receive_pos - len = t + m
      /\ m <= receive_pos - len /\ receive_pos \in len .. receive_pos /\ m = receive_pos - len
  BY <1>0
<1>8. Behind' = len BY <1>1 DEF Behind
<1> QED BY <1>1, <1>2, <1>3, <1>4, <1>5, <1>6, <1>7, <1>8 DEF RxInv

LEMMA RxCommit ==
  ASSUME RxType, RxInv, PopCommit
  PROVE  RxType' /\ RxInv'
<1> DEFINE t == Len(rx_taken)
<1>0. /\ SerialRxSize \in Nat /\ receive_pos \in Nat /\ t \in Nat /\ len \in Nat /\ copied \in Nat
      /\ rpos \in Nat /\ receive_pos <= SerialRxSize /\ Behind = len
      /\ len <= rpos /\ rpos <= receive_pos /\ copied = rpos - len
  BY SerialAssumption DEF RxType, RxInv, Behind, PopCommit
<1>1. UNCHANGED <<receive_buf, rpos, copied, len, rx_wire, rx_kept, rx_taken>>
  BY DEF PopCommit, shistory, slocals
<1>2. CASE RacedIrq
  <2>1. stask' = "pop" /\ receive_pos' = receive_pos BY <1>2 DEF PopCommit
  <2> QED BY <1>0, <1>1, <2>1, RxSkip DEF PopCommit
<1>3. CASE ~RacedIrq
  <2>1. stask' = "idle" /\ receive_pos' = rpos - len /\ rpos = receive_pos
    BY <1>3 DEF PopCommit, RacedIrq
  <2>2. /\ Len(rx_kept) = t + copied /\ \A i \in 1 .. t : rx_kept[i] = rx_taken[i]
        /\ \A k \in 0 .. copied - 1 : rx_kept[t + k + 1] = receive_buf[k]
    <3>1. receive_pos - Behind - 1 = copied - 1 /\ t + receive_pos - Behind = t + copied BY <1>0, <2>1
    <3>2. \A k \in 0 .. copied - 1 : k < copied BY <1>0
    <3> QED BY <3>1, <3>2 DEF RxInv
  <2>3. receive_pos' = copied /\ Behind' = 0 BY <1>0, <2>1 DEF Behind
  <2>4. /\ 0 <= copied /\ copied - 0 - 1 = copied - 1 /\ t + copied - 0 = t + copied
        /\ \A k \in 0 .. copied - 1 : (IF k < copied THEN k ELSE k + 0) = k
    BY <1>0
  <2>5. RxType' BY <1>0, <1>1, <2>1, <2>3 DEF RxType
  <2>6. /\ Behind' <= receive_pos' /\ Len(rx_kept') = Len(rx_taken') + receive_pos' - Behind'
        /\ \A i \in 1 .. Len(rx_taken') : rx_kept'[i] = rx_taken'[i]
    BY <1>1, <2>2, <2>3, <2>4
  <2>7. \A k \in 0 .. receive_pos' - Behind' - 1 :
           rx_kept'[Len(rx_taken') + k + 1] = receive_buf'[IF k < copied' THEN k ELSE k + Behind']
    BY <1>1, <2>2, <2>3, <2>4
  <2> QED BY <2>1, <2>5, <2>6, <2>7 DEF RxInv
<1> QED BY <1>2, <1>3

LEMMA RxStep == RxType /\ RxInv /\ [SNext]_svars => RxType' /\ RxInv'
<1> SUFFICES ASSUME RxType, RxInv, [SNext]_svars PROVE RxType' /\ RxInv' OBVIOUS
<1>1. CASE serial_rx_byte BY <1>1, RxByte
<1>2. CASE serial_get_tx_byte
  BY <1>2 DEF serial_get_tx_byte, slocals, RxType, RxInv, Behind
<1>3. ASSUME NEW n \in 1 .. SerialRxSize, NEW r, console_task(n, r) PROVE RxType' /\ RxInv'
  BY <1>3, RxTake
<1>4. CASE console_sendf
  <2>1. UNCHANGED <<receive_buf, receive_pos, rpos, copied, len, rx_wire, rx_kept, rx_taken>>
    BY <1>4 DEF console_sendf, ReadTpos, ReadTmax, ZeroPos, Fit, Move, Shift, ResetPos,
                RestoreMax, Encode, RaiseMax, Enable, Sendf
  <2>2. stask # "idle" /\ stask' \notin {"idle", "commit"}
    BY <1>4 DEF console_sendf, ReadTpos, ReadTmax, ZeroPos, Fit, Move, Shift, ResetPos,
                RestoreMax, Encode, RaiseMax, Enable, Sendf
  <2> QED BY <2>1, <2>2, RxSkip
<1>5. CASE PopMove BY <1>5, RxMove
<1>6. CASE PopCommit BY <1>6, RxCommit
<1>7. CASE UNCHANGED svars
  BY <1>7 DEF svars, sshared, slocals, shistory, RxType, RxInv, Behind
<1> QED BY <1>1, <1>2, <1>3, <1>4, <1>5, <1>6, <1>7 DEF SNext, STask, console_pop_input

LEMMA RxStart == SInit => RxType /\ RxInv
<1> SUFFICES ASSUME SInit PROVE RxType /\ RxInv OBVIOUS
<1>1. SerialRxSize \in Nat BY SerialAssumption
<1>2. RxType BY <1>1 DEF SInit, RxType
<1>3. Len(rx_kept) = 0 /\ Len(rx_taken) = 0 /\ receive_pos = 0 /\ Behind = 0 /\ stask = "idle"
  BY DEF SInit, Behind
<1> QED BY <1>2, <1>3 DEF RxInv

\* Between two passes of console_task() nothing that the receive interrupt stored
\* is lost, repeated or out of order: for every size of the buffer and however
\* often console_pop_input() is raced.
THEOREM SerialRxStreamSafe == SInit /\ [][SNext]_svars => []SerialRxStream
<1>1. RxType /\ RxInv => SerialRxStream
  <2> SUFFICES ASSUME RxType, RxInv, stask = "idle"
               PROVE  rx_taken \o Slice(receive_buf, 0, receive_pos) = rx_kept
    BY DEF SerialRxStream
  <2> DEFINE t == Len(rx_taken)
             n == receive_pos
             sl == Slice(receive_buf, 0, n)
             z == rx_taken \o sl
  <2>0. SerialRxSize \in Nat /\ n \in Nat /\ t \in Nat /\ n <= SerialRxSize /\ Behind = 0
    BY SerialAssumption DEF RxType, Behind
  <2>1. sl \in Seq(Nat) /\ Len(sl) = n /\ \A i \in 1 .. n : sl[i] = receive_buf[i - 1]
    <3>1. \A k \in 1 .. n : 0 + k - 1 = k - 1 /\ k - 1 \in 0 .. SerialRxSize - 1 BY <2>0
    <3>2. sl \in [1 .. n -> Nat] BY <3>1 DEF Slice, RxType
    <3>3. \A i \in 1 .. n : sl[i] = receive_buf[i - 1] BY <3>1 DEF Slice
    <3>4. sl \in Seq(Nat) /\ Len(sl) = n BY <2>0, <3>2, IsASeq
    <3> QED BY <3>3, <3>4
  <2> HIDE DEF sl
  <2>2. /\ z \in Seq(Nat) /\ Len(z) = t + n
        /\ \A i \in 1 .. t + n : z[i] = IF i <= t THEN rx_taken[i] ELSE sl[i - t]
    <3>1. rx_taken \in Seq(Nat) BY DEF RxType
    <3> QED BY <2>1, <3>1, ConcatElements
  <2>3. /\ Len(rx_kept) = t + n /\ \A i \in 1 .. t : rx_kept[i] = rx_taken[i]
        /\ \A k \in 0 .. n - 1 : rx_kept[t + k + 1] = receive_buf[k]
    <3>1. n - Behind = n /\ t + n - Behind = t + n BY <2>0
    <3>2. \A k \in 0 .. n - 1 : (IF k < copied THEN k ELSE k + Behind) = k BY <2>0
    <3> QED BY <3>1, <3>2 DEF RxInv
  <2> HIDE DEF z, t, n
  <2>4. ASSUME NEW i \in 1 .. t + n PROVE z[i] = rx_kept[i]
    <3>1. CASE i <= t
      <4>1. i \in 1 .. t BY <2>0, <3>1
      <4> QED BY <2>2, <2>3, <3>1, <4>1
    <3>2. CASE ~(i <= t)
      <4>1. i - t \in 1 .. n /\ i - t - 1 \in 0 .. n - 1 /\ t + (i - t - 1) + 1 = i BY <2>0, <3>2
      <4>2. rx_kept[i] = receive_buf[i - t - 1] BY <2>3, <4>1
      <4> QED BY <2>1, <2>2, <3>2, <4>1, <4>2
    <3> QED BY <3>1, <3>2
  <2>5. z = rx_kept BY <2>2, <2>3, <2>4, SeqEqual DEF RxType
  <2> QED BY <2>5 DEF z, sl, n
<1> QED BY <1>1, RxStart, RxStep, PTL

-----------------------------------------------------------------------------
(* The UART console: transmission.                                         *)

TxType == /\ transmit_buf \in [0 .. SerialTxSize - 1 -> Nat]
          /\ transmit_pos \in 0 .. SerialTxSize /\ transmit_max \in 0 .. SerialTxSize
          /\ tpos \in 0 .. SerialTxSize /\ tmax \in 0 .. SerialTxSize
          /\ msglen \in SerialReplies \cup {0}
          /\ tx_accepted \in Nat /\ tx_wire \in Seq(Nat) /\ stask \in Places

\* Where the accepted and unsent bytes are in transmit_buf.  While console_sendf()
\* rearranges the buffer transmit_pos and transmit_max do not tell.
Front == IF stask \in {"zero_pos", "reset_pos"} THEN 0
         ELSE IF stask = "shift" THEN tpos ELSE transmit_pos
Back == IF stask \in {"zero_pos", "fit", "encode", "move", "reset_pos", "restore_max"} THEN tmax
        ELSE IF stask = "shift" THEN tpos + tmax
        ELSE IF stask = "raise_max" THEN tmax + msglen ELSE transmit_max

Window == /\ Front <= Back /\ Back <= SerialTxSize
          /\ Back - Front = tx_accepted - Len(tx_wire)
          /\ \A j \in Front .. Back - 1 : transmit_buf[j] = Len(tx_wire) + 1 + j - Front
          /\ \A i \in 1 .. Len(tx_wire) : tx_wire[i] = i

\* What the copies in the locals are worth, access by access.
Locals ==
    /\ stask \in {"read_tmax", "fit", "move"} => tpos <= transmit_pos
    /\ stask \in {"fit", "encode", "raise_max"} => transmit_max = tmax
    /\ stask \in {"zero_pos", "move", "shift", "reset_pos", "restore_max"} => transmit_max = 0
    /\ stask = "zero_pos" => tmax = 0 /\ tpos = 0
    /\ stask = "shift" => tpos = transmit_pos
    /\ stask \in {"encode", "raise_max", "shift", "reset_pos", "restore_max"}
         => tmax + msglen <= SerialTxSize
    /\ stask = "move" => tmax + msglen - tpos <= SerialTxSize
    /\ stask = "restore_max" => transmit_pos = 0
    /\ stask = "raise_max" => transmit_pos <= tmax

TxInv == TxType /\ Window /\ Locals

LEMMA TxTypes ==
  ASSUME TxType
  PROVE  /\ SerialTxSize \in Nat /\ transmit_pos \in Nat /\ transmit_max \in Nat /\ tpos \in Nat
         /\ tmax \in Nat /\ msglen \in Nat /\ tx_accepted \in Nat /\ Len(tx_wire) \in Nat
         /\ transmit_pos <= SerialTxSize /\ transmit_max <= SerialTxSize /\ tpos <= SerialTxSize
         /\ tmax <= SerialTxSize
BY SerialAssumption DEF TxType

\* Steps that leave the unsent bytes where they are.
LEMMA SameWindow ==
  ASSUME Window, Front' = Front, Back' = Back, UNCHANGED <<transmit_buf, tx_accepted, tx_wire>>
  PROVE  Window'
BY DEF Window

\* The transmit interrupt sends the byte at transmit_pos.
LEMMA TxByte ==
  ASSUME TxInv, serial_get_tx_byte
  PROVE  TxInv'
<1> DEFINE w == Len(tx_wire)
<1>0. /\ SerialTxSize \in Nat /\ transmit_pos \in Nat /\ transmit_max \in Nat /\ tpos \in Nat
      /\ tmax \in Nat /\ msglen \in Nat /\ tx_accepted \in Nat /\ w \in Nat /\ TxType
      /\ transmit_max <= SerialTxSize
  BY TxTypes DEF TxInv
<1>1. UNCHANGED <<transmit_buf, transmit_max, stask, tpos, tmax, msglen, tx_accepted>>
  BY DEF serial_get_tx_byte, slocals
<1>2. CASE transmit_pos >= transmit_max
  <2>1. UNCHANGED <<transmit_pos, tx_wire>> BY <1>2 DEF serial_get_tx_byte
  <2> QED BY <1>1, <2>1 DEF TxInv, TxType, Window, Locals, Front, Back
<1>3. CASE ~(transmit_pos >= transmit_max)
  <2>1. tx_wire' = Append(tx_wire, transmit_buf[transmit_pos]) /\ transmit_pos' = transmit_pos + 1
    BY <1>3 DEF serial_get_tx_byte
  <2>2. stask \notin {"zero_pos", "move", "shift", "reset_pos", "restore_max"}
    BY <1>0, <1>3 DEF TxInv, Locals
  <2>3. Front = transmit_pos /\ Front' = Front + 1 /\ Back' = Back
    BY <1>1, <2>1, <2>2 DEF Front, Back
  <2>4. transmit_max <= Back
    BY <1>0, <2>2 DEF Back, TxInv, Locals
  <2>5. Back \in Nat BY <1>0, <2>2 DEF Back
  <2>6. /\ Back <= SerialTxSize /\ Back - Front = tx_accepted - w
        /\ \A j \in Front .. Back - 1 : transmit_buf[j] = w + 1 + j - Front
        /\ \A i \in 1 .. w : tx_wire[i] = i
    BY DEF TxInv, Window
  <2>7. Front \in Front .. Back - 1 BY <1>0, <1>3, <2>3, <2>4, <2>5
  <2>8. transmit_buf[transmit_pos] = w + 1
    <3>1. transmit_buf[Front] = w + 1 + Front - Front BY <2>6, <2>7
    <3>2. w + 1 + Front - Front = w + 1 BY <1>0, <2>3
    <3> QED BY <2>3, <3>1, <3>2
  <2>9. /\ tx_wire' \in Seq(Nat) /\ Len(tx_wire') = w + 1
        /\ \A i \in 1 .. w + 1 : tx_wire'[i] = IF i = w + 1 THEN w + 1 ELSE tx_wire[i]
    <3>1. tx_wire' = Append(tx_wire, w + 1) /\ w + 1 \in Nat BY <1>0, <2>1, <2>8
    <3>2. tx_wire \in Seq(Nat) BY <1>0 DEF TxType
    <3> QED BY <3>1, <3>2
  <2> HIDE DEF w
  <2>10. Window'
    <3>1. Front' <= Back' /\ Back' <= SerialTxSize /\ Back' - Front' = tx_accepted - (w + 1)
      BY <1>0, <2>3, <2>5, <2>6, <2>7
    <3>2. ASSUME NEW j \in Front' .. Back' - 1
          PROVE  transmit_buf[j] = (w + 1) + 1 + j - Front'
      <4>1. j \in Front .. Back - 1 /\ j \in Int BY <1>0, <2>3, <2>5
      <4>2. transmit_buf[j] = w + 1 + j - Front BY <2>6, <4>1
      <4> QED BY <1>0, <2>3, <4>1, <4>2
    <3>3. \A i \in 1 .. w + 1 : tx_wire'[i] = i
      <4> SUFFICES ASSUME NEW i \in 1 .. w + 1 PROVE tx_wire'[i] = i OBVIOUS
      <4>1. i = w + 1 \/ i \in 1 .. w BY <1>0
      <4> QED BY <2>6, <2>9, <4>1
    <3> QED BY <1>1, <2>9, <3>1, <3>2, <3>3 DEF Window
  <2>11. TxType'
    <3>1. transmit_pos' \in 0 .. SerialTxSize BY <1>0, <1>3, <2>1
    <3> QED BY <1>0, <1>1, <2>9, <3>1 DEF TxType
  <2>12. Locals'
    BY <1>0, <1>1, <1>3, <2>1, <2>2 DEF TxInv, Locals
  <2> QED BY <2>10, <2>11, <2>12 DEF TxInv
<1> QED BY <1>2, <1>3

\* console_sendf() up to the decision what to do with the buffer.
LEMMA TxLook ==
  ASSUME TxInv, ReadTpos \/ ReadTmax \/ ZeroPos \/ Fit
  PROVE  TxInv'
<1>0. /\ SerialTxSize \in Nat /\ transmit_pos \in Nat /\ transmit_max \in Nat /\ tpos \in Nat
      /\ tmax \in Nat /\ msglen \in Nat /\ tx_accepted \in Nat /\ Len(tx_wire) \in Nat /\ TxType
      /\ transmit_max <= SerialTxSize /\ Window /\ Locals
  BY TxTypes DEF TxInv
<1>1. UNCHANGED <<transmit_buf, tx_accepted, tx_wire, msglen>>
  BY DEF ReadTpos, ReadTmax, ZeroPos, Fit, Sendf
<1>2. CASE ReadTpos
  <2>1. /\ stask = "read_tpos" /\ stask' = "read_tmax" /\ tpos' = transmit_pos
        /\ UNCHANGED <<transmit_pos, transmit_max, tmax>>
    BY <1>2 DEF ReadTpos, Sendf
  <2>2. Front' = Front /\ Back' = Back BY <2>1 DEF Front, Back
  <2>3. Locals' BY <1>0, <2>1 DEF Locals
  <2>4. TxType' BY <1>0, <1>1, <2>1 DEF TxType, Places
  <2> QED BY <1>0, <1>1, <2>2, <2>3, <2>4, SameWindow DEF TxInv
<1>3. CASE ReadTmax /\ tpos >= transmit_max
  <2>1. /\ stask = "read_tmax" /\ stask' = "zero_pos" /\ tpos' = 0 /\ tmax' = 0 /\ transmit_max' = 0
        /\ transmit_pos' = transmit_pos
    BY <1>3 DEF ReadTmax, Sendf
  <2>2. Front = transmit_pos /\ Back = transmit_max /\ Front' = 0 /\ Back' = 0
    BY <2>1 DEF Front, Back
  <2>3. tx_accepted = Len(tx_wire)
    BY <1>0, <1>3, <2>1, <2>2 DEF Locals, Window
  <2>4. \A j \in 0 .. 0 - 1 : FALSE OBVIOUS
  <2>5. Window' BY <1>0, <1>1, <2>2, <2>3, <2>4 DEF Window
  <2>6. Locals' BY <2>1 DEF Locals
  <2>7. TxType' BY <1>0, <1>1, <2>1 DEF TxType, Places
  <2> QED BY <2>5, <2>6, <2>7 DEF TxInv
<1>4. CASE ReadTmax /\ ~(tpos >= transmit_max)
  <2>1. /\ stask = "read_tmax" /\ stask' = "fit" /\ tmax' = transmit_max
        /\ UNCHANGED <<transmit_pos, transmit_max, tpos>>
    BY <1>4 DEF ReadTmax, Sendf
  <2>2. Front' = Front /\ Back' = Back BY <2>1 DEF Front, Back
  <2>3. Locals' BY <1>0, <2>1 DEF Locals
  <2>4. TxType' BY <1>0, <1>1, <2>1 DEF TxType, Places
  <2> QED BY <1>0, <1>1, <2>2, <2>3, <2>4, SameWindow DEF TxInv
<1>5. CASE ZeroPos
  <2>1. /\ stask = "zero_pos" /\ stask' = "fit" /\ transmit_pos' = 0
        /\ UNCHANGED <<transmit_max, tpos, tmax>>
    BY <1>5 DEF ZeroPos, Sendf
  <2>2. Front' = Front /\ Back' = Back BY <2>1 DEF Front, Back
  <2>3. Locals' BY <1>0, <2>1 DEF Locals
  <2>4. TxType' BY <1>0, <1>1, <2>1 DEF TxType, Places
  <2> QED BY <1>0, <1>1, <2>2, <2>3, <2>4, SameWindow DEF TxInv
<1>6. CASE Fit
  <2>1. stask = "fit" /\ UNCHANGED <<transmit_pos, tpos, tmax>>
    BY <1>6 DEF Fit, Sendf
  <2>2. \/ stask' = "encode" /\ transmit_max' = transmit_max /\ tmax + msglen <= SerialTxSize
        \/ stask' = "pop" /\ transmit_max' = transmit_max
        \/ stask' = "move" /\ transmit_max' = 0 /\ ~(tmax + msglen - tpos > SerialTxSize)
    BY <1>6 DEF Fit, Fits
  <2>3. Front' = Front /\ Back' = Back BY <1>0, <2>1, <2>2 DEF Front, Back, Locals
  <2>4. Locals' BY <1>0, <1>1, <2>1, <2>2 DEF Locals
  <2>5. TxType' BY <1>0, <1>1, <2>1, <2>2 DEF TxType, Places
  <2> QED BY <1>0, <1>1, <2>3, <2>4, <2>5, SameWindow DEF TxInv
<1> QED BY <1>2, <1>3, <1>4, <1>5, <1>6

\* The move to the front, with transmit_max = 0 to hold the interrupt off.
LEMMA TxMove ==
  ASSUME TxInv, Move \/ Shift \/ ResetPos \/ RestoreMax
  PROVE  TxInv'
<1>0. /\ SerialTxSize \in Nat /\ transmit_pos \in Nat /\ transmit_max \in Nat /\ tpos \in Nat
      /\ tmax \in Nat /\ msglen \in Nat /\ tx_accepted \in Nat /\ Len(tx_wire) \in Nat /\ TxType
      /\ tmax <= SerialTxSize /\ Window /\ Locals
  BY TxTypes DEF TxInv
<1>1. UNCHANGED <<tx_accepted, tx_wire, msglen>>
  BY DEF Move, Shift, ResetPos, RestoreMax, Sendf
<1>2. CASE Move
  <2>1. /\ stask = "move" /\ stask' = "shift" /\ tpos' = transmit_pos /\ tmax' = tmax - transmit_pos
        /\ UNCHANGED <<transmit_buf, transmit_pos, transmit_max>>
    BY <1>2 DEF Move, Sendf, current_pos
  <2>2. Front = transmit_pos /\ Back = tmax /\ Front' = transmit_pos /\ Back' = transmit_pos + (tmax - transmit_pos)
    BY <2>1 DEF Front, Back
  <2>3. Front' = Front /\ Back' = Back BY <1>0, <2>2
  <2>4. transmit_pos <= tmax BY <1>0, <2>2 DEF Window
  <2>5. Locals' BY <1>0, <1>1, <2>1, <2>4 DEF Locals
  <2>6. TxType' BY <1>0, <1>1, <2>1, <2>4 DEF TxType, Places
  <2> QED BY <1>0, <1>1, <2>1, <2>3, <2>5, <2>6, SameWindow DEF TxInv
<1>3. CASE Shift
  <2>1. /\ stask = "shift" /\ stask' = "reset_pos" /\ transmit_buf' = memmove(transmit_buf, 0, tpos, tmax)
        /\ UNCHANGED <<transmit_pos, transmit_max, tpos, tmax>>
    BY <1>3 DEF Shift, Sendf
  <2>2. Front = tpos /\ Back = tpos + tmax /\ Front' = 0 /\ Back' = tmax
    BY <2>1 DEF Front, Back
  <2>3. /\ tpos + tmax <= SerialTxSize /\ (tpos + tmax) - tpos = tx_accepted - Len(tx_wire)
        /\ \A j \in tpos .. (tpos + tmax) - 1 : transmit_buf[j] = Len(tx_wire) + 1 + j - tpos
        /\ \A i \in 1 .. Len(tx_wire) : tx_wire[i] = i
    BY <1>0, <2>2 DEF Window
  <2>4. DOMAIN transmit_buf = 0 .. SerialTxSize - 1 BY <1>0 DEF TxType
  <2>5. transmit_buf' = [i \in 0 .. SerialTxSize - 1 |->
                            IF i \in 0 .. 0 + tmax - 1 THEN transmit_buf[i - 0 + tpos] ELSE transmit_buf[i]]
    BY <2>1, <2>4 DEF memmove
  <2>6. ASSUME NEW i \in 0 .. SerialTxSize - 1
        PROVE  /\ transmit_buf'[i] = IF i \in 0 .. tmax - 1 THEN transmit_buf[i + tpos] ELSE transmit_buf[i]
               /\ i \in 0 .. tmax - 1 => i + tpos \in 0 .. SerialTxSize - 1
    <3>1. 0 + tmax - 1 = tmax - 1 /\ i - 0 + tpos = i + tpos BY <1>0
    <3>2. i \in 0 .. tmax - 1 => i + tpos \in 0 .. SerialTxSize - 1 BY <1>0, <2>3
    <3> QED BY <2>5, <3>1, <3>2
  <2>7. transmit_buf' \in [0 .. SerialTxSize - 1 -> Nat]
    <3>1. \A i \in 0 .. SerialTxSize - 1 : transmit_buf'[i] \in Nat BY <1>0, <2>6 DEF TxType
    <3>2. transmit_buf' = [i \in 0 .. SerialTxSize - 1 |-> transmit_buf'[i]] BY <2>5
    <3> QED BY <3>1, <3>2
  <2>8. ASSUME NEW j \in 0 .. tmax - 1 PROVE transmit_buf'[j] = Len(tx_wire) + 1 + j - 0
    <3>1. j \in 0 .. SerialTxSize - 1 /\ j + tpos \in tpos .. (tpos + tmax) - 1 BY <1>0, <2>3
    <3>2. transmit_buf'[j] = Len(tx_wire) + 1 + (j + tpos) - tpos BY <2>3, <2>6, <3>1
    <3>3. Len(tx_wire) + 1 + (j + tpos) - tpos = Len(tx_wire) + 1 + j - 0 BY <1>0
    <3> QED BY <3>2, <3>3
  <2>9. 0 <= tmax /\ tmax <= SerialTxSize /\ tmax - 0 = tx_accepted - Len(tx_wire) BY <1>0, <2>3
  <2>10. Window' BY <1>1, <2>2, <2>3, <2>8, <2>9 DEF Window
  <2>11. Locals' BY <1>0, <1>1, <2>1 DEF Locals
  <2>12. TxType' BY <1>0, <1>1, <2>1, <2>7 DEF TxType, Places
  <2> QED BY <2>10, <2>11, <2>12 DEF TxInv
<1>4. CASE ResetPos
  <2>1. /\ stask = "reset_pos" /\ stask' = "restore_max" /\ transmit_pos' = 0
        /\ UNCHANGED <<transmit_buf, transmit_max, tpos, tmax>>
    BY <1>4 DEF ResetPos, Sendf
  <2>2. Front' = Front /\ Back' = Back BY <2>1 DEF Front, Back
  <2>3. Locals' BY <1>0, <1>1, <2>1 DEF Locals
  <2>4. TxType' BY <1>0, <1>1, <2>1 DEF TxType, Places
  <2> QED BY <1>0, <1>1, <2>1, <2>2, <2>3, <2>4, SameWindow DEF TxInv
<1>5. CASE RestoreMax
  <2>1. /\ stask = "restore_max" /\ stask' = "encode" /\ transmit_max' = tmax
        /\ UNCHANGED <<transmit_buf, transmit_pos, tpos, tmax>>
    BY <1>5 DEF RestoreMax, Sendf
  <2>2. Front' = Front /\ Back' = Back BY <2>1 DEF Front, Back
  <2>3. Locals' BY <1>0, <1>1, <2>1 DEF Locals
  <2>4. TxType' BY <1>0, <1>1, <2>1 DEF TxType, Places
  <2> QED BY <1>0, <1>1, <2>1, <2>2, <2>3, <2>4, SameWindow DEF TxInv
<1> QED BY <1>2, <1>3, <1>4, <1>5

\* The response goes behind the unsent bytes, out of the interrupt's sight until
\* transmit_max is raised.
LEMMA TxEncode ==
  ASSUME TxInv, Encode
  PROVE  TxInv'
<1> DEFINE w == Len(tx_wire)
           a == tx_accepted
<1>0. /\ SerialTxSize \in Nat /\ transmit_pos \in Nat /\ tmax \in Nat /\ msglen \in Nat
      /\ a \in Nat /\ w \in Nat /\ TxType /\ Window /\ Locals
  BY TxTypes DEF TxInv
<1>1. /\ stask = "encode" /\ stask' = "raise_max" /\ a' = a + msglen /\ tx_wire' = tx_wire
      /\ UNCHANGED <<transmit_pos, transmit_max, tpos, tmax, msglen>>
  BY DEF Encode, Sendf
<1>2. Front = transmit_pos /\ Back = tmax /\ Front' = transmit_pos /\ Back' = tmax + msglen
  BY <1>1 DEF Front, Back
<1>3. /\ transmit_pos <= tmax /\ tmax - transmit_pos = a - w /\ tmax + msglen <= SerialTxSize
      /\ \A j \in transmit_pos .. tmax - 1 : transmit_buf[j] = w + 1 + j - transmit_pos
      /\ \A i \in 1 .. w : tx_wire[i] = i
  BY <1>0, <1>1, <1>2 DEF Window, Locals
<1>4. transmit_buf' = [i \in 0 .. SerialTxSize - 1 |->
                          IF i \in tmax .. tmax + msglen - 1 THEN a + i - tmax + 1 ELSE transmit_buf[i]]
  <2>1. DOMAIN transmit_buf = 0 .. SerialTxSize - 1 BY <1>0 DEF TxType
  <2> QED BY <2>1 DEF Encode
<1>5. transmit_buf' \in [0 .. SerialTxSize - 1 -> Nat]
  <2>1. ASSUME NEW i \in 0 .. SerialTxSize - 1
        PROVE  (IF i \in tmax .. tmax + msglen - 1 THEN a + i - tmax + 1 ELSE transmit_buf[i]) \in Nat
    <3>1. i \in tmax .. tmax + msglen - 1 => a + i - tmax + 1 \in Nat BY <1>0
    <3> QED BY <1>0, <3>1 DEF TxType
  <2> QED BY <1>4, <2>1
<1> HIDE DEF w, a
<1>6. ASSUME NEW j \in transmit_pos .. (tmax + msglen) - 1
      PROVE  transmit_buf'[j] = w + 1 + j - transmit_pos
  <2>0. j \in 0 .. SerialTxSize - 1 /\ j \in Int BY <1>0, <1>3
  <2>1. CASE j \in tmax .. tmax + msglen - 1
    <3>1. transmit_buf'[j] = a + j - tmax + 1 BY <1>4, <2>0, <2>1
    <3> QED BY <1>0, <1>3, <2>0, <3>1
  <2>2. CASE j \notin tmax .. tmax + msglen - 1
    <3>1. j \in transmit_pos .. tmax - 1 BY <1>0, <2>0, <2>2
    <3> QED BY <1>3, <1>4, <2>0, <2>2, <3>1
  <2> QED BY <2>1, <2>2
<1>7. transmit_pos <= tmax + msglen /\ (tmax + msglen) - transmit_pos = (a + msglen) - w
  BY <1>0, <1>3
<1>8. Window'
  BY <1>1, <1>2, <1>3, <1>6, <1>7 DEF Window, w, a
<1>9. Locals' BY <1>0, <1>1, <1>3 DEF Locals
<1>10. TxType'
  <2>1. a' \in Nat BY <1>0, <1>1
  <2> QED BY <1>0, <1>1, <1>5, <2>1 DEF TxType, Places, a
<1> QED BY <1>8, <1>9, <1>10 DEF TxInv

LEMMA TxStep == TxInv /\ [SNext]_svars => TxInv'
<1> SUFFICES ASSUME TxInv, [SNext]_svars PROVE TxInv' OBVIOUS
<1>0. /\ SerialTxSize \in Nat /\ transmit_pos \in Nat /\ transmit_max \in Nat /\ tpos \in Nat
      /\ tmax \in Nat /\ msglen \in Nat /\ TxType /\ Window /\ Locals
  BY TxTypes DEF TxInv
<1>1. CASE serial_get_tx_byte BY <1>1, TxByte
<1>2. CASE ReadTpos \/ ReadTmax \/ ZeroPos \/ Fit BY <1>2, TxLook
<1>3. CASE Move \/ Shift \/ ResetPos \/ RestoreMax BY <1>3, TxMove
<1>4. CASE Encode BY <1>4, TxEncode
<1>5. CASE RaiseMax
  <2>1. /\ stask = "raise_max" /\ stask' = "enable" /\ transmit_max' = tmax + msglen
        /\ UNCHANGED <<transmit_buf, transmit_pos, tpos, tmax, msglen, tx_accepted, tx_wire>>
    BY <1>5 DEF RaiseMax, Sendf
  <2>2. Front' = Front /\ Back' = Back BY <2>1 DEF Front, Back
  <2>3. Locals' BY <2>1 DEF Locals
  <2>4. tmax + msglen \in 0 .. SerialTxSize BY <1>0, <2>1 DEF Locals
  <2>5. TxType' BY <1>0, <2>1, <2>4 DEF TxType, Places
  <2> QED BY <1>0, <2>1, <2>2, <2>3, <2>5, SameWindow DEF TxInv
<1>6. ASSUME UNCHANGED <<transmit_buf, transmit_pos, transmit_max, tpos, tmax, tx_accepted, tx_wire>>,
             msglen' \in SerialReplies \cup {0},
             stask \in {"idle", "enable", "pop", "commit"},
             stask' \in {"idle", "read_tpos", "pop", "commit"}
      PROVE  TxInv'
  <2>1. Front' = Front /\ Back' = Back BY <1>6 DEF Front, Back
  <2>2. Locals' BY <1>6 DEF Locals
  <2>3. TxType' BY <1>0, <1>6 DEF TxType, Places
  <2> QED BY <1>0, <1>6, <2>1, <2>2, <2>3, SameWindow DEF TxInv
<1>7. CASE Enable
  <2>1. msglen' \in SerialReplies \cup {0} BY <1>0, <1>7 DEF Enable, TxType
  <2> QED BY <1>6, <1>7, <2>1 DEF Enable, Sendf
<1>8. ASSUME NEW n, NEW r \in SerialReplies \cup {0}, console_task(n, r) PROVE TxInv'
  BY <1>6, <1>8 DEF console_task, sshared
<1>9. CASE console_pop_input
  <2>1. /\ UNCHANGED <<transmit_buf, transmit_pos, transmit_max, tpos, tmax, msglen, tx_accepted, tx_wire>>
        /\ stask \in {"pop", "commit"} /\ stask' \in {"idle", "pop", "commit"}
    BY <1>9 DEF console_pop_input, PopMove, PopCommit, slocals, shistory
  <2>2. msglen' \in SerialReplies \cup {0} BY <1>0, <2>1 DEF TxType
  <2> QED BY <1>6, <2>1, <2>2
<1>10. CASE serial_rx_byte \/ UNCHANGED svars
  <2>1. UNCHANGED <<transmit_buf, transmit_pos, transmit_max, tpos, tmax, msglen, tx_accepted,
                    tx_wire, stask>>
    BY <1>10 DEF serial_rx_byte, slocals, shistory, sshared, svars
  <2>2. Front' = Front /\ Back' = Back BY <2>1 DEF Front, Back
  <2>3. Locals' BY <1>0, <2>1 DEF Locals
  <2>4. TxType' BY <1>0, <2>1 DEF TxType
  <2> QED BY <1>0, <2>1, <2>2, <2>3, <2>4, SameWindow DEF TxInv
<1> QED BY <1>1, <1>2, <1>3, <1>4, <1>5, <1>7, <1>8, <1>9, <1>10
        DEF SNext, STask, console_sendf

LEMMA TxStart == SInit => TxInv
<1> SUFFICES ASSUME SInit PROVE TxInv OBVIOUS
<1>1. SerialTxSize \in Nat BY SerialAssumption
<1>2. TxType BY <1>1 DEF SInit, TxType, Places
<1>3. Front = 0 /\ Back = 0 /\ tx_accepted = 0 /\ Len(tx_wire) = 0 /\ stask = "idle"
  BY DEF SInit, Front, Back
<1>4. Window BY <1>1, <1>3 DEF Window
<1>5. Locals BY <1>3 DEF Locals
<1> QED BY <1>2, <1>4, <1>5 DEF TxInv

\* The bytes on the wire are those of the accepted responses, in order and once,
\* for every size of transmit_buf and of responses, whichever accesses of
\* console_sendf() the transmit interrupt falls between.
THEOREM SerialTxStreamSafe == SInit /\ [][SNext]_svars => []SerialTxStream
<1>1. TxInv => SerialTxStream
  <2> SUFFICES ASSUME TxInv PROVE SerialTxStream OBVIOUS
  <2>1. tx_wire \in Seq(Nat) /\ Len(tx_wire) \in Nat /\ tx_accepted \in Nat BY TxTypes DEF TxInv, TxType
  <2>2. DOMAIN tx_wire = 1 .. Len(tx_wire) BY <2>1
  <2>3. Front \in Int /\ Back \in Int BY TxTypes DEF TxInv, Front, Back
  <2>4. Len(tx_wire) <= tx_accepted
    <3>1. Front <= Back /\ Back - Front = tx_accepted - Len(tx_wire) BY DEF TxInv, Window
    <3> QED BY <2>1, <2>3, <3>1
  <2>5. \A i \in DOMAIN tx_wire : tx_wire[i] = i BY <2>2 DEF TxInv, Window
  <2> QED BY <2>4, <2>5 DEF SerialTxStream
<1> QED BY <1>1, TxStart, TxStep, PTL

\* receive_pos, transmit_pos and transmit_max stay within their buffers.
THEOREM SerialTypeCorrect == SInit /\ [][SNext]_svars => []STypeOK
<1> DEFINE IrqType == TXEIE \in BOOLEAN
<1>1. SInit => IrqType BY Zenon DEF SInit
<1>2. ASSUME IrqType, [SNext]_svars PROVE IrqType'
  <2>1. TXEIE' = TXEIE \/ TXEIE' = FALSE \/ TXEIE' = TRUE
    BY <1>2 DEF SNext, STask, console_sendf, console_pop_input, serial_rx_byte, serial_get_tx_byte,
       console_task, PopMove, PopCommit, ReadTpos, ReadTmax, ZeroPos, Fit, Move, Shift, ResetPos,
       RestoreMax, Encode, RaiseMax, Enable, serial_enable_tx_irq, sshared, svars
  <2> QED BY <1>2, <2>1, Zenon
<1>3. RxType /\ TxInv /\ IrqType => STypeOK
  BY DEF STypeOK, RxType, TxInv, TxType, Places
<1>4. IrqType /\ [SNext]_svars => IrqType' BY <1>2
<1> HIDE DEF IrqType
<1> QED BY <1>1, <1>3, <1>4, RxStart, RxStep, TxStart, TxStep, PTL

-----------------------------------------------------------------------------
(* Runs of consecutively numbered bytes.                                   *)

LEMMA BytesSeq ==
  ASSUME NEW i \in Nat, NEW n \in Nat
  PROVE  /\ Bytes(i, n) \in Seq(Nat) /\ Len(Bytes(i, n)) = n
         /\ \A k \in 1 .. n : Bytes(i, n)[k] = i + k
<1>1. Bytes(i, n) \in [1 .. n -> Nat] BY DEF Bytes
<1>2. \A k \in 1 .. n : Bytes(i, n)[k] = i + k BY DEF Bytes
<1> QED BY <1>1, <1>2, IsASeq

LEMMA BytesConcat ==
  ASSUME NEW i \in Nat, NEW n \in Nat, NEW m \in Nat
  PROVE  Bytes(i, n) \o Bytes(i + n, m) = Bytes(i, n + m)
<1> DEFINE x == Bytes(i, n)
           y == Bytes(i + n, m)
           z == Bytes(i, n + m)
           v == x \o y
<1>1. /\ x \in Seq(Nat) /\ Len(x) = n /\ \A k \in 1 .. n : x[k] = i + k
      /\ y \in Seq(Nat) /\ Len(y) = m /\ \A k \in 1 .. m : y[k] = (i + n) + k
      /\ z \in Seq(Nat) /\ Len(z) = n + m /\ \A k \in 1 .. n + m : z[k] = i + k
  <2>1. i + n \in Nat /\ n + m \in Nat OBVIOUS
  <2> QED BY <2>1, BytesSeq
<1> HIDE DEF x, y, z
<1>2. /\ v \in Seq(Nat) /\ Len(v) = n + m
      /\ \A k \in 1 .. n + m : v[k] = IF k <= n THEN x[k] ELSE y[k - n]
  BY <1>1, ConcatElements
<1> HIDE DEF v
<1>3. ASSUME NEW k \in 1 .. n + m PROVE v[k] = z[k]
  <2>1. CASE k <= n
    <3>1. k \in 1 .. n BY <2>1
    <3> QED BY <1>1, <1>2, <2>1, <3>1
  <2>2. CASE ~(k <= n)
    <3>1. k - n \in 1 .. m /\ (i + n) + (k - n) = i + k BY <2>2
    <3> QED BY <1>1, <1>2, <2>2, <3>1
  <2> QED BY <2>1, <2>2
<1>4. v = z BY <1>1, <1>2, <1>3, SeqEqual
<1> QED BY <1>4 DEF v, x, y, z

LEMMA BytesHalves ==
  ASSUME NEW i \in Nat, NEW n \in Nat, NEW m \in 0 .. n
  PROVE  /\ SubSeq(Bytes(i, n), 1, m) = Bytes(i, m)
         /\ SubSeq(Bytes(i, n), m + 1, n) = Bytes(i + m, n - m)
<1> DEFINE z == Bytes(i, n)
           x == SubSeq(z, 1, m)
           y == SubSeq(z, m + 1, n)
           u == Bytes(i, m)
           v == Bytes(i + m, n - m)
<1>0. m \in Nat /\ i + m \in Nat /\ n - m \in Nat /\ m <= n OBVIOUS
<1>1. z \in Seq(Nat) /\ Len(z) = n /\ \A k \in 1 .. n : z[k] = i + k BY BytesSeq
<1>2. /\ u \in Seq(Nat) /\ Len(u) = m /\ \A k \in 1 .. m : u[k] = i + k
      /\ v \in Seq(Nat) /\ Len(v) = n - m /\ \A k \in 1 .. n - m : v[k] = (i + m) + k
  BY <1>0, BytesSeq
<1> HIDE DEF z, u, v
<1>3. x \in Seq(Nat) /\ Len(x) = m /\ \A k \in 1 .. m : x[k] = z[k]
  BY <1>0, <1>1
<1>4. y \in Seq(Nat) /\ Len(y) = n - m /\ \A k \in 1 .. n - m : y[k] = z[m + k]
  BY <1>0, <1>1
<1> HIDE DEF x, y
<1>5. \A k \in 1 .. m : x[k] = u[k] BY <1>0, <1>1, <1>2, <1>3
<1>6. ASSUME NEW k \in 1 .. n - m PROVE y[k] = v[k]
  <2>1. m + k \in 1 .. n /\ i + (m + k) = (i + m) + k BY <1>0
  <2> QED BY <1>1, <1>2, <1>4, <2>1
<1>7. x = u BY <1>2, <1>3, <1>5, SeqEqual
<1>8. y = v BY <1>2, <1>4, <1>6, SeqEqual
<1> QED BY <1>7, <1>8 DEF x, y, z, u, v

\* s is the run of bytes that follows byte i.
IsRun(s, i) == s = Bytes(i, Len(s)) /\ Len(s) \in Nat

LEMMA RunConcat ==
  ASSUME NEW i \in Nat, NEW s, NEW t, IsRun(s, i), IsRun(t, i + Len(s))
  PROVE  IsRun(s \o t, i) /\ Len(s \o t) = Len(s) + Len(t)
<1>1. s \o t = Bytes(i, Len(s) + Len(t)) BY BytesConcat DEF IsRun
<1>2. Len(s) + Len(t) \in Nat BY DEF IsRun
<1>3. Len(s \o t) = Len(s) + Len(t) BY <1>1, <1>2, BytesSeq
<1> QED BY <1>1, <1>2, <1>3 DEF IsRun

LEMMA RunHalves ==
  ASSUME NEW i \in Nat, NEW s, IsRun(s, i), NEW m \in 0 .. Len(s)
  PROVE  /\ IsRun(SubSeq(s, 1, m), i) /\ Len(SubSeq(s, 1, m)) = m
         /\ IsRun(SubSeq(s, m + 1, Len(s)), i + m)
         /\ Len(SubSeq(s, m + 1, Len(s))) = Len(s) - m
<1> DEFINE n == Len(s)
<1>0. n \in Nat /\ m \in Nat /\ n - m \in Nat /\ i + m \in Nat BY DEF IsRun
<1>1. s = Bytes(i, n) BY DEF IsRun
<1>2. SubSeq(s, 1, m) = Bytes(i, m) /\ SubSeq(s, m + 1, n) = Bytes(i + m, n - m)
  <2>1. m \in 0 .. n OBVIOUS
  <2> HIDE DEF n
  <2>2. /\ SubSeq(Bytes(i, n), 1, m) = Bytes(i, m)
        /\ SubSeq(Bytes(i, n), m + 1, n) = Bytes(i + m, n - m)
    BY <1>0, <2>1, BytesHalves
  <2> QED BY <1>1, <2>2
<1>3. Len(Bytes(i, m)) = m /\ Len(Bytes(i + m, n - m)) = n - m
  BY <1>0, BytesSeq
<1> QED BY <1>0, <1>2, <1>3 DEF IsRun

LEMMA RunBytes ==
  ASSUME NEW i \in Nat, NEW n \in Nat
  PROVE  IsRun(Bytes(i, n), i) /\ Len(Bytes(i, n)) = n
BY BytesSeq DEF IsRun

LEMMA EmptyRun == ASSUME NEW i \in Nat PROVE IsRun(<<>>, i)
<1>1. Bytes(i, 0) = <<>> BY DEF Bytes
<1>2. Len(<<>>) = 0 OBVIOUS
<1> QED BY <1>1, <1>2 DEF IsRun

LEMMA MinPair == \A a, b \in Int : Min({a, b}) = IF a <= b THEN a ELSE b
<1> SUFFICES ASSUME NEW a \in Int, NEW b \in Int PROVE Min({a, b}) = IF a <= b THEN a ELSE b OBVIOUS
<1>1. \E x \in {a, b} : \A y \in {a, b} : x <= y OBVIOUS
<1>2. Min({a, b}) \in {a, b} /\ \A y \in {a, b} : Min({a, b}) <= y BY <1>1 DEF Min
<1> QED BY <1>2

-----------------------------------------------------------------------------
(* The USB console: the bulk in endpoint.                                  *)

InType == /\ in_dtog \in 0 .. 1 /\ in_sw \in 0 .. 1 /\ bulk_in_push_pos \in 0 .. 3
          /\ bulk_in_pop_flag \in {"none", "DTOG_RX", "KIND"}
          /\ in_accepted \in Nat /\ in_buf = [b \in 0 .. 1 |-> in_buf[b]]

\* The controller waits for software.
Waiting == in_dtog = in_sw

\* The task is between setting bulk_in_pop_flag and advancing bulk_in_push_pos.
Pushing == utask \in {"in_epr", "in_release"}
InPlaces == {"in_flag", "in_epr", "in_release", "in_shift"}

\* Packets handed over and not yet taken by the host.
Pend == IF ~in_valid THEN bulk_in_push_pos - BI_START + (IF Pushing THEN 1 ELSE 0)
        ELSE IF bulk_in_pop_flag = "KIND" THEN 2
        ELSE IF bulk_in_pop_flag = "DTOG_RX" THEN IF Waiting THEN 1 ELSE 2
        ELSE IF Waiting THEN 0 ELSE 1

\* The buffer for the next packet, or for the one being pushed.
Slot == bulk_in_push_pos % 2

InSync ==
    /\ ~in_valid => /\ in_dtog = 0 /\ in_sw = 0 /\ ~in_start /\ bulk_in_push_pos \in {2, 3}
                    /\ bulk_in_pop_flag = IF Pushing THEN "DTOG_RX" ELSE "none"
                    /\ utask = "in_release" => was_blocking
    /\ in_valid => /\ bulk_in_push_pos \in {0, 1}
                   /\ Pend = 1 <=> (IF Pushing THEN Slot = in_dtog ELSE Slot # in_dtog)
                   /\ in_start <=> bulk_in_pop_flag = "KIND"
                   /\ bulk_in_pop_flag = "KIND" => Waiting
                   /\ bulk_in_pop_flag = "DTOG_RX" /\ Waiting
                        => utask = "in_epr" \/ (utask = "in_release" /\ was_blocking)
                   /\ utask = "in_release" /\ was_blocking => Waiting
    /\ utask = "in_flag" => bulk_in_pop_flag = "none"
    /\ Pushing => bulk_in_pop_flag # "KIND"

\* The first byte in transmit_buf, and the first that is not in a packet.
TxStart0 == in_accepted - Len(in_tx)
Pushed == TxStart0 + (IF utask \in {"in_epr", "in_release", "in_shift"} THEN max_tpos ELSE 0)
Older == in_buf[in_dtog]
Newer == in_buf[1 - in_dtog]

\* The host's bytes, those in packets and those in transmit_buf are one stream.
InStream ==
    /\ IsRun(in_wire, 0) /\ TxStart0 \in Nat /\ IsRun(in_tx, TxStart0)
    /\ Pend = 0 => Len(in_wire) = Pushed
    /\ Pend = 1 => IsRun(Older, Len(in_wire)) /\ Len(in_wire) + Len(Older) = Pushed
    /\ Pend = 2 => /\ IsRun(Older, Len(in_wire)) /\ IsRun(Newer, Len(in_wire) + Len(Older))
                   /\ Len(in_wire) + Len(Older) + Len(Newer) = Pushed
    /\ utask = "in_flag" => in_buf[Slot] = SubSeq(in_tx, 1, max_tpos)

InInv == InType /\ InSync /\ InStream

LEMMA InFacts ==
  ASSUME InInv
  PROVE  /\ Pend \in 0 .. 2 /\ Slot \in 0 .. 1
         /\ utask = "in_flag" => Pend \in 0 .. 1
         /\ utask = "in_flag" /\ Pend = 0 => Slot = in_dtog
         /\ utask = "in_flag" /\ Pend = 1 => Slot = 1 - in_dtog
         /\ Len(in_tx) \in Nat /\ Len(in_wire) \in Nat /\ max_tpos \in 0 .. Len(in_tx)
<1>0. bulk_in_push_pos \in {0, 1, 2, 3} /\ in_dtog \in {0, 1} /\ in_sw \in {0, 1}
      /\ bulk_in_pop_flag \in {"none", "DTOG_RX", "KIND"} /\ InSync
  BY DEF InInv, InType
<1>1. Slot = IF bulk_in_push_pos \in {0, 2} THEN 0 ELSE 1
  BY <1>0 DEF Slot
<1>2. Pend \in 0 .. 2 /\ (utask = "in_flag" => Pend \in 0 .. 1)
  BY <1>0 DEF InSync, Pend, Waiting, Pushing, BI_START
<1>3. /\ utask = "in_flag" /\ Pend = 0 => Slot = in_dtog
      /\ utask = "in_flag" /\ Pend = 1 => Slot = 1 - in_dtog
  BY <1>0, <1>1, <1>2 DEF InSync, Pend, Waiting, Pushing, BI_START
<1>4. Len(in_tx) \in Nat /\ Len(in_wire) \in Nat BY DEF InInv, InStream, IsRun
<1>5. max_tpos \in 0 .. Len(in_tx)
  <2>1. UsbEp \in Nat BY UsbAssumption
  <2>2. max_tpos = IF Len(in_tx) <= UsbEp THEN Len(in_tx) ELSE UsbEp
    BY <1>4, <2>1, MinPair DEF max_tpos
  <2> QED BY <1>4, <2>1, <2>2
<1> QED BY <1>1, <1>2, <1>3, <1>4, <1>5

\* Steps elsewhere.
LEMMA InSkip ==
  ASSUME InInv, UNCHANGED in,
         \/ UNCHANGED <<utask, was_blocking>>
         \/ utask \notin InPlaces /\ utask' \notin InPlaces
  PROVE  InInv'
<1>1. UNCHANGED <<in_buf, in_dtog, in_sw, in_valid, in_start, bulk_in_push_pos, bulk_in_pop_flag,
                  in_tx, in_accepted, in_wire>>
  BY DEF in
<1>2. /\ Waiting' = Waiting /\ Slot' = Slot /\ Older' = Older /\ Newer' = Newer
      /\ TxStart0' = TxStart0 /\ max_tpos' = max_tpos
  BY <1>1 DEF Waiting, Slot, Older, Newer, TxStart0, max_tpos
<1>3. Pend' = Pend /\ Pushed' = Pushed
  BY <1>1, <1>2 DEF Pend, Pushed, Pushing, InPlaces
<1>4. InType' BY <1>1 DEF InInv, InType
<1>5. InSync' BY <1>1, <1>2, <1>3 DEF InInv, InSync, Pushing, InPlaces
<1>6. InStream' BY <1>1, <1>2, <1>3 DEF InInv, InStream, InPlaces
<1> QED BY <1>4, <1>5, <1>6 DEF InInv

\* The host takes the older packet.
LEMMA InTake ==
  ASSUME InInv, BulkInIrq
  PROVE  InInv'
<1>0. /\ bulk_in_push_pos \in {0, 1, 2, 3} /\ in_dtog \in {0, 1} /\ in_sw \in {0, 1}
      /\ bulk_in_pop_flag \in {"none", "DTOG_RX", "KIND"} /\ InSync /\ InType /\ InStream
  BY DEF InInv, InType
<1>1. /\ in_valid /\ (~Waiting \/ in_start) /\ in_wire' = in_wire \o Older /\ in_dtog' = 1 - in_dtog
      /\ ~in_start' /\ bulk_in_pop_flag' = "none"
      /\ in_sw' = IF bulk_in_pop_flag = "DTOG_RX" THEN 1 - in_sw ELSE in_sw
      /\ UNCHANGED <<in_buf, in_valid, bulk_in_push_pos, in_tx, in_accepted, utask, was_blocking>>
  BY DEF BulkInIrq, Waiting, Older
<1>2. Slot' = Slot /\ Older' = Newer /\ TxStart0' = TxStart0 /\ max_tpos' = max_tpos /\ Pushed' = Pushed
  BY <1>1 DEF Slot, Older, Newer, TxStart0, max_tpos, Pushed
<1>3. Pend \in 1 .. 2 /\ Pend' = Pend - 1
  BY <1>0, <1>1 DEF InSync, Pend, Waiting, Pushing
<1>4. InType' BY <1>0, <1>1 DEF InType
<1>5. Slot \in {0, 1} BY InFacts
<1>6. InSync'
  BY <1>0, <1>1, <1>2, <1>3, <1>5 DEF InSync, Pend, Waiting, Pushing
<1>7. Len(in_wire) \in Nat /\ IsRun(in_wire, 0) /\ IsRun(Older, Len(in_wire)) /\ Len(Older) \in Nat
  BY <1>0, <1>3 DEF InStream, IsRun
<1>8. IsRun(in_wire', 0) /\ Len(in_wire') = Len(in_wire) + Len(Older)
  <2>1. 0 + Len(in_wire) = Len(in_wire) BY <1>7
  <2> QED BY <1>1, <1>7, <2>1, RunConcat
<1>9. InStream'
  BY <1>0, <1>1, <1>2, <1>3, <1>8 DEF InStream
<1> QED BY <1>4, <1>6, <1>9 DEF InInv

\* The task copies the front of transmit_buf into the free packet buffer.
LEMMA InCopy ==
  ASSUME InInv, SendBulkIn
  PROVE  InInv'
<1>0. /\ bulk_in_push_pos \in {0, 1, 2, 3} /\ in_dtog \in {0, 1} /\ in_sw \in {0, 1}
      /\ InSync /\ InType /\ InStream
  BY DEF InInv, InType
<1>1. /\ utask = "in_send"
      /\ UNCHANGED <<in_dtog, in_sw, in_valid, in_start, bulk_in_push_pos, bulk_in_pop_flag,
                     in_tx, in_accepted, in_wire, answered, was_blocking>>
  BY DEF SendBulkIn, InFrame
<1>2. CASE in_tx = <<>> \/ bulk_in_pop_flag # "none"
  <2>1. utask' = "out" /\ in_buf' = in_buf BY <1>2 DEF SendBulkIn
  <2> QED BY <1>1, <2>1, InSkip DEF in, InPlaces
<1>3. CASE bulk_in_pop_flag = "none" /\ in_tx # <<>>
  <2>1. utask' = "in_flag" /\ in_buf' = [in_buf EXCEPT ![Slot] = SubSeq(in_tx, 1, max_tpos)]
    BY <1>3 DEF SendBulkIn, Slot
  <2>2. Slot' = Slot /\ TxStart0' = TxStart0 /\ max_tpos' = max_tpos /\ Pend' = Pend
    BY <1>1, <2>1 DEF Slot, TxStart0, max_tpos, Pend, Waiting, Pushing
  <2>3. Pushed' = Pushed BY <1>1, <2>1, <2>2 DEF Pushed
  <2>4. Slot \in {0, 1} /\ Pend \in 0 .. 2 BY InFacts
  <2>5. Pend \in 0 .. 1 /\ (Pend = 1 => Slot = 1 - in_dtog)
    <3>1. CASE in_valid
      <4>1. ~Pushing BY <1>1 DEF Pushing
      <4>2. Pend = 1 <=> Slot # in_dtog BY <1>0, <3>1, <4>1 DEF InSync
      <4>3. Pend \in 0 .. 1 BY <1>3, <3>1 DEF Pend
      <4> QED BY <1>0, <2>4, <4>2, <4>3
    <3>2. CASE ~in_valid
      <4>1. Slot = IF bulk_in_push_pos \in {0, 2} THEN 0 ELSE 1 BY <1>0 DEF Slot
      <4> QED BY <1>0, <1>1, <1>3, <3>2, <4>1 DEF InSync, Pend, Pushing, BI_START
    <3> QED BY <3>1, <3>2
  <2>6. InType' BY <1>0, <1>1, <2>1 DEF InType
  <2>7. in_buf'[Slot] = SubSeq(in_tx, 1, max_tpos) /\ (Pend = 1 => Older' = Older)
    <3>1. Slot \in 0 .. 1 /\ in_dtog \in 0 .. 1 /\ in_dtog' = in_dtog BY <1>0, <1>1, <2>4
    <3>2. in_buf = [b \in 0 .. 1 |-> in_buf[b]] BY <1>0 DEF InType
    <3>3. /\ in_buf'[Slot] = SubSeq(in_tx, 1, max_tpos)
          /\ \A b \in 0 .. 1 : b # Slot => in_buf'[b] = in_buf[b]
      BY <2>1, <3>1, <3>2
    <3>4. Pend = 1 => in_dtog # Slot BY <1>0, <2>5
    <3> QED BY <3>1, <3>3, <3>4 DEF Older
  <2>8. InSync' BY <1>0, <1>1, <1>3, <2>1, <2>2 DEF InSync, Pushing, Waiting
  <2>9. InStream'
    <3>1. Pend' # 2 /\ (Pend' = 1 => Older' = Older) BY <2>2, <2>5, <2>7
    <3>2. (utask = "in_flag" => in_buf[Slot] = SubSeq(in_tx, 1, max_tpos))'
      BY <1>1, <2>2, <2>7
    <3>3. (IsRun(in_wire, 0) /\ TxStart0 \in Nat /\ IsRun(in_tx, TxStart0))'
      BY <1>0, <1>1, <2>2 DEF InStream
    <3>4. (Pend = 0 => Len(in_wire) = Pushed)'
      BY <1>0, <1>1, <2>2, <2>3 DEF InStream
    <3>5. (Pend = 1 => IsRun(Older, Len(in_wire)) /\ Len(in_wire) + Len(Older) = Pushed)'
      BY <1>0, <1>1, <2>2, <2>3, <3>1 DEF InStream
    <3> QED BY <3>1, <3>2, <3>3, <3>4, <3>5 DEF InStream
  <2> QED BY <2>6, <2>8, <2>9 DEF InInv
<1> QED BY <1>2, <1>3

\* Setting bulk_in_pop_flag hands the packet over.
LEMMA InPush ==
  ASSUME InInv, SetPopFlag
  PROVE  InInv'
<1>0. /\ bulk_in_push_pos \in {0, 1, 2, 3} /\ in_dtog \in {0, 1} /\ in_sw \in {0, 1}
      /\ InSync /\ InType /\ InStream
  BY DEF InInv, InType
<1>1. /\ utask = "in_flag" /\ utask' = "in_epr" /\ bulk_in_pop_flag' = "DTOG_RX"
      /\ UNCHANGED <<in_buf, in_dtog, in_sw, in_valid, in_start, bulk_in_push_pos,
                     in_tx, in_accepted, in_wire, was_blocking>>
  BY DEF SetPopFlag, InFrame
<1>2. /\ Pend \in 0 .. 1 /\ Slot \in {0, 1} /\ (Pend = 0 => Slot = in_dtog)
      /\ (Pend = 1 => Slot = 1 - in_dtog) /\ max_tpos \in 0 .. Len(in_tx)
      /\ Len(in_tx) \in Nat /\ Len(in_wire) \in Nat
  BY <1>1, InFacts
<1>3. Slot' = Slot /\ TxStart0' = TxStart0 /\ max_tpos' = max_tpos /\ Older' = Older /\ Newer' = Newer
  BY <1>1 DEF Slot, TxStart0, max_tpos, Older, Newer
<1>4. Pend' = Pend + 1
  BY <1>0, <1>1 DEF Pend, Waiting, Pushing, InSync, BI_START
<1>5. InType' BY <1>0, <1>1 DEF InType
<1>6. InSync'
  BY <1>0, <1>1, <1>2, <1>3, <1>4 DEF InSync, Pushing, Waiting
<1>7. Pushed = TxStart0 /\ Pushed' = TxStart0 + max_tpos /\ TxStart0 \in Nat
  BY <1>0, <1>1, <1>3 DEF Pushed, InStream
<1>8. IsRun(in_buf[Slot], TxStart0) /\ Len(in_buf[Slot]) = max_tpos
  <2>1. IsRun(in_tx, TxStart0) /\ in_buf[Slot] = SubSeq(in_tx, 1, max_tpos)
    BY <1>0, <1>1 DEF InStream
  <2> QED BY <1>2, <1>7, <2>1, RunHalves
<1>9. CASE Pend = 0
  <2>1. Len(in_wire) = TxStart0 /\ in_buf[Slot] = Older BY <1>0, <1>2, <1>7, <1>9 DEF InStream, Older
  <2>2. InStream' BY <1>0, <1>1, <1>3, <1>4, <1>7, <1>8, <1>9, <2>1 DEF InStream
  <2> QED BY <1>5, <1>6, <2>2 DEF InInv
<1>10. CASE Pend = 1
  <2>1. Len(in_wire) + Len(Older) = TxStart0 /\ in_buf[Slot] = Newer /\ IsRun(Older, Len(in_wire))
    BY <1>0, <1>2, <1>7, <1>10 DEF InStream, Newer
  <2>2. InStream' BY <1>0, <1>1, <1>3, <1>4, <1>7, <1>8, <1>10, <2>1 DEF InStream
  <2> QED BY <1>5, <1>6, <2>2 DEF InInv
<1> QED BY <1>2, <1>9, <1>10

\* The register is read, and the controller started or let go on.
LEMMA InGo ==
  ASSUME InInv, InReadEpr \/ InRelease
  PROVE  InInv'
<1>0. /\ bulk_in_push_pos \in {0, 1, 2, 3} /\ in_dtog \in {0, 1} /\ in_sw \in {0, 1}
      /\ bulk_in_pop_flag \in {"none", "DTOG_RX", "KIND"} /\ InSync /\ InType /\ InStream
  BY DEF InInv, InType
<1>1. /\ Pushing /\ utask' \in {"in_release", "in_shift"}
      /\ UNCHANGED <<in_buf, in_dtog, in_tx, in_accepted, in_wire>>
  BY DEF InReadEpr, InRelease, InFrame, in, Pushing
<1>2. /\ TxStart0' = TxStart0 /\ max_tpos' = max_tpos /\ Older' = Older /\ Newer' = Newer
      /\ utask \in {"in_epr", "in_release", "in_shift"} /\ utask' \in {"in_epr", "in_release", "in_shift"}
  BY <1>1 DEF TxStart0, max_tpos, Older, Newer, Pushing
<1>3. Pushed' = Pushed BY <1>2 DEF Pushed
<1>4. SUFFICES InType' /\ InSync' /\ Pend' = Pend
  <2>1. InStream' BY <1>0, <1>1, <1>2, <1>3, <1>4 DEF InStream
  <2> QED BY <1>4, <2>1 DEF InInv
<1>5. CASE InReadEpr
  <2>1. /\ utask = "in_epr" /\ utask' = "in_release" /\ was_blocking' = Waiting
        /\ UNCHANGED <<in_sw, in_valid, in_start, bulk_in_push_pos, bulk_in_pop_flag>>
    BY <1>5 DEF InReadEpr, in, Waiting
  <2>2. Pend' = Pend /\ Slot' = Slot /\ Waiting' = Waiting
    BY <1>1, <2>1 DEF Pend, Slot, Waiting, Pushing
  <2>3. InType' BY <1>0, <1>1, <2>1 DEF InType
  <2>4. was_blocking' <=> Waiting BY <2>1, Zenon
  <2>5. InSync'
    BY <1>0, <1>1, <2>1, <2>2, <2>4 DEF InSync, Pushing, Waiting
  <2> QED BY <2>2, <2>3, <2>5
<1>6. CASE InRelease
  <2> DEFINE other == IF bulk_in_push_pos % 2 = 0 THEN bulk_in_push_pos + 1 ELSE bulk_in_push_pos - 1
  <2>0. /\ other = IF bulk_in_push_pos \in {0, 2} THEN bulk_in_push_pos + 1 ELSE bulk_in_push_pos - 1
        /\ Slot = IF bulk_in_push_pos \in {0, 2} THEN 0 ELSE 1
    BY <1>0 DEF Slot
  <2>1. utask = "in_release" /\ utask' = "in_shift" /\ was_blocking' = was_blocking
    BY <1>6 DEF InRelease
  <2>2. CASE ~must_notify
    <3>1. /\ bulk_in_push_pos' = other /\ UNCHANGED <<bulk_in_pop_flag, in_sw, in_valid, in_start>>
      BY <1>6, <2>2 DEF InRelease
    <3>2. in_valid
      BY <1>0, <1>1, <2>1, <2>2 DEF InSync, must_notify
    <3>3. bulk_in_push_pos' \in {0, 1} /\ Slot' = 1 - Slot /\ bulk_in_push_pos \in {0, 1}
      BY <1>0, <2>0, <3>1, <3>2 DEF Slot, InSync
    <3>4. Pend' = Pend BY <1>1, <3>1, <3>2 DEF Pend, Waiting
    <3>5. InType' BY <1>0, <1>1, <3>1, <3>3 DEF InType
    <3>6. InSync'
      BY <1>0, <1>1, <2>0, <2>1, <2>2, <3>1, <3>2, <3>3, <3>4 DEF InSync, Pushing, Waiting, must_notify
    <3> QED BY <3>4, <3>5, <3>6
  <2>3. CASE must_notify /\ bulk_in_push_pos = BI_START + 1
    <3>1. /\ bulk_in_push_pos' = 0 /\ bulk_in_pop_flag' = "KIND" /\ in_valid' /\ in_start'
          /\ in_sw' = in_sw
      BY <1>6, <2>3 DEF InRelease
    <3>2. ~in_valid /\ bulk_in_push_pos = 3 /\ in_dtog = 0 /\ in_sw = 0
      BY <1>0, <2>3 DEF InSync, BI_START
    <3>3. Pend = 2 /\ Pend' = 2 BY <1>1, <3>1, <3>2 DEF Pend, BI_START
    <3>4. InType' BY <1>0, <1>1, <3>1 DEF InType
    <3>5. Slot' = 0 BY <3>1 DEF Slot
    <3>6. InSync'
      BY <1>1, <2>1, <3>1, <3>2, <3>3, <3>5 DEF InSync, Pushing, Waiting
    <3> QED BY <3>3, <3>4, <3>6
  <2>4. CASE must_notify /\ bulk_in_push_pos # BI_START + 1
    <3>1. /\ bulk_in_push_pos' = other /\ bulk_in_pop_flag' = "none"
          /\ in_sw' = IF bulk_in_push_pos = BI_START THEN in_sw ELSE 1 - in_sw
          /\ UNCHANGED <<in_valid, in_start>>
      BY <1>6, <2>4 DEF InRelease
    <3>2. CASE ~in_valid
      <4>1. bulk_in_push_pos = 2 /\ bulk_in_push_pos' = 3 /\ in_sw' = 0 /\ in_dtog = 0
        BY <1>0, <2>0, <2>4, <3>1, <3>2 DEF InSync, BI_START
      <4>2. Pend = 1 /\ Pend' = 1 BY <1>1, <2>1, <3>1, <3>2, <4>1 DEF Pend, BI_START, Pushing
      <4>3. InType' BY <1>0, <1>1, <3>1, <4>1 DEF InType
      <4>4. InSync' BY <1>0, <1>1, <2>1, <3>1, <3>2, <4>1 DEF InSync, Pushing
      <4> QED BY <4>2, <4>3, <4>4
    <3>3. CASE in_valid
      <4>1. /\ bulk_in_push_pos \in {0, 1} /\ in_sw' = 1 - in_sw /\ Waiting
            /\ bulk_in_pop_flag = "DTOG_RX"
        BY <1>0, <1>1, <2>1, <2>4, <3>1, <3>3 DEF InSync, BI_START, must_notify
      <4>2. Pend = 1 /\ Pend' = 1 /\ ~Waiting'
        BY <1>0, <1>1, <3>1, <3>3, <4>1 DEF Pend, Waiting
      <4>3. bulk_in_push_pos' \in {0, 1} /\ Slot' = 1 - Slot /\ Slot = in_dtog
        BY <1>0, <1>1, <2>0, <3>1, <3>3, <4>1, <4>2 DEF Slot, InSync
      <4>4. InType' BY <1>0, <1>1, <3>1, <4>1, <4>3 DEF InType
      <4>5. InSync'
        BY <1>0, <1>1, <2>1, <3>1, <3>3, <4>1, <4>2, <4>3 DEF InSync, Pushing
      <4> QED BY <4>2, <4>4, <4>5
    <3> QED BY <3>2, <3>3
  <2> QED BY <2>2, <2>3, <2>4
<1> QED BY <1>5, <1>6

\* transmit_buf moves to the front by what went into the packet.
LEMMA InMove ==
  ASSUME InInv, InShift
  PROVE  InInv'
<1>0. InSync /\ InType /\ InStream BY DEF InInv
<1>1. /\ utask = "in_shift" /\ utask' = "out" /\ in_tx' = SubSeq(in_tx, max_tpos + 1, Len(in_tx))
      /\ UNCHANGED <<in_buf, in_dtog, in_sw, in_valid, in_start, bulk_in_push_pos, bulk_in_pop_flag,
                     in_accepted, in_wire, was_blocking>>
  BY DEF InShift, InFrame
<1>2. Pend' = Pend /\ Slot' = Slot /\ Waiting' = Waiting /\ Older' = Older /\ Newer' = Newer
  BY <1>1 DEF Pend, Slot, Waiting, Pushing, Older, Newer
<1>3. max_tpos \in 0 .. Len(in_tx) /\ Len(in_tx) \in Nat BY InFacts
<1>4. IsRun(in_tx', TxStart0 + max_tpos) /\ Len(in_tx') = Len(in_tx) - max_tpos
  BY <1>0, <1>1, <1>3, RunHalves DEF InStream
<1>5. TxStart0' = TxStart0 + max_tpos /\ TxStart0' \in Nat /\ Pushed = TxStart0 + max_tpos
  <2>1. in_accepted \in Nat BY <1>0 DEF InType
  <2>2. in_accepted - (Len(in_tx) - max_tpos) = (in_accepted - Len(in_tx)) + max_tpos BY <1>3, <2>1
  <2>3. TxStart0' = TxStart0 + max_tpos BY <1>1, <1>4, <2>2 DEF TxStart0
  <2>4. TxStart0 \in Nat /\ TxStart0 + max_tpos \in Nat BY <1>0, <1>3 DEF InStream
  <2> QED BY <1>1, <2>3, <2>4 DEF Pushed
<1>6. Pushed' = TxStart0'
  <2>1. Pushed' = TxStart0' + 0 BY <1>1 DEF Pushed
  <2> QED BY <1>5, <2>1
<1>7. InType' BY <1>0, <1>1 DEF InType
<1>8. InSync' BY <1>0, <1>1, <1>2 DEF InSync, Pushing
<1>9. InStream' BY <1>0, <1>1, <1>2, <1>4, <1>5, <1>6 DEF InStream
<1> QED BY <1>7, <1>8, <1>9 DEF InInv

\* A response is appended to transmit_buf, or dropped.
LEMMA InAnswer ==
  ASSUME InInv, OutDispatch
  PROVE  InInv'
<1>0. InSync /\ InType /\ InStream BY DEF InInv
<1>1. /\ utask = "out_dispatch" /\ utask' = "in"
      /\ UNCHANGED <<in_buf, in_dtog, in_sw, in_valid, in_start, bulk_in_push_pos, bulk_in_pop_flag,
                     in_wire, was_blocking>>
  BY DEF OutDispatch
<1>2. Pend' = Pend /\ Slot' = Slot /\ Waiting' = Waiting /\ Older' = Older /\ Newer' = Newer
  BY <1>1 DEF Pend, Slot, Waiting, Pushing, Older, Newer
<1>3. InSync' BY <1>0, <1>1, <1>2 DEF InSync, Pushing
<1>4. \/ UNCHANGED <<in_tx, in_accepted>>
      \/ \E n \in UsbReplies : in_tx' = in_tx \o Bytes(in_accepted, n) /\ in_accepted' = in_accepted + n
  BY DEF OutDispatch, console_sendf_usb
<1>5. /\ in_accepted' \in Nat /\ TxStart0' = TxStart0 /\ IsRun(in_tx', TxStart0)
  <2>0. /\ in_accepted \in Nat /\ Len(in_tx) \in Nat /\ TxStart0 \in Nat /\ IsRun(in_tx, TxStart0)
        /\ TxStart0 + Len(in_tx) = in_accepted
    BY <1>0 DEF InType, InStream, IsRun, TxStart0
  <2>1. CASE UNCHANGED <<in_tx, in_accepted>>
    BY <2>0, <2>1 DEF TxStart0
  <2>2. ASSUME NEW n \in UsbReplies, in_tx' = in_tx \o Bytes(in_accepted, n), in_accepted' = in_accepted + n
        PROVE  in_accepted' \in Nat /\ TxStart0' = TxStart0 /\ IsRun(in_tx', TxStart0)
    <3>1. n \in Nat
      <4>1. n \in 1 .. UsbTxSize BY UsbAssumption
      <4> QED BY <4>1
    <3>2. IsRun(Bytes(in_accepted, n), in_accepted) /\ Len(Bytes(in_accepted, n)) = n
      BY <2>0, <3>1, RunBytes
    <3>3. IsRun(in_tx', TxStart0) /\ Len(in_tx') = Len(in_tx) + n
      <4>1. IsRun(Bytes(in_accepted, n), TxStart0 + Len(in_tx)) BY <2>0, <3>2
      <4> DEFINE u == Bytes(in_accepted, n)
      <4> HIDE DEF u
      <4>2. IsRun(in_tx, TxStart0) /\ IsRun(u, TxStart0 + Len(in_tx)) /\ TxStart0 \in Nat
        BY <2>0, <4>1 DEF u
      <4>3. IsRun(in_tx \o u, TxStart0) /\ Len(in_tx \o u) = Len(in_tx) + Len(u)
        BY ONLY <4>2, RunConcat
      <4>4. in_tx' = in_tx \o u /\ Len(u) = n BY <2>2, <3>2 DEF u
      <4> QED BY <4>3, <4>4
    <3>4. in_accepted' \in Nat /\ in_accepted' - Len(in_tx') = in_accepted - Len(in_tx)
      BY <2>0, <2>2, <3>1, <3>3
    <3> QED BY <3>3, <3>4 DEF TxStart0
  <2> QED BY <1>4, <2>1, <2>2
<1>6. Pushed' = Pushed
  BY <1>1, <1>5 DEF Pushed
<1>7. InType' BY <1>0, <1>1, <1>5 DEF InType
<1>8. InStream' BY <1>0, <1>1, <1>2, <1>5, <1>6 DEF InStream
<1> QED BY <1>3, <1>7, <1>8 DEF InInv

LEMMA InStep == InInv /\ [UsbNext]_usbvars => InInv'
<1> SUFFICES ASSUME InInv, [UsbNext]_usbvars PROVE InInv' OBVIOUS
<1>1. CASE BulkInIrq BY <1>1, InTake
<1>2. CASE SendBulkIn BY <1>2, InCopy
<1>3. CASE SetPopFlag BY <1>3, InPush
<1>4. CASE InReadEpr \/ InRelease BY <1>4, InGo
<1>5. CASE InShift BY <1>5, InMove
<1>6. CASE OutDispatch BY <1>6, InAnswer
<1>7. CASE UNCHANGED usbvars BY <1>7, InSkip DEF usbvars
<1>8. CASE BulkOutIrq BY <1>8, InSkip DEF BulkOutIrq
<1>9. ASSUME NEW n \in UsbMessages, HostWrites(n) PROVE InInv' BY <1>9, InSkip DEF HostWrites
<1>10. CASE OutCheckWake \/ OutClearWake \/ ReadBulkOut \/ SetPushFlag \/ OutReadEpr \/ OutRelease
  BY <1>10, InSkip DEF OutCheckWake, OutClearWake, ReadBulkOut, SetPushFlag, OutReadEpr, OutRelease,
                      InPlaces
<1>11. CASE InCheckWake \/ InClearWake
  BY <1>11, InSkip DEF InCheckWake, InClearWake, InPlaces
<1> QED BY <1>1, <1>2, <1>3, <1>4, <1>5, <1>6, <1>7, <1>8, <1>9, <1>10, <1>11
        DEF UsbNext, usb_bulk_out_task, usb_bulk_in_task

LEMMA InStart == UsbInit => InInv
<1> SUFFICES ASSUME UsbInit PROVE InInv OBVIOUS
<1>1. /\ in_tx = <<>> /\ in_wire = <<>> /\ in_accepted = 0 /\ utask = "out" /\ ~in_valid /\ ~in_start
      /\ bulk_in_push_pos = 2 /\ bulk_in_pop_flag = "none" /\ in_dtog = 0 /\ in_sw = 0
  BY DEF UsbInit, BI_START
<1>2. InType BY <1>1 DEF InType, UsbInit
<1>3. InSync BY <1>1 DEF InSync, Pushing
<1>4. Pend = 0 BY <1>1 DEF Pend, Pushing, BI_START
<1>5. TxStart0 = 0 /\ Pushed = 0 /\ Len(in_wire) = 0
  <2>0. Len(<<>>) = 0 OBVIOUS
  <2>1. Len(in_tx) = 0 /\ Len(in_wire) = 0 BY <1>1, <2>0
  <2>2. in_accepted = 0 /\ utask = "out" BY <1>1
  <2>3. TxStart0 = 0 BY ONLY <2>1, <2>2 DEF TxStart0
  <2>4. Pushed = 0 BY ONLY <2>2, <2>3 DEF Pushed
  <2> QED BY <2>1, <2>3, <2>4
<1>6. IsRun(in_wire, 0) /\ IsRun(in_tx, 0) BY <1>1, EmptyRun
<1> QED BY <1>1, <1>2, <1>3, <1>4, <1>5, <1>6 DEF InInv, InStream

\* The host receives the bytes of the accepted responses in order and once, for
\* every size of packets, of transmit_buf and of responses, whenever the interrupt
\* comes between the accesses of usb_send_bulk_in().
THEOREM UsbInStreamSafe == UsbInit /\ [][UsbNext]_usbvars => []UsbInStream
<1>1. InInv => UsbInStream
  <2> SUFFICES ASSUME InInv PROVE UsbInStream OBVIOUS
  <2>1. in_wire = Bytes(0, Len(in_wire)) /\ Len(in_wire) \in Nat BY DEF InInv, InStream, IsRun
  <2> DEFINE n == Len(in_wire)
  <2> HIDE DEF n
  <2>2. n \in Nat /\ in_wire = Bytes(0, n) BY <2>1 DEF n
  <2>3. \A k \in 1 .. n : 0 + k = k BY <2>2
  <2> QED BY <2>2, <2>3 DEF UsbInStream, Bytes
<1> QED BY <1>1, InStart, InStep, PTL

-----------------------------------------------------------------------------
(* The USB console: the bulk out endpoint.                                 *)

\* The packets ps carry the bytes after byte i up to byte j, in order.
Chain(ps, i, j) ==
    \E f \in [0 .. Len(ps) -> Nat] :
        /\ f[0] = i /\ f[Len(ps)] = j
        /\ \A k \in 1 .. Len(ps) : IsRun(ps[k], f[k - 1]) /\ f[k] = f[k - 1] + Len(ps[k])

LEMMA EmptyChain == ASSUME NEW i \in Nat PROVE Chain(<<>>, i, i)
<1> DEFINE f == [k \in 0 .. 0 |-> i]
<1>1. Len(<<>>) = 0 OBVIOUS
<1>2. f \in [0 .. 0 -> Nat] /\ f[0] = i OBVIOUS
<1>3. \A k \in 1 .. 0 : FALSE OBVIOUS
<1> QED BY <1>1, <1>2, <1>3, Zenon DEF Chain

\* The first packet follows byte i, the others follow it.
LEMMA ChainTail ==
  ASSUME NEW S, NEW ps \in Seq(S), NEW i \in Nat, NEW j \in Nat, Chain(ps, i, j), ps # <<>>
  PROVE  IsRun(Head(ps), i) /\ Chain(Tail(ps), i + Len(Head(ps)), j)
<1> DEFINE n == Len(ps)
<1>1. n \in Nat \ {0} /\ Len(Tail(ps)) = n - 1 /\ Head(ps) = ps[1]
      /\ \A k \in 1 .. n - 1 : Tail(ps)[k] = ps[k + 1]
  OBVIOUS
<1>2. PICK f \in [0 .. n -> Nat] : /\ f[0] = i /\ f[n] = j
                                   /\ \A k \in 1 .. n : IsRun(ps[k], f[k - 1]) /\ f[k] = f[k - 1] + Len(ps[k])
  BY DEF Chain
<1> HIDE DEF n
<1> DEFINE g == [k \in 0 .. n - 1 |-> f[k + 1]]
<1>3. 1 \in 1 .. n /\ 1 - 1 = 0 BY <1>1
<1>4. IsRun(ps[1], i) /\ f[1] = i + Len(ps[1]) BY <1>2, <1>3
<1>5. g \in [0 .. n - 1 -> Nat] /\ g[0] = f[1] /\ g[n - 1] = f[n]
  <2>1. \A k \in 0 .. n - 1 : k + 1 \in 0 .. n BY <1>1
  <2>2. 0 \in 0 .. n - 1 /\ n - 1 \in 0 .. n - 1 /\ 0 + 1 = 1 /\ (n - 1) + 1 = n BY <1>1
  <2> QED BY <1>2, <2>1, <2>2
<1>6. ASSUME NEW k \in 1 .. n - 1
      PROVE  IsRun(Tail(ps)[k], g[k - 1]) /\ g[k] = g[k - 1] + Len(Tail(ps)[k])
  <2>1. /\ k + 1 \in 1 .. n /\ (k + 1) - 1 = k /\ k \in 0 .. n - 1 /\ k - 1 \in 0 .. n - 1
        /\ (k - 1) + 1 = k
    BY <1>1
  <2>2. g[k] = f[k + 1] /\ g[k - 1] = f[k] BY <2>1
  <2>3. IsRun(ps[k + 1], f[k]) /\ f[k + 1] = f[k] + Len(ps[k + 1]) BY <1>2, <2>1
  <2> QED BY <1>1, <2>2, <2>3
<1> HIDE DEF g
<1>7. Chain(Tail(ps), i + Len(ps[1]), j)
  BY <1>1, <1>2, <1>4, <1>5, <1>6 DEF Chain
<1> QED BY <1>1, <1>4, <1>7

LEMMA ChainConcat ==
  ASSUME NEW S, NEW ps \in Seq(S), NEW qs \in Seq(S),
         NEW i \in Nat, NEW j \in Nat, NEW k \in Nat, Chain(ps, i, j), Chain(qs, j, k)
  PROVE  Chain(ps \o qs, i, k)
<1> DEFINE n == Len(ps)
           m == Len(qs)
           r == ps \o qs
<1>1. n \in Nat /\ m \in Nat /\ Len(r) = n + m
      /\ \A l \in 1 .. n + m : r[l] = IF l <= n THEN ps[l] ELSE qs[l - n]
  BY ConcatElements
<1>2. PICK f \in [0 .. n -> Nat] : /\ f[0] = i /\ f[n] = j
                                   /\ \A l \in 1 .. n : IsRun(ps[l], f[l - 1]) /\ f[l] = f[l - 1] + Len(ps[l])
  BY DEF Chain
<1>3. PICK g \in [0 .. m -> Nat] : /\ g[0] = j /\ g[m] = k
                                   /\ \A l \in 1 .. m : IsRun(qs[l], g[l - 1]) /\ g[l] = g[l - 1] + Len(qs[l])
  BY DEF Chain
<1> HIDE DEF n, m, r
<1> DEFINE h == [l \in 0 .. n + m |-> IF l <= n THEN f[l] ELSE g[l - n]]
<1>4. /\ \A l \in 0 .. n : l \in 0 .. n + m /\ h[l] = f[l]
      /\ \A l \in 0 .. m : l + n \in 0 .. n + m /\ h[l + n] = g[l]
  <2>1. ASSUME NEW l \in 0 .. n PROVE l \in 0 .. n + m /\ h[l] = f[l]
    <3>1. l \in 0 .. n + m /\ l <= n BY <1>1
    <3> QED BY <3>1
  <2>2. ASSUME NEW l \in 0 .. m PROVE l + n \in 0 .. n + m /\ h[l + n] = g[l]
    <3>1. l + n \in 0 .. n + m /\ (l + n) - n = l /\ (l + n <= n <=> l = 0) BY <1>1
    <3>2. CASE l = 0
      <4>1. l + n = n BY <1>1, <3>2
      <4> QED BY <1>1, <1>2, <1>3, <3>1, <3>2, <4>1
    <3>3. CASE l # 0 BY <3>1, <3>3
    <3> QED BY <3>2, <3>3
  <2> QED BY <2>1, <2>2
<1>5. h \in [0 .. n + m -> Nat]
  <2>1. ASSUME NEW l \in 0 .. n + m PROVE (IF l <= n THEN f[l] ELSE g[l - n]) \in Nat
    <3>1. l <= n => l \in 0 .. n BY <1>1
    <3>2. ~(l <= n) => l - n \in 0 .. m BY <1>1
    <3> QED BY <1>2, <1>3, <3>1, <3>2
  <2> QED BY <2>1
<1> HIDE DEF h
<1>6. h[0] = i /\ h[n + m] = k
  <2>1. 0 \in 0 .. n /\ m \in 0 .. m /\ m + n = n + m BY <1>1
  <2> QED BY <1>2, <1>3, <1>4, <2>1
<1>7. ASSUME NEW l \in 1 .. n + m PROVE IsRun(r[l], h[l - 1]) /\ h[l] = h[l - 1] + Len(r[l])
  <2>1. CASE l <= n
    <3>1. l \in 1 .. n /\ l \in 0 .. n /\ l - 1 \in 0 .. n BY <1>1, <2>1
    <3> QED BY <1>1, <1>2, <1>4, <2>1, <3>1
  <2>2. CASE ~(l <= n)
    <3> DEFINE d == l - n
    <3>0. l \in Int /\ n \in Nat /\ m \in Nat /\ n < l /\ l <= n + m BY <1>1, <2>2
    <3>1. /\ d \in 1 .. m /\ d \in 0 .. m /\ d - 1 \in 0 .. m
          /\ l = d + n /\ l - 1 = (d - 1) + n
      BY ONLY <3>0
    <3>2. r[l] = qs[d] BY <1>1, <2>2
    <3> HIDE DEF d
    <3>3. h[l] = g[d] /\ h[l - 1] = g[d - 1] BY <1>4, <3>1
    <3> QED BY <1>3, <3>1, <3>2, <3>3
  <2> QED BY <2>1, <2>2
<1>8. Chain(r, i, k) BY <1>1, <1>5, <1>6, <1>7 DEF Chain
<1> QED BY <1>8 DEF r

\* A message in packets: the packets carry its bytes, none is longer than UsbEp.
LEMMA PacketsChain ==
  ASSUME NEW i \in Nat, NEW n \in Nat \ {0}
  PROVE  /\ InPackets(i, n) \in Seq(Seq(Nat)) /\ Chain(InPackets(i, n), i, i + n)
         /\ \A k \in 1 .. Len(InPackets(i, n)) : Len(InPackets(i, n)[k]) <= UsbEp
<1> DEFINE ep == UsbEp
           N == (n + ep - 1) \div ep
           ps == InPackets(i, n)
           size(p) == IF ep <= n - (p - 1) * ep THEN ep ELSE n - (p - 1) * ep
           f == [p \in 0 .. N |-> i + (IF p * ep <= n THEN p * ep ELSE n)]
<1>1. ep \in Nat \ {0} BY UsbAssumption
<1>2. n + ep - 1 \in Nat BY <1>1
<1> DEFINE x == n + ep - 1
<1>3. /\ N \in Nat \ {0} /\ n <= N * ep /\ (N - 1) * ep < n
  <2>1. x \in Nat /\ x = n + ep - 1 BY <1>2
  <2> HIDE DEF x, ep
  <2>2. (x \div ep) \in Nat /\ ep * (x \div ep) <= x /\ x < ep * (x \div ep) + ep BY <1>1, <2>1
  <2> DEFINE q == x \div ep
  <2>3. q \in Nat /\ ep * q <= x /\ x < ep * q + ep BY <2>2
  <2> HIDE DEF q
  <2>4. n <= ep * q /\ ep * q - ep < n BY <1>1, <2>1, <2>3
  <2>5. ep * q = q * ep /\ (q - 1) * ep = q * ep - ep BY <1>1, <2>3
  <2>6. q # 0 BY <1>1, <2>4
  <2>7. q \in Nat \ {0} /\ n <= q * ep /\ (q - 1) * ep < n BY <1>1, <2>3, <2>4, <2>5, <2>6
  <2>8. q = N BY DEF q, x
  <2> QED BY <2>7, <2>8
<1>4. ASSUME NEW p \in 1 .. N
      PROVE  /\ (p - 1) * ep \in Nat /\ (p - 1) * ep < n /\ p * ep = (p - 1) * ep + ep
             /\ size(p) \in Nat /\ size(p) <= ep
             /\ ps[p] = Bytes(i + (p - 1) * ep, size(p))
  <2>0. N \in Nat /\ p \in Nat \ {0} /\ p <= N BY <1>3
  <2>1. (N - 1) * ep < n BY <1>3
  <2> HIDE DEF N, ep, ps
  <2>2. (p - 1) * ep \in Nat /\ (p - 1) * ep <= (N - 1) * ep /\ (N - 1) * ep \in Nat
    <3>1. p - 1 <= N - 1 /\ p - 1 \in Nat /\ N - 1 \in Nat BY <2>0
    <3>2. \A a, b \in Nat : a <= b => a * ep \in Nat /\ b * ep \in Nat /\ a * ep <= b * ep BY <1>1
    <3> QED BY <3>1, <3>2
  <2>3. (p - 1) * ep \in Nat /\ (p - 1) * ep < n BY <2>1, <2>2
  <2>4. p * ep = (p - 1) * ep + ep BY <1>1, <2>0
  <2>5. size(p) \in Nat /\ size(p) <= ep BY <1>1, <2>3
  <2>6. Min({ep, n - (p - 1) * ep}) = size(p) BY <1>1, <2>3, MinPair
  <2>7. ps[p] = Bytes(i + (p - 1) * ep, Min({ep, n - (p - 1) * ep}))
    BY DEF ps, InPackets, N, ep
  <2> QED BY <2>3, <2>4, <2>5, <2>6, <2>7
<1>5. ps = [p \in 1 .. N |-> ps[p]] /\ DOMAIN ps = 1 .. N BY DEF InPackets
<1> HIDE DEF ps, N, ep, size
<1>6. ASSUME NEW p \in 1 .. N
      PROVE  /\ ps[p] \in Seq(Nat) /\ Len(ps[p]) = size(p) /\ IsRun(ps[p], i + (p - 1) * ep)
  <2>1. i + (p - 1) * ep \in Nat /\ size(p) \in Nat BY <1>4
  <2> DEFINE a == i + (p - 1) * ep
             z == size(p)
  <2>2. a \in Nat /\ z \in Nat /\ ps[p] = Bytes(a, z) BY <1>4, <2>1
  <2> HIDE DEF a, z
  <2>3. Bytes(a, z) \in Seq(Nat) /\ IsRun(Bytes(a, z), a) /\ Len(Bytes(a, z)) = z
    BY <2>2, RunBytes, BytesSeq
  <2> QED BY <2>2, <2>3 DEF a, z
<1>7. ps \in Seq(Seq(Nat)) /\ Len(ps) = N BY <1>3, <1>5, <1>6
<1>8. f \in [0 .. N -> Nat]
  <2>1. ASSUME NEW p \in 0 .. N PROVE i + (IF p * ep <= n THEN p * ep ELSE n) \in Nat
    <3>1. p \in Nat BY <1>3
    <3>2. p * ep \in Nat BY <1>1, <3>1
    <3> QED BY <3>2
  <2> QED BY <2>1
<1>9. f[0] = i /\ f[N] = i + n
  <2>1. 0 \in 0 .. N /\ N \in 0 .. N BY <1>3
  <2>2. 0 * ep = 0 /\ 0 <= n BY <1>1
  <2>3. f[0] = i BY <2>1, <2>2
  <2>4. N * ep \in Nat /\ n <= N * ep BY <1>1, <1>3
  <2>5. (IF N * ep <= n THEN N * ep ELSE n) = n BY <2>4
  <2> QED BY <2>1, <2>3, <2>5
<1>10. ASSUME NEW p \in 1 .. N PROVE IsRun(ps[p], f[p - 1]) /\ f[p] = f[p - 1] + Len(ps[p])
  <2>1. p \in 0 .. N /\ p - 1 \in 0 .. N BY <1>3
  <2>2. f[p - 1] = i + (p - 1) * ep BY <1>4, <2>1
  <2>3. f[p] = i + (IF p * ep <= n THEN p * ep ELSE n) BY <2>1
  <2> DEFINE a == (p - 1) * ep
  <2>4. a \in Nat /\ a < n /\ p * ep = a + ep BY <1>4
  <2>5. size(p) = IF ep <= n - a THEN ep ELSE n - a BY DEF size
  <2> HIDE DEF a
  <2>6. i + (IF p * ep <= n THEN p * ep ELSE n) = (i + a) + size(p) BY <1>1, <2>4, <2>5
  <2> QED BY <1>6, <2>2, <2>3, <2>6 DEF a
<1> HIDE DEF f
<1>11. Chain(ps, i, i + n) BY <1>7, <1>8, <1>9, <1>10 DEF Chain
<1>12. \A k \in 1 .. Len(ps) : Len(ps[k]) <= ep BY <1>4, <1>6, <1>7
<1> QED BY <1>7, <1>11, <1>12 DEF ps, ep

OutType == /\ out_dtog \in 0 .. 1 /\ out_sw \in 0 .. 1 /\ bulk_out_pop_count \in 0 .. 1
           /\ out_buf = [b \in 0 .. 1 |-> out_buf[b]] /\ out_taken \in Nat
           /\ packets \in Seq(Seq(Nat)) /\ ends \in Seq(Nat) /\ dispatched \in 0 .. Len(ends)

\* The controller waits for software.
Blocked == out_dtog = out_sw

\* Packets received and not yet read.
Unread == IF utask = "out_flag" \/ bulk_out_push_flag THEN IF Blocked THEN 1 ELSE 0
          ELSE IF Blocked THEN 2 ELSE 1

OutPlaces == {"out_flag", "out_epr", "out_release"}

\* The two packet buffers and the flag agree on whose turn it is.
OutSync ==
    /\ Unread = 1 <=> out_dtog # bulk_out_pop_count
    /\ bulk_out_push_flag /\ Blocked => utask = "out_epr" \/ (utask = "out_release" /\ was_blocking)
    /\ utask = "out_flag" => ~bulk_out_push_flag
    /\ utask = "out_release" /\ was_blocking => Blocked

First == out_buf[bulk_out_pop_count]
Second == out_buf[1 - bulk_out_pop_count]
RxEnd == out_taken + Len(out_rx)

\* receive_buf, the packets received and those to come are one stream.
OutStream ==
    /\ IsRun(out_rx, out_taken)
    /\ Unread = 0 => Chain(packets, RxEnd, LastEnd)
    /\ Unread = 1 => IsRun(First, RxEnd) /\ Chain(packets, RxEnd + Len(First), LastEnd)
    /\ Unread = 2 => /\ IsRun(First, RxEnd) /\ IsRun(Second, RxEnd + Len(First))
                     /\ Chain(packets, RxEnd + Len(First) + Len(Second), LastEnd)

\* What was taken from receive_buf ends where the last message dispatched ends.
Messages ==
    /\ \A k \in 2 .. Len(ends) : ends[k - 1] <= ends[k]
    /\ out_taken = IF dispatched = 0 THEN 0 ELSE ends[dispatched]

OutInv == OutType /\ OutSync /\ OutStream /\ Messages

LEMMA OutFacts ==
  ASSUME OutInv
  PROVE  /\ Unread \in 0 .. 2 /\ LastEnd \in Nat /\ RxEnd \in Nat /\ Len(out_rx) \in Nat
         /\ out_dtog \in {0, 1} /\ out_sw \in {0, 1} /\ bulk_out_pop_count \in {0, 1}
         /\ Unread >= 1 => Len(First) \in Nat
         /\ Unread = 2 => Len(Second) \in Nat
<1>1. Unread \in {0, 1, 2} BY DEF Unread
<1>2. Len(out_rx) \in Nat /\ RxEnd \in Nat BY DEF OutInv, OutType, OutStream, IsRun, RxEnd
<1>3. LastEnd \in Nat
  <2>1. ends \in Seq(Nat) BY DEF OutInv, OutType
  <2> QED BY <2>1 DEF LastEnd
<1>4. (Unread >= 1 => Len(First) \in Nat) /\ (Unread = 2 => Len(Second) \in Nat)
  BY <1>1 DEF OutInv, OutStream, IsRun
<1>5. out_dtog \in {0, 1} /\ out_sw \in {0, 1} /\ bulk_out_pop_count \in {0, 1}
  BY DEF OutInv, OutType
<1> QED BY <1>1, <1>2, <1>3, <1>4, <1>5

\* Steps elsewhere.
LEMMA OutSkip ==
  ASSUME OutInv, UNCHANGED <<usbhost, out>>,
         \/ UNCHANGED <<utask, was_blocking>>
         \/ utask \notin OutPlaces /\ utask' \notin OutPlaces
  PROVE  OutInv'
<1>1. UNCHANGED <<packets, ends, out_buf, out_dtog, out_sw, bulk_out_push_flag, bulk_out_pop_count,
                  out_rx, out_taken, dispatched>>
  BY DEF usbhost, out
<1>2. /\ Blocked' = Blocked /\ First' = First /\ Second' = Second /\ RxEnd' = RxEnd /\ LastEnd' = LastEnd
  BY <1>1 DEF Blocked, First, Second, RxEnd, LastEnd
<1>3. Unread' = Unread BY <1>1, <1>2 DEF Unread, OutPlaces
<1>4. OutType' BY <1>1 DEF OutInv, OutType
<1>5. OutSync' BY <1>1, <1>2, <1>3 DEF OutInv, OutSync, OutPlaces
<1>6. OutStream' BY <1>1, <1>2, <1>3 DEF OutInv, OutStream
<1>7. Messages' BY <1>1 DEF OutInv, Messages
<1> QED BY <1>4, <1>5, <1>6, <1>7 DEF OutInv

\* A packet arrives in the free buffer.
LEMMA OutArrive ==
  ASSUME OutInv, BulkOutIrq
  PROVE  OutInv'
<1>0. OutType /\ OutSync /\ OutStream /\ Messages BY DEF OutInv
<1>1. /\ packets # <<>> /\ ~Blocked /\ packets' = Tail(packets) /\ out_dtog' = 1 - out_dtog
      /\ out_buf' = [out_buf EXCEPT ![out_dtog] = Head(packets)]
      /\ out_sw' = (IF bulk_out_push_flag THEN 1 - out_sw ELSE out_sw) /\ ~bulk_out_push_flag'
      /\ UNCHANGED <<ends, bulk_out_pop_count, out_rx, out_taken, dispatched, utask, was_blocking>>
  BY DEF BulkOutIrq, Blocked
<1>2. /\ Unread \in 0 .. 2 /\ LastEnd \in Nat /\ RxEnd \in Nat
      /\ out_dtog \in {0, 1} /\ out_sw \in {0, 1} /\ bulk_out_pop_count \in {0, 1}
      /\ (Unread >= 1 => Len(First) \in Nat)
  BY OutFacts
<1>3. Unread \in {0, 1} /\ Unread' = Unread + 1
  BY <1>0, <1>1, <1>2 DEF Unread, Blocked, OutSync
<1>4. LastEnd' = LastEnd /\ RxEnd' = RxEnd BY <1>1 DEF LastEnd, RxEnd
<1>5. OutSync'
  BY <1>0, <1>1, <1>2, <1>3 DEF OutSync, Unread, Blocked
<1>6. OutType'
  <2>1. packets' \in Seq(Seq(Nat)) BY <1>0, <1>1 DEF OutType
  <2>2. out_dtog' \in 0 .. 1 /\ out_sw' \in 0 .. 1 BY <1>1, <1>2
  <2>3. out_buf' = [b \in 0 .. 1 |-> out_buf'[b]] BY <1>0, <1>1 DEF OutType
  <2> QED BY <1>0, <1>1, <2>1, <2>2, <2>3 DEF OutType
<1>7. Messages' BY <1>0, <1>1 DEF Messages
<1>8. out_dtog \in 0 .. 1 /\ bulk_out_pop_count \in 0 .. 1 /\ 1 - bulk_out_pop_count \in 0 .. 1 BY <1>2
<1>9. packets \in Seq(Seq(Nat)) BY <1>0 DEF OutType
<1>10. /\ out_buf'[out_dtog] = Head(packets)
       /\ \A b \in 0 .. 1 : b # out_dtog => out_buf'[b] = out_buf[b]
  BY <1>0, <1>1, <1>8 DEF OutType
<1>11. CASE Unread = 0
  <2>1. out_dtog = bulk_out_pop_count BY <1>0, <1>11 DEF OutSync
  <2>2. First' = Head(packets) BY <1>1, <1>10, <2>1 DEF First
  <2>3. Chain(packets, RxEnd, LastEnd) BY <1>0, <1>11 DEF OutStream
  <2>4. IsRun(Head(packets), RxEnd) /\ Chain(Tail(packets), RxEnd + Len(Head(packets)), LastEnd)
    BY <1>1, <1>2, <1>9, <2>3, ChainTail
  <2>5. OutStream' BY <1>0, <1>1, <1>3, <1>4, <1>11, <2>2, <2>4 DEF OutStream
  <2> QED BY <1>5, <1>6, <1>7, <2>5 DEF OutInv
<1>12. CASE Unread = 1
  <2>1. out_dtog # bulk_out_pop_count /\ out_dtog = 1 - bulk_out_pop_count
    BY <1>0, <1>2, <1>12 DEF OutSync
  <2>2. Second' = Head(packets) /\ First' = First BY <1>1, <1>8, <1>10, <2>1 DEF First, Second
  <2>3. IsRun(First, RxEnd) /\ Chain(packets, RxEnd + Len(First), LastEnd) BY <1>0, <1>12 DEF OutStream
  <2> DEFINE j == RxEnd + Len(First)
  <2>4. j \in Nat /\ Chain(packets, j, LastEnd) BY <1>2, <1>12, <2>3
  <2> HIDE DEF j
  <2>5. IsRun(Head(packets), j) /\ Chain(Tail(packets), j + Len(Head(packets)), LastEnd)
    BY <1>1, <1>2, <1>9, <2>4, ChainTail
  <2>6. Unread' = 2 BY <1>3, <1>12
  <2>7. IsRun(out_rx', out_taken') BY <1>0, <1>1 DEF OutStream
  <2>8. /\ IsRun(First', RxEnd') /\ IsRun(Second', RxEnd' + Len(First'))
        /\ Chain(packets', RxEnd' + Len(First') + Len(Second'), LastEnd')
    BY <1>1, <1>4, <2>2, <2>3, <2>5 DEF j
  <2>9. OutStream' BY <2>6, <2>7, <2>8 DEF OutStream
  <2> QED BY <1>5, <1>6, <1>7, <2>9 DEF OutInv
<1> QED BY <1>3, <1>11, <1>12

\* The task appends the older packet to receive_buf.
LEMMA OutCopy ==
  ASSUME OutInv, ReadBulkOut
  PROVE  OutInv'
<1>0. OutType /\ OutSync /\ OutStream /\ Messages BY DEF OutInv
<1>1. /\ utask = "out_read"
      /\ UNCHANGED <<packets, ends, out_buf, out_dtog, out_sw, bulk_out_push_flag, out_taken,
                     dispatched, was_blocking>>
  BY DEF ReadBulkOut, OutFrame, usbhost
<1>2. /\ Unread \in 0 .. 2 /\ LastEnd \in Nat /\ RxEnd \in Nat /\ Len(out_rx) \in Nat
      /\ out_dtog \in {0, 1} /\ bulk_out_pop_count \in {0, 1}
      /\ (Unread >= 1 => Len(First) \in Nat) /\ (Unread = 2 => Len(Second) \in Nat)
  BY OutFacts
<1>3. CASE HasSpace /\ ~bulk_out_push_flag
  <2>1. utask' = "out_flag" /\ bulk_out_pop_count % 2 = bulk_out_pop_count
        /\ bulk_out_pop_count' = 1 - bulk_out_pop_count /\ out_rx' = out_rx \o First
    <3>1. /\ utask' = "out_flag" /\ out_rx' = out_rx \o out_buf[bulk_out_pop_count % 2]
          /\ bulk_out_pop_count' = (bulk_out_pop_count + 1) % 2
      BY <1>3 DEF ReadBulkOut
    <3>2. 0 % 2 = 0 /\ 1 % 2 = 1 /\ (0 + 1) % 2 = 1 /\ (1 + 1) % 2 = 0 OBVIOUS
    <3>3. bulk_out_pop_count % 2 = bulk_out_pop_count
          /\ (bulk_out_pop_count + 1) % 2 = 1 - bulk_out_pop_count
      BY <1>2, <3>2
    <3> QED BY <3>1, <3>3 DEF First
  <2>2. Unread \in {1, 2} /\ Unread' = Unread - 1 /\ Blocked' = Blocked
    BY <1>1, <1>3, <2>1 DEF Unread, Blocked
  <2>3. First' = Second /\ LastEnd' = LastEnd BY <1>1, <2>1 DEF First, Second, LastEnd
  <2>4. OutSync'
    BY <1>0, <1>1, <1>2, <1>3, <2>1, <2>2 DEF OutSync
  <2>5. OutType' BY <1>0, <1>1, <1>2, <2>1 DEF OutType
  <2>6. Messages' BY <1>0, <1>1 DEF Messages
  <2>7. IsRun(out_rx', out_taken) /\ Len(out_rx') = Len(out_rx) + Len(First)
    <3>1. IsRun(First, out_taken + Len(out_rx)) /\ IsRun(out_rx, out_taken) /\ out_taken \in Nat
      BY <1>0, <2>2 DEF OutStream, OutType, RxEnd
    <3> QED BY <2>1, <3>1, RunConcat
  <2>8. RxEnd' = RxEnd + Len(First)
    <3>1. out_taken \in Nat /\ Len(First) \in Nat BY <1>0, <1>2, <2>2 DEF OutType
    <3> QED BY <1>1, <1>2, <2>7, <3>1 DEF RxEnd
  <2>9. OutStream'
    BY <1>0, <1>1, <2>2, <2>3, <2>7, <2>8 DEF OutStream
  <2> QED BY <2>4, <2>5, <2>6, <2>9 DEF OutInv
<1>4. CASE ~(HasSpace /\ ~bulk_out_push_flag)
  <2>1. utask' = "out_dispatch" /\ UNCHANGED <<out_rx, bulk_out_pop_count>> BY <1>4 DEF ReadBulkOut
  <2>2. UNCHANGED <<usbhost, out>> BY <1>1, <2>1 DEF usbhost, out
  <2> QED BY <1>1, <2>1, <2>2, OutSkip DEF OutPlaces
<1> QED BY <1>3, <1>4

\* The buffer is handed back: the flag, the register, and the controller let go on.
LEMMA OutGo ==
  ASSUME OutInv, SetPushFlag \/ OutReadEpr \/ OutRelease
  PROVE  OutInv'
<1>0. OutType /\ OutSync /\ OutStream /\ Messages BY DEF OutInv
<1>1. UNCHANGED <<packets, ends, out_buf, out_dtog, bulk_out_pop_count, out_rx, out_taken, dispatched>>
  BY DEF SetPushFlag, OutReadEpr, OutRelease, OutFrame, usbhost, out
<1>2. First' = First /\ Second' = Second /\ RxEnd' = RxEnd /\ LastEnd' = LastEnd
  BY <1>1 DEF First, Second, RxEnd, LastEnd
<1>3. SUFFICES out_sw' \in 0 .. 1 /\ OutSync' /\ Unread' = Unread
  <2>1. OutStream' BY <1>0, <1>1, <1>2, <1>3 DEF OutStream
  <2>2. OutType' BY <1>0, <1>1, <1>3 DEF OutType
  <2>3. Messages' BY <1>0, <1>1 DEF Messages
  <2> QED BY <1>3, <2>1, <2>2, <2>3 DEF OutInv
<1>4. out_dtog \in {0, 1} /\ out_sw \in {0, 1} BY OutFacts
<1>5. CASE SetPushFlag
  <2>1. /\ utask = "out_flag" /\ utask' = "out_epr" /\ bulk_out_push_flag'
        /\ UNCHANGED <<out_sw, was_blocking>>
    BY <1>5 DEF SetPushFlag
  <2>2. Unread' = Unread BY <1>1, <2>1 DEF Unread, Blocked
  <2>3. OutSync' BY <1>0, <1>1, <2>1, <2>2 DEF OutSync
  <2> QED BY <1>4, <2>1, <2>2, <2>3
<1>6. CASE OutReadEpr
  <2>1. /\ utask = "out_epr" /\ utask' = "out_release" /\ was_blocking' = Blocked
        /\ UNCHANGED <<out_sw, bulk_out_push_flag>>
    BY <1>6 DEF OutReadEpr, out, Blocked
  <2>2. Unread' = Unread /\ Blocked' = Blocked BY <1>1, <2>1 DEF Unread, Blocked
  <2>3. was_blocking' <=> Blocked BY <2>1, Zenon
  <2>4. OutSync' BY <1>0, <1>1, <2>1, <2>2, <2>3 DEF OutSync, Blocked
  <2> QED BY <1>4, <2>1, <2>2, <2>4
<1>7. CASE OutRelease
  <2>1. utask = "out_release" /\ utask' = "out_dispatch" /\ was_blocking' = was_blocking
    BY <1>7 DEF OutRelease
  <2>2. CASE must_release
    <3>1. ~bulk_out_push_flag' /\ out_sw' = 1 - out_sw /\ was_blocking /\ bulk_out_push_flag
      BY <1>7, <2>2 DEF OutRelease, must_release
    <3>2. Blocked BY <1>0, <2>1, <3>1 DEF OutSync
    <3>3. Unread = 1 /\ Unread' = 1 BY <1>1, <1>4, <2>1, <3>1, <3>2 DEF Unread, Blocked
    <3>4. OutSync' BY <1>0, <1>1, <2>1, <3>1, <3>3 DEF OutSync
    <3> QED BY <1>4, <3>1, <3>3, <3>4
  <2>3. CASE ~must_release
    <3>1. UNCHANGED <<bulk_out_push_flag, out_sw>> BY <1>7, <2>3 DEF OutRelease
    <3>2. ~(was_blocking /\ bulk_out_push_flag) BY <2>3 DEF must_release
    <3>3. Unread' = Unread /\ Blocked' = Blocked BY <1>1, <2>1, <3>1 DEF Unread, Blocked
    <3>4. OutSync' BY <1>0, <1>1, <2>1, <3>1, <3>2, <3>3 DEF OutSync
    <3> QED BY <1>4, <3>1, <3>3, <3>4
  <2> QED BY <2>2, <2>3
<1> QED BY <1>5, <1>6, <1>7

\* The bytes of the next message are the first ones of receive_buf.
LEMMA OutWhole ==
  ASSUME OutInv, dispatched < Len(ends), out_taken + Len(out_rx) >= ends[dispatched + 1]
  PROVE  /\ ends[dispatched + 1] \in Nat /\ ends[dispatched + 1] - out_taken \in 0 .. Len(out_rx)
         /\ out_taken + (ends[dispatched + 1] - out_taken) = ends[dispatched + 1]
<1>0. OutType /\ OutStream /\ Messages BY DEF OutInv
<1>1. /\ dispatched \in Nat /\ Len(ends) \in Nat /\ ends \in Seq(Nat)
      /\ out_taken \in Nat /\ Len(out_rx) \in Nat
  BY <1>0 DEF OutType, OutStream, IsRun
<1>2. ends[dispatched + 1] \in Nat BY <1>1
<1>3. out_taken <= ends[dispatched + 1]
  <2>1. CASE dispatched = 0 BY <1>0, <1>2, <2>1 DEF Messages
  <2>2. CASE dispatched # 0
    <3>1. dispatched + 1 \in 2 .. Len(ends) /\ (dispatched + 1) - 1 = dispatched BY <1>1, <2>2
    <3>2. ends[dispatched] <= ends[dispatched + 1] BY <1>0, <3>1 DEF Messages
    <3>3. out_taken = ends[dispatched] BY <1>0, <2>2 DEF Messages
    <3> QED BY <3>2, <3>3
  <2> QED BY <2>1, <2>2
<1> QED BY <1>1, <1>2, <1>3

\* A whole message leaves receive_buf.
LEMMA OutAnswer ==
  ASSUME OutInv, OutDispatch
  PROVE  OutInv'
<1>0. OutType /\ OutSync /\ OutStream /\ Messages BY DEF OutInv
<1>1. /\ utask = "out_dispatch" /\ utask' = "in"
      /\ UNCHANGED <<packets, ends, out_buf, out_dtog, out_sw, bulk_out_push_flag, bulk_out_pop_count,
                     was_blocking>>
  BY DEF OutDispatch, OutFrame, usbhost
<1> DEFINE whole == dispatched < Len(ends) /\ out_taken + Len(out_rx) >= ends[dispatched + 1]
           n == ends[dispatched + 1] - out_taken
<1>2. CASE whole
  <2>1. /\ out_rx' = SubSeq(out_rx, n + 1, Len(out_rx)) /\ out_taken' = out_taken + n
        /\ dispatched' = dispatched + 1
    BY <1>2 DEF OutDispatch
  <2>2. /\ dispatched \in Nat /\ Len(ends) \in Nat /\ dispatched < Len(ends) /\ ends \in Seq(Nat)
        /\ out_taken \in Nat /\ Len(out_rx) \in Nat /\ IsRun(out_rx, out_taken)
    BY <1>0, <1>2 DEF OutType, OutStream, IsRun
  <2>3. ends[dispatched + 1] \in Nat /\ n \in 0 .. Len(out_rx) /\ out_taken + n = ends[dispatched + 1]
    BY <1>2, OutWhole
  <2> HIDE DEF n
  <2>4. IsRun(out_rx', out_taken') /\ Len(out_rx') = Len(out_rx) - n
    BY <2>1, <2>2, <2>3, RunHalves
  <2>5. RxEnd' = RxEnd
    <3>1. (out_taken + n) + (Len(out_rx) - n) = out_taken + Len(out_rx) BY <2>2, <2>3
    <3> QED BY <2>1, <2>4, <3>1 DEF RxEnd
  <2>6. First' = First /\ Second' = Second /\ LastEnd' = LastEnd /\ Unread' = Unread /\ Blocked' = Blocked
    BY <1>1 DEF First, Second, LastEnd, Unread, Blocked
  <2>7. OutStream' BY <1>0, <1>1, <2>4, <2>5, <2>6 DEF OutStream
  <2>8. OutSync' BY <1>0, <1>1, <2>6 DEF OutSync
  <2>9. OutType'
    <3>1. dispatched' \in 0 .. Len(ends) BY <2>1, <2>2
    <3>2. out_taken' \in Nat BY <2>1, <2>3
    <3> QED BY <1>0, <1>1, <3>1, <3>2 DEF OutType
  <2>10. Messages'
    <3>1. dispatched' # 0 /\ out_taken' = ends[dispatched'] BY <2>1, <2>2, <2>3
    <3> QED BY <1>0, <1>1, <3>1 DEF Messages
  <2> QED BY <2>7, <2>8, <2>9, <2>10 DEF OutInv
<1>3. CASE ~whole
  <2>1. UNCHANGED <<out_rx, out_taken, dispatched>> BY <1>3 DEF OutDispatch
  <2>2. UNCHANGED <<usbhost, out>> BY <1>1, <2>1 DEF usbhost, out
  <2> QED BY <1>1, <2>2, OutSkip DEF OutPlaces
<1> QED BY <1>2, <1>3

\* The packets of a message follow those of the messages before it.
LEMMA OutWrite ==
  ASSUME OutInv, NEW n \in UsbMessages, HostWrites(n)
  PROVE  OutInv'
<1> DEFINE old == IF ends = <<>> THEN <<1>> ELSE ends
           i == IF ends = <<>> THEN 1 ELSE LastEnd
           first == IF ends = <<>> THEN InPackets(0, 1) ELSE <<>>
<1>0. OutType /\ OutSync /\ OutStream /\ Messages BY DEF OutInv
<1>1. /\ packets' = packets \o first \o InPackets(i, n) /\ ends' = old \o <<i + n>>
      /\ UNCHANGED <<out_buf, out_dtog, out_sw, bulk_out_push_flag, bulk_out_pop_count,
                     out_rx, out_taken, dispatched, utask, was_blocking>>
  BY DEF HostWrites, out
<1>2. n \in Nat \ {0}
  <2>1. n \in 1 .. UsbRxSize BY UsbAssumption
  <2> QED BY <2>1
<1>3. LastEnd \in Nat /\ RxEnd \in Nat /\ Unread \in 0 .. 2
      /\ (Unread >= 1 => Len(First) \in Nat) /\ (Unread = 2 => Len(Second) \in Nat)
  BY OutFacts
<1>4. i \in Nat /\ i + n \in Nat BY <1>2, <1>3
<1>5. packets \in Seq(Seq(Nat)) /\ ends \in Seq(Nat) /\ dispatched \in 0 .. Len(ends)
  BY <1>0 DEF OutType
<1>6. first \in Seq(Seq(Nat)) /\ InPackets(i, n) \in Seq(Seq(Nat)) /\ Chain(InPackets(i, n), i, i + n)
  <2>1. InPackets(0, 1) \in Seq(Seq(Nat)) BY PacketsChain
  <2>2. first \in Seq(Seq(Nat)) BY <2>1
  <2> HIDE DEF i, first
  <2> QED BY <1>2, <1>4, <2>2, PacketsChain
<1>7. Chain(first, LastEnd, i)
  <2>1. CASE ends = <<>>
    <3>1. LastEnd = 0 /\ i = 1 /\ 0 + 1 = 1 BY <2>1 DEF LastEnd
    <3>2. Chain(InPackets(0, 1), 0, 0 + 1) BY PacketsChain
    <3> QED BY <2>1, <3>1, <3>2
  <2>2. CASE ends # <<>> BY <1>3, <2>2, EmptyChain
  <2> QED BY <2>1, <2>2
<1>8. /\ old \in Seq(Nat) /\ Len(old) \in Nat \ {0} /\ old[Len(old)] = i
      /\ \A k \in 2 .. Len(old) : old[k - 1] <= old[k]
      /\ Len(ends) <= Len(old) /\ \A k \in 1 .. Len(ends) : old[k] = ends[k]
  <2>1. CASE ends = <<>>
    <3>1. <<1>> \in Seq(Nat) /\ Len(<<1>>) = 1 /\ <<1>>[1] = 1 /\ Len(<<>>) = 0 OBVIOUS
    <3>2. old = <<1>> /\ i = 1 BY <2>1
    <3>3. Len(ends) = 0 BY <2>1, <3>1
    <3> HIDE DEF old, i
    <3>4. Len(old) = 1 /\ old[1] = 1 /\ old \in Seq(Nat) BY <3>1, <3>2
    <3> QED BY <3>2, <3>3, <3>4
  <2>2. CASE ends # <<>>
    <3>1. old = ends /\ i = ends[Len(ends)] BY <2>2 DEF LastEnd
    <3>2. Len(ends) \in Nat \ {0} BY <1>5, <2>2
    <3> HIDE DEF old, i
    <3> QED BY <1>0, <1>5, <3>1, <3>2 DEF Messages
  <2> QED BY <2>1, <2>2
<1> HIDE DEF old, i
<1>9. /\ ends' \in Seq(Nat) /\ Len(ends') = Len(old) + 1 /\ ends'[Len(ends')] = i + n
      /\ \A k \in 1 .. Len(old) : ends'[k] = old[k]
  BY <1>1, <1>4, <1>8
<1>10. LastEnd' = i + n
  <2>1. ends' # <<>> BY <1>8, <1>9
  <2> QED BY <1>9, <2>1 DEF LastEnd
<1>11. Messages'
  <2>1. ASSUME NEW k \in 2 .. Len(ends') PROVE ends'[k - 1] <= ends'[k]
    <3>1. CASE k \in 2 .. Len(old)
      <4>1. k - 1 \in 1 .. Len(old) /\ k \in 1 .. Len(old) BY <1>8, <3>1
      <4> QED BY <1>8, <1>9, <3>1, <4>1
    <3>2. CASE k \notin 2 .. Len(old)
      <4>1. k = Len(old) + 1 /\ k - 1 = Len(old) /\ Len(old) \in 1 .. Len(old) BY <1>8, <1>9, <3>2
      <4>2. ends'[k - 1] = i /\ ends'[k] = i + n BY <1>8, <1>9, <4>1
      <4> QED BY <1>2, <1>4, <4>2
    <3> QED BY <3>1, <3>2
  <2>2. dispatched # 0 => ends'[dispatched] = ends[dispatched]
    <3>1. dispatched # 0 => dispatched \in 1 .. Len(ends) /\ dispatched \in 1 .. Len(old)
      BY <1>5, <1>8
    <3> QED BY <1>8, <1>9, <3>1
  <2>3. out_taken' = IF dispatched' = 0 THEN 0 ELSE ends'[dispatched']
    BY <1>0, <1>1, <2>2 DEF Messages
  <2> QED BY <2>1, <2>3 DEF Messages
<1> HIDE DEF first
<1>12. /\ packets' \in Seq(Seq(Nat))
       /\ \A j \in Nat : Chain(packets, j, LastEnd) => Chain(packets', j, LastEnd')
  <2>1. packets \o first \in Seq(Seq(Nat)) BY <1>5, <1>6
  <2>2. packets' = (packets \o first) \o InPackets(i, n) BY <1>1
  <2>3. packets' \in Seq(Seq(Nat)) BY <1>6, <2>1, <2>2
  <2>4. ASSUME NEW j \in Nat, Chain(packets, j, LastEnd) PROVE Chain(packets', j, LastEnd')
    <3>1. Chain(packets \o first, j, i) BY <1>3, <1>4, <1>5, <1>6, <1>7, <2>4, ChainConcat
    <3>2. Chain((packets \o first) \o InPackets(i, n), j, i + n)
      BY <1>4, <1>6, <2>1, <3>1, ChainConcat
    <3> QED BY <1>10, <2>2, <3>2
  <2> QED BY <2>3, <2>4
<1>13. OutType'
  <2>1. dispatched' \in 0 .. Len(ends') BY <1>1, <1>5, <1>8, <1>9
  <2> QED BY <1>0, <1>1, <1>9, <1>12, <2>1 DEF OutType
<1>14. First' = First /\ Second' = Second /\ RxEnd' = RxEnd /\ Unread' = Unread /\ Blocked' = Blocked
  BY <1>1 DEF First, Second, RxEnd, Unread, Blocked
<1>15. OutSync' BY <1>0, <1>1, <1>14 DEF OutSync
<1>16. OutStream'
  <2>1. IsRun(out_rx', out_taken') BY <1>0, <1>1 DEF OutStream
  <2>2. (Unread = 0 => Chain(packets, RxEnd, LastEnd))'
    BY <1>0, <1>3, <1>12, <1>14 DEF OutStream
  <2>3. (Unread = 1 => IsRun(First, RxEnd) /\ Chain(packets, RxEnd + Len(First), LastEnd))'
    <3>1. Unread = 1 => RxEnd + Len(First) \in Nat BY <1>3
    <3> QED BY <1>0, <1>12, <1>14, <3>1 DEF OutStream
  <2>4. (Unread = 2 => /\ IsRun(First, RxEnd) /\ IsRun(Second, RxEnd + Len(First))
                       /\ Chain(packets, RxEnd + Len(First) + Len(Second), LastEnd))'
    <3>1. Unread = 2 => RxEnd + Len(First) + Len(Second) \in Nat BY <1>3
    <3> QED BY <1>0, <1>12, <1>14, <3>1 DEF OutStream
  <2> QED BY <2>1, <2>2, <2>3, <2>4 DEF OutStream
<1> QED BY <1>11, <1>13, <1>15, <1>16 DEF OutInv

LEMMA OutStep == OutInv /\ [UsbNext]_usbvars => OutInv'
<1> SUFFICES ASSUME OutInv, [UsbNext]_usbvars PROVE OutInv' OBVIOUS
<1>1. CASE BulkOutIrq BY <1>1, OutArrive
<1>2. CASE ReadBulkOut BY <1>2, OutCopy
<1>3. CASE SetPushFlag \/ OutReadEpr \/ OutRelease BY <1>3, OutGo
<1>4. CASE OutDispatch BY <1>4, OutAnswer
<1>5. ASSUME NEW n \in UsbMessages, HostWrites(n) PROVE OutInv' BY <1>5, OutWrite
<1>6. CASE UNCHANGED usbvars BY <1>6, OutSkip DEF usbvars
<1>7. CASE BulkInIrq BY <1>7, OutSkip DEF BulkInIrq
<1>8. CASE OutCheckWake \/ OutClearWake
  BY <1>8, OutSkip DEF OutCheckWake, OutClearWake, OutPlaces
<1>9. CASE usb_bulk_in_task
  BY <1>9, OutSkip DEF usb_bulk_in_task, InCheckWake, InClearWake, SendBulkIn, SetPopFlag, InReadEpr,
                      InRelease, InShift, InFrame, OutPlaces
<1> QED BY <1>1, <1>2, <1>3, <1>4, <1>5, <1>6, <1>7, <1>8, <1>9 DEF UsbNext, usb_bulk_out_task

LEMMA OutStart == UsbInit => OutInv
<1> SUFFICES ASSUME UsbInit PROVE OutInv OBVIOUS
<1>1. /\ packets = <<>> /\ ends = <<>> /\ out_rx = <<>> /\ out_taken = 0 /\ dispatched = 0
      /\ out_dtog = 0 /\ out_sw = 1 /\ bulk_out_push_flag /\ bulk_out_pop_count = 0 /\ utask = "out"
      /\ out_buf = [b \in 0 .. 1 |-> out_buf[b]]
  BY DEF UsbInit
<1>2. Len(<<>>) = 0 /\ <<>> \in Seq(Seq(Nat)) /\ <<>> \in Seq(Nat) OBVIOUS
<1>3. Len(out_rx) = 0 /\ Len(ends) = 0 BY <1>1, <1>2
<1>4. OutType BY <1>1, <1>2, <1>3 DEF OutType
<1>5. Unread = 0 /\ ~Blocked BY <1>1 DEF Unread, Blocked
<1>6. OutSync BY <1>1, <1>5 DEF OutSync
<1>7. LastEnd = 0 BY <1>1 DEF LastEnd
<1>8. RxEnd = 0
  <2>1. out_taken = 0 /\ Len(out_rx) = 0 BY <1>1, <1>3
  <2> QED BY ONLY <2>1 DEF RxEnd
<1>9. Chain(packets, 0, 0) /\ IsRun(out_rx, 0) BY <1>1, EmptyChain, EmptyRun
<1>10. OutStream BY <1>1, <1>5, <1>7, <1>8, <1>9 DEF OutStream
<1>11. Messages
  <2>1. \A k \in 2 .. Len(ends) : FALSE BY <1>3
  <2> QED BY <1>1, <2>1 DEF Messages
<1> QED BY <1>4, <1>6, <1>10, <1>11 DEF OutInv

\* receive_buf holds the bytes the host wrote next, without a gap or a repeat, for
\* every size of packets, buffers and messages and any number of messages, whenever
\* the interrupt comes between the accesses of usb_read_bulk_out().
THEOREM UsbOutStreamSafe == UsbInit /\ [][UsbNext]_usbvars => []UsbOutStream
<1>1. OutInv => UsbOutStream
  <2> SUFFICES ASSUME OutInv PROVE UsbOutStream OBVIOUS
  <2>1. out_rx = Bytes(out_taken, Len(out_rx)) /\ Len(out_rx) \in Nat BY DEF OutInv, OutStream, IsRun
  <2> DEFINE n == Len(out_rx)
  <2> HIDE DEF n
  <2>2. n \in Nat /\ out_rx = Bytes(out_taken, n) BY <2>1 DEF n
  <2> QED BY <2>2 DEF UsbOutStream, Bytes
<1> QED BY <1>1, OutStart, OutStep, PTL

-----------------------------------------------------------------------------
(* The USB console: no buffer overflows.                                   *)

Flags == {bulk_out_push_flag, bulk_out_wake, bulk_in_wake, in_valid, in_start, was_blocking} \subseteq BOOLEAN
Sizes == /\ Len(out_rx) <= UsbRxSize /\ Len(in_tx) <= UsbTxSize
         /\ \A b \in 0 .. 1 : Len(out_buf[b]) <= UsbEp /\ Len(in_buf[b]) <= UsbEp
         /\ \A k \in 1 .. Len(packets) : Len(packets[k]) <= UsbEp
UsbInv == InInv /\ OutInv /\ Flags /\ Sizes

LEMMA FlagsStep == Flags /\ [UsbNext]_usbvars => Flags'
<1> SUFFICES ASSUME Flags, [UsbNext]_usbvars PROVE Flags' OBVIOUS
<1>1. /\ bulk_out_push_flag \in BOOLEAN /\ bulk_out_wake \in BOOLEAN /\ bulk_in_wake \in BOOLEAN
      /\ in_valid \in BOOLEAN /\ in_start \in BOOLEAN /\ was_blocking \in BOOLEAN
  BY Zenon DEF Flags
<1> DEFINE Goal == /\ bulk_out_push_flag' \in BOOLEAN /\ bulk_out_wake' \in BOOLEAN
                   /\ bulk_in_wake' \in BOOLEAN
                   /\ in_valid' \in BOOLEAN /\ in_start' \in BOOLEAN /\ was_blocking' \in BOOLEAN
<1>2. Goal
  <2>1. CASE UNCHANGED usbvars BY <1>1, <2>1 DEF usbvars, usbhost, out, in
  <2>2. ASSUME NEW n \in UsbMessages, HostWrites(n) PROVE Goal
    BY <1>1, <2>2 DEF HostWrites, out, in
  <2>3. CASE BulkOutIrq \/ BulkInIrq
    BY <1>1, <2>3 DEF BulkOutIrq, BulkInIrq, out, in
  <2>4. CASE OutReadEpr \/ InReadEpr
    <3>1. was_blocking' \in BOOLEAN BY <2>4, Zenon DEF OutReadEpr, InReadEpr
    <3> QED BY <1>1, <2>4, <3>1 DEF OutReadEpr, InReadEpr, out, in
  <2>5. CASE OutCheckWake \/ OutClearWake \/ ReadBulkOut \/ SetPushFlag \/ OutRelease
    BY <1>1, <2>5 DEF OutCheckWake, OutClearWake, ReadBulkOut, SetPushFlag, OutRelease, OutFrame, out, in
  <2>6. CASE OutDispatch
    BY <1>1, <2>6 DEF OutDispatch, console_sendf_usb, usb_notify_bulk_in, OutFrame
  <2>7. CASE InCheckWake \/ InClearWake \/ SendBulkIn \/ SetPopFlag \/ InRelease \/ InShift
    BY <1>1, <2>7 DEF InCheckWake, InClearWake, SendBulkIn, SetPopFlag, InRelease, InShift, InFrame, out, in
  <2> QED BY <2>1, <2>2, <2>3, <2>4, <2>5, <2>6, <2>7 DEF UsbNext, usb_bulk_out_task, usb_bulk_in_task
<1> QED BY <1>2, Zenon DEF Flags

\* The buffers a step leaves alone keep their sizes.
LEMMA SizesSkip ==
  ASSUME Sizes, UNCHANGED <<out_rx, in_tx, out_buf, in_buf, packets>>
  PROVE  Sizes'
BY DEF Sizes

LEMMA SizesStep == InInv /\ OutInv /\ Sizes /\ [UsbNext]_usbvars => Sizes'
<1> SUFFICES ASSUME InInv, OutInv, Sizes, [UsbNext]_usbvars PROVE Sizes' OBVIOUS
<1>0. /\ UsbEp \in Nat \ {0} /\ UsbRxSize \in Nat /\ UsbTxSize \in Int
      /\ in_buf = [b \in 0 .. 1 |-> in_buf[b]] /\ out_buf = [b \in 0 .. 1 |-> out_buf[b]]
      /\ Len(out_rx) \in Nat /\ Len(in_tx) \in Nat /\ max_tpos \in 0 .. Len(in_tx)
      /\ packets \in Seq(Seq(Nat)) /\ ends \in Seq(Nat) /\ Slot \in 0 .. 1
      /\ out_dtog \in 0 .. 1 /\ bulk_out_pop_count \in {0, 1}
  <2>1. UsbEp \in Nat \ {0} /\ UsbRxSize \in Nat /\ UsbTxSize \in Int BY UsbAssumption
  <2> QED BY <2>1, InFacts, OutFacts DEF InInv, InType, OutInv, OutType
<1>1. ASSUME NEW n \in UsbMessages, HostWrites(n) PROVE Sizes'
  <2> DEFINE i == IF ends = <<>> THEN 1 ELSE LastEnd
             first == IF ends = <<>> THEN InPackets(0, 1) ELSE <<>>
             more == InPackets(i, n)
  <2>1. /\ packets' = packets \o first \o more /\ UNCHANGED <<out_rx, in_tx, out_buf, in_buf>>
    BY <1>1 DEF HostWrites, out, in
  <2>2. i \in Nat /\ n \in Nat \ {0}
    <3>1. n \in 1 .. UsbRxSize BY UsbAssumption
    <3>2. LastEnd \in Nat BY OutFacts
    <3> QED BY <3>1, <3>2
  <2>3. first \in Seq(Seq(Nat)) /\ \A k \in 1 .. Len(first) : Len(first[k]) <= UsbEp
    <3>1. /\ InPackets(0, 1) \in Seq(Seq(Nat))
          /\ \A k \in 1 .. Len(InPackets(0, 1)) : Len(InPackets(0, 1)[k]) <= UsbEp
      <4>1. \A j \in Nat, m \in Nat \ {0} :
              /\ InPackets(j, m) \in Seq(Seq(Nat))
              /\ \A k \in 1 .. Len(InPackets(j, m)) : Len(InPackets(j, m)[k]) <= UsbEp
        BY PacketsChain
      <4>2. 0 \in Nat /\ 1 \in Nat \ {0} OBVIOUS
      <4> QED BY ONLY <4>1, <4>2
    <3>2. <<>> \in Seq(Seq(Nat)) /\ \A k \in 1 .. Len(<<>>) : FALSE OBVIOUS
    <3> QED BY <3>1, <3>2
  <2> HIDE DEF first, i
  <2>4. more \in Seq(Seq(Nat)) /\ \A k \in 1 .. Len(more) : Len(more[k]) <= UsbEp
    BY <2>2, PacketsChain
  <2> HIDE DEF more
  <2>5. \A ps, qs \in Seq(Seq(Nat)) :
          /\ \A k \in 1 .. Len(ps) : Len(ps[k]) <= UsbEp
          /\ \A k \in 1 .. Len(qs) : Len(qs[k]) <= UsbEp
          => ps \o qs \in Seq(Seq(Nat)) /\ \A k \in 1 .. Len(ps \o qs) : Len((ps \o qs)[k]) <= UsbEp
    OBVIOUS
  <2>6. /\ packets \o first \in Seq(Seq(Nat))
        /\ \A k \in 1 .. Len(packets \o first) : Len((packets \o first)[k]) <= UsbEp
    BY <1>0, <2>3, <2>5 DEF Sizes
  <2>7. \A k \in 1 .. Len(packets') : Len(packets'[k]) <= UsbEp BY <2>1, <2>4, <2>5, <2>6
  <2> QED BY <2>1, <2>7 DEF Sizes
<1>2. CASE BulkOutIrq
  <2>1. /\ packets # <<>> /\ packets' = Tail(packets) /\ UNCHANGED <<out_rx, in_tx, in_buf>>
        /\ out_buf' = [out_buf EXCEPT ![out_dtog] = Head(packets)]
    BY <1>2 DEF BulkOutIrq, in
  <2> DEFINE n == Len(packets)
  <2>2. /\ n \in Nat \ {0} /\ Head(packets) = packets[1] /\ Len(packets') = n - 1
        /\ \A k \in 1 .. n - 1 : packets'[k] = packets[k + 1]
    BY <1>0, <2>1
  <2>3. \A k \in 1 .. n : Len(packets[k]) <= UsbEp BY DEF Sizes
  <2> HIDE DEF n
  <2>4. 1 \in 1 .. n /\ \A k \in 1 .. n - 1 : k + 1 \in 1 .. n BY <2>2
  <2>5. Len(Head(packets)) <= UsbEp BY <2>2, <2>3, <2>4
  <2>6. \A k \in 1 .. Len(packets') : Len(packets'[k]) <= UsbEp BY <2>2, <2>3, <2>4
  <2>7. \A b \in 0 .. 1 : Len(out_buf'[b]) <= UsbEp BY <1>0, <2>1, <2>5 DEF Sizes
  <2> QED BY <2>1, <2>6, <2>7 DEF Sizes
<1>3. CASE ReadBulkOut
  <2>1. UNCHANGED <<in_tx, out_buf, in_buf, packets>> BY <1>3 DEF ReadBulkOut, OutFrame, usbhost, in
  <2>2. CASE HasSpace /\ ~bulk_out_push_flag
    <3>1. out_rx' = out_rx \o First
      <4>1. out_rx' = out_rx \o out_buf[bulk_out_pop_count % 2] BY <1>3, <2>2 DEF ReadBulkOut
      <4>2. 0 % 2 = 0 /\ 1 % 2 = 1 OBVIOUS
      <4> QED BY <1>0, <4>1, <4>2 DEF First
    <3>2. Unread \in {1, 2} BY <1>3, <2>2 DEF ReadBulkOut, Unread
    <3>3. IsRun(First, out_taken + Len(out_rx)) /\ IsRun(out_rx, out_taken) /\ out_taken \in Nat
      BY <3>2 DEF OutInv, OutStream, OutType, RxEnd
    <3>4. Len(out_rx') = Len(out_rx) + Len(First) BY <3>1, <3>3, RunConcat
    <3>5. Len(First) \in Nat /\ Len(First) <= UsbEp BY <1>0, <3>3 DEF IsRun, Sizes, First
    <3>6. Len(out_rx') <= UsbRxSize BY <1>0, <2>2, <3>4, <3>5 DEF HasSpace
    <3> QED BY <2>1, <3>6 DEF Sizes
  <2>3. CASE ~(HasSpace /\ ~bulk_out_push_flag)
    BY <1>3, <2>1, <2>3, SizesSkip DEF ReadBulkOut
  <2> QED BY <2>2, <2>3
<1>4. CASE OutDispatch
  <2>1. UNCHANGED <<out_buf, in_buf, packets>> BY <1>4 DEF OutDispatch, OutFrame, usbhost
  <2>2. Len(out_rx') <= UsbRxSize
    <3>1. CASE out_rx' = out_rx BY <3>1 DEF Sizes
    <3>2. CASE dispatched < Len(ends) /\ out_taken + Len(out_rx) >= ends[dispatched + 1]
      <4> DEFINE n == ends[dispatched + 1] - out_taken
      <4>1. n \in 0 .. Len(out_rx) BY <3>2, OutWhole
      <4>2. out_rx' = SubSeq(out_rx, n + 1, Len(out_rx)) BY <1>4, <3>2 DEF OutDispatch
      <4>3. IsRun(out_rx, out_taken) /\ out_taken \in Nat BY DEF OutInv, OutStream, OutType
      <4> HIDE DEF n
      <4>4. Len(out_rx') = Len(out_rx) - n BY <4>1, <4>2, <4>3, RunHalves
      <4> QED BY <1>0, <4>1, <4>4 DEF Sizes
    <3> QED BY <1>4, <3>1, <3>2 DEF OutDispatch
  <2>3. Len(in_tx') <= UsbTxSize
    <3>1. \/ in_tx' = in_tx
          \/ \E n \in UsbReplies : ~(Len(in_tx) + n > UsbTxSize) /\ in_tx' = in_tx \o Bytes(in_accepted, n)
      BY <1>4 DEF OutDispatch, console_sendf_usb
    <3>2. CASE in_tx' = in_tx BY <3>2 DEF Sizes
    <3>3. ASSUME NEW n \in UsbReplies, Len(in_tx) + n <= UsbTxSize, in_tx' = in_tx \o Bytes(in_accepted, n)
          PROVE  Len(in_tx') <= UsbTxSize
      <4>1. n \in Nat
        <5>1. n \in 1 .. UsbTxSize BY UsbAssumption
        <5> QED BY <5>1
      <4>2. in_accepted \in Nat /\ IsRun(in_tx, TxStart0) /\ TxStart0 \in Nat BY DEF InInv, InType, InStream
      <4>3. Bytes(in_accepted, n) \in Seq(Nat) /\ Len(Bytes(in_accepted, n)) = n BY <4>1, <4>2, BytesSeq
      <4>4. in_tx \in Seq(Nat) BY <1>0, <4>2, BytesSeq DEF IsRun
      <4>5. Len(in_tx') = Len(in_tx) + n BY <3>3, <4>3, <4>4, ConcatElements
      <4> QED BY <3>3, <4>5
    <3>4. ASSUME NEW n \in UsbReplies, ~(Len(in_tx) + n > UsbTxSize) PROVE Len(in_tx) + n <= UsbTxSize
      <4>1. n \in 1 .. UsbTxSize BY UsbAssumption
      <4> QED BY <1>0, <3>4, <4>1
    <3> QED BY <3>1, <3>2, <3>3, <3>4
  <2> QED BY <2>1, <2>2, <2>3 DEF Sizes
<1>5. CASE SendBulkIn
  <2>1. UNCHANGED <<out_rx, out_buf, packets, in_tx>> BY <1>5 DEF SendBulkIn, InFrame, usbhost, out
  <2>2. CASE in_buf' = in_buf BY <2>1, <2>2, SizesSkip
  <2>3. CASE in_buf' = [in_buf EXCEPT ![Slot] = SubSeq(in_tx, 1, max_tpos)]
    <3>1. Len(SubSeq(in_tx, 1, max_tpos)) = max_tpos
      <4>1. IsRun(in_tx, TxStart0) /\ TxStart0 \in Nat BY DEF InInv, InStream
      <4> QED BY <1>0, <4>1, RunHalves
    <3>2. max_tpos <= UsbEp
      <4>1. max_tpos = IF Len(in_tx) <= UsbEp THEN Len(in_tx) ELSE UsbEp 
        <5>1. Len(in_tx) \in Int /\ UsbEp \in Int BY <1>0
        <5> QED BY ONLY <5>1, MinPair DEF max_tpos
      <4> QED BY <1>0, <4>1
    <3>3. \A b \in 0 .. 1 : Len(in_buf'[b]) <= UsbEp BY <1>0, <2>3, <3>1, <3>2 DEF Sizes
    <3> QED BY <2>1, <3>3 DEF Sizes
  <2> QED BY <1>5, <2>2, <2>3 DEF SendBulkIn, Slot
<1>6. CASE InShift
  <2>1. UNCHANGED <<out_rx, out_buf, packets, in_buf>> /\ in_tx' = SubSeq(in_tx, max_tpos + 1, Len(in_tx))
    BY <1>6 DEF InShift, InFrame, usbhost, out
  <2>2. Len(in_tx') = Len(in_tx) - max_tpos
    <3>1. IsRun(in_tx, TxStart0) /\ TxStart0 \in Nat BY DEF InInv, InStream
    <3> QED BY <1>0, <2>1, <3>1, RunHalves
  <2>3. Len(in_tx') <= UsbTxSize BY <1>0, <2>2 DEF Sizes
  <2> QED BY <2>1, <2>3 DEF Sizes
<1>7. CASE \/ UNCHANGED usbvars \/ BulkInIrq
           \/ OutCheckWake \/ OutClearWake \/ SetPushFlag \/ OutReadEpr \/ OutRelease
           \/ InCheckWake \/ InClearWake \/ SetPopFlag \/ InReadEpr \/ InRelease
  <2>1. UNCHANGED <<out_rx, in_tx, out_buf, in_buf, packets>>
    BY <1>7 DEF usbvars, usbhost, out, in, BulkInIrq, OutCheckWake, OutClearWake, SetPushFlag, OutReadEpr,
                OutRelease, OutFrame, InCheckWake, InClearWake, SetPopFlag, InReadEpr, InRelease, InFrame
  <2> QED BY <2>1, SizesSkip
<1> QED BY <1>1, <1>2, <1>3, <1>4, <1>5, <1>6, <1>7 DEF UsbNext, usb_bulk_out_task, usb_bulk_in_task

LEMMA UsbStart == UsbInit => UsbInv
<1> SUFFICES ASSUME UsbInit PROVE UsbInv OBVIOUS
<1>1. Flags BY Zenon DEF UsbInit, Flags
<1>2. UsbEp \in Nat /\ UsbRxSize \in Nat /\ UsbTxSize \in Nat BY UsbAssumption
<1>3. Len(<<>>) = 0 /\ \A k \in 1 .. 0 : FALSE OBVIOUS
<1>4. /\ Len(out_rx) = 0 /\ Len(in_tx) = 0 /\ Len(packets) = 0
      /\ \A b \in 0 .. 1 : Len(out_buf[b]) = 0 /\ Len(in_buf[b]) = 0
  BY <1>3 DEF UsbInit
<1>5. Sizes BY <1>2, <1>3, <1>4 DEF Sizes
<1> QED BY <1>1, <1>5, InStart, OutStart DEF UsbInv

\* The USB console keeps to its types: receive_buf, transmit_buf and the packet
\* buffers never hold more than their sizes, for all sizes that keep UsbAssumption.
THEOREM UsbTypeCorrect == UsbInit /\ [][UsbNext]_usbvars => []UsbTypeOK
<1>1. UsbInv /\ [UsbNext]_usbvars => UsbInv'
  BY InStep, OutStep, FlagsStep, SizesStep DEF UsbInv
<1>2. UsbInv => UsbTypeOK
  BY DEF UsbInv, InInv, InType, OutInv, OutType, Flags, Sizes, UsbTypeOK
<1> QED BY <1>1, <1>2, UsbStart, PTL

=============================================================================
