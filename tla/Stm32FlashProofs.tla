-------------------------- MODULE Stm32FlashProofs --------------------------
(***************************************************************************)
(* Proofs about module Stm32Flash, for every page geometry, block size and *)
(* set of payloads, and for an erase that may be interrupted anywhere, and *)
(* about the two programs that drive it, Stm32Update and Deployer.         *)
(***************************************************************************)
EXTENDS Stm32Update, Deployer, DataLemmas

\* An erase is only ever started for the first block of a page.
EraseAtPageStart == pc = "erase" => starts_page(req.block)

Inv == TypeOK /\ EraseAtPageStart

\* Reads and payloads have the types the model gives them.
LEMMA Types == /\ \A d \in Data : d \in [Offsets -> Values] /\ d # Unacked
               /\ NoData \in [Offsets -> Values]
               /\ Erased \in Values /\ Torn \in Values
               /\ 0 \in Offsets /\ 0 \in Blocks
<1>1. Erased \in Values /\ Torn \in Values
  BY DEF Values
<1>2. 0 \in Offsets /\ 0 \in Blocks
  BY GeometryAssumption DEF Offsets, Blocks
<1>3. NoData \in [Offsets -> Values]
  BY <1>1 DEF NoData
<1>4. ASSUME NEW d \in Data PROVE d \in [Offsets -> Values] /\ d # Unacked
  <2>1. \A i \in Offsets : d[i] \in Values /\ d[i] # Torn
    BY DataAssumption DEF Values
  <2>2. d = [i \in Offsets |-> d[i]]
    BY DataAssumption
  <2>3. d \in [Offsets -> Values]
    BY <2>1, <2>2
  <2>4. Unacked[0] = Torn
    BY <1>2 DEF Unacked
  <2> QED BY <2>1, <2>3, <2>4, <1>2
<1> QED BY <1>1, <1>2, <1>3, <1>4

\* Programming a cell leaves a value of the model in it.
LEMMA ProgrammedType ==
  ASSUME NEW was \in Values, NEW v \in Values
  PROVE  Programmed(was, v) \subseteq Values
  BY Types DEF Programmed

\* The invariant holds of a factory-fresh part ...
LEMMA InitInv == Init => Inv
  BY GeometryAssumption, Types
  DEF Init, Inv, TypeOK, EraseAtPageStart, Requests

\* ... and every step of flash_write_block(), and every loss of power, keeps it.
LEMMA NextInv == Inv /\ [Next]_vars => Inv'
<1> SUFFICES ASSUME Inv, [Next]_vars PROVE Inv'
    OBVIOUS
<1> USE Types, GeometryAssumption DEF Inv, lock_flash, unlock_flash, last_index
<1>1. CASE \E b \in Blocks, o \in Offsets, d \in Data : Call(b, o, d)
  BY <1>1 DEF Call, TypeOK, EraseAtPageStart, Requests
<1>2. CASE Check
  <2> USE DEF Check
  <2>1. CASE CheckUnaligned
    BY <1>2, <2>1 DEF CheckUnaligned, Return, TypeOK, EraseAtPageStart
  <2>2. CASE CheckPageStart
    <3> DEFINE size == flash_get_page_size(req.block) * CellsPerBlock
    <3>1. page_write_count + 1 \in Nat /\ (page_write_count + 1) % CountLimit \in 0 .. CountLimit - 1
      BY DEF TypeOK
    <3>2. CASE check_erased(req.block, size)
      BY <1>2, <2>2, <3>1, <3>2 DEF CheckPageStart, Proceed, TypeOK, EraseAtPageStart
    <3>3. CASE Acknowledge /\ UNCHANGED <<flash, idx, locked, page_write_count>>
      BY <1>2, <2>2, <3>3 DEF Return, Acknowledge, TypeOK, EraseAtPageStart, Requests
    <3>4. CASE /\ page_write_count' = (page_write_count + 1) % CountLimit
               /\ acked' = [c \in Blocks |-> IF c \in PageBlocks(req.block)
                                             THEN Unacked ELSE acked[c]]
               /\ Proceed("erase")
      <4>1. acked' \in [Blocks -> Data \cup {Unacked}]
        BY <3>4 DEF TypeOK
      <4> QED BY <1>2, <2>2, <3>1, <3>4, <4>1
              DEF CheckPageStart, Proceed, TypeOK, EraseAtPageStart
    <3> QED BY <2>2, <3>2, <3>3, <3>4 DEF CheckPageStart
  <2>3. CASE CheckWithinPage
    BY <1>2, <2>3 DEF CheckWithinPage, Return, Acknowledge, Proceed, TypeOK, EraseAtPageStart, Requests
  <2> QED BY <1>2, <2>1, <2>2, <2>3
<1>3. CASE Erase
  BY <1>3 DEF Erase, erase_page, TypeOK, EraseAtPageStart
<1>4. CASE Program
  <2>1. PICK v \in Programmed(flash[req.block][idx], req.data[idx]) :
           flash' = [flash EXCEPT ![req.block][idx] = v]
    BY <1>4 DEF Program
  <2>2. req \in Requests
    BY <1>4 DEF Program, TypeOK
  <2>3. v \in Values
    BY <2>1, <2>2, ProgrammedType DEF TypeOK, Requests
  <2>4. flash' \in [Blocks -> [Offsets -> Values]]
    BY <2>1, <2>2, <2>3 DEF TypeOK, Requests
  <2>5. idx' \in Offsets
    BY <1>4 DEF Program, TypeOK, Offsets
  <2> QED BY <1>4, <2>4, <2>5 DEF Program, TypeOK, EraseAtPageStart
<1>5. CASE Verify
  BY <1>5 DEF Verify, Return, Acknowledge, TypeOK, EraseAtPageStart, Requests
<1>6. CASE PowerLoss
  <2>1. flash' \in [Blocks -> [Offsets -> Values]]
    <3>1. CASE pc \notin {"erase", "program"}
      BY <1>6, <3>1 DEF PowerLoss, TypeOK
    <3>2. CASE pc = "erase"
      <4>1. PICK left \in EraseRemnants :
              flash' = [c \in Blocks |-> [i \in Offsets |->
                           IF c \in PageBlocks(req.block) /\ <<c, i>> \in left
                           THEN Erased ELSE flash[c][i]]]
        BY <1>6, <3>2 DEF PowerLoss
      <4>2. \A c \in Blocks, i \in Offsets : flash[c][i] \in Values /\ Erased \in Values
        BY DEF TypeOK, Values
      <4> QED BY <4>1, <4>2
    <3>3. CASE pc = "program"
      BY <1>6, <3>3 DEF PowerLoss, TypeOK
    <3> QED BY <3>1, <3>2, <3>3
  <2> QED BY <1>6, <2>1 DEF PowerLoss, TypeOK, EraseAtPageStart
<1>7. CASE UNCHANGED vars
  BY <1>7 DEF vars, TypeOK, EraseAtPageStart
<1> QED BY <1>1, <1>2, <1>3, <1>4, <1>5, <1>6, <1>7 DEF Next, Step

\* Type correctness of the flash backend.
THEOREM TypeCorrect == Spec => []TypeOK
<1>1. Inv => TypeOK
  BY DEF Inv
<1> QED BY InitInv, NextInv, <1>1, PTL DEF Spec

-----------------------------------------------------------------------------
(* The refinement.  Each step of the backend is a step of FlashContract or *)
(* leaves its variables alone.                                             *)

\* A block reads as a payload, as blank or as torn, and payloads read as sent.
LEMMA PayloadTypes ==
  /\ \A c : Payload(c) \in Contract!Content
  /\ \A d \in Data : Payload(d) = d
  /\ Payload(NoData) = NoData
  BY DEF Payload, Contract!Content

\* A factory-fresh part is an initial state of the contract.
LEMMA InitRefines == Init => Contract!Init
  BY PayloadTypes DEF Init, Contract!Init, Contract!NoOp, NoData

\* flash_write_block() is invoked: a write starts, or (an address that is not
\* block aligned) nothing the contract sees happens.
LEMMA CallRefines ==
  ASSUME Inv, NEW b \in Blocks, NEW o \in Offsets, NEW d \in Data, Call(b, o, d)
  PROVE  [Contract!Next]_Contract!vars
<1>1. CASE o = 0
  <2>1. Contract!Start(b, d)
    BY <1>1 DEF Call, Contract!Start
  <2> QED BY <2>1 DEF Contract!Next
<1>2. CASE o # 0
  BY <1>2 DEF Call, Contract!vars
<1> QED BY <1>1, <1>2

\* Reporting success is Succeed: the array already holds the payload.
LEMMA AcknowledgeRefines ==
  ASSUME Inv, pc # "idle", req.off = 0, Same, Acknowledge, UNCHANGED flash
  PROVE  Contract!Succeed
<1>1. req \in Requests /\ req.block \in Blocks /\ req.data \in Data
  BY DEF Inv, TypeOK, Requests
<1>2. Payload(flash[req.block]) = req.data
  BY <1>1, PayloadTypes DEF Same
<1> QED BY <1>1, <1>2 DEF Contract!Succeed, Contract!NoOp, Acknowledge, Return, NoReq, NoData

\* Reporting an error for a write that had started is Fail.
LEMMA ErrorRefines ==
  ASSUME pc # "idle", req.off = 0, NEW r \in {-2, -3}, Return(r), UNCHANGED flash
  PROVE  Contract!Fail
  BY DEF Contract!Fail, Contract!NoOp, Return

\* unlock_flash() and the choice of the next step are invisible.
LEMMA ProceedRefines ==
  ASSUME pc # "idle", NEW next \in {"erase", "program"}, Proceed(next)
  PROVE  UNCHANGED Contract!vars
  BY DEF Contract!vars, Proceed

\* The decisions taken before the hardware is touched.
LEMMA CheckRefines ==
  ASSUME Inv, Check
  PROVE  [Contract!Next]_Contract!vars
<1>1. pc = "check"
  BY DEF Check
<1>2. CASE CheckUnaligned
  <2>1. Contract!Refuse
    BY <1>1, <1>2 DEF CheckUnaligned, Return, Contract!Refuse
  <2> QED BY <2>1 DEF Contract!Next
<1>3. CASE CheckPageStart
  <2>1. CASE \E next \in {"erase", "program"} : Proceed(next)
    BY <1>1, <2>1, ProceedRefines
  <2>2. CASE Same /\ Acknowledge /\ UNCHANGED flash
    <3>1. Contract!Succeed
      BY <1>1, <1>3, <2>2, AcknowledgeRefines DEF CheckPageStart
    <3> QED BY <3>1 DEF Contract!Next
  <2> QED BY <1>3, <2>1, <2>2 DEF CheckPageStart
<1>4. CASE CheckWithinPage
  <2>1. CASE \E next \in {"erase", "program"} : Proceed(next)
    BY <1>1, <2>1, ProceedRefines
  <2>2. CASE Same /\ Acknowledge /\ UNCHANGED flash
    <3>1. Contract!Succeed
      BY <1>1, <1>4, <2>2, AcknowledgeRefines DEF CheckWithinPage
    <3> QED BY <3>1 DEF Contract!Next
  <2>3. CASE Return(-2) /\ UNCHANGED flash
    <3>1. Contract!Fail
      BY <1>1, <1>4, <2>3, ErrorRefines DEF CheckWithinPage
    <3> QED BY <3>1 DEF Contract!Next
  <2> QED BY <1>4, <2>1, <2>2, <2>3 DEF CheckWithinPage
<1> QED BY <1>2, <1>3, <1>4 DEF Check

\* erase_page() wipes the page whose first block is being written.
LEMMA EraseRefines ==
  ASSUME Inv, Erase
  PROVE  Contract!Wipe
<1>1. pc = "erase" /\ req.off = 0 /\ starts_page(req.block)
  BY DEF Erase, Inv, TypeOK, EraseAtPageStart
<1>2. \A c \in Blocks : Payload(flash'[c]) = IF c \in Contract!Page(req.block)
                                            THEN NoData ELSE Payload(flash[c])
  BY PayloadTypes DEF Erase, erase_page, PageBlocks, Contract!Page
<1> QED BY <1>1, <1>2 DEF Erase, Contract!Wipe

\* One iteration of write_block() disturbs that block only.
LEMMA ProgramRefines ==
  ASSUME Inv, Program
  PROVE  Contract!Program
<1>1. pc = "program" /\ req.off = 0 /\ req.block \in Blocks
  BY DEF Program, Inv, TypeOK, Requests
<1>2. PICK v : flash' = [flash EXCEPT ![req.block][idx] = v]
  BY DEF Program
<1>3. \A c \in Blocks : c # req.block => flash'[c] = flash[c]
  BY <1>2 DEF Inv, TypeOK
<1>4. pc' # "idle" /\ req' = req /\ ret' = ret
  BY <1>1 DEF Program
<1>5. Payload(flash'[req.block]) \in Contract!Content
  BY PayloadTypes
<1>6. [b \in Blocks |-> Payload(flash'[b])] =
        [[b \in Blocks |-> Payload(flash[b])] EXCEPT ![req.block] = Payload(flash'[req.block])]
  BY <1>1, <1>3
<1> QED BY <1>1, <1>4, <1>5, <1>6 DEF Contract!Program

\* A loss of power leaves damage only where the write in progress reaches.
LEMMA PowerLossRefines ==
  ASSUME Inv, PowerLoss
  PROVE  Contract!PowerLoss
<1> DEFINE busy == ~(pc = "idle" \/ req.off # 0)
           hit == IF busy THEN Contract!Scope(req.block) ELSE {}
           s == [c \in hit |-> Payload(flash'[c])]
<1>1. \A c \in Blocks : c \notin hit => flash'[c] = flash[c]
  <2>1. CASE pc \notin {"erase", "program"}
    BY <2>1 DEF PowerLoss
  <2>2. CASE pc = "erase"
    <3>1. hit = PageBlocks(req.block)
      BY <2>2 DEF Inv, TypeOK, EraseAtPageStart, Contract!Scope, Contract!Page, PageBlocks
    <3>2. PICK left \in EraseRemnants :
            flash' = [c \in Blocks |-> [i \in Offsets |->
                        IF c \in PageBlocks(req.block) /\ <<c, i>> \in left
                        THEN Erased ELSE flash[c][i]]]
      BY <2>2 DEF PowerLoss
    <3>3. ASSUME NEW c \in Blocks, c \notin hit PROVE flash'[c] = flash[c]
      <4>1. flash'[c] = [i \in Offsets |-> flash[c][i]]
        BY <3>1, <3>2, <3>3
      <4>2. flash[c] \in [Offsets -> Values]
        BY DEF Inv, TypeOK
      <4> QED BY <4>1, <4>2
    <3> QED BY <3>3
  <2>3. CASE pc = "program"
    <3>1. req.block \in hit
      BY <2>3 DEF Inv, TypeOK, Requests, Contract!Scope, Contract!Page
    <3>2. PICK v : flash' = [flash EXCEPT ![req.block][idx] = v]
      BY <2>3 DEF PowerLoss
    <3> QED BY <3>1, <3>2 DEF Inv, TypeOK
  <2> QED BY <2>1, <2>2, <2>3
<1>2. s \in [hit -> Contract!Content]
  BY PayloadTypes
<1>3. [c \in Blocks |-> Payload(flash'[c])] =
        [c \in Blocks |-> IF c \in hit THEN s[c] ELSE [b \in Blocks |-> Payload(flash[b])][c]]
  BY <1>1
<1>4. \E t \in [hit -> Contract!Content] :
        [c \in Blocks |-> Payload(flash'[c])] =
          [c \in Blocks |-> IF c \in hit THEN t[c] ELSE [b \in Blocks |-> Payload(flash[b])][c]]
  BY <1>2, <1>3
<1>5. pc' = "idle" /\ ret' = 1
  BY DEF PowerLoss
<1> DEFINE op == IF pc = "idle" \/ req.off # 0
                 THEN [block |-> 0, data |-> NoData, busy |-> FALSE]
                 ELSE [block |-> req.block, data |-> req.data, busy |-> TRUE]
<1>6. hit = IF op.busy THEN Contract!Scope(op.block) ELSE {}
  OBVIOUS
<1> QED BY <1>4, <1>5, <1>6 DEF Contract!PowerLoss, Contract!NoOp, NoData

\* Every step of the backend is a step of the contract, or invisible to it.
LEMMA NextRefines == Inv /\ [Next]_vars => [Contract!Next]_Contract!vars
<1> SUFFICES ASSUME Inv, [Next]_vars PROVE [Contract!Next]_Contract!vars
    OBVIOUS
<1>1. CASE \E b \in Blocks, o \in Offsets, d \in Data : Call(b, o, d)
  BY <1>1, CallRefines
<1>2. CASE Check
  BY <1>2, CheckRefines
<1>3. CASE Erase
  BY <1>3, EraseRefines DEF Contract!Next
<1>4. CASE Program
  BY <1>4, ProgramRefines DEF Contract!Next
<1>5. CASE Verify
  <2>0. pc = "verify" /\ req.off = 0 /\ flash' = flash
    BY <1>5 DEF Verify, Inv, TypeOK
  <2>1. CASE Same /\ Acknowledge
    BY <2>0, <2>1, AcknowledgeRefines DEF Contract!Next
  <2>2. CASE Return(-3)
    BY <2>0, <2>2, ErrorRefines DEF Contract!Next
  <2> QED BY <1>5, <2>1, <2>2 DEF Verify
<1>6. CASE PowerLoss
  BY <1>6, PowerLossRefines DEF Contract!Next
<1>7. CASE UNCHANGED vars
  BY <1>7 DEF vars, Contract!vars
<1> QED BY <1>1, <1>2, <1>3, <1>4, <1>5, <1>6, <1>7 DEF Next, Step

\* The STM32 backend keeps the contract of flash_write_block() for every page
\* geometry, every block size and every power loss: success only for a block
\* that reads back as sent, damage only inside the block or the page it leads.
THEOREM Stm32KeepsContract == Spec => RefinesContract
<1>1. Init => Inv /\ Contract!Init
  BY InitInv, InitRefines
<1> QED BY <1>1, NextInv, NextRefines, PTL DEF Spec, RefinesContract, Contract!Spec

-----------------------------------------------------------------------------
(* Acknowledged payloads stay.  AckedIntact is not inductive: it needs to  *)
(* know that the block being programmed, and the page being erased, hold   *)
(* no acknowledged payload.  The first follows from check_erased() only    *)
(* when no payload is blank in its first quarter, all that the scan reads. *)

\* Every payload the host sends has something in its first quarter.
FirstQuarterUsed ==
    \A d \in Data : \E i \in Offsets : i < CellsPerBlock \div 4 /\ d[i] # Erased

\* The array is changed only where nothing acknowledged is left.
NothingAckedAtStake ==
    /\ pc = "erase" => \A c \in PageBlocks(req.block) : acked[c] = Unacked
    /\ pc = "program" => acked[req.block] = Unacked

AInv == Inv /\ AckedIntact /\ NothingAckedAtStake

\* A block that check_erased() takes for blank was not acknowledged.
LEMMA BlankUnacked ==
  ASSUME FirstQuarterUsed, Inv, AckedIntact, NEW b \in Blocks,
         NEW count \in Nat, count >= CellsPerBlock, check_erased(b, count)
  PROVE  acked[b] = Unacked
<1> SUFFICES ASSUME acked[b] # Unacked PROVE FALSE
    OBVIOUS
<1>1. acked[b] \in Data /\ flash[b] = acked[b]
  BY DEF AckedIntact, Inv, TypeOK
<1>2. PICK i \in Offsets : i < CellsPerBlock \div 4 /\ flash[b][i] # Erased
  BY <1>1 DEF FirstQuarterUsed
<1>3. b \in Int /\ (b - b) * CellsPerBlock + i < count \div 4
  <2>1. b \in Int /\ i \in Int /\ CellsPerBlock \in Int
    BY GeometryAssumption DEF Blocks, Offsets
  <2>2. (b - b) * CellsPerBlock + i = i
    BY <2>1
  <2>3. CellsPerBlock \div 4 <= count \div 4
    BY GeometryAssumption
  <2> QED BY <1>2, <2>1, <2>2, <2>3, GeometryAssumption
<1> QED BY <1>2, <1>3 DEF check_erased, Blocks

\* A page is at least one block long.
LEMMA PageLength ==
  ASSUME NEW b \in Blocks
  PROVE  /\ flash_get_page_size(b) * CellsPerBlock \in Nat
         /\ flash_get_page_size(b) * CellsPerBlock >= CellsPerBlock
<1>1. flash_get_page_size(b) \in Nat \ {0} /\ CellsPerBlock \in Nat
  BY GeometryAssumption DEF flash_get_page_size
<1>2. \A m \in Nat \ {0}, n \in Nat : m * n \in Nat /\ m * n >= n
  OBVIOUS
<1> QED BY <1>1, <1>2

\* Every step keeps acknowledged payloads.
LEMMA NextAInv == FirstQuarterUsed /\ AInv /\ [Next]_vars => AInv'
<1> SUFFICES ASSUME FirstQuarterUsed, AInv, [Next]_vars
             PROVE  AckedIntact' /\ NothingAckedAtStake'
    BY NextInv DEF AInv
<1> USE DEF AInv
<1>1. CASE \E b \in Blocks, o \in Offsets, d \in Data : Call(b, o, d)
  BY <1>1 DEF Call, AckedIntact, NothingAckedAtStake
<1>2. CASE Check
  <2>0. pc = "check" /\ req \in Requests /\ req.block \in Blocks /\ req.data \in Data
    BY <1>2 DEF Check, Inv, TypeOK, Requests
  <2>1. flash' = flash
    BY <1>2 DEF Check, CheckUnaligned, CheckPageStart, CheckWithinPage, Proceed
  <2>2. CASE Same /\ Acknowledge
    <3>1. AckedIntact'
      BY <2>0, <2>1, <2>2 DEF Acknowledge, Same, AckedIntact, Inv, TypeOK
    <3> QED BY <2>2, <3>1 DEF Acknowledge, Return, NothingAckedAtStake
  <2>3. CASE acked' = acked /\ pc' = "idle"
    BY <2>1, <2>3 DEF AckedIntact, NothingAckedAtStake
  <2>4. CASE acked' = acked /\ Proceed("program") /\ acked[req.block] = Unacked
    BY <2>1, <2>4 DEF Proceed, AckedIntact, NothingAckedAtStake
  <2>5. CASE /\ acked' = [c \in Blocks |-> IF c \in PageBlocks(req.block)
                                           THEN Unacked ELSE acked[c]]
             /\ Proceed("erase")
    <3>1. AckedIntact'
      BY <2>1, <2>5 DEF AckedIntact
    <3>2. \A c \in PageBlocks(req.block) : acked'[c] = Unacked
      BY <2>5 DEF PageBlocks
    <3>3. pc' = "erase" /\ req' = req
      BY <2>5 DEF Proceed
    <3>4. PageBlocks(req.block)' = PageBlocks(req.block)
      BY <3>3 DEF PageBlocks, page_address, flash_get_page_size
    <3> QED BY <3>1, <3>2, <3>3, <3>4 DEF NothingAckedAtStake
  <2>6. CASE CheckUnaligned
    BY <2>3, <2>6 DEF CheckUnaligned, Return
  <2>7. CASE CheckPageStart
    <3> DEFINE size == flash_get_page_size(req.block) * CellsPerBlock
    <3>1. check_erased(req.block, size) => acked[req.block] = Unacked
      BY <2>0, BlankUnacked, PageLength
    <3> QED BY <2>7, <2>2, <2>4, <2>5, <3>1 DEF CheckPageStart
  <2>8. CASE CheckWithinPage
    <3>1. check_erased(req.block, CellsPerBlock) => acked[req.block] = Unacked
      BY <2>0, BlankUnacked, GeometryAssumption
    <3> QED BY <2>8, <2>2, <2>3, <2>4, <3>1 DEF CheckWithinPage, Return
  <2> QED BY <1>2, <2>6, <2>7, <2>8 DEF Check
<1>3. CASE Erase
  <2>1. req.block \in Blocks /\ starts_page(req.block)
    BY <1>3 DEF Erase, Inv, TypeOK, Requests, EraseAtPageStart
  <2>2. req.block \in PageBlocks(req.block)
    BY <2>1 DEF PageBlocks
  <2> QED BY <1>3, <2>2 DEF Erase, erase_page, AckedIntact, NothingAckedAtStake
<1>4. CASE Program
  <2>1. req.block \in Blocks /\ acked[req.block] = Unacked
    BY <1>4 DEF Program, Inv, TypeOK, Requests, NothingAckedAtStake
  <2>2. \A c \in Blocks : c # req.block => flash'[c] = flash[c]
    BY <1>4 DEF Program, Inv, TypeOK
  <2> QED BY <1>4, <2>1, <2>2 DEF Program, AckedIntact, NothingAckedAtStake
<1>5. CASE Verify
  <2>0. req.block \in Blocks /\ req.data \in Data /\ pc' = "idle" /\ flash' = flash
    BY <1>5 DEF Verify, Inv, TypeOK, Requests, Acknowledge, Return
  <2>1. CASE Same /\ Acknowledge
    BY <2>0, <2>1 DEF Acknowledge, Same, AckedIntact, NothingAckedAtStake, Inv, TypeOK
  <2>2. CASE acked' = acked
    BY <2>0, <2>2 DEF AckedIntact, NothingAckedAtStake
  <2> QED BY <1>5, <2>1, <2>2 DEF Verify
<1>6. CASE PowerLoss
  <2>0. acked' = acked /\ pc' = "idle"
    BY <1>6 DEF PowerLoss
  <2>1. \A c \in Blocks : acked[c] # Unacked => flash'[c] = flash[c]
    <3>1. CASE pc \notin {"erase", "program"}
      BY <1>6, <3>1 DEF PowerLoss
    <3>2. CASE pc = "erase"
      <4>1. PICK left \in EraseRemnants :
              flash' = [c \in Blocks |-> [i \in Offsets |->
                          IF c \in PageBlocks(req.block) /\ <<c, i>> \in left
                          THEN Erased ELSE flash[c][i]]]
        BY <1>6, <3>2 DEF PowerLoss
      <4>2. ASSUME NEW c \in Blocks, acked[c] # Unacked PROVE flash'[c] = flash[c]
        <5>1. c \notin PageBlocks(req.block)
          BY <3>2, <4>2 DEF NothingAckedAtStake
        <5>2. flash'[c] = [i \in Offsets |-> flash[c][i]]
          BY <4>1, <5>1
        <5>3. flash[c] \in [Offsets -> Values]
          BY DEF Inv, TypeOK
        <5> QED BY <5>2, <5>3
      <4> QED BY <4>2
    <3>3. CASE pc = "program"
      BY <1>6, <3>3 DEF PowerLoss, NothingAckedAtStake, Inv, TypeOK, Requests
    <3> QED BY <3>1, <3>2, <3>3
  <2> QED BY <2>0, <2>1 DEF AckedIntact, NothingAckedAtStake
<1>7. CASE UNCHANGED vars
  BY <1>7 DEF vars, AckedIntact, NothingAckedAtStake, PageBlocks
<1> QED BY <1>1, <1>2, <1>3, <1>4, <1>5, <1>6, <1>7 DEF Next, Step

\* When no payload is blank in its first quarter, a payload the backend has
\* acknowledged stays in the array until a write of the first block of its page
\* starts an erase - across retransmissions, errors and losses of power.
THEOREM AcknowledgedStays ==
  ASSUME FirstQuarterUsed
  PROVE  Spec => []AckedIntact
<1>1. Init => AInv
  BY InitInv DEF Init, AInv, AckedIntact, NothingAckedAtStake
<1>2. AInv /\ [Next]_vars => AInv'
  BY NextAInv
<1>3. AInv => AckedIntact
  BY DEF AInv
<1> QED BY <1>1, <1>2, <1>3, PTL DEF Spec

\* Asking again for a block in the middle of a page that has been acknowledged
\* with the same payload is acknowledged again and does not touch the array.
THEOREM RetransmissionsAreHarmless ==
  ASSUME FirstQuarterUsed
  PROVE  Spec => RetransmitHarmless
<1> DEFINE Again == /\ Check /\ req.off = 0 /\ acked[req.block] = req.data
                    /\ ~starts_page(req.block)
<1>1. Init => AInv
  BY InitInv DEF Init, AInv, AckedIntact, NothingAckedAtStake
<1>2. AInv /\ [Next]_vars => AInv'
  BY NextAInv
<1>3. AInv /\ [Next]_vars => [Again => ret' = 0 /\ flash' = flash]_vars
  <2> SUFFICES ASSUME AInv, Again PROVE ret' = 0 /\ flash' = flash
      OBVIOUS
  <2>1. req.block \in Blocks /\ req.data \in Data
    BY DEF AInv, Inv, TypeOK, Check, Requests
  <2>2. acked[req.block] # Unacked
    BY <2>1, Types
  <2>3. Same
    BY <2>1, <2>2 DEF AInv, AckedIntact, Same
  <2>4. ~check_erased(req.block, CellsPerBlock)
    BY <2>1, <2>2, BlankUnacked, GeometryAssumption DEF AInv
  <2> QED BY <2>3, <2>4
          DEF Check, CheckUnaligned, CheckPageStart, CheckWithinPage, Acknowledge, Return
<1> QED BY <1>1, <1>2, <1>3, PTL DEF Spec, RetransmitHarmless

\* The array is unlocked exactly while it is being erased or programmed.
THEOREM LockedWhenIdle == Spec => []LockedAtRest
<1>1. Init => LockedAtRest
  BY DEF Init, LockedAtRest
<1>2. LockedAtRest /\ [Next]_vars => LockedAtRest'
  <2> SUFFICES ASSUME LockedAtRest, [Next]_vars PROVE LockedAtRest'
      OBVIOUS
  <2>1. CASE \E b \in Blocks, o \in Offsets, d \in Data : Call(b, o, d)
    BY <2>1 DEF Call, LockedAtRest
  <2>2. CASE Check
    BY <2>2 DEF Check, CheckUnaligned, CheckPageStart, CheckWithinPage,
                Return, Acknowledge, Proceed, unlock_flash, LockedAtRest
  <2>3. CASE Erase \/ Program \/ Verify \/ PowerLoss
    BY <2>3 DEF Erase, Program, Verify, PowerLoss, Return, Acknowledge, lock_flash, LockedAtRest
  <2>4. CASE UNCHANGED vars
    BY <2>4 DEF vars, LockedAtRest
  <2> QED BY <2>1, <2>2, <2>3, <2>4 DEF Next, Step
<1> QED BY <1>1, <1>2, PTL DEF Spec

-----------------------------------------------------------------------------
(* A file or a bootloader written in order, block by block.                *)

\* Nothing that comes before the block being written is touched, and the call
\* ends with success only when the block holds the payload.
LEMMA StepInOrder ==
  ASSUME Inv, Step, req.off = 0
  PROVE  /\ pc # "idle" /\ req.block \in Blocks
         /\ \A c \in Blocks : c < req.block => flash'[c] = flash[c]
         /\ pc' # "idle" => req' = req /\ ret' = ret
         /\ pc' = "idle" => ret' < 0 \/ (ret' = 0 /\ flash'[req.block] = req.data)
<1>0. pc # "idle" /\ req \in Requests /\ req.block \in Blocks /\ req.data \in Data
      /\ flash \in [Blocks -> [Offsets -> Values]]
  BY DEF Step, Check, Erase, Program, Verify, Inv, TypeOK, Requests
<1>1. CASE Check
  <2>1. flash' = flash
    BY <1>1 DEF Check, CheckUnaligned, CheckPageStart, CheckWithinPage, Proceed
  <2>2. \/ pc' # "idle" /\ req' = req /\ ret' = ret
        \/ pc' = "idle" /\ ret' < 0
        \/ pc' = "idle" /\ ret' = 0 /\ Same
    BY <1>1 DEF Check, CheckUnaligned, CheckPageStart, CheckWithinPage, Proceed, Acknowledge, Return
  <2> QED BY <1>0, <2>1, <2>2 DEF Same
<1>2. CASE Erase
  <2>1. starts_page(req.block)
    BY <1>2 DEF Erase, Inv, EraseAtPageStart
  <2>2. ASSUME NEW c \in Blocks, c < req.block PROVE c \notin PageBlocks(req.block)
    <3>1. c \in Int /\ flash_get_page_size(c) \in Nat \ {0}
      BY GeometryAssumption DEF Blocks, flash_get_page_size
    <3>2. c % flash_get_page_size(c) >= 0 /\ c % flash_get_page_size(c) \in Int
      BY <3>1
    <3>3. page_address(c) <= c
      BY <3>1, <3>2 DEF page_address
    <3>4. page_address(c) # req.block
      BY <1>0, <2>2, <3>1, <3>3 DEF Blocks
    <3> QED BY <2>1, <3>4 DEF PageBlocks, starts_page
  <2> QED BY <1>0, <1>2, <2>2 DEF Erase, erase_page
<1>3. CASE Program
  <2>1. \A c \in Blocks : c # req.block => flash'[c] = flash[c]
    BY <1>0, <1>3 DEF Program
  <2>2. req.block \in Int BY <1>0 DEF Blocks
  <2> QED BY <1>0, <1>3, <2>1, <2>2 DEF Program, Blocks
<1>4. CASE Verify
  <2>1. flash' = flash BY <1>4 DEF Verify
  <2>2. \/ pc' = "idle" /\ ret' < 0
        \/ pc' = "idle" /\ ret' = 0 /\ Same
    BY <1>4 DEF Verify, Acknowledge, Return
  <2> QED BY <1>0, <2>1, <2>2 DEF Same
<1> QED BY <1>1, <1>2, <1>3, <1>4 DEF Step

\* The request under way is the one of the host, and what it knows to be written
\* is in the array.
SendInv == /\ pc # "idle" => waiting
           /\ waiting => block_count < NumBlocks
           /\ pc # "idle" => req = [block |-> block_count, off |-> 0, data |-> image[block_count]]
           /\ pc = "idle" /\ waiting => ret < 0 \/ (ret = 0 /\ flash[block_count] = image[block_count])
           /\ \A c \in Blocks : c < block_count => flash[c] = image[c]

UInv == Inv /\ UTypeOK /\ SendInv

LEMMA UInvInit == UInit => UInv
<1> SUFFICES ASSUME UInit PROVE UInv OBVIOUS
<1>1. Inv /\ TypeOK BY InitInv DEF UInit, Inv
<1>2. waiting \in BOOLEAN BY Zenon DEF UInit
<1>3. block_count \in 0 .. NumBlocks /\ \A c \in Blocks : ~(c < block_count)
  BY GeometryAssumption DEF UInit, Blocks
<1> QED BY <1>1, <1>2, <1>3 DEF UInit, Init, UInv, UTypeOK, SendInv

LEMMA UInvStep == UInv /\ [UNext]_uvars => UInv'
<1> SUFFICES ASSUME UInv, [UNext]_uvars PROVE UInv' OBVIOUS
<1>0. /\ Inv /\ TypeOK /\ image \in [Blocks -> Data] /\ image \in Images
      /\ block_count \in 0 .. NumBlocks /\ waiting \in BOOLEAN /\ NumBlocks \in Nat \ {0}
  BY ImagesAssumption, GeometryAssumption DEF UInv, UTypeOK
<1>1. CASE SendBlock
  <2>1. block_count \in Blocks BY <1>0, <1>1 DEF SendBlock, Blocks
  <2>2. image[block_count] \in Data BY <1>0, <2>1
  <2>3. Inv' BY <1>0, <1>1, <2>1, <2>2, NextInv, Types DEF SendBlock, Next
  <2>4. waiting' \in BOOLEAN BY <1>1, Zenon DEF SendBlock
  <2>5. UTypeOK' BY <1>0, <1>1, <2>3, <2>4 DEF Inv, UTypeOK, SendBlock
  <2>6. SendInv' BY <1>1 DEF SendBlock, Call, UInv, SendInv
  <2> QED BY <2>3, <2>5, <2>6 DEF UInv
<1>2. CASE DeviceStep
  <2>1. Step /\ UNCHANGED <<image, block_count, waiting>> BY <1>2 DEF DeviceStep
  <2>2. Inv' BY <1>0, <2>1, NextInv DEF Next
  <2>3. UTypeOK' BY <1>0, <2>1, <2>2 DEF Inv, UTypeOK
  <2>4. pc # "idle" BY <2>1 DEF Step, Check, Erase, Program, Verify
  <2>5. waiting /\ req.block = block_count /\ req.off = 0 /\ req.data = image[block_count]
    BY <2>4 DEF UInv, SendInv
  <2>6. SendInv'
    BY <1>0, <2>1, <2>4, <2>5, StepInOrder DEF UInv, SendInv
  <2> QED BY <2>2, <2>3, <2>6 DEF UInv
<1>3. CASE Reply
  <2>1. UNCHANGED vars /\ UNCHANGED image /\ pc = "idle" /\ ret = 0 /\ waiting
    BY <1>3 DEF Reply
  <2>2. Inv' BY <1>0, <2>1, NextInv
  <2>3. block_count < NumBlocks /\ flash[block_count] = image[block_count]
    BY <2>1 DEF UInv, SendInv
  <2>4. waiting' \in BOOLEAN BY <1>3, Zenon DEF Reply
  <2>5. block_count' \in 0 .. NumBlocks BY <1>0, <1>3, <2>3 DEF Reply
  <2>6. UTypeOK' BY <1>0, <2>1, <2>2, <2>4, <2>5 DEF Inv, UTypeOK
  <2>7. \A c \in Blocks : c < block_count' => flash[c] = image[c]
    <3>1. \A c \in Blocks : c < block_count' => c < block_count \/ c = block_count
      BY <1>0, <1>3 DEF Reply, Blocks
    <3> QED BY <2>3, <3>1 DEF UInv, SendInv
  <2>8. SendInv' BY <1>3, <2>1, <2>7 DEF Reply, SendInv, vars
  <2> QED BY <2>2, <2>6, <2>8 DEF UInv
<1>4. CASE NewUpdate
  <2>1. UNCHANGED vars /\ pc = "idle" /\ image' \in Images /\ block_count' = 0
    BY <1>4 DEF NewUpdate
  <2>2. Inv' BY <1>0, <2>1, NextInv
  <2>3. waiting' \in BOOLEAN BY <1>4, Zenon DEF NewUpdate
  <2>4. UTypeOK' BY <1>0, <2>1, <2>2, <2>3 DEF Inv, UTypeOK
  <2>5. \A c \in Blocks : ~(c < block_count') BY <2>1 DEF Blocks
  <2>6. SendInv' BY <1>4, <2>1, <2>5 DEF NewUpdate, SendInv, vars
  <2> QED BY <2>2, <2>4, <2>6 DEF UInv
<1>5. CASE DevicePowerLoss
  <2>1. PowerLoss /\ image' = image /\ block_count' = 0 BY <1>5 DEF DevicePowerLoss
  <2>2. Inv' BY <1>0, <2>1, NextInv DEF Next
  <2>3. waiting' \in BOOLEAN BY <1>5, Zenon DEF DevicePowerLoss
  <2>4. UTypeOK' BY <1>0, <2>1, <2>2, <2>3 DEF Inv, UTypeOK
  <2>5. \A c \in Blocks : ~(c < block_count') BY <2>1 DEF Blocks
  <2>6. SendInv' BY <1>5, <2>1, <2>5 DEF DevicePowerLoss, PowerLoss, SendInv
  <2> QED BY <2>2, <2>4, <2>6 DEF UInv
<1>6. CASE UNCHANGED uvars
  <2>1. UNCHANGED vars /\ UNCHANGED <<image, block_count, waiting>> BY <1>6 DEF uvars
  <2>2. Inv' BY <1>0, <2>1, NextInv
  <2>3. UTypeOK' BY <1>0, <2>1, <2>2 DEF Inv, UTypeOK
  <2>4. SendInv' BY <2>1 DEF UInv, SendInv, vars
  <2> QED BY <2>2, <2>3, <2>4 DEF UInv
<1> QED BY <1>1, <1>2, <1>3, <1>4, <1>5, <1>6 DEF UNext

\* When the host has an acknowledgement for every block of the file, the array
\* holds the file: for every geometry, every set of payloads, padding included,
\* and whatever an interrupted erase leaves behind.
THEOREM CompleteMeansFlashedSafe == USpec => []CompleteMeansFlashed
<1>1. UInv => CompleteMeansFlashed
  <2> SUFFICES ASSUME UInv, block_count = NumBlocks PROVE flash = image
    BY DEF CompleteMeansFlashed
  <2>1. flash \in [Blocks -> [Offsets -> Values]] /\ image \in [Blocks -> Data]
    BY ImagesAssumption DEF UInv, UTypeOK, TypeOK
  <2>2. \A c \in Blocks : flash[c] = image[c]
    BY GeometryAssumption DEF UInv, SendInv, Blocks
  <2> QED BY <2>1, <2>2
<1> QED BY <1>1, UInvInit, UInvStep, PTL DEF USpec

-----------------------------------------------------------------------------
(* An in-order update is never refused.                                    *)

\* An interrupted erase leaves its page as it was, or erased.
WholeErase ==
    \A left \in EraseRemnants, b \in Blocks :
        \/ \A c \in PageBlocks(b), i \in Offsets : <<c, i>> \in left
        \/ \A c \in PageBlocks(b), i \in Offsets : <<c, i>> \notin left

\* The large pages begin where one of them may.
WholePages == Boundary % LargePage = 0

Blank(c) == flash[c] = NoData
Used(c) == \E i \in Offsets : i < CellsPerBlock \div 4 /\ flash[c][i] # Erased
NextBlank(b) == b + 1 \in Blocks /\ ~starts_page(b + 1) => Blank(b + 1)
BehindUsed(b) == \A c \in Blocks : c + 1 = b => ~Blank(c)

\* check_erased() looks at a quarter and is right about the whole: blocks are
\* blank or show it in their first quarter, and pages are filled from the front.
LedInv == \A c \in Blocks : (pc = "program" => c # req.block) => Blank(c) \/ Used(c)
PageOrder == \A c \in Blocks : Blank(c) => NextBlank(c)

\* Blocks are programmed into erased cells only.
CellInv ==
    /\ pc = "erase" => idx = 0
    /\ pc = "program" => /\ NextBlank(req.block)
                         /\ \A i \in Offsets : flash[req.block][i] =
                                                 IF i < idx THEN req.data[i] ELSE Erased
    /\ pc = "verify" => flash[req.block] = req.data /\ NextBlank(req.block)

\* The block to be sent next leads a page, is blank, or was sent before.
Sent(b) == flash[b] = image[b] /\ NextBlank(b)
ResumeInv ==
    /\ pc \in {"idle", "check"} /\ block_count < NumBlocks
         => starts_page(block_count) \/ Blank(block_count) \/ Sent(block_count)
    /\ pc = "idle" /\ waiting => Sent(block_count)

OrderlyInv == UInv /\ LedInv /\ PageOrder /\ CellInv /\ ResumeInv /\ InOrderNeverRejected

\* What check_erased() finds in a blank block, and in a used one.
LEMMA CheckErasedBlock ==
  ASSUME NEW b \in Blocks
  PROVE  /\ Blank(b) => check_erased(b, CellsPerBlock)
         /\ \A count \in Nat : count >= CellsPerBlock /\ check_erased(b, count) => ~Used(b)
<1>0. b \in Int /\ CellsPerBlock \in Nat /\ CellsPerBlock >= 4
  BY GeometryAssumption DEF Blocks
<1>1. ASSUME Blank(b) PROVE check_erased(b, CellsPerBlock)
  <2> SUFFICES ASSUME NEW c \in Blocks, NEW i \in Offsets,
                      c >= b, (c - b) * CellsPerBlock + i < CellsPerBlock \div 4
               PROVE  flash[c][i] = Erased
    BY DEF check_erased
  <2>1. c = b
    <3> SUFFICES ASSUME c - b >= 1 PROVE FALSE BY <1>0 DEF Blocks
    <3> DEFINE m == c - b
    <3>1. m \in Nat /\ m >= 1 /\ i \in Nat BY <1>0 DEF Blocks, Offsets
    <3> HIDE DEF m
    <3>2. m * CellsPerBlock >= CellsPerBlock BY <1>0, <3>1
    <3>3. CellsPerBlock \div 4 <= CellsPerBlock BY <1>0
    <3>4. m * CellsPerBlock \in Nat BY <1>0, <3>1
    <3>5. m * CellsPerBlock + i < CellsPerBlock \div 4 BY DEF m
    <3> QED BY <1>0, <3>1, <3>2, <3>3, <3>4, <3>5
  <2> QED BY <1>1, <2>1 DEF Blank, NoData
<1>2. ASSUME NEW count \in Nat, count >= CellsPerBlock, check_erased(b, count), Used(b)
      PROVE  FALSE
  <2>1. PICK i \in Offsets : i < CellsPerBlock \div 4 /\ flash[b][i] # Erased
    BY <1>2 DEF Used
  <2>2. (b - b) * CellsPerBlock + i = i /\ i \in Int
    BY <1>0 DEF Offsets
  <2>3. CellsPerBlock \div 4 <= count \div 4
    BY <1>0, <1>2
  <2>4. (b - b) * CellsPerBlock + i < count \div 4
    BY <1>0, <2>1, <2>2, <2>3
  <2> QED BY <1>0, <1>2, <2>1, <2>4 DEF check_erased
<1> QED BY <1>1, <1>2

\* A block that does not lead a page is in the page of the one before it.
LEMMA NextInPage ==
  ASSUME WholePages, NEW b \in Blocks, b + 1 \in Blocks, ~starts_page(b + 1)
  PROVE  /\ page_address(b + 1) = page_address(b)
         /\ starts_page(b) => flash_get_page_size(b) >= 2
<1> DEFINE s == flash_get_page_size(b)
<1>0. b \in Int /\ b + 1 \in Int /\ s \in Nat \ {0} /\ Boundary \in Nat
  BY GeometryAssumption DEF Blocks, flash_get_page_size
<1>1. flash_get_page_size(b + 1) = s
  <2>1. CASE b + 1 = Boundary
    <3>1. (b + 1) % LargePage = 0 /\ flash_get_page_size(b + 1) = LargePage
      BY <1>0, <2>1 DEF WholePages, flash_get_page_size
    <3>2. page_address(b + 1) = b + 1 BY <1>0, <3>1 DEF page_address
    <3> QED BY <3>2 DEF starts_page
  <2>2. CASE b + 1 # Boundary
    BY <1>0, <2>2 DEF flash_get_page_size
  <2> QED BY <2>1, <2>2
<1> HIDE DEF s
<1>2. b % s \in 0 .. s - 1 /\ (b + 1) % s = IF b % s = s - 1 THEN 0 ELSE (b % s) + 1
  <2>1. b % s \in 0 .. s - 1 BY <1>0, DivMod
  <2>2. (b + 1) % s = IF b % s = s - 1 THEN 0 ELSE (b % s) + 1 BY <1>0, ModStep
  <2> QED BY <2>1, <2>2
<1>3. page_address(b) = b - (b % s) /\ page_address(b + 1) = (b + 1) - ((b + 1) % s)
  BY <1>1 DEF page_address, s
<1>4. (b + 1) % s # 0
  BY <1>0, <1>3 DEF starts_page
<1>5. (b + 1) % s = (b % s) + 1 /\ b % s # s - 1
  BY <1>2, <1>4
<1>6. page_address(b + 1) = page_address(b)
  BY <1>0, <1>2, <1>3, <1>5
<1>7. ASSUME starts_page(b) PROVE s >= 2
  <2>1. b % s = 0 BY <1>0, <1>2, <1>3, <1>7 DEF starts_page
  <2> QED BY <1>0, <1>2, <1>5, <2>1
<1> QED BY <1>6, <1>7 DEF s

\* A payload in the array is used, so not blank.
LEMMA PayloadUsed ==
  ASSUME FirstQuarterUsed, NEW d \in Data, NEW c, flash[c] = d
  PROVE  Used(c) /\ ~Blank(c)
BY DEF FirstQuarterUsed, Used, Blank, NoData

\* Erasing a page keeps what check_erased() relies on.
LEMMA ErasedPage ==
  ASSUME WholePages, Inv, PageOrder, NEW b \in Blocks, starts_page(b),
         flash' = erase_page(flash, b)
  PROVE  /\ \A c \in Blocks : (Blank(c) \/ Used(c)) => (Blank(c) \/ Used(c))'
         /\ Blank(b)' /\ PageOrder'
<1>1. \A c \in Blocks : flash'[c] = IF c \in PageBlocks(b) THEN NoData ELSE flash[c]
  BY DEF erase_page
<1>2. \A c \in Blocks : (Blank(c) \/ Used(c)) => (Blank(c) \/ Used(c))'
  BY <1>1 DEF Blank, Used
<1>3. Blank(b)'
  BY <1>1 DEF Blank, PageBlocks
<1>4. ASSUME NEW c \in Blocks, Blank(c)', c + 1 \in Blocks, ~starts_page(c + 1)
      PROVE  Blank(c + 1)'
  <2>1. page_address(c + 1) = page_address(c)
    BY <1>4, NextInPage
  <2>2. c + 1 \in PageBlocks(b) <=> c \in PageBlocks(b)
    BY <1>4, <2>1 DEF PageBlocks
  <2>3. CASE c \in PageBlocks(b)
    BY <1>1, <1>4, <2>2, <2>3 DEF Blank
  <2>4. CASE c \notin PageBlocks(b)
    BY <1>1, <1>4, <2>2, <2>4 DEF Blank, PageOrder, NextBlank
  <2> QED BY <2>3, <2>4
<1>5. PageOrder'
  BY <1>4 DEF PageOrder, NextBlank, starts_page, page_address, flash_get_page_size
<1> QED BY <1>2, <1>3, <1>5

LEMMA OrderlyInit == UInit => OrderlyInv
<1> SUFFICES ASSUME UInit PROVE OrderlyInv OBVIOUS
<1>1. UInv BY UInvInit
<1>2. \A c \in Blocks : Blank(c)
  BY DEF UInit, Init, Blank
<1>3. pc = "idle" /\ ~waiting /\ ret = 1 /\ block_count = 0
  BY DEF UInit, Init
<1>4. 0 \in Blocks BY Types
<1> QED BY <1>1, <1>2, <1>3, <1>4
        DEF OrderlyInv, LedInv, PageOrder, NextBlank, CellInv, ResumeInv, InOrderNeverRejected

\* The first block leads a page.
LEMMA FirstLeads == starts_page(0)
<1>1. flash_get_page_size(0) \in Nat \ {0}
  BY GeometryAssumption DEF flash_get_page_size
<1>2. 0 % flash_get_page_size(0) = 0
  BY <1>1, ModSmall
<1> QED BY <1>2 DEF starts_page, page_address

\* The decision about a block in order keeps the order, and is not a refusal.
LEMMA CheckInOrder ==
  ASSUME FirstQuarterUsed, WholePages, Inv, LedInv, PageOrder, Check, req.off = 0, ret >= 0,
         NEW b \in Blocks, b = req.block,
         starts_page(b) \/ Blank(b) \/ (Same /\ NextBlank(b))
  PROVE  /\ (LedInv /\ PageOrder /\ CellInv)' /\ flash' = flash
         /\ pc' # "check" /\ ret' >= 0
         /\ pc' = "idle" => Same /\ NextBlank(b)
<1>0. pc = "check" /\ flash' = flash
  BY DEF Check, CheckUnaligned, CheckPageStart, CheckWithinPage, Proceed
<1>1. Blank(b) \/ Used(b)
  BY <1>0 DEF LedInv
<1>2. \A c \in Blocks : (Blank(c) \/ Used(c))'
  BY <1>0 DEF LedInv, Blank, Used
<1>3. LedInv' /\ PageOrder'
  BY <1>0, <1>2 DEF LedInv, PageOrder, NextBlank, Blank
<1>4. ASSUME Proceed("program"), Blank(b)
      PROVE  CellInv' /\ pc' = "program" /\ ret' = ret
  <2>1. pc' = "program" /\ idx' = 0 /\ req' = req /\ ret' = ret BY <1>4 DEF Proceed
  <2>2. NextBlank(b) BY <1>4 DEF PageOrder
  <2>3. \A i \in Offsets : flash[b][i] = Erased /\ ~(i < 0)
    BY <1>4 DEF Blank, NoData, Offsets
  <2> QED BY <1>0, <2>1, <2>2, <2>3 DEF CellInv, NextBlank, Blank
<1>5. ASSUME Acknowledge PROVE CellInv' /\ pc' = "idle" /\ ret' = 0
  BY <1>5 DEF Acknowledge, Return, CellInv
<1>6. CASE CheckUnaligned
  BY <1>6 DEF CheckUnaligned
<1>7. CASE CheckPageStart
  <2> DEFINE size == flash_get_page_size(b) * CellsPerBlock
  <2>1. size \in Nat /\ size >= CellsPerBlock /\ CellsPerBlock \in Nat /\ CellsPerBlock >= 4
    BY PageLength, GeometryAssumption
  <2>2. CASE check_erased(b, size) /\ Proceed("program")
    <3>1. ~Used(b) BY <2>1, <2>2, CheckErasedBlock
    <3> QED BY <1>0, <1>1, <1>3, <1>4, <2>2, <3>1
  <2>3. CASE Same /\ check_erased(b + 1, size - CellsPerBlock) /\ Acknowledge
    <3>1. ASSUME b + 1 \in Blocks, ~starts_page(b + 1) PROVE Blank(b + 1)
      <4>1. starts_page(b) BY <1>7 DEF CheckPageStart
      <4>2. flash_get_page_size(b) >= 2 /\ flash_get_page_size(b) \in Nat
        BY <3>1, <4>1, NextInPage, GeometryAssumption DEF flash_get_page_size
      <4>3. size - CellsPerBlock >= CellsPerBlock /\ size - CellsPerBlock \in Nat
        <5>1. ASSUME NEW m \in Nat, m >= 2 PROVE m * CellsPerBlock >= 2 * CellsPerBlock
          BY <2>1, <5>1
        <5> QED BY <2>1, <4>2, <5>1
      <4>4. ~Used(b + 1) BY <2>3, <3>1, <4>3, CheckErasedBlock
      <4> QED BY <1>0, <3>1, <4>4 DEF LedInv
    <3>2. NextBlank(b) BY <3>1 DEF NextBlank
    <3> QED BY <1>0, <1>3, <1>5, <2>3, <3>2
  <2>4. CASE Proceed("erase")
    <3>1. pc' = "erase" /\ idx' = 0 /\ ret' = ret BY <2>4 DEF Proceed
    <3> QED BY <1>0, <1>3, <3>1 DEF CellInv
  <2> QED BY <1>7, <2>2, <2>3, <2>4 DEF CheckPageStart
<1>8. CASE CheckWithinPage
  <2>1. ~starts_page(b) BY <1>8 DEF CheckWithinPage
  <2>2. CASE check_erased(b, CellsPerBlock) /\ Proceed("program")
    <3>1. ~Used(b) BY <2>2, CheckErasedBlock, GeometryAssumption
    <3> QED BY <1>0, <1>1, <1>3, <1>4, <2>2, <3>1
  <2>3. CASE ~check_erased(b, CellsPerBlock)
    <3>1. Same /\ NextBlank(b) BY <2>1, <2>3, CheckErasedBlock
    <3>2. Acknowledge BY <1>8, <2>3, <3>1 DEF CheckWithinPage
    <3> QED BY <1>0, <1>3, <1>5, <3>1, <3>2
  <2> QED BY <1>8, <2>2, <2>3 DEF CheckWithinPage
<1> QED BY <1>6, <1>7, <1>8 DEF Check

LEMMA CheckOrderly ==
  ASSUME FirstQuarterUsed, WholePages, OrderlyInv, DeviceStep, Check
  PROVE  (LedInv /\ PageOrder /\ CellInv /\ ResumeInv /\ InOrderNeverRejected)'
<1>1. PICK b \in Blocks : b = req.block
  BY DEF Check, OrderlyInv, UInv, Inv, TypeOK, Requests
<1>2. /\ pc = "check" /\ b = block_count /\ b < NumBlocks /\ req.off = 0
      /\ req.data = image[b] /\ UNCHANGED <<image, block_count>>
  BY <1>1 DEF Check, DeviceStep, OrderlyInv, UInv, SendInv
<1>3. Inv /\ LedInv /\ PageOrder /\ ret >= 0
  BY DEF OrderlyInv, UInv, InOrderNeverRejected
<1>4. starts_page(b) \/ Blank(b) \/ (Same /\ NextBlank(b))
  BY <1>1, <1>2 DEF OrderlyInv, ResumeInv, Sent, Same
<1>5. /\ (LedInv /\ PageOrder /\ CellInv)' /\ flash' = flash
      /\ pc' # "check" /\ ret' >= 0
      /\ pc' = "idle" => Same /\ NextBlank(b)
  BY <1>1, <1>2, <1>3, <1>4, CheckInOrder
<1>6. pc' = "idle" => Sent(block_count)'
  BY <1>1, <1>2, <1>5
     DEF Sent, Same, NextBlank, Blank, starts_page, page_address, flash_get_page_size
<1> QED BY <1>5, <1>6 DEF ResumeInv, InOrderNeverRejected

\* A change to the block under way keeps the blank blocks of a page at its end.
LEMMA OneBlockChanges ==
  ASSUME PageOrder, NEW b \in Blocks, NextBlank(b), BehindUsed(b),
         \A c \in Blocks : c # b => flash'[c] = flash[c]
  PROVE  NextBlank(b)' /\ PageOrder'
<1>0. b \in Int /\ b + 1 # b BY DEF Blocks
<1>1. ASSUME b + 1 \in Blocks, ~starts_page(b + 1) PROVE flash'[b + 1] = NoData
  <2>1. flash[b + 1] = NoData BY <1>1 DEF NextBlank, Blank
  <2> QED BY <1>0, <1>1, <2>1
<1>2. ASSUME NEW c \in Blocks, Blank(c)', c + 1 \in Blocks, ~starts_page(c + 1)
      PROVE  Blank(c + 1)'
  <2>1. CASE c = b
    BY <1>1, <1>2, <2>1 DEF Blank
  <2>2. CASE c + 1 = b
    <3>1. c # b /\ ~Blank(c) BY <2>2 DEF BehindUsed, Blocks
    <3> QED BY <1>2, <3>1 DEF Blank
  <2>3. CASE c # b /\ c + 1 # b
    BY <1>2, <2>3 DEF PageOrder, NextBlank, Blank
  <2> QED BY <2>1, <2>2, <2>3
<1>3. NextBlank(b)'
  BY <1>1 DEF NextBlank, Blank, starts_page, page_address, flash_get_page_size
<1> QED BY <1>2, <1>3 DEF PageOrder, NextBlank, starts_page, page_address, flash_get_page_size

\* Erasing, programming and reading back a block in order keep the order, and end
\* with the block in the array.
LEMMA WriteInOrder ==
  ASSUME FirstQuarterUsed, WholePages, Inv, LedInv, PageOrder, CellInv, ret >= 0,
         Erase \/ Program \/ Verify,
         NEW b \in Blocks, b = req.block, BehindUsed(b)
  PROVE  /\ (LedInv /\ PageOrder /\ CellInv)'
         /\ pc' # "check" /\ ret' >= 0
         /\ pc' = "idle" => /\ UNCHANGED flash
                            /\ Same /\ NextBlank(b)
<1>1. /\ pc \in {"erase", "program", "verify"}
      /\ flash \in [Blocks -> [Offsets -> Values]] /\ idx \in Offsets
      /\ b \in Int /\ req.data \in Data
  BY DEF Erase, Program, Verify, Inv, TypeOK, Requests, Blocks
<1>2. CASE Erase
  <2>1. /\ flash' = erase_page(flash, b) /\ pc' = "program" /\ pc = "erase"
        /\ UNCHANGED <<req, idx, ret>> /\ starts_page(b) /\ idx = 0
    BY <1>2 DEF Erase, Inv, EraseAtPageStart, CellInv
  <2>2. /\ \A c \in Blocks : (Blank(c) \/ Used(c)) => (Blank(c) \/ Used(c))'
        /\ Blank(b)' /\ PageOrder'
    BY <2>1, ErasedPage
  <2>3. LedInv' BY <2>1, <2>2 DEF LedInv
  <2>4. NextBlank(b)' BY <2>1, <2>2 DEF PageOrder
  <2>5. \A i \in Offsets : flash'[b][i] = Erased /\ ~(i < 0)
    BY <2>2 DEF Blank, NoData, Offsets
  <2>6. CellInv' BY <2>1, <2>4, <2>5 DEF CellInv
  <2> QED BY <2>1, <2>2, <2>3, <2>6
<1>3. CASE Program
  <2>1. /\ pc = "program" /\ UNCHANGED <<req, ret>> /\ NextBlank(b)
        /\ \A i \in Offsets : flash[b][i] = IF i < idx THEN req.data[i] ELSE Erased
    BY <1>3 DEF Program, CellInv
  <2>2. flash[b][idx] = Erased
    BY <1>1, <2>1 DEF Offsets
  <2>3. flash' = [flash EXCEPT ![b][idx] = req.data[idx]]
    BY <1>3, <2>2 DEF Program, Programmed
  <2>4. /\ \A c \in Blocks : c # b => flash'[c] = flash[c]
        /\ \A i \in Offsets : flash'[b][i] = IF i <= idx THEN req.data[i] ELSE Erased
        /\ flash'[b] \in [Offsets -> Values]
    <3>1. flash'[b] = [flash[b] EXCEPT ![idx] = req.data[idx]] /\ \A c \in Blocks : c # b => flash'[c] = flash[c]
      BY <1>1, <2>3
    <3>2. req.data \in [Offsets -> Values] BY <1>1, Types
    <3>3. \A i \in Offsets : flash'[b][i] = IF i <= idx THEN req.data[i] ELSE Erased
      <4> SUFFICES ASSUME NEW i \in Offsets
                   PROVE  flash'[b][i] = IF i <= idx THEN req.data[i] ELSE Erased
        OBVIOUS
      <4>1. flash'[b][i] = IF i = idx THEN req.data[idx] ELSE flash[b][i]
        BY <1>1, <3>1
      <4>2. i <= idx <=> i < idx \/ i = idx
        BY <1>1 DEF Offsets
      <4> QED BY <2>1, <4>1, <4>2
    <3>4. flash'[b] \in [Offsets -> Values]
      BY <1>1, <3>1, <3>2
    <3> QED BY <3>1, <3>3, <3>4
  <2>5. NextBlank(b)' /\ PageOrder'
    BY <2>1, <2>4, OneBlockChanges
  <2>6. CASE idx = last_index
    <3>1. pc' = "verify" BY <1>3, <2>6 DEF Program
    <3>2. \A i \in Offsets : i <= idx BY <2>6, GeometryAssumption DEF last_index, Offsets
    <3>3. flash'[b] = req.data
      <4>1. req.data \in [Offsets -> Values] BY <1>1, Types
      <4>2. \A i \in Offsets : flash'[b][i] = req.data[i] BY <2>4, <3>2
      <4> QED BY <2>4, <4>1, <4>2
    <3>4. Used(b)' BY <1>1, <3>3 DEF FirstQuarterUsed, Used
    <3>5. LedInv'
      <4> SUFFICES ASSUME NEW c \in Blocks, c # b PROVE (Blank(c) \/ Used(c))'
        BY <2>1, <3>1, <3>4 DEF LedInv
      <4>1. Blank(c) \/ Used(c) BY DEF LedInv
      <4> QED BY <2>4, <4>1 DEF Blank, Used
    <3>6. CellInv' BY <2>1, <2>5, <3>1, <3>3 DEF CellInv
    <3> QED BY <2>1, <2>5, <3>1, <3>5, <3>6
  <2>7. CASE idx # last_index
    <3>1. pc' = "program" /\ idx' = idx + 1 BY <1>3, <2>1, <2>7 DEF Program
    <3>2. LedInv'
      <4> SUFFICES ASSUME NEW c \in Blocks, c # b PROVE (Blank(c) \/ Used(c))'
        BY <2>1, <3>1 DEF LedInv
      <4>1. Blank(c) \/ Used(c) BY DEF LedInv
      <4> QED BY <2>4, <4>1 DEF Blank, Used
    <3>3. \A i \in Offsets : i < idx + 1 <=> i <= idx
      BY <1>1 DEF Offsets
    <3>4. CellInv' BY <2>1, <2>4, <2>5, <3>1, <3>3 DEF CellInv
    <3> QED BY <2>1, <2>5, <3>1, <3>2, <3>4
  <2> QED BY <2>6, <2>7
<1>4. CASE Verify
  <2>1. pc = "verify" /\ flash[b] = req.data /\ NextBlank(b)
    BY <1>4 DEF Verify, CellInv
  <2>2. Same BY <2>1 DEF Same
  <2>3. flash' = flash /\ pc' = "idle" /\ ret' = 0
    BY <1>4, <2>2 DEF Verify, Acknowledge, Return
  <2>4. PageOrder' /\ LedInv'
    BY <2>1, <2>3 DEF PageOrder, LedInv, NextBlank, Blank, Used
  <2> QED BY <2>1, <2>2, <2>3, <2>4 DEF CellInv
<1> QED BY <1>2, <1>3, <1>4

\* Blocks of the file that are in the array are not blank.
LEMMA SentUsed ==
  ASSUME FirstQuarterUsed, NEW file \in [Blocks -> Data], NEW b \in Int,
         \A c \in Blocks : c < b => flash[c] = file[c]
  PROVE  BehindUsed(b)
<1> SUFFICES ASSUME NEW c \in Blocks, c + 1 = b PROVE ~Blank(c)
  BY DEF BehindUsed
<1>1. c < b BY DEF Blocks
<1>2. flash[c] = file[c] /\ file[c] \in Data BY <1>1
<1> QED BY <1>2, PayloadUsed

LEMMA WriteOrderly ==
  ASSUME FirstQuarterUsed, WholePages, OrderlyInv, DeviceStep, Erase \/ Program \/ Verify,
         NEW b \in Blocks, b = req.block
  PROVE  (LedInv /\ PageOrder /\ CellInv /\ ResumeInv /\ InOrderNeverRejected)'
<1>1. /\ b = block_count /\ req.data = image[b] /\ UNCHANGED <<image, block_count>>
      /\ image \in [Blocks -> Data]
  BY ImagesAssumption DEF DeviceStep, Erase, Program, Verify, OrderlyInv, UInv, UTypeOK, SendInv
<1>2. Inv /\ LedInv /\ PageOrder /\ CellInv /\ ret >= 0
  BY DEF OrderlyInv, UInv, InOrderNeverRejected
<1>3. BehindUsed(b)
  <2>1. \A c \in Blocks : c < b => flash[c] = image[c]
    BY <1>1 DEF OrderlyInv, UInv, SendInv
  <2>2. b \in Int BY DEF Blocks
  <2> QED BY <1>1, <2>1, <2>2, SentUsed
<1>4. /\ (LedInv /\ PageOrder /\ CellInv)'
      /\ pc' # "check" /\ ret' >= 0
      /\ pc' = "idle" => UNCHANGED flash /\ Same /\ NextBlank(b)
  BY <1>2, <1>3, WriteInOrder
<1>5. pc' = "idle" => Sent(block_count)'
  BY <1>1, <1>4
     DEF Sent, Same, NextBlank, Blank, starts_page, page_address, flash_get_page_size
<1> QED BY <1>4, <1>5 DEF ResumeInv, InOrderNeverRejected

\* Power is lost during an erase or between two cells: nothing is half erased, and
\* the cell under way is in or behind the part of the block that tells.
LEMMA LossOrderly ==
  ASSUME FirstQuarterUsed, WholeErase, WholePages, OrderlyInv, DevicePowerLoss
  PROVE  (LedInv /\ PageOrder /\ CellInv /\ ResumeInv /\ InOrderNeverRejected)'
<1>0. /\ pc' = "idle" /\ ret' = 1 /\ block_count' = 0 /\ waiting' = FALSE /\ PowerLoss
      /\ PageOrder /\ CellInv /\ LedInv /\ Inv
  BY DEF DevicePowerLoss, PowerLoss, OrderlyInv, UInv
<1>1. (CellInv /\ ResumeInv /\ InOrderNeverRejected)'
  BY <1>0, FirstLeads DEF CellInv, ResumeInv, InOrderNeverRejected,
                         starts_page, page_address, flash_get_page_size
<1>2. SUFFICES PageOrder' /\ \A c \in Blocks : (Blank(c) \/ Used(c))'
  BY <1>0, <1>1 DEF LedInv
<1>3. CASE flash' = flash /\ pc # "program"
  BY <1>0, <1>3 DEF PageOrder, LedInv, NextBlank, Blank, Used
<1>4. ASSUME pc \in {"erase", "program"}
      PROVE  /\ req.block \in Blocks /\ req.block = block_count /\ req.data = image[req.block]
             /\ req.data \in Data /\ flash \in [Blocks -> [Offsets -> Values]] /\ idx \in Offsets
  BY <1>4 DEF OrderlyInv, UInv, Inv, TypeOK, SendInv, Requests
<1>5. CASE pc = "erase"
  <2>1. PICK left \in EraseRemnants :
          flash' = [c \in Blocks |-> [i \in Offsets |->
                      IF c \in PageBlocks(req.block) /\ <<c, i>> \in left
                      THEN Erased ELSE flash[c][i]]]
    BY <1>0, <1>5 DEF PowerLoss
  <2>2. starts_page(req.block)
    BY <1>0, <1>5 DEF Inv, EraseAtPageStart
  <2>3. \A c \in Blocks : flash[c] = [i \in Offsets |-> flash[c][i]]
    BY <1>4, <1>5
  <2>4. CASE \A c \in PageBlocks(req.block), i \in Offsets : <<c, i>> \in left
    <3>1. \A c \in Blocks : flash'[c] = IF c \in PageBlocks(req.block) THEN NoData ELSE flash[c]
      BY <2>1, <2>3, <2>4 DEF NoData
    <3>2. flash' = erase_page(flash, req.block)
      BY <2>1, <3>1 DEF erase_page
    <3> QED BY <1>0, <1>4, <1>5, <2>2, <3>2, ErasedPage DEF LedInv
  <2>5. CASE \A c \in PageBlocks(req.block), i \in Offsets : <<c, i>> \notin left
    <3>1. \A c \in Blocks : flash'[c] = flash[c]
      BY <2>1, <2>3, <2>5
    <3>2. flash' = flash BY <1>4, <1>5, <2>1, <3>1
    <3> QED BY <1>3, <1>5, <3>2
  <2> QED BY <1>4, <1>5, <2>4, <2>5 DEF WholeErase
<1>6. CASE pc = "program"
  <2>0. PICK b \in Blocks : b = req.block BY <1>4, <1>6
  <2>1. PICK v \in {flash[b][idx], Torn} : flash' = [flash EXCEPT ![b][idx] = v]
    BY <1>0, <1>6, <2>0 DEF PowerLoss
  <2>2. /\ NextBlank(b)
        /\ \A i \in Offsets : flash[b][i] = IF i < idx THEN req.data[i] ELSE Erased
    BY <1>0, <1>6, <2>0 DEF CellInv
  <2>3. /\ \A c \in Blocks : c # b => flash'[c] = flash[c]
        /\ flash'[b] = [flash[b] EXCEPT ![idx] = v] /\ flash[b] \in [Offsets -> Values]
    BY <1>4, <1>6, <2>1
  <2>4. v = Erased \/ v = Torn
    BY <1>4, <1>6, <2>2 DEF Offsets
  <2>5. \A i \in Offsets : flash'[b][i] = IF i = idx THEN v ELSE IF i < idx THEN req.data[i] ELSE Erased
    BY <1>4, <1>6, <2>2, <2>3
  <2>6. (Blank(b) \/ Used(b))'
    <3>1. PICK k \in Offsets : k < CellsPerBlock \div 4 /\ req.data[k] # Erased
      BY <1>4, <1>6 DEF FirstQuarterUsed
    <3>2. CASE \E i \in Offsets : i < CellsPerBlock \div 4 /\ flash'[b][i] # Erased
      BY <3>2 DEF Used
    <3>3. CASE \A i \in Offsets : i < CellsPerBlock \div 4 => flash'[b][i] = Erased
      <4>1. ~(k < idx) BY <1>4, <1>6, <2>5, <3>1, <3>3 DEF Offsets
      <4>2. idx <= k /\ idx < CellsPerBlock \div 4
        BY <1>4, <1>6, <3>1, <4>1, GeometryAssumption DEF Offsets
      <4>3. \A i \in Offsets : flash'[b][i] = Erased
        <5> SUFFICES ASSUME NEW i \in Offsets, flash'[b][i] # Erased PROVE FALSE OBVIOUS
        <5>1. i <= idx BY <1>4, <1>6, <2>5 DEF Offsets
        <5>2. i < CellsPerBlock \div 4 BY <1>4, <1>6, <4>2, <5>1, GeometryAssumption DEF Offsets
        <5> QED BY <3>3, <5>2
      <4>4. flash'[b] = [i \in Offsets |-> flash'[b][i]]
        BY <2>3
      <4> QED BY <4>3, <4>4 DEF Blank, NoData
    <3> QED BY <3>2, <3>3
  <2>7. \A c \in Blocks : (Blank(c) \/ Used(c))'
    <3> SUFFICES ASSUME NEW c \in Blocks, c # b PROVE (Blank(c) \/ Used(c))'
      BY <2>6
    <3>1. Blank(c) \/ Used(c) BY <1>0, <2>0 DEF LedInv
    <3> QED BY <2>3, <3>1 DEF Blank, Used
  <2>8. PageOrder'
    <3>1. /\ \A c \in Blocks : c < b => flash[c] = image[c]
          /\ image \in [Blocks -> Data] /\ b \in Int
      BY <1>4, <1>6, <2>0, ImagesAssumption DEF OrderlyInv, UInv, UTypeOK, SendInv, Blocks
    <3>2. BehindUsed(b) BY <3>1, SentUsed
    <3> QED BY <1>0, <2>2, <2>3, <3>2, OneBlockChanges
  <2> QED BY <2>7, <2>8
<1> QED BY <1>0, <1>3, <1>5, <1>6 DEF PowerLoss

\* The block after an acknowledged one leads a page or is blank.
LEMMA HostOrderly ==
  ASSUME OrderlyInv, SendBlock \/ Reply \/ NewUpdate
  PROVE  (LedInv /\ PageOrder /\ CellInv /\ ResumeInv /\ InOrderNeverRejected)'
<1>0. flash' = flash /\ idx' = idx /\ ret' = ret /\ pc = "idle" /\ pc' \in {"idle", "check"}
  BY DEF SendBlock, Call, Reply, NewUpdate, vars
<1>1. (LedInv /\ PageOrder /\ CellInv /\ InOrderNeverRejected)'
  BY <1>0 DEF OrderlyInv, LedInv, PageOrder, CellInv, InOrderNeverRejected, NextBlank, Blank, Used
<1>2. CASE SendBlock
  BY <1>0, <1>1, <1>2 DEF SendBlock, Call, OrderlyInv, ResumeInv, Sent, NextBlank, Blank
<1>3. CASE NewUpdate
  BY <1>0, <1>1, <1>3, FirstLeads
     DEF NewUpdate, vars, ResumeInv, starts_page, page_address, flash_get_page_size
<1>4. CASE Reply
  <2>1. /\ waiting /\ waiting' = FALSE /\ image' = image /\ pc' = "idle"
        /\ block_count' \in {block_count, block_count + 1}
    BY <1>0, <1>4 DEF Reply, vars
  <2>2. /\ Sent(block_count) /\ block_count < NumBlocks /\ block_count \in Nat
        /\ NumBlocks \in Nat
    BY <1>0, <2>1, GeometryAssumption DEF OrderlyInv, ResumeInv, UInv, UTypeOK, SendInv
  <2>3. PICK b \in Nat : b = block_count' BY <2>1, <2>2
  <2>4. b < NumBlocks => starts_page(b) \/ Blank(b) \/ Sent(b)
    <3>1. CASE b = block_count
      BY <2>2, <3>1
    <3>2. CASE b = block_count + 1 /\ b < NumBlocks
      <4>1. b \in Blocks BY <2>2, <3>2 DEF Blocks
      <4> QED BY <2>2, <3>2, <4>1 DEF Sent, NextBlank
    <3> QED BY <2>1, <2>3, <3>1, <3>2
  <2>5. block_count' < NumBlocks => (starts_page(block_count) \/ Blank(block_count) \/ Sent(block_count))'
    BY <1>0, <2>1, <2>3, <2>4
       DEF Sent, NextBlank, Blank, starts_page, page_address, flash_get_page_size
  <2> QED BY <1>1, <2>1, <2>5 DEF ResumeInv
<1> QED BY <1>2, <1>3, <1>4

LEMMA OrderlyStep ==
  ASSUME FirstQuarterUsed, WholeErase, WholePages, OrderlyInv, [UNext]_uvars
  PROVE  OrderlyInv'
<1>1. UInv' BY UInvStep DEF OrderlyInv
<1>2. SUFFICES (LedInv /\ PageOrder /\ CellInv /\ ResumeInv /\ InOrderNeverRejected)'
  BY <1>1 DEF OrderlyInv
<1>3. CASE SendBlock \/ Reply \/ NewUpdate
  BY <1>3, HostOrderly
<1>4. CASE DevicePowerLoss
  BY <1>4, LossOrderly
<1>5. CASE DeviceStep
  <2>1. CASE Check BY <1>5, <2>1, CheckOrderly
  <2>2. CASE Erase \/ Program \/ Verify
    <3>1. req.block \in Blocks
      BY <2>2 DEF Erase, Program, Verify, OrderlyInv, UInv, Inv, TypeOK, Requests
    <3> QED BY <1>5, <2>2, <3>1, WriteOrderly
  <2> QED BY <1>5, <2>1, <2>2 DEF DeviceStep, Step
<1>6. CASE UNCHANGED uvars
  BY <1>6 DEF uvars, vars, OrderlyInv, LedInv, PageOrder, CellInv, ResumeInv, InOrderNeverRejected,
              Sent, NextBlank, Blank, Used
<1> QED BY <1>3, <1>4, <1>5, <1>6 DEF UNext

\* flash_write_block() never refuses a block of an in-order update, after any
\* history of finished, abandoned and interrupted updates, provided every block
\* has something in its first quarter (check_erased() sees no more), pages do not
\* straddle the place where their size changes, and an interrupted erase has
\* either happened or not.
THEOREM InOrderNeverRejectedSafe ==
  ASSUME FirstQuarterUsed, WholeErase, WholePages
  PROVE  USpec => []InOrderNeverRejected
<1>1. OrderlyInv /\ [UNext]_uvars => OrderlyInv' BY OrderlyStep
<1>2. OrderlyInv => InOrderNeverRejected BY DEF OrderlyInv
<1> QED BY <1>1, <1>2, OrderlyInit, PTL DEF USpec

-----------------------------------------------------------------------------
(* The deployer.                                                           *)

CopyInv == /\ p \in 0 .. NumBlocks
           /\ dpc \in {"copy", "wait"} => /\ p < NumBlocks
                                         /\ \A c \in Blocks : c < p => flash[c] = Binary[c]
           /\ dpc # "wait" => pc = "idle"
           /\ pc # "idle" => req = [block |-> p, off |-> 0, data |-> Binary[p]]
           /\ dpc = "wait" /\ pc = "idle" => ret < 0 \/ (ret = 0 /\ flash[p] = Binary[p])

DInv == Inv /\ CopyInv /\ RequestedMeansDeployed

LEMMA DInvInit == DInit => DInv
<1> SUFFICES ASSUME DInit PROVE DInv OBVIOUS
<1>1. Inv
  BY GeometryAssumption, DeployerAssumption, Types
  DEF DInit, Inv, TypeOK, EraseAtPageStart, Requests
<1>2. p \in 0 .. NumBlocks BY GeometryAssumption DEF DInit
<1> QED BY <1>1, <1>2 DEF DInit, DInv, CopyInv, RequestedMeansDeployed

LEMMA DInvStep == DInv /\ [DNext]_dvars => DInv'
<1> SUFFICES ASSUME DInv, [DNext]_dvars PROVE DInv' OBVIOUS
<1>0. /\ Inv /\ p \in 0 .. NumBlocks /\ Binary \in [Blocks -> Data] /\ NumBlocks \in Nat \ {0}
      /\ flash \in [Blocks -> [Offsets -> Values]]
  BY GeometryAssumption, DeployerAssumption DEF DInv, CopyInv, Inv, TypeOK
<1>1. CASE CheckWritten
  <2>1. UNCHANGED vars /\ p' = 0 /\ pc = "idle" BY <1>1 DEF CheckWritten, DInv, CopyInv
  <2>2. Inv' BY <1>0, <2>1, NextInv
  <2>3. \A c \in Blocks : ~(c < p') BY <2>1 DEF Blocks
  <2>4. CopyInv'
    BY <1>0, <1>1, <2>1, <2>3 DEF CheckWritten, CopyInv, vars
  <2>5. RequestedMeansDeployed'
    BY <1>1, <2>1 DEF CheckWritten, RequestedMeansDeployed, already_written, vars
  <2> QED BY <2>2, <2>4, <2>5 DEF DInv
<1>2. CASE CopyBlock
  <2>1. p \in Blocks /\ dpc = "copy" BY <1>0, <1>2 DEF CopyBlock, DInv, CopyInv, Blocks
  <2>2. Binary[p] \in Data BY <1>0, <2>1
  <2>3. Inv' BY <1>0, <1>2, <2>1, <2>2, NextInv, Types DEF CopyBlock, Next
  <2>4. CopyInv' BY <1>2, <2>1 DEF CopyBlock, Call, DInv, CopyInv
  <2>5. RequestedMeansDeployed' BY <1>2 DEF CopyBlock, RequestedMeansDeployed
  <2> QED BY <2>3, <2>4, <2>5 DEF DInv
<1>3. CASE WriteStep
  <2>1. Step /\ dpc = "wait" /\ UNCHANGED <<old, dpc, p>> BY <1>3 DEF WriteStep
  <2>2. Inv' BY <1>0, <2>1, NextInv DEF Next
  <2>3. pc # "idle" BY <2>1 DEF Step, Check, Erase, Program, Verify
  <2>4. req.block = p /\ req.off = 0 /\ req.data = Binary[p]
    BY <2>3 DEF DInv, CopyInv
  <2>5. CopyInv' BY <1>0, <2>1, <2>3, <2>4, StepInOrder DEF DInv, CopyInv
  <2>6. RequestedMeansDeployed' BY <2>1 DEF RequestedMeansDeployed
  <2> QED BY <2>2, <2>5, <2>6 DEF DInv
<1>4. CASE Written
  <2>1. UNCHANGED vars /\ dpc = "wait" /\ pc = "idle" BY <1>4 DEF Written
  <2>2. Inv' BY <1>0, <2>1, NextInv
  <2>3. CASE write_failed
    <3>1. dpc' = "halted" /\ p' = p BY <1>4, <2>3 DEF Written
    <3>2. CopyInv' BY <2>1, <3>1 DEF DInv, CopyInv, vars
    <3> QED BY <2>2, <3>1, <3>2 DEF DInv, RequestedMeansDeployed
  <2>4. CASE ~write_failed
    <3>1. p' = p + 1 /\ dpc' = (IF p' < NumBlocks THEN "copy" ELSE "requested")
      BY <1>4, <2>4 DEF Written
    <3>2. p < NumBlocks /\ flash[p] = Binary[p] /\ \A c \in Blocks : c < p => flash[c] = Binary[c]
      BY <2>1, <2>4 DEF DInv, CopyInv, write_failed
    <3>3. \A c \in Blocks : c < p' => flash[c] = Binary[c]
      <4>1. \A c \in Blocks : c < p' => c < p \/ c = p BY <1>0, <3>1 DEF Blocks
      <4> QED BY <3>2, <4>1
    <3>4. p' \in 0 .. NumBlocks BY <1>0, <3>1, <3>2
    <3>5. CopyInv' BY <2>1, <3>1, <3>3, <3>4 DEF CopyInv, vars
    <3>6. ASSUME dpc' = "requested" PROVE flash = Binary
      <4>1. ~(p' < NumBlocks) BY <3>1, <3>6
      <4>2. \A c \in Blocks : c < p' BY <1>0, <3>4, <4>1 DEF Blocks
      <4> QED BY <1>0, <3>3, <4>2
    <3>7. RequestedMeansDeployed' BY <2>1, <3>6 DEF RequestedMeansDeployed, vars
    <3> QED BY <2>2, <3>5, <3>7 DEF DInv
  <2> QED BY <2>3, <2>4
<1>5. CASE DPowerLoss
  <2>1. PowerLoss /\ p' = 0 /\ dpc' \in {"start", "dead"} BY <1>5 DEF DPowerLoss
  <2>2. Inv' BY <1>0, <2>1, NextInv DEF Next
  <2>3. CopyInv' BY <1>0, <2>1 DEF PowerLoss, CopyInv
  <2> QED BY <2>1, <2>2, <2>3 DEF DInv, RequestedMeansDeployed
<1>6. CASE UNCHANGED dvars
  <2>1. UNCHANGED vars /\ UNCHANGED <<old, dpc, p>> BY <1>6 DEF dvars
  <2>2. Inv' BY <1>0, <2>1, NextInv
  <2> QED BY <2>1, <2>2 DEF DInv, CopyInv, RequestedMeansDeployed, vars
<1> QED BY <1>1, <1>2, <1>3, <1>4, <1>5, <1>6 DEF DNext, sched_main

\* The deployer requests the new bootloader only when the area holds all of it,
\* for every bootloader that was there before and every loss of power.
THEOREM RequestedMeansDeployedSafe == DInit /\ [][DNext]_dvars => []RequestedMeansDeployed
<1>1. DInv => RequestedMeansDeployed BY DEF DInv
<1> QED BY <1>1, DInvInit, DInvStep, PTL

\* What a bootloader that may be there before is like: its blocks are blank or
\* show in their first quarter that they are not, and none follows a blank block
\* in a page.
OldInOrder ==
    \A o \in OldBootloaders : \A c \in Blocks :
        /\ o[c] # NoData => \E i \in Offsets : i < CellsPerBlock \div 4 /\ o[c][i] # Erased
        /\ o[c] = NoData /\ c + 1 \in Blocks /\ ~starts_page(c + 1) => o[c + 1] = NoData

\* No block is refused, so that the deployer never halts.
DeployNeverHalts == dpc # "halted"

\* The copy finds the array in order, and at p the start of a page or a blank block.
CopyOrder ==
    /\ ret >= 0
    /\ dpc = "start" => flash \in {old, Binary}
    /\ dpc \in {"copy", "wait"} => LedInv /\ PageOrder /\ CellInv
    /\ dpc \in {"copy", "wait"} /\ pc \in {"idle", "check"} =>
          \/ starts_page(p) \/ Blank(p)
          \/ dpc = "wait" /\ pc = "idle"
    /\ dpc = "wait" /\ pc = "idle" => NextBlank(p)

HaltInv == DInv /\ old \in OldBootloaders /\ DeployNeverHalts /\ CopyOrder

LEMMA HaltInvInit == DInit => HaltInv
<1> SUFFICES ASSUME DInit PROVE HaltInv OBVIOUS
<1>1. DInv BY DInvInit
<1> QED BY <1>1 DEF DInit, HaltInv, DeployNeverHalts, CopyOrder

\* The first copy starts on the old bootloader, and so does one after power came
\* back, if the device still starts.
LEMMA StartsInOrder ==
  ASSUME OldInOrder, HaltInv, CheckWritten
  PROVE  (DeployNeverHalts /\ CopyOrder)'
<1>1. /\ UNCHANGED <<flash, pc, ret>> /\ p' = 0 /\ pc = "idle" /\ dpc = "start" /\ ret >= 0
      /\ dpc' = IF flash = Binary THEN "requested" ELSE "copy"
  BY DEF CheckWritten, already_written, vars, HaltInv, CopyOrder, DInv, CopyInv
<1>2. CASE flash = Binary
  BY <1>1, <1>2 DEF DeployNeverHalts, CopyOrder
<1>3. CASE flash # Binary
  <2>1. flash \in OldBootloaders
    BY <1>1, <1>3 DEF HaltInv, CopyOrder
  <2>2. \A c \in Blocks : (Blank(c) \/ Used(c)) /\ (Blank(c) => NextBlank(c))
    BY <2>1 DEF OldInOrder, Blank, Used, NextBlank
  <2>3. LedInv' /\ PageOrder'
    BY <1>1, <2>2 DEF LedInv, PageOrder, NextBlank, Blank, Used
  <2>4. CellInv' BY <1>1 DEF CellInv
  <2>5. starts_page(p)'
    BY <1>1, FirstLeads DEF starts_page, page_address, flash_get_page_size
  <2> QED BY <1>1, <1>3, <2>3, <2>4, <2>5 DEF DeployNeverHalts, CopyOrder
<1> QED BY <1>2, <1>3

LEMMA CopyStepInOrder ==
  ASSUME FirstQuarterUsed, WholePages, HaltInv, WriteStep
  PROVE  (DeployNeverHalts /\ CopyOrder)'
<1>1. /\ Step /\ dpc = "wait" /\ UNCHANGED <<dpc, p>> /\ Inv /\ ret >= 0
      /\ LedInv /\ PageOrder /\ CellInv
  BY DEF WriteStep, HaltInv, DInv, CopyOrder
<1>2. PICK b \in Blocks : b = req.block
  BY <1>1, StepInOrder DEF Step, Check, Erase, Program, Verify, Inv, TypeOK, Requests
<1>3. req.off = 0 /\ b = p /\ pc # "idle"
  BY <1>1, <1>2 DEF Step, Check, Erase, Program, Verify, HaltInv, DInv, CopyInv
<1>4. /\ (LedInv /\ PageOrder /\ CellInv)'
      /\ pc' # "check" /\ ret' >= 0
      /\ pc' = "idle" => UNCHANGED flash /\ NextBlank(b)
  <2>1. CASE Check
    <3>1. starts_page(b) \/ Blank(b)
      BY <1>1, <1>3, <2>1 DEF Check, HaltInv, CopyOrder
    <3> QED BY <1>1, <1>2, <1>3, <2>1, <3>1, CheckInOrder
  <2>2. CASE Erase \/ Program \/ Verify
    <3>1. /\ \A c \in Blocks : c < b => flash[c] = Binary[c]
          /\ Binary \in [Blocks -> Data] /\ b \in Int
      BY <1>1, <1>3, DeployerAssumption DEF HaltInv, DInv, CopyInv, Blocks
    <3>2. BehindUsed(b) BY <3>1, SentUsed
    <3> QED BY <1>1, <1>2, <2>2, <3>2, WriteInOrder
  <2> QED BY <1>1, <2>1, <2>2 DEF Step
<1>5. pc' = "idle" => NextBlank(p)'
  BY <1>1, <1>3, <1>4 DEF NextBlank, Blank, starts_page, page_address, flash_get_page_size
<1> QED BY <1>1, <1>4, <1>5 DEF DeployNeverHalts, CopyOrder

\* The block after one that is written leads a page or is blank.
LEMMA WrittenInOrder ==
  ASSUME HaltInv, Written
  PROVE  (DeployNeverHalts /\ CopyOrder)'
<1>1. /\ UNCHANGED <<flash, pc, idx, req, ret>> /\ dpc = "wait" /\ pc = "idle" /\ ret >= 0
      /\ LedInv /\ PageOrder /\ NextBlank(p) /\ p \in 0 .. NumBlocks
  BY DEF Written, vars, HaltInv, CopyOrder, DInv, CopyInv
<1>2. p' = p + 1 /\ dpc' = (IF p' < NumBlocks THEN "copy" ELSE "requested")
  <2>1. ret \in Int BY DEF HaltInv, DInv, Inv, TypeOK
  <2>2. ~write_failed BY <1>1, <2>1 DEF write_failed
  <2> QED BY <2>2, Zenon DEF Written
<1>3. LedInv' /\ PageOrder' /\ CellInv'
  BY <1>1 DEF LedInv, PageOrder, CellInv, NextBlank, Blank, Used
<1>4. dpc' = "copy" => starts_page(p)' \/ Blank(p)'
  <2> SUFFICES ASSUME p + 1 < NumBlocks PROVE starts_page(p)' \/ Blank(p)'
    BY <1>2
  <2>1. p + 1 \in Blocks BY <1>1, GeometryAssumption DEF Blocks
  <2>2. starts_page(p + 1) \/ Blank(p + 1) BY <1>1, <2>1 DEF NextBlank
  <2> QED BY <1>1, <1>2, <2>2 DEF Blank, starts_page, page_address, flash_get_page_size
<1> QED BY <1>1, <1>2, <1>3, <1>4 DEF DeployNeverHalts, CopyOrder

LEMMA HaltInvStep ==
  ASSUME FirstQuarterUsed, WholePages, OldInOrder, HaltInv, [DNext]_dvars
  PROVE  HaltInv'
<1>1. DInv' BY DInvStep DEF HaltInv
<1>2. old' = old
  BY DEF DNext, sched_main, CheckWritten, CopyBlock, WriteStep, Written, DPowerLoss, dvars
<1>3. SUFFICES (DeployNeverHalts /\ CopyOrder)'
  BY <1>1, <1>2 DEF HaltInv
<1>4. CASE CheckWritten BY <1>4, StartsInOrder
<1>5. CASE CopyBlock
  <2>1. /\ UNCHANGED <<flash, idx, ret, p>> /\ dpc = "copy" /\ pc = "idle"
        /\ dpc' = "wait" /\ pc' = "check"
    BY <1>5 DEF CopyBlock, Call
  <2>2. LedInv /\ PageOrder /\ ret >= 0 /\ (starts_page(p) \/ Blank(p))
    BY <2>1 DEF HaltInv, CopyOrder
  <2>3. LedInv' /\ PageOrder' /\ CellInv'
    BY <2>1, <2>2 DEF LedInv, PageOrder, CellInv, NextBlank, Blank, Used
  <2>4. starts_page(p)' \/ Blank(p)'
    BY <2>1, <2>2 DEF Blank, starts_page, page_address, flash_get_page_size
  <2> QED BY <2>1, <2>2, <2>3, <2>4 DEF DeployNeverHalts, CopyOrder
<1>6. CASE WriteStep BY <1>6, CopyStepInOrder
<1>7. CASE Written BY <1>7, WrittenInOrder
<1>8. CASE DPowerLoss
  <2>1. /\ ret' = 1 /\ old' = old
        /\ dpc' = IF flash' \in {old, Binary} THEN "start" ELSE "dead"
    BY <1>8 DEF DPowerLoss, PowerLoss
  <2> QED BY <2>1 DEF DeployNeverHalts, CopyOrder
<1>9. CASE UNCHANGED dvars
  BY <1>9 DEF dvars, vars, HaltInv, DeployNeverHalts, CopyOrder, LedInv, PageOrder, CellInv,
              NextBlank, Blank, Used, starts_page, page_address, flash_get_page_size
<1> QED BY <1>4, <1>5, <1>6, <1>7, <1>8, <1>9 DEF DNext, sched_main

\* The safety half of DeployEnds: no block of the new bootloader is refused or
\* fails to read back, whichever bootloader was there and whatever an erase leaves
\* that the power cuts off.  An error would halt the device with half a bootloader.
THEOREM DeployNeverHaltsSafe ==
  ASSUME FirstQuarterUsed, WholePages, OldInOrder
  PROVE  DInit /\ [][DNext]_dvars => []DeployNeverHalts
<1>1. HaltInv => DeployNeverHalts BY DEF HaltInv
<1>2. HaltInv /\ [DNext]_dvars => HaltInv' BY HaltInvStep
<1> QED BY <1>1, <1>2, HaltInvInit, PTL
=============================================================================
