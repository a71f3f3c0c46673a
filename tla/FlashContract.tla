--------------------------- MODULE FlashContract ---------------------------
(***************************************************************************)
(* What every flash backend (src/src/<mcu>/flash.c) promises its caller    *)
(* about flash_write_block(): an abstract specification.  The store is     *)
(* seen one block at a time; a block holds a payload, or is Blank, or is   *)
(* Torn (anything that is no payload anybody sent).                        *)
(*                                                                         *)
(* A write may disturb only its scope: the block itself, and for the first *)
(* block of a page (whose write may erase) the rest of that page.  Success *)
(* is reported only when the block reads back as the payload; until power  *)
(* is lost, the rest of the page is kept or wiped as a whole.  An error,   *)
(* or a loss of power, may leave anything in the scope, and nothing        *)
(* outside it.                                                             *)
(***************************************************************************)
EXTENDS Naturals

CONSTANTS Block,        \* the blocks of the application area
          PageOf(_),    \* the page a block lies in
          Leads(_),     \* whether a block is the first one of its page
          Data,         \* payloads the caller may ask to write
          Blank, Torn   \* an erased block, a damaged one

VARIABLES store,        \* [Block -> Content]
          op,           \* the write in progress, or NoOp
          result        \* outcome of the last write

vars == <<store, op, result>>

Content == Data \cup {Blank, Torn}
NoOp == [block |-> 0, data |-> Blank, busy |-> FALSE]
Writes == [block : Block, data : Data, busy : {TRUE}]

Page(b) == {c \in Block : PageOf(c) = PageOf(b)}
Scope(b) == IF Leads(b) THEN Page(b) ELSE {b}

TypeOK == /\ store \in [Block -> Content]
          /\ op \in Writes \cup {NoOp}
          /\ result \in {"none", "ok", "error"}

Init == /\ store \in [Block -> Content]
        /\ op = NoOp
        /\ result = "none"

Start(b, d) == /\ ~op.busy
               /\ op' = [block |-> b, data |-> d, busy |-> TRUE]
               /\ UNCHANGED <<store, result>>

\* The page is erased for the write of its first block.
Wipe == /\ op.busy
        /\ Leads(op.block)
        /\ store' = [c \in Block |-> IF c \in Page(op.block) THEN Blank ELSE store[c]]
        /\ UNCHANGED <<op, result>>

\* The block is being programmed and may pass through anything.
Program == /\ op.busy
           /\ \E c \in Content : store' = [store EXCEPT ![op.block] = c]
           /\ UNCHANGED <<op, result>>

Succeed == /\ op.busy
           /\ store[op.block] = op.data
           /\ op' = NoOp
           /\ result' = "ok"
           /\ UNCHANGED store

Fail == /\ op.busy
        /\ op' = NoOp
        /\ result' = "error"
        /\ UNCHANGED store

\* A request that is not block aligned never becomes a write.
Refuse == /\ ~op.busy
          /\ result' = "error"
          /\ UNCHANGED <<store, op>>

PowerLoss == /\ LET hit == IF op.busy THEN Scope(op.block) ELSE {}
                IN \E s \in [hit -> Content] :
                      store' = [c \in Block |-> IF c \in hit THEN s[c] ELSE store[c]]
             /\ op' = NoOp
             /\ result' = "none"

Next == \/ \E b \in Block, d \in Data : Start(b, d)
        \/ Wipe \/ Program \/ Succeed \/ Fail \/ Refuse \/ PowerLoss

Spec == Init /\ [][Next]_vars
=============================================================================
