------------------------------ MODULE SlotBitmap ------------------------------
(***************************************************************************)
(* BitmapPool (utils/pool/bitmap_pool.hpp): the allocator of client        *)
(* connections, endpoint slots and rate limiter entries.  One bit per slot *)
(* in words of WordBits (64) bits; a scan starts at the word of the last   *)
(* allocation and wraps around; a second bitmap, built on first use, marks *)
(* free slots worth reusing.                                               *)
(***************************************************************************)
EXTENDS Integers, FiniteSets, FiniteSetsExt

CONSTANTS
    NumSlots,      \* the constructor's argument
    ExactSize,     \* its second argument
    WordBits,      \* 64
    NoSlot         \* nullptr

ASSUME SizeAssumption ==
    /\ NumSlots \in Nat
    /\ WordBits \in Nat \ {0}
    /\ ExactSize \in BOOLEAN

VARIABLES
    bitmap,        \* bitmap_: the set bits
    marks,         \* marks_: the set bits
    lastUsedIndex, \* lastUsedIndex_: a word
    given          \* what the last call returned

bitmapVars == <<bitmap, marks, lastUsedIndex, given>>

words == (NumSlots + WordBits - 1) \div WordBits
slotCount == IF ExactSize THEN NumSlots ELSE words * WordBits
PoolSlots == 0 .. slotCount - 1
Bits(w) == (w * WordBits) .. (w * WordBits + WordBits - 1)
Word(idx) == idx \div WordBits

\* The tail of the last word is marked taken, no slot is behind it.
TailBitsFault == {}
TailBits == (0 .. words * WordBits - 1) \ PoolSlots

BitmapInit ==
    /\ bitmap = TailBits
    /\ marks = {}
    /\ lastUsedIndex = 0
    /\ given = NoSlot

\* The words a scan meets, in order: from the last used one to the end, then
\* from the start.
ScanOrder == [i \in 0 .. words - 1 |-> (lastUsedIndex + i) % words]
HasFree(w) == Bits(w) \ bitmap # {}

AllocSlotFault ==
    LET usable == {i \in 0 .. words - 1 : lastUsedIndex + i < words /\ HasFree(ScanOrder[i])}
    IN  \/ /\ usable = {}
           /\ given' = NoSlot
           /\ UNCHANGED <<bitmap, marks, lastUsedIndex>>
        \/ /\ usable # {}
           /\ LET w == ScanOrder[Min(usable)]
              IN  /\ given' = Min(Bits(w) \ bitmap)
                  /\ bitmap' = bitmap \cup {given'}
                  /\ lastUsedIndex' = w
           /\ UNCHANGED marks

AllocSlot ==
    LET usable == {i \in 0 .. words - 1 : HasFree(ScanOrder[i])}
    IN  \/ /\ usable = {}
           /\ given' = NoSlot
           /\ UNCHANGED <<bitmap, marks, lastUsedIndex>>
        \/ /\ usable # {}
           /\ LET w == ScanOrder[Min(usable)]
              IN  /\ given' = Min(Bits(w) \ bitmap)
                  /\ bitmap' = bitmap \cup {given'}
                  /\ lastUsedIndex' = w
           /\ UNCHANGED marks

\* The lowest bit that is marked and free; its mark is cleared.
AllocMarked ==
    LET available == marks \ bitmap
    IN  \/ available = {} /\ given' = NoSlot /\ UNCHANGED <<bitmap, marks, lastUsedIndex>>
        \/ /\ available # {}
           /\ given' = Min(available)
           /\ bitmap' = bitmap \cup {given'}
           /\ marks' = marks \ {given'}
           /\ UNCHANGED lastUsedIndex

\* How a slot is given back: FreeSlot, after Mark when its connection is still
\* open, after Unmark when it is not.
FreeSlot(idx, mark) ==
    /\ idx \in bitmap \ TailBits
    /\ bitmap' = bitmap \ {idx}
    /\ marks' = IF mark THEN marks \cup {idx} ELSE marks \ {idx}
    /\ given' = NoSlot
    /\ UNCHANGED lastUsedIndex

BitmapNext ==
    \/ AllocSlot
    \/ AllocMarked
    \/ \E idx \in PoolSlots, mark \in BOOLEAN : FreeSlot(idx, mark)

BitmapSpec == BitmapInit /\ [][BitmapNext]_bitmapVars

-------------------------------------------------------------------------------
(* Refinement: the pool hands every slot to one owner at a time, never a   *)
(* bit past the end of the pool, and refuses only when nothing is free:    *)
(* the wrap-around scan from lastUsedIndex_ misses no word.                *)
Pool == INSTANCE AbstractPool WITH
    Slots <- PoolSlots, None <- NoSlot,
    owned <- bitmap \ TailBits, kept <- marks, handed <- given

BitmapIsAPool == Pool!PoolSpec
===============================================================================
