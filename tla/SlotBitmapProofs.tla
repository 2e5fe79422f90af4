--------------------------- MODULE SlotBitmapProofs ---------------------------
(***************************************************************************)
(* For a pool of any size, exact or rounded up, and words of any width:    *)
(* the bitmap implements the abstract pool.                                *)
(***************************************************************************)
EXTENDS SlotBitmap, LeastNumber, TLAPS

\* Min of such a set is that element: what the count-trailing-zeros of a word
\* and the first usable word of a scan are.
LEMMA MinIsLeast ==
    ASSUME NEW T, T \subseteq Nat, T # {}
    PROVE  Min(T) \in T /\ \A y \in T : Min(T) <= y
  BY LeastNatural DEF Min

-------------------------------------------------------------------------------
\* The words cover the slots, and a word's bits lie within the words.
LEMMA WordsCover ==
    /\ words \in Nat
    /\ slotCount \in Nat
    /\ slotCount <= words * WordBits
    /\ words * WordBits \in Nat
  <1> DEFINE n == NumSlots + WordBits - 1
  <1>1. n \in Nat /\ n >= WordBits - 1
    BY SizeAssumption
  <1>2. /\ words \in Int
        /\ words * WordBits <= n /\ n < words * WordBits + WordBits
    BY <1>1, SizeAssumption DEF words
  <1>3. QED
    BY <1>1, <1>2, SizeAssumption DEF slotCount

LEMMA BitsOfWord ==
    ASSUME NEW w \in 0 .. words - 1
    PROVE  /\ Bits(w) \subseteq 0 .. words * WordBits - 1
           /\ Bits(w) \subseteq Nat
  <1>1. w \in Nat /\ w + 1 <= words
    BY WordsCover
  <1>2. (w + 1) * WordBits <= words * WordBits /\ (w + 1) * WordBits = w * WordBits + WordBits
    BY <1>1, WordsCover, SizeAssumption
  <1>3. w * WordBits \in Nat
    BY <1>1, SizeAssumption
  <1>4. QED
    BY <1>2, <1>3, WordsCover, SizeAssumption DEF Bits

\* Every slot has its bit in a word of the bitmap.
LEMMA WordOfSlot ==
    ASSUME NEW idx \in PoolSlots
    PROVE  Word(idx) \in 0 .. words - 1 /\ idx \in Bits(Word(idx))
  <1>1. idx \in Nat /\ idx < words * WordBits
    BY WordsCover DEF PoolSlots
  <1>2. /\ Word(idx) \in Nat
        /\ Word(idx) * WordBits <= idx /\ idx < Word(idx) * WordBits + WordBits
    BY <1>1, SizeAssumption DEF Word
  <1>3. Word(idx) < words
    <2>1. CASE Word(idx) >= words
      <3>1. Word(idx) * WordBits >= words * WordBits
        BY <2>1, <1>2, WordsCover, SizeAssumption
      <3>2. QED
        BY <3>1, <1>1, <1>2, WordsCover, SizeAssumption
    <2>2. QED
      BY <2>1, <1>2, WordsCover
  <1>4. QED
    BY <1>1, <1>2, <1>3, WordsCover, SizeAssumption DEF Bits

-------------------------------------------------------------------------------
\* The bits past the end of the pool stay taken, and only slots are marked.
BitmapInv ==
    /\ bitmap \subseteq 0 .. words * WordBits - 1
    /\ TailBits \subseteq bitmap
    /\ marks \subseteq PoolSlots
    /\ lastUsedIndex \in Nat
    /\ words > 0 => lastUsedIndex < words

\* The scan meets every word, whatever word it starts at.
LEMMA ScanMeetsAll ==
    ASSUME BitmapInv, NEW w \in 0 .. words - 1
    PROVE  \E i \in 0 .. words - 1 : ScanOrder[i] = w
  <1>1. words \in Nat /\ words > 0 /\ lastUsedIndex \in 0 .. words - 1 /\ w \in 0 .. words - 1
    BY WordsCover DEF BitmapInv
  <1>2. CASE w >= lastUsedIndex
    <2>1. w - lastUsedIndex \in 0 .. words - 1 /\ (lastUsedIndex + (w - lastUsedIndex)) % words = w
      BY <1>1, <1>2
    <2>2. QED
      BY <2>1 DEF ScanOrder
  <1>3. CASE w < lastUsedIndex
    <2> DEFINE i == w + words - lastUsedIndex
    <2>1. i \in 0 .. words - 1 /\ lastUsedIndex + i = w + words
      BY <1>1, <1>3
    <2>2. (w + words) % words = w
      BY <1>1
    <2>3. ScanOrder[i] = w
      BY <2>1, <2>2 DEF ScanOrder
    <2>4. QED
      BY <2>1, <2>3
  <1>4. QED
    BY <1>1, <1>2, <1>3

LEMMA ScanInWords ==
    ASSUME BitmapInv, NEW i \in 0 .. words - 1
    PROVE  ScanOrder[i] \in 0 .. words - 1
  <1>1. words \in Nat /\ words > 0 /\ lastUsedIndex + i \in Nat
    BY WordsCover DEF BitmapInv
  <1>2. (lastUsedIndex + i) % words \in 0 .. words - 1
    BY <1>1
  <1>3. QED
    BY <1>2 DEF ScanOrder

-------------------------------------------------------------------------------
LEMMA InitRefines == BitmapInit => BitmapInv /\ Pool!PoolInit
  <1> SUFFICES ASSUME BitmapInit PROVE BitmapInv /\ Pool!PoolInit
    OBVIOUS
  <1>1. TailBits \subseteq 0 .. words * WordBits - 1
    BY DEF TailBits
  <1>2. QED
    BY <1>1, WordsCover DEF BitmapInit, BitmapInv, Pool!PoolInit

\* AllocSlot takes a free slot, or refuses with every slot taken.
LEMMA AllocSlotRefines ==
    ASSUME BitmapInv, AllocSlot
    PROVE  BitmapInv' /\ (Pool!Refuse \/ \E s \in PoolSlots : Pool!Take(s))
  <1> DEFINE usable == {i \in 0 .. words - 1 : HasFree(ScanOrder[i])}
  <1>1. CASE usable = {} /\ given' = NoSlot /\ UNCHANGED <<bitmap, marks, lastUsedIndex>>
    <2>1. ASSUME NEW idx \in PoolSlots PROVE idx \in bitmap \ TailBits
      <3>1. PICK i \in 0 .. words - 1 : ScanOrder[i] = Word(idx)
        BY WordOfSlot, ScanMeetsAll
      <3>2. ~HasFree(Word(idx))
        BY <3>1, <1>1
      <3>3. QED
        BY <3>2, WordOfSlot DEF HasFree, TailBits
    <2>2. bitmap \ TailBits = PoolSlots
      BY <2>1, WordsCover DEF BitmapInv, TailBits, PoolSlots
    <2>3. BitmapInv'
      BY <1>1 DEF BitmapInv, TailBits, PoolSlots
    <2>4. QED
      BY <1>1, <2>2, <2>3 DEF Pool!Refuse
  <1>2. CASE /\ usable # {}
             /\ LET w == ScanOrder[Min(usable)]
                IN  /\ given' = Min(Bits(w) \ bitmap)
                    /\ bitmap' = bitmap \cup {given'}
                    /\ lastUsedIndex' = w
             /\ UNCHANGED marks
    <2> DEFINE w == ScanOrder[Min(usable)]
    <2>1. usable \subseteq Nat
      BY WordsCover
    <2>2. Min(usable) \in usable
      BY <1>2, <2>1, MinIsLeast
    <2>3. w \in 0 .. words - 1 /\ HasFree(w)
      BY <2>2, ScanInWords
    <2> HIDE DEF w
    <2>4. given' \in Bits(w) \ bitmap
      <3>1. Bits(w) \ bitmap # {} /\ Bits(w) \ bitmap \subseteq Nat
        BY <2>3, BitsOfWord DEF HasFree
      <3>2. Min(Bits(w) \ bitmap) \in Bits(w) \ bitmap
        BY <3>1, MinIsLeast
      <3>3. QED
        BY <3>2, <1>2 DEF w
    <2>5. given' \in 0 .. words * WordBits - 1 /\ given' \notin bitmap
      BY <2>3, <2>4, BitsOfWord
    <2>6. given' \in PoolSlots /\ given' \notin TailBits
      BY <2>5 DEF BitmapInv, TailBits
    <2>7. bitmap' = bitmap \cup {given'} /\ lastUsedIndex' = w /\ marks' = marks
      BY <1>2 DEF w
    <2>8. Pool!Take(given')
      BY <2>5, <2>6, <2>7 DEF Pool!Take
    <2>9. BitmapInv'
      BY <2>3, <2>5, <2>7, WordsCover DEF BitmapInv
    <2>10. QED
      BY <2>6, <2>8, <2>9
  <1>3. QED
    BY <1>1, <1>2 DEF AllocSlot

\* AllocMarked takes a kept slot, or refuses with none kept and free.
LEMMA AllocMarkedRefines ==
    ASSUME BitmapInv, AllocMarked
    PROVE  BitmapInv' /\ (Pool!RefuseKept \/ \E s \in PoolSlots : Pool!TakeKept(s))
  <1>1. CASE marks \ bitmap = {} /\ given' = NoSlot /\ UNCHANGED <<bitmap, marks, lastUsedIndex>>
    <2>1. marks \subseteq bitmap \ TailBits
      BY <1>1 DEF BitmapInv, TailBits
    <2>2. QED
      BY <1>1, <2>1 DEF BitmapInv, Pool!RefuseKept
  <1>2. CASE /\ marks \ bitmap # {}
             /\ given' = Min(marks \ bitmap)
             /\ bitmap' = bitmap \cup {given'}
             /\ marks' = marks \ {given'}
             /\ UNCHANGED lastUsedIndex
    <2>1. marks \ bitmap \subseteq Nat
      BY WordsCover DEF BitmapInv, PoolSlots
    <2>2. given' \in marks \ bitmap
      BY <1>2, <2>1, MinIsLeast
    <2>3. given' \in PoolSlots /\ given' \notin TailBits
      BY <2>2 DEF BitmapInv, TailBits
    <2>4. Pool!TakeKept(given')
      BY <1>2, <2>2, <2>3 DEF Pool!TakeKept, Pool!Take
    <2>5. given' \in 0 .. words * WordBits - 1
      BY <2>3, WordsCover DEF PoolSlots
    <2>6. BitmapInv'
      BY <1>2, <2>5 DEF BitmapInv
    <2>7. QED
      BY <2>3, <2>4, <2>6
  <1>3. QED
    BY <1>1, <1>2 DEF AllocMarked

\* FreeSlot gives back a slot that had an owner.
LEMMA FreeSlotRefines ==
    ASSUME BitmapInv, NEW idx \in PoolSlots, NEW mark \in BOOLEAN, FreeSlot(idx, mark)
    PROVE  BitmapInv' /\ Pool!Give(idx, mark)
  <1>1. idx \in bitmap \ TailBits /\ bitmap' = bitmap \ {idx} /\ given' = NoSlot
    BY DEF FreeSlot
  <1>2. marks' = IF mark THEN marks \cup {idx} ELSE marks \ {idx}
    BY DEF FreeSlot
  <1>3. BitmapInv'
    BY <1>1, <1>2 DEF BitmapInv, FreeSlot
  <1>4. QED
    BY <1>1, <1>2, <1>3 DEF Pool!Give

LEMMA NextRefines ==
    ASSUME BitmapInv, [BitmapNext]_bitmapVars
    PROVE  BitmapInv' /\ [Pool!PoolNext]_<<bitmap \ TailBits, marks, given>>
  <1>1. CASE AllocSlot
    BY <1>1, AllocSlotRefines DEF Pool!PoolNext
  <1>2. CASE AllocMarked
    BY <1>2, AllocMarkedRefines DEF Pool!PoolNext
  <1>3. CASE \E idx \in PoolSlots, mark \in BOOLEAN : FreeSlot(idx, mark)
    BY <1>3, FreeSlotRefines DEF Pool!PoolNext
  <1>4. CASE UNCHANGED bitmapVars
    BY <1>4 DEF bitmapVars, BitmapInv
  <1>5. QED
    BY <1>1, <1>2, <1>3, <1>4 DEF BitmapNext

\* The bitmap implements the pool: whatever the number of slots and the width
\* of a word, AllocSlot and AllocMarked never hand out a slot that has an
\* owner or a bit past the end of the pool, and AllocSlot returns nullptr only
\* when every slot is taken.
THEOREM BitmapRefinesPool == BitmapSpec => BitmapIsAPool
  <1>1. BitmapInit => BitmapInv /\ Pool!PoolInit
    BY InitRefines
  <1>2. BitmapInv /\ [BitmapNext]_bitmapVars
        => BitmapInv' /\ [Pool!PoolNext]_<<bitmap \ TailBits, marks, given>>
    BY NextRefines
  <1>3. QED
    BY <1>1, <1>2, PTL DEF BitmapSpec, BitmapIsAPool, Pool!PoolSpec
===============================================================================
