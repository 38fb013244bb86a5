-------------------------- MODULE LineBufferProofs --------------------------
(***************************************************************************)
(* Theorems about the line store, for every size of the pool, width of the *)
(* mask words, buffer capacity and set of heap blocks.                     *)
(*                                                                         *)
(* The inductive invariant numbers the buffers instead of walking the      *)
(* list: a buffer in use holds line number line[p], the numbers in use are *)
(* all different and lie between line[head] and line[tail], and next and   *)
(* prev go up and down by one.  Each pointer assignment of the code then   *)
(* is a statement about a few buffers, and no induction along the list is  *)
(* needed.                                                                 *)
(***************************************************************************)
EXTENDS LineBuffer, FiniteSetTheorems, TLAPS

-----------------------------------------------------------------------------
(* The bit mask.                                                           *)

LEMMA DivMod ==
  ASSUME NEW i \in Int, NEW s \in Nat \ {0}
  PROVE  /\ i = s * (i \div s) + (i % s)
         /\ i % s \in 0 .. s - 1
         /\ i \div s \in Int
OBVIOUS

LEMMA MultipleBelow ==
  ASSUME NEW s \in Nat \ {0}, NEW d \in Int, s * d < s, -s < s * d
  PROVE  d = 0
<1>1. CASE d >= 1
  <2>1. s * d >= s BY <1>1
  <2> QED BY <2>1
<1>2. CASE d <= -1
  <2>1. s * d <= -s BY <1>2
  <2> QED BY <2>1
<1> QED BY <1>1, <1>2

LEMMA ModShift ==
  ASSUME NEW i \in Int, NEW s \in Nat \ {0}
  PROVE  (i - s) % s = i % s
<1>1. PICK q \in Int, b \in 0 .. s - 1 : i = s * q + b /\ b = i % s
  BY DivMod
<1>2. PICK p \in Int, a \in 0 .. s - 1 : i - s = s * p + a /\ a = (i - s) % s
  <2>1. i - s \in Int OBVIOUS
  <2> QED BY <2>1, DivMod
<1> DEFINE d == (p + 1) - q
<1>3. s * d = b - a
  <2>1. s * d = s * p + s - s * q OBVIOUS
  <2>2. s * p \in Int /\ s * q \in Int OBVIOUS
  <2> HIDE DEF d
  <2> QED BY <2>1, <2>2, <1>1, <1>2
<1>4. d = 0
  <2>1. d \in Int OBVIOUS
  <2> HIDE DEF d
  <2>2. s * d < s /\ -s < s * d BY <1>3
  <2> QED BY <2>1, <2>2, MultipleBelow
<1>5. a = b
  <2>1. s * d = 0 BY <1>4
  <2> HIDE DEF d
  <2> QED BY <2>1, <1>3
<1> QED BY <1>5, <1>1, <1>2

(* mask_line_buffer() addresses, for every slot, a word of the mask and the
   bit get_avail_line_buffer_idx() reads for it, although the bit it clears
   from the index is not all of the word number.                           *)
LEMMA MaskIndex ==
  ASSUME NEW i \in Slot
  PROVE  /\ MaskWord(i) \in Word
         /\ MaskBit(i) = i % LINE_BUFFER_MASK_SIZE
         /\ MaskBit(i) \in Bit
<1> DEFINE s == LINE_BUFFER_MASK_SIZE
<1> DEFINE m == LINE_BUFFER_MASK_NUM
<1>1. s \in Nat \ {0} /\ m \in Int /\ LINE_BUFFER_NUM = m * s
  BY PoolAssumption, DivMod DEF LINE_BUFFER_MASK_NUM
<1>2. i \in Int /\ 0 <= i /\ i < m * s
  BY <1>1, PoolAssumption DEF Slot
<1>3. PICK q \in Int, b \in 0 .. s - 1 :
        i = s * q + b /\ b = i % s /\ q = i \div s
  BY <1>1, <1>2, DivMod
<1> HIDE DEF s, m
<1>4. q >= 0
  <2>1. SUFFICES ASSUME q <= -1 PROVE FALSE BY <1>3
  <2>2. s * q <= -s BY <2>1, <1>1
  <2> QED BY <2>2, <1>1, <1>2, <1>3
<1>5. q < m
  <2>1. SUFFICES ASSUME q >= m PROVE FALSE BY <1>3, <1>1
  <2>2. s * q >= m * s
    <3>1. s * (q - m) >= 0 BY <2>1, <1>1
    <3> QED BY <3>1, <1>1
  <2> QED BY <2>2, <1>1, <1>2, <1>3
<1>6. MaskWord(i) \in Word
  BY <1>3, <1>4, <1>5, <1>1 DEF MaskWord, Word, m, s
<1>7. MaskBit(i) = i % s
  BY <1>1, <1>2, ModShift DEF MaskBit, BitIdx, s
<1> QED BY <1>6, <1>7, <1>3, <1>1 DEF Bit, s

(* Two slots never share a bit.                                            *)
LEMMA MaskInjective ==
  ASSUME NEW i \in Slot, NEW j \in Slot,
         MaskWord(i) = MaskWord(j), MaskBit(i) = MaskBit(j)
  PROVE  i = j
<1>1. i \in Int /\ j \in Int BY PoolAssumption DEF Slot
<1>2. LINE_BUFFER_MASK_SIZE \in Nat \ {0} BY PoolAssumption
<1>3. i \div LINE_BUFFER_MASK_SIZE = j \div LINE_BUFFER_MASK_SIZE
  BY DEF MaskWord
<1>4. i % LINE_BUFFER_MASK_SIZE = j % LINE_BUFFER_MASK_SIZE BY MaskIndex
<1> QED BY <1>1, <1>2, <1>3, <1>4, DivMod

(* The search finds exactly the slots that are not in use.                 *)
LEMMA AvailIsFree == Avail = {i \in Slot : IsFree(i)}
BY MaskIndex DEF Avail, IsFree, MaskWord

LEMMA UseSlot ==
  ASSUME mask \in [Word -> SUBSET Bit], NEW i \in Slot, mask' = MaskUsed(i)
  PROVE  /\ mask' \in [Word -> SUBSET Bit]
         /\ \A j \in Slot : IsFree(j)' <=> j # i /\ IsFree(j)
<1>1. MaskWord(i) \in Word BY MaskIndex
<1>2. mask' \in [Word -> SUBSET Bit] BY <1>1 DEF MaskUsed
<1>3. ASSUME NEW j \in Slot PROVE IsFree(j)' <=> j # i /\ IsFree(j)
  <2>1. MaskWord(j) \in Word BY MaskIndex
  <2>2. i # j => MaskWord(i) # MaskWord(j) \/ MaskBit(i) # MaskBit(j)
    BY MaskInjective
  <2> QED BY <1>1, <2>1, <2>2 DEF MaskUsed, IsFree
<1> QED BY <1>2, <1>3

LEMMA FreeSlot ==
  ASSUME mask \in [Word -> SUBSET Bit], NEW i \in Slot, mask' = MaskFree(i)
  PROVE  /\ mask' \in [Word -> SUBSET Bit]
         /\ \A j \in Slot : IsFree(j)' <=> j = i \/ IsFree(j)
<1>1. MaskWord(i) \in Word /\ MaskBit(i) \in Bit BY MaskIndex
<1>2. mask' \in [Word -> SUBSET Bit] BY <1>1 DEF MaskFree
<1>3. ASSUME NEW j \in Slot PROVE IsFree(j)' <=> j = i \/ IsFree(j)
  <2>1. MaskWord(j) \in Word BY MaskIndex
  <2>2. i # j => MaskWord(i) # MaskWord(j) \/ MaskBit(i) # MaskBit(j)
    BY MaskInjective
  <2> QED BY <1>1, <2>1, <2>2 DEF MaskFree, IsFree
<1> QED BY <1>2, <1>3

-----------------------------------------------------------------------------
(* What the operations do to the set of buffers in use.                    *)

LEMMA LiveIsNode == StoreTypeOK => Live \subseteq Node
BY DEF StoreTypeOK, Live, Node

LEMMA LiveTake ==
  ASSUME StoreTypeOK, NEW i \in Avail, mask' = MaskUsed(i), heap' = heap
  PROVE  /\ i \in Slot /\ i \notin Live
         /\ mask' \in [Word -> SUBSET Bit]
         /\ Live' = Live \cup {i}
<1>1. i \in Slot /\ IsFree(i) BY AvailIsFree
<1>2. i \notin heap BY <1>1, BlockAssumption DEF StoreTypeOK
<1>3. /\ mask' \in [Word -> SUBSET Bit]
      /\ \A j \in Slot : IsFree(j)' <=> j # i /\ IsFree(j)
  BY <1>1, UseSlot DEF StoreTypeOK
<1> QED BY <1>1, <1>2, <1>3 DEF Live

LEMMA LiveBig ==
  ASSUME StoreTypeOK, NEW p \in Slot, NEW b \in BigBlock \ heap,
         mask' = MaskFree(p), heap' = heap \cup {b}
  PROVE  /\ b \notin Live /\ b # p
         /\ mask' \in [Word -> SUBSET Bit]
         /\ Live' = (Live \ {p}) \cup {b}
<1>1. b \notin Slot /\ p \notin BigBlock BY BlockAssumption
<1>2. /\ mask' \in [Word -> SUBSET Bit]
      /\ \A j \in Slot : IsFree(j)' <=> j = p \/ IsFree(j)
  BY FreeSlot DEF StoreTypeOK
<1>3. p \notin heap BY <1>1 DEF StoreTypeOK
<1> QED BY <1>1, <1>2, <1>3 DEF Live

LEMMA LiveRecycle ==
  ASSUME StoreTypeOK, NEW p \in Live,
         \/ p \in BigBlock /\ heap' = heap \ {p} /\ mask' = mask
         \/ p \notin BigBlock /\ heap' = heap /\ mask' = MaskFree(p)
  PROVE  /\ mask' \in [Word -> SUBSET Bit]
         /\ heap' \in SUBSET BigBlock
         /\ Live' = Live \ {p}
<1>1. p \in Node BY LiveIsNode
<1>2. CASE p \in BigBlock /\ heap' = heap \ {p} /\ mask' = mask
  <2>1. p \notin Slot BY <1>2, BlockAssumption
  <2>2. \A j \in Slot : IsFree(j)' <=> IsFree(j) BY <1>2 DEF IsFree
  <2> QED BY <1>2, <2>1, <2>2 DEF Live, StoreTypeOK
<1>3. CASE p \notin BigBlock /\ heap' = heap /\ mask' = MaskFree(p)
  <2>1. p \in Slot /\ p \notin heap BY <1>1, <1>3 DEF Node, StoreTypeOK
  <2>2. /\ mask' \in [Word -> SUBSET Bit]
        /\ \A j \in Slot : IsFree(j)' <=> j = p \/ IsFree(j)
    BY <1>3, <2>1, FreeSlot DEF StoreTypeOK
  <2> QED BY <1>3, <2>1, <2>2 DEF Live, StoreTypeOK
<1> QED BY <1>2, <1>3

LEMMA LiveSame ==
  ASSUME UNCHANGED <<mask, heap>>
  PROVE  Live' = Live
BY DEF Live, IsFree

-----------------------------------------------------------------------------
(* The inductive invariant.                                                *)

StoreInv == /\ StoreTypeOK
            /\ HoldsLines
            /\ Linked
            /\ FreeIsZero
            /\ FitsBuffer
            /\ RetainsScrollback

IInv == /\ StoreInv
        /\ ControlTypeOK
        /\ TailNotLogged
        /\ RecycleCount
        /\ DumpProgress
        /\ OutPending

LEMMA Sizes ==
  /\ LINE_BUFFER_NUM \in Nat
  /\ LINE_BUFFER_NUM \div 4 \in Nat
  /\ LINE_BUFFER_NUM \div 4 >= 1
  /\ LINE_BUFFER_NUM - LINE_BUFFER_NUM \div 4 >= 3
BY PoolAssumption

LEMMA InitInv == Init => IInv
<1> SUFFICES ASSUME Init PROVE IInv OBVIOUS
<1>1. 0 \in Slot /\ 0 \notin BigBlock BY PoolAssumption, BlockAssumption DEF Slot
<1>2. MaskWord(0) = 0 /\ MaskBit(0) = 0
  <2>1. 0 \div LINE_BUFFER_MASK_SIZE = 0 /\ 0 % LINE_BUFFER_MASK_SIZE = 0
    <3>1. LINE_BUFFER_MASK_SIZE \in Nat \ {0} BY PoolAssumption
    <3> QED BY <3>1
  <2> QED BY <1>1, <2>1, MaskIndex DEF MaskWord
<1>3. mask \in [Word -> SUBSET Bit] BY DEF Init
<1>4. \A i \in Slot : IsFree(i) <=> i # 0
  <2>1. 0 \in Word BY <1>1, <1>2, MaskIndex
  <2> TAKE i \in Slot
  <2>2. MaskWord(i) \in Word /\ MaskBit(i) \in Bit BY MaskIndex
  <2>3. CASE i = 0 BY <2>1, <2>3, <1>2 DEF Init, IsFree
  <2>4. CASE i # 0
    <3>1. MaskWord(i) # 0 \/ MaskBit(i) # 0 BY <1>1, <1>2, <2>4, MaskInjective
    <3> QED BY <3>1, <2>1, <2>2, <2>4 DEF Init, IsFree
  <2> QED BY <2>3, <2>4
<1>5. Live = {0} BY <1>1, <1>4 DEF Live, Init
<1>6. StoreTypeOK BY <1>1, <1>3 DEF Init, StoreTypeOK, Node
<1>7. ControlTypeOK BY Sizes DEF Init, ControlTypeOK
<1>8. HoldsLines BY <1>5, <1>1 DEF Init, HoldsLines, Node
<1>9. Linked BY <1>5, <1>1 DEF Init, Linked, Node
<1>10. FreeIsZero BY <1>5 DEF Init, FreeIsZero
<1>11. FitsBuffer BY <1>5, <1>1, TextAssumption DEF Init, FitsBuffer, Capacity, Node
<1>12. TailNotLogged BY <1>1 DEF Init, TailNotLogged, Node
<1>13. RetainsScrollback BY <1>1 DEF Init, RetainsScrollback, Node
<1> QED
  BY <1>6, <1>7, <1>8, <1>9, <1>10, <1>11, <1>12, <1>13
  DEF IInv, StoreInv, Init, RecycleCount, DumpProgress, OutPending

-----------------------------------------------------------------------------
(* Storing text in the last line.                                          *)

(* After any recycling the list has at least three lines; before the first
   one its head has no predecessor.  So prepare_big_line_buffer() sees a
   stale prev pointer in no case.                                          *)
LEMMA TailPrev ==
  ASSUME StoreInv
  PROVE  /\ tail \in Live /\ head \in Live /\ tail \in Node
         /\ tail = head => prev[tail] = NULL
         /\ tail # head => /\ prev[tail] \in Live \ {tail}
                           /\ line[prev[tail]] = line[tail] - 1
<1>1. tail \in Live /\ head \in Live /\ tail \in Node
  BY LiveIsNode DEF StoreInv, HoldsLines
<1>2. CASE tail = head
  <2>1. line[tail] = 1
    BY <1>1, <1>2, Sizes DEF StoreInv, RetainsScrollback, HoldsLines, StoreTypeOK
  <2> QED BY <1>1, <1>2, <2>1 DEF StoreInv, Linked
<1>3. CASE tail # head
  <2>1. prev[tail] \in Live /\ line[prev[tail]] = line[tail] - 1
    BY <1>1, <1>3 DEF StoreInv, Linked
  <2>2. line[tail] \in Nat BY <1>1 DEF StoreInv, StoreTypeOK
  <2>3. prev[tail] # tail BY <2>1, <2>2
  <2> QED BY <1>1, <1>3, <2>1, <2>3
<1> QED BY <1>1, <1>2, <1>3

LEMMA PrepareBigInv ==
  ASSUME StoreInv, tail \notin BigBlock,
         NEW b \in BigBlock \ heap, NEW l \in 0 .. BIG_LINE_BUFFER_CONTENT_MAX_LEN,
         PrepareBig(tail, b, l)
  PROVE  /\ StoreInv'
         /\ line'[head'] = line[head] /\ line'[tail'] = line[tail]
         /\ Live' = (Live \ {tail}) \cup {b}
         /\ b \notin Live /\ b # tail
         /\ tail' = b
         /\ \A p \in Live \ {tail} : line'[p] = line[p] /\ dirty'[p] = dirty[p]
         /\ line'[b] = line[tail] /\ dirty'[b] = dirty[tail]
<1>0. /\ StoreTypeOK /\ HoldsLines /\ Linked
      /\ FreeIsZero /\ FitsBuffer /\ RetainsScrollback
  BY DEF StoreInv
<1>1. /\ tail \in Live /\ head \in Live /\ tail \in Node
      /\ tail = head => prev[tail] = NULL
      /\ tail # head => /\ prev[tail] \in Live \ {tail}
                        /\ line[prev[tail]] = line[tail] - 1
  BY TailPrev
<1>2. tail \in Slot BY <1>1 DEF Node
<1>3. /\ b \notin Live /\ b # tail
      /\ mask' \in [Word -> SUBSET Bit]
      /\ Live' = (Live \ {tail}) \cup {b}
  BY <1>0, <1>2, LiveBig DEF PrepareBig
<1>4. next[tail] = NULL BY <1>0 DEF Linked
<1>5. NULL \notin Node /\ b \in Node /\ Live \subseteq Node
  BY <1>0, BlockAssumption, LiveIsNode DEF Node
<1>6. tail' = b /\ head' = IF tail = head THEN b ELSE head
  BY <1>1, <1>4, <1>5 DEF PrepareBig
<1>7. \A q \in Node : next'[q] = IF q = b \/ q = tail THEN NULL
                                 ELSE IF tail # head /\ q = prev[tail] THEN b
                                 ELSE next[q]
  <2> TAKE q \in Node
  <2>1. next'[q] = CASE q = b          -> next[tail]
                     [] q = tail       -> NULL
                     [] q = prev[tail] -> b
                     [] OTHER          -> next[q]
    BY DEF PrepareBig, NextWithBig
  <2>2. tail = head => q # prev[tail] BY <1>1, <1>5
  <2> HIDE DEF PrepareBig
  <2> QED BY <2>1, <2>2, <1>1, <1>3, <1>4
<1>8. \A q \in Node : prev'[q] = IF q = b THEN prev[tail]
                                 ELSE IF q = tail THEN NULL ELSE prev[q]
  BY <1>1, <1>4, <1>5 DEF PrepareBig, PrevWithBig
<1>9. \A q \in Node :
        /\ line'[q] = IF q = b THEN line[tail] ELSE IF q = tail THEN 0 ELSE line[q]
        /\ dirty'[q] = IF q = b THEN dirty[tail]
                       ELSE IF q = tail THEN FALSE ELSE dirty[q]
        /\ len'[q] = IF q = b THEN l ELSE IF q = tail THEN 0 ELSE len[q]
  BY <1>0, <1>1, <1>3, <1>5 DEF PrepareBig, Cleaned, NextWithBig, PrevWithBig, StoreTypeOK
<1>10. \A q \in Live : line[q] \in Nat /\ line[q] <= line[tail] /\ line[q] >= line[head]
  BY <1>0, <1>5 DEF HoldsLines, StoreTypeOK
<1>11. line'[head'] = line[head] /\ line'[tail'] = line[tail]
  BY <1>1, <1>3, <1>5, <1>6, <1>9
<1>12. StoreTypeOK'
  <2>1. head' \in Node /\ tail' \in Node BY <1>0, <1>5, <1>6 DEF StoreTypeOK
  <2>2. next' \in [Node -> Node \cup {NULL}]
    BY <1>0, <1>4, <1>5 DEF PrepareBig, Cleaned, NextWithBig, PrevWithBig, StoreTypeOK
  <2>3. prev' \in [Node -> Node \cup {NULL}]
    BY <1>0, <1>1, <1>4, <1>5 DEF PrepareBig, Cleaned, NextWithBig, PrevWithBig, StoreTypeOK
  <2>4. len' \in [Node -> Nat]
    BY <1>0, <1>1, <1>5, TextAssumption DEF PrepareBig, Cleaned, NextWithBig, PrevWithBig, StoreTypeOK
  <2>5. dirty' \in [Node -> BOOLEAN] /\ line' \in [Node -> Nat]
    BY <1>0, <1>1, <1>5 DEF PrepareBig, Cleaned, NextWithBig, PrevWithBig, StoreTypeOK
  <2>6. heap' \in SUBSET BigBlock BY <1>0 DEF PrepareBig, Cleaned, NextWithBig, PrevWithBig, StoreTypeOK
  <2> QED BY <2>1, <2>2, <2>3, <2>4, <2>5, <2>6, <1>3 DEF StoreTypeOK
<1>13. HoldsLines'
  <2>1. head' \in Live' /\ tail' \in Live' BY <1>1, <1>3, <1>6
  <2>2. \A p \in Live' : line'[p] > 0 /\ line'[p] \in line'[head'] .. line'[tail']
    <3> TAKE p \in Live'
    <3>1. \/ p = b /\ line'[p] = line[tail]
          \/ p \in Live /\ line'[p] = line[p]
      BY <1>3, <1>5, <1>9
    <3>2. \A q \in Live : line[q] > 0 BY <1>0 DEF HoldsLines
    <3> QED BY <3>1, <3>2, <1>1, <1>10, <1>11
  <2>3. \A p, q \in Live' : line'[p] = line'[q] => p = q
    <3> TAKE p, q \in Live'
    <3>1. \/ p = b /\ line'[p] = line[tail]
          \/ p \in Live /\ p # tail /\ line'[p] = line[p]
      BY <1>3, <1>5, <1>9
    <3>2. \/ q = b /\ line'[q] = line[tail]
          \/ q \in Live /\ q # tail /\ line'[q] = line[q]
      BY <1>3, <1>5, <1>9
    <3> QED BY <3>1, <3>2, <1>0, <1>1 DEF HoldsLines
  <2> QED BY <2>1, <2>2, <2>3 DEF HoldsLines
<1>14. Linked'
  <2>1. next'[tail'] = NULL BY <1>5, <1>6, <1>7
  <2>2. ASSUME NEW p \in Live' \ {tail'}
        PROVE  next'[p] \in Live' /\ line'[next'[p]] = line'[p] + 1
    <3>1. p \in Live \ {tail} /\ p # b /\ p \in Node BY <1>3, <1>5, <1>6
    <3>2. next[p] \in Live /\ line[next[p]] = line[p] + 1 BY <1>0, <3>1 DEF Linked
    <3>3. CASE tail # head /\ p = prev[tail]
      <4>1. next'[p] = b BY <1>7, <3>1, <3>3
      <4>2. line'[b] = line[tail] /\ line'[p] = line[p] BY <1>5, <1>9, <3>1
      <4>3. line[p] = line[tail] - 1 /\ line[tail] \in Nat BY <1>1, <1>10, <3>3
      <4> QED BY <1>3, <4>1, <4>2, <4>3
    <3>4. CASE ~(tail # head /\ p = prev[tail])
      <4>1. next[p] # tail
        <5>1. SUFFICES ASSUME next[p] = tail PROVE FALSE OBVIOUS
        <5>2. line[tail] = line[p] + 1 BY <5>1, <3>2
        <5>3. line[p] \in Nat /\ line[tail] \in Nat /\ line[p] >= line[head]
          BY <1>1, <1>10, <3>1
        <5>4. tail # head BY <5>2, <5>3
        <5>5. line[prev[tail]] = line[p] /\ prev[tail] \in Live
          BY <5>2, <5>3, <5>4, <1>1
        <5> QED BY <5>4, <5>5, <3>1, <3>4, <1>0 DEF HoldsLines
      <4> QED BY <1>3, <1>5, <1>7, <1>9, <3>1, <3>2, <3>4, <4>1
    <3> QED BY <3>3, <3>4
  <2>3. ASSUME NEW p \in Live' \ {head'}
        PROVE  prev'[p] \in Live' /\ line'[prev'[p]] = line'[p] - 1
    <3>1. CASE p = b
      BY <1>1, <1>3, <1>5, <1>6, <1>8, <1>9, <3>1
    <3>2. CASE p # b
      <4>1. p \in Live \ {tail} /\ p # head /\ p \in Node
        BY <1>3, <1>5, <1>6, <3>2
      <4>2. prev[p] \in Live /\ line[prev[p]] = line[p] - 1 BY <1>0, <4>1 DEF Linked
      <4>3. prev[p] # tail BY <4>1, <4>2, <1>10
      <4> QED BY <1>3, <1>5, <1>8, <1>9, <4>1, <4>2, <4>3
    <3> QED BY <3>1, <3>2
  <2>4. line'[head'] = 1 => prev'[head'] = NULL
    BY <1>0, <1>1, <1>3, <1>5, <1>6, <1>8, <1>11 DEF Linked
  <2> QED BY <2>1, <2>2, <2>3, <2>4 DEF Linked
<1>15. FreeIsZero'
  BY <1>0, <1>1, <1>3, <1>5, <1>7, <1>8, <1>9 DEF FreeIsZero
<1>16. FitsBuffer'
  <2> SUFFICES ASSUME NEW p \in Live' PROVE len'[p] <= Capacity(p)
    BY DEF FitsBuffer, Capacity
  <2>1. CASE p = b
    <3>1. len'[p] = l BY <2>1, <1>5, <1>9
    <3>2. Capacity(p) = BIG_LINE_BUFFER_CONTENT_MAX_LEN BY <2>1 DEF Capacity
    <3> QED BY <3>1, <3>2, TextAssumption
  <2>2. CASE p # b
    <3>1. p \in Live /\ len'[p] = len[p] BY <2>2, <1>3, <1>5, <1>9
    <3> QED BY <3>1, <1>0 DEF FitsBuffer
  <2> QED BY <2>1, <2>2
<1>17. RetainsScrollback' BY <1>0, <1>11 DEF RetainsScrollback
<1> QED BY <1>3, <1>5, <1>6, <1>9, <1>11, <1>12, <1>13, <1>14, <1>15, <1>16, <1>17
  DEF StoreInv

(* save_one_line() and replace_last_line_content() change what the console
   shows in no other way than the text of its last line.                   *)
LEMMA StoreInTailInv ==
  ASSUME StoreInv, dirty[tail],
         NEW total \in Nat, NEW l \in 0 .. CapacityFor(tail, total),
         StoreInTail(total, l)
  PROVE  /\ StoreInv'
         /\ line'[head'] = line[head] /\ line'[tail'] = line[tail]
         /\ dirty'[tail']
         /\ SavedLines' = SavedLines
<1>0. StoreTypeOK /\ tail \in Live /\ tail \in Node
  BY TailPrev DEF StoreInv
<1>1. CASE UNCHANGED store
  <2>1. Live' = Live BY <1>1, LiveSame DEF store
  <2> QED
    BY <1>1, <2>1 DEF store, StoreInv, StoreTypeOK, HoldsLines, Linked,
       FreeIsZero, FitsBuffer, RetainsScrollback, SavedLines, Capacity
<1>2. CASE /\ ~NeedsBig(tail, total)
           /\ len' = [len EXCEPT ![tail] = l]
           /\ UNCHANGED <<head, tail, prev, next, dirty, mask, heap, line>>
  <2>1. Live' = Live BY <1>2, LiveSame
  <2>2. l \in 0 .. Capacity(tail) BY <1>2 DEF CapacityFor
  <2>3. Capacity(tail) \in Nat BY TextAssumption DEF Capacity
  <2>4. StoreTypeOK' BY <1>0, <1>2, <2>2, <2>3 DEF StoreTypeOK
  <2>5. FitsBuffer'
    BY <1>0, <1>2, <2>1, <2>2, <2>3 DEF StoreInv, StoreTypeOK, FitsBuffer, Capacity
  <2>6. FreeIsZero'
    BY <1>0, <1>2, <2>1 DEF StoreInv, StoreTypeOK, FreeIsZero
  <2>7. HoldsLines' /\ Linked' /\ RetainsScrollback'
    BY <1>2, <2>1 DEF StoreInv, HoldsLines, Linked, RetainsScrollback
  <2>8. SavedLines' = SavedLines BY <1>2, <2>1 DEF SavedLines
  <2> QED BY <1>2, <2>4, <2>5, <2>6, <2>7, <2>8 DEF StoreInv
<1>3. CASE NeedsBig(tail, total) /\ \E b \in BigBlock \ heap : PrepareBig(tail, b, l)
  <2>1. PICK b \in BigBlock \ heap : PrepareBig(tail, b, l) BY <1>3
  <2>2. tail \notin BigBlock
    BY <1>3 DEF NeedsBig, BigFlag, LINE_BUFFER_FLAG_BIG
  <2>3. l \in 0 .. BIG_LINE_BUFFER_CONTENT_MAX_LEN BY <1>3 DEF CapacityFor
  <2>4. /\ StoreInv'
        /\ line'[head'] = line[head] /\ line'[tail'] = line[tail]
        /\ Live' = (Live \ {tail}) \cup {b}
        /\ b \notin Live /\ b # tail
        /\ tail' = b
        /\ \A p \in Live \ {tail} : line'[p] = line[p] /\ dirty'[p] = dirty[p]
        /\ line'[b] = line[tail] /\ dirty'[b] = dirty[tail]
    BY <2>1, <2>2, <2>3, PrepareBigInv
  <2>5. SavedLines' = SavedLines BY <2>4 DEF SavedLines
  <2> QED BY <2>4, <2>5
<1> QED BY <1>1, <1>2, <1>3 DEF StoreInTail

LEMMA SaveOneLineInv == IInv /\ SaveOneLine => IInv'
<1> SUFFICES ASSUME IInv, SaveOneLine PROVE IInv' OBVIOUS
<1> DEFINE total == len[tail] + Head(out)
<1> DEFINE l == Appended(total, CapacityFor(tail, total))
<1>1. /\ pc = "save" /\ StoreInTail(total, l) /\ log' = log
      /\ \/ Len(out) = 1 /\ Return
         \/ /\ Len(out) > 1 /\ pc' = "switch" /\ out' = Tail(out)
            /\ UNCHANGED <<left, cur, after>>
  BY DEF SaveOneLine
<1>2. StoreInv /\ ControlTypeOK /\ TailNotLogged /\ tail \in Node
  BY TailPrev DEF IInv
<1>3. out \in Seq(Nat) /\ out # <<>>
  BY <1>1 DEF IInv, OutPending, ControlTypeOK
<1>4. total \in Nat BY <1>2, <1>3 DEF StoreInv, StoreTypeOK
<1>5. l \in 0 .. CapacityFor(tail, total)
  BY <1>4, TextAssumption DEF Appended, CapacityFor, Capacity
<1> HIDE DEF total, l
<1>6. /\ StoreInv' /\ line'[head'] = line[head] /\ line'[tail'] = line[tail]
      /\ dirty'[tail']
  BY <1>1, <1>2, <1>4, <1>5, StoreInTailInv DEF TailNotLogged
<1>7. TailNotLogged' BY <1>1, <1>2, <1>6 DEF TailNotLogged
<1>8. head' \in Live' /\ head' \in Node
  BY <1>6 DEF StoreInv, StoreTypeOK, HoldsLines
<1>9. CASE Len(out) = 1 /\ Return
  <2>1. ControlTypeOK' BY <1>1, <1>2, <1>8, <1>9 DEF Return, DumpStart, ControlTypeOK
  <2>2. DumpProgress'
    <3> SUFFICES ASSUME pc' = "dump", NEW p \in Live', line'[p] < line'[cur']
                 PROVE  FALSE
      BY <1>8, <1>9 DEF Return, DumpStart, DumpProgress
    <3>1. cur' = head' BY <1>9 DEF Return, DumpStart
    <3>2. line'[p] \in line'[head'] .. line'[tail'] BY <1>6 DEF StoreInv, HoldsLines
    <3>3. line'[head'] \in Nat BY <1>8, <1>6 DEF StoreInv, StoreTypeOK
    <3> QED BY <3>1, <3>2, <3>3
  <2>3. RecycleCount' /\ OutPending' BY <1>9 DEF Return, RecycleCount, OutPending
  <2> QED BY <1>6, <1>7, <2>1, <2>2, <2>3 DEF IInv
<1>10. CASE Len(out) > 1 /\ pc' = "switch" /\ out' = Tail(out)
            /\ UNCHANGED <<left, cur, after>>
  <2>1. out' \in Seq(Nat) /\ out' # <<>>
    <3>1. Tail(out) \in Seq(Nat) /\ Len(Tail(out)) = Len(out) - 1
      BY <1>3
    <3>2. Len(out) \in Nat BY <1>3
    <3> QED BY <3>1, <3>2, <1>10
  <2>2. ControlTypeOK' BY <1>1, <1>2, <1>10, <2>1 DEF ControlTypeOK
  <2>3. DumpProgress' /\ RecycleCount' /\ OutPending'
    BY <1>10, <2>1 DEF DumpProgress, RecycleCount, OutPending
  <2> QED BY <1>6, <1>7, <2>2, <2>3 DEF IInv
<1> QED BY <1>1, <1>9, <1>10

LEMMA ReplaceLastLineInv ==
  ASSUME IInv, NEW n \in PromptLen, ReplaceLastLine(n)
  PROVE  IInv'
<1>1. StoreInv /\ ControlTypeOK /\ TailNotLogged BY DEF IInv
<1>2. n \in 0 .. BIG_LINE_BUFFER_CONTENT_MAX_LEN BY TextAssumption
<1>3. n \in Nat /\ n \in 0 .. CapacityFor(tail, n)
  BY <1>2, TextAssumption
  DEF CapacityFor, NeedsBig, Capacity, BigFlag, LINE_BUFFER_FLAG_BIG
<1>4. pc = "idle" /\ StoreInTail(n, n) /\ log' = log /\ UNCHANGED ctl
  BY DEF ReplaceLastLine
<1>5. StoreInv' /\ line'[tail'] = line[tail] /\ dirty'[tail']
  BY <1>1, <1>3, <1>4, StoreInTailInv DEF TailNotLogged
<1>6. TailNotLogged' BY <1>1, <1>4, <1>5 DEF TailNotLogged
<1>7. ControlTypeOK' BY <1>1, <1>4 DEF ControlTypeOK, ctl
<1> QED
  BY <1>4, <1>5, <1>6, <1>7
  DEF IInv, RecycleCount, DumpProgress, OutPending, ctl

-----------------------------------------------------------------------------
(* A new line.                                                             *)

LEMMA TakeSlotInv ==
  ASSUME IInv, TakeSlot
  PROVE  /\ IInv'
         /\ line'[head'] = line[head] /\ line'[tail'] = line[tail] + 1
         /\ SavedLines' = SavedLines
<1>0. /\ StoreTypeOK /\ HoldsLines /\ Linked /\ FreeIsZero /\ FitsBuffer
      /\ RetainsScrollback /\ ControlTypeOK /\ TailNotLogged /\ OutPending
  BY DEF IInv, StoreInv
<1>1. PICK i \in Avail : SwitchToNewLineBuffer(i) BY DEF TakeSlot
<1>2. pc \in {"switch", "retry"} BY DEF TakeSlot
<1> DEFINE n == line[tail] + 1
<1>3. /\ i \in Slot /\ i \notin Live
      /\ mask' \in [Word -> SUBSET Bit]
      /\ Live' = Live \cup {i}
  BY <1>0, <1>1, LiveTake DEF SwitchToNewLineBuffer
<1>4. /\ Live \subseteq Node /\ i \in Node /\ NULL \notin Node
      /\ head \in Live /\ tail \in Live /\ tail # i /\ head # i
  BY <1>0, <1>3, LiveIsNode, BlockAssumption DEF HoldsLines, Node
<1>5. /\ next' = [next EXCEPT ![tail] = i] /\ prev' = [prev EXCEPT ![i] = tail]
      /\ line' = [line EXCEPT ![i] = n] /\ dirty' = [dirty EXCEPT ![i] = TRUE]
      /\ tail' = i /\ pc' = "save"
      /\ UNCHANGED <<head, len, heap, log, out, left, cur, after>>
  BY <1>1 DEF SwitchToNewLineBuffer
<1>6. \A q \in Live : line[q] \in Nat /\ line[q] <= line[tail] /\ line[q] >= line[head]
                      /\ line[q] > 0
  BY <1>0, <1>4 DEF HoldsLines, StoreTypeOK
<1>7. \A q \in Node : /\ next'[q] = IF q = tail THEN i ELSE next[q]
                      /\ prev'[q] = IF q = i THEN tail ELSE prev[q]
                      /\ line'[q] = IF q = i THEN n ELSE line[q]
                      /\ dirty'[q] = IF q = i THEN TRUE ELSE dirty[q]
  BY <1>0, <1>5 DEF StoreTypeOK
<1>8. n \in Nat /\ n > line[tail] BY <1>4, <1>6
<1>9. line'[head'] = line[head] /\ line'[tail'] = n BY <1>4, <1>5, <1>7
<1>10. next[i] = NULL /\ len[i] = 0 BY <1>0, <1>3, <1>4 DEF FreeIsZero
<1>11. StoreTypeOK'
  BY <1>0, <1>3, <1>4, <1>5, <1>8 DEF StoreTypeOK
<1> HIDE DEF n
<1>new. \A p \in Live' :
         \/ p = i /\ line'[p] = n /\ dirty'[p]
         \/ p \in Live /\ p # i /\ line'[p] = line[p] /\ dirty'[p] = dirty[p]
  BY <1>3, <1>4, <1>7
<1>12. HoldsLines'
  <2>1. head' \in Live' /\ tail' \in Live' BY <1>3, <1>4, <1>5
  <2>2. \A p \in Live' : line'[p] > 0 /\ line'[p] \in line'[head'] .. line'[tail']
    <3> TAKE p \in Live'
    <3>1. line[tail] \in Nat /\ line[head] \in Nat /\ line[head] <= line[tail]
      BY <1>4, <1>6
    <3>2. CASE p = i BY <3>1, <3>2, <1>8, <1>9, <1>new
    <3>3. CASE p # i
      <4>1. p \in Live /\ line'[p] = line[p] BY <3>3, <1>new
      <4> QED BY <4>1, <3>1, <1>6, <1>8, <1>9
    <3> QED BY <3>2, <3>3
  <2>3. \A p, q \in Live' : line'[p] = line'[q] => p = q
    <3> TAKE p, q \in Live'
    <3>1. \A x \in Live : line[x] # n
      <4> TAKE x \in Live
      <4>1. line[x] \in Nat /\ line[x] <= line[tail] /\ line[tail] \in Nat
        BY <1>4, <1>6
      <4> QED BY <4>1, <1>8
    <3> QED BY <1>0, <1>new, <3>1 DEF HoldsLines
  <2> QED BY <2>1, <2>2, <2>3 DEF HoldsLines
<1>13. Linked'
  <2>1. next'[tail'] = NULL BY <1>4, <1>5, <1>7, <1>10
  <2>2. ASSUME NEW p \in Live' \ {tail'}
        PROVE  next'[p] \in Live' /\ line'[next'[p]] = line'[p] + 1
    <3>1. p \in Live /\ p \in Node /\ p # i BY <1>3, <1>4, <1>5
    <3>2. CASE p = tail
      <4>1. next'[p] = i /\ line'[i] = n /\ line'[p] = line[tail]
        BY <1>4, <1>7, <3>1, <3>2
      <4> QED BY <1>3, <4>1 DEF n
    <3>3. CASE p # tail
      <4>1. next[p] \in Live /\ line[next[p]] = line[p] + 1
        BY <1>0, <3>1, <3>3 DEF Linked
      <4>2. next[p] # i BY <4>1, <1>3
      <4> QED BY <1>3, <1>4, <1>7, <3>1, <3>3, <4>1, <4>2
    <3> QED BY <3>2, <3>3
  <2>3. ASSUME NEW p \in Live' \ {head'}
        PROVE  prev'[p] \in Live' /\ line'[prev'[p]] = line'[p] - 1
    <3>1. CASE p = i
      <4>1. prev'[p] = tail /\ line'[p] = n /\ line'[tail] = line[tail]
        BY <1>4, <1>7, <3>1
      <4>2. line[tail] \in Nat BY <1>4, <1>6
      <4> QED BY <1>3, <1>4, <4>1, <4>2 DEF n
    <3>2. CASE p # i
      <4>1. p \in Live \ {head} /\ p \in Node BY <1>3, <1>4, <1>5, <3>2
      <4>2. prev[p] \in Live /\ line[prev[p]] = line[p] - 1 BY <1>0, <4>1 DEF Linked
      <4>3. prev[p] # i BY <4>2, <1>3
      <4> QED BY <1>3, <1>4, <1>7, <3>2, <4>1, <4>2, <4>3
    <3> QED BY <3>1, <3>2
  <2>4. line'[head'] = 1 => prev'[head'] = NULL
    BY <1>0, <1>4, <1>5, <1>7, <1>9 DEF Linked
  <2> QED BY <2>1, <2>2, <2>3, <2>4 DEF Linked
<1>14. FreeIsZero'
  BY <1>0, <1>3, <1>4, <1>5, <1>7 DEF FreeIsZero
<1>15. FitsBuffer'
  BY <1>0, <1>3, <1>5, <1>10, TextAssumption DEF FitsBuffer, Capacity
<1>16. RetainsScrollback'
  BY <1>0, <1>4, <1>6, <1>8, <1>9, Sizes DEF RetainsScrollback
<1>17. TailNotLogged'
  <2>1. \A j \in DOMAIN log : log[j] \in Nat BY <1>0 DEF ControlTypeOK
  <2>2. ASSUME NEW j \in DOMAIN log PROVE log[j] < n
    <3>1. log[j] < line[tail] /\ log[j] \in Nat /\ line[tail] \in Nat
      BY <2>1, <1>0, <1>4, <1>6 DEF TailNotLogged
    <3> QED BY <3>1, <1>8
  <2>3. dirty'[tail'] BY <1>4, <1>5, <1>7
  <2> QED BY <2>2, <2>3, <1>5, <1>9 DEF TailNotLogged
<1>18. ControlTypeOK' BY <1>0, <1>5 DEF ControlTypeOK
<1>19. RecycleCount' /\ DumpProgress' /\ OutPending'
  BY <1>0, <1>2, <1>5 DEF RecycleCount, DumpProgress, OutPending
<1>20. SavedLines' = SavedLines
  <2>1. {q \in Live : ~dirty[q]}' = {q \in Live : ~dirty[q]}
    BY <1>3, <1>4, <1>new
  <2>2. \A q \in {x \in Live : ~dirty[x]} : line'[q] = line[q]
    BY <1>3, <1>new
  <2> QED BY <2>1, <2>2 DEF SavedLines
<1> QED
  BY <1>9, <1>11, <1>12, <1>13, <1>14, <1>15, <1>16, <1>17, <1>18, <1>19, <1>20
  DEF IInv, StoreInv, n

-----------------------------------------------------------------------------
(* Recycling.                                                              *)

(* With no slot free there is a line in each, so at least a pool of lines. *)
LEMMA FullPool ==
  ASSUME StoreInv, Avail = {}
  PROVE  line[tail] - line[head] + 1 >= LINE_BUFFER_NUM
<1>1. Slot \subseteq Live BY AvailIsFree DEF Live
<1>2. head \in Node /\ tail \in Node /\ line[head] \in Nat /\ line[tail] \in Nat
  BY DEF StoreInv, StoreTypeOK
<1>3. line[head] <= line[tail]
  BY <1>2 DEF StoreInv, HoldsLines
<1> DEFINE T == line[head] .. line[tail]
<1> DEFINE f == [i \in Slot |-> line[i]]
<1>4. IsFiniteSet(T) /\ Cardinality(T) = line[tail] - line[head] + 1
  BY <1>2, <1>3, FS_Interval
<1>5. IsFiniteSet(Slot) /\ Cardinality(Slot) = LINE_BUFFER_NUM
  <2>1. LINE_BUFFER_NUM - 1 \in Int /\ 0 \in Int /\ LINE_BUFFER_NUM >= 4
    BY PoolAssumption
  <2>2. /\ IsFiniteSet(0 .. LINE_BUFFER_NUM - 1)
        /\ Cardinality(0 .. LINE_BUFFER_NUM - 1)
             = IF 0 > LINE_BUFFER_NUM - 1 THEN 0 ELSE LINE_BUFFER_NUM - 1 - 0 + 1
    BY <2>1, FS_Interval
  <2> QED BY <2>1, <2>2, PoolAssumption DEF Slot
<1>6. f \in [Slot -> T] BY <1>1 DEF StoreInv, HoldsLines
<1>7. \A x, y \in Slot : f[x] = f[y] => x = y BY <1>1 DEF StoreInv, HoldsLines
<1> HIDE DEF T, f
<1>8. ~(Cardinality(T) < Cardinality(Slot))
  BY <1>4, <1>5, <1>6, <1>7, FS_PigeonHole
<1> QED BY <1>2, <1>4, <1>5, <1>8, PoolAssumption

LEMMA StartRecycleInv == IInv /\ StartRecycle => IInv'
<1> SUFFICES ASSUME IInv, StartRecycle PROVE IInv' OBVIOUS
<1>1. line[tail] - line[head] + 1 >= LINE_BUFFER_NUM
  BY FullPool DEF IInv, StartRecycle
<1>2. Live' = Live BY LiveSame DEF StartRecycle, store
<1>3. StoreInv'
  BY <1>2 DEF IInv, StartRecycle, store, StoreInv, StoreTypeOK, HoldsLines,
     Linked, FreeIsZero, FitsBuffer, RetainsScrollback, Capacity
<1>4. ControlTypeOK' BY Sizes DEF IInv, StartRecycle, RecycleNum, ControlTypeOK
<1>5. RecycleCount'
  <2>1. left' = LINE_BUFFER_NUM \div 4 /\ UNCHANGED <<line, head, tail>>
    BY DEF StartRecycle, RecycleNum, store
  <2> QED BY <1>1, <2>1, Sizes DEF RecycleCount
<1> QED
  BY <1>3, <1>4, <1>5
  DEF IInv, StartRecycle, store, TailNotLogged, DumpProgress, OutPending

(* Recycling the head neither reaches the tail nor leaves less than three
   quarters of a pool.                                                     *)
LEMMA RecycleHeadLineInv ==
  ASSUME IInv, RecycleHeadLine
  PROVE  /\ IInv'
         /\ line[tail] - line[head] >= LINE_BUFFER_NUM - LINE_BUFFER_NUM \div 4
         /\ line'[head'] = line[head] + 1 /\ line'[tail'] = line[tail]
         /\ SavedLines' = SavedLines \ {line[head]}
<1>0. /\ StoreTypeOK /\ HoldsLines /\ Linked /\ FreeIsZero /\ FitsBuffer
      /\ RecycleCount /\ ControlTypeOK /\ TailNotLogged /\ OutPending
  BY DEF IInv, StoreInv
<1>1. /\ pc = "recycle" /\ left > 0 /\ head' = next[head]
      /\ log' = Append(log, line[head])
      /\ next' = [next EXCEPT ![head] = NULL]
      /\ prev' = [prev EXCEPT ![head] = NULL]
      /\ len' = [len EXCEPT ![head] = 0]
      /\ dirty' = [dirty EXCEPT ![head] = FALSE]
      /\ line' = [line EXCEPT ![head] = 0]
      /\ left' = left - 1
      /\ UNCHANGED <<tail, pc, out, cur, after>>
  BY DEF RecycleHeadLine, Cleaned, Dumped
<1>2. /\ Live \subseteq Node /\ NULL \notin Node
      /\ head \in Live /\ tail \in Live
  BY <1>0, LiveIsNode, BlockAssumption DEF HoldsLines
<1>3. /\ mask' \in [Word -> SUBSET Bit]
      /\ heap' \in SUBSET BigBlock
      /\ Live' = Live \ {head}
  <2>1. \/ head \in BigBlock /\ heap' = heap \ {head} /\ mask' = mask
        \/ head \notin BigBlock /\ heap' = heap /\ mask' = MaskFree(head)
    BY DEF RecycleHeadLine, BigFlag, LINE_BUFFER_FLAG_BIG
  <2> QED BY <1>0, <1>2, <2>1, LiveRecycle
<1>4. \A q \in Live : line[q] \in Nat /\ line[q] <= line[tail] /\ line[q] >= line[head]
                      /\ line[q] > 0
  BY <1>0, <1>2 DEF HoldsLines, StoreTypeOK
<1>5. line[tail] - line[head] >= LINE_BUFFER_NUM - LINE_BUFFER_NUM \div 4
  <2>1. line[tail] - line[head] + 1 >=
          LINE_BUFFER_NUM - (LINE_BUFFER_NUM \div 4 - left)
    BY <1>0, <1>1 DEF RecycleCount
  <2>2. left \in Nat /\ left > 0 BY <1>0, <1>1, Sizes DEF ControlTypeOK
  <2>3. line[tail] \in Nat /\ line[head] \in Nat BY <1>2, <1>4
  <2> QED BY <2>1, <2>2, <2>3, Sizes
<1>6. head # tail /\ head' \in Live /\ line[head'] = line[head] + 1 /\ head' # head
  <2>1. head # tail BY <1>2, <1>4, <1>5, Sizes
  <2>2. next[head] \in Live /\ line[next[head]] = line[head] + 1
    BY <1>0, <1>2, <2>1 DEF Linked
  <2> QED BY <1>1, <1>2, <1>4, <2>1, <2>2
<1>7. \A q \in Node : /\ next'[q] = IF q = head THEN NULL ELSE next[q]
                      /\ prev'[q] = IF q = head THEN NULL ELSE prev[q]
                      /\ len'[q] = IF q = head THEN 0 ELSE len[q]
                      /\ dirty'[q] = IF q = head THEN FALSE ELSE dirty[q]
                      /\ line'[q] = IF q = head THEN 0 ELSE line[q]
  BY <1>0, <1>1 DEF StoreTypeOK
<1>8. line'[head'] = line[head] + 1 /\ line'[tail'] = line[tail]
  BY <1>1, <1>2, <1>6, <1>7
<1>9. \A q \in Live' : /\ q \in Live /\ q # head /\ line[q] > line[head]
                       /\ line'[q] = line[q] /\ dirty'[q] = dirty[q]
  <2> TAKE q \in Live'
  <2>1. q \in Live /\ q # head /\ q \in Node BY <1>2, <1>3
  <2>2. line[q] # line[head] BY <1>0, <1>2, <2>1 DEF HoldsLines
  <2>3. line[q] \in Nat /\ line[head] \in Nat /\ line[q] >= line[head]
    BY <1>2, <1>4, <2>1
  <2>4. line[q] > line[head] BY <2>2, <2>3
  <2> QED BY <1>7, <2>1, <2>4
<1>10. StoreTypeOK'
  BY <1>0, <1>1, <1>2, <1>3, <1>6 DEF StoreTypeOK
<1>11. HoldsLines'
  <2>1. head' \in Live' /\ tail' \in Live' BY <1>1, <1>2, <1>3, <1>6
  <2>2. \A p \in Live' : line'[p] > 0 /\ line'[p] \in line'[head'] .. line'[tail']
    <3> TAKE p \in Live'
    <3>1. line[head] \in Nat /\ line[tail] \in Nat BY <1>2, <1>4
    <3>2. line[p] \in Nat /\ line[p] > line[head] /\ line[p] <= line[tail]
          /\ line'[p] = line[p]
      BY <1>4, <1>9
    <3> QED BY <3>1, <3>2, <1>8
  <2>3. \A p, q \in Live' : line'[p] = line'[q] => p = q
    BY <1>0, <1>9 DEF HoldsLines
  <2> QED BY <2>1, <2>2, <2>3 DEF HoldsLines
<1>12. Linked'
  <2>1. next'[tail'] = NULL BY <1>0, <1>1, <1>2, <1>6, <1>7 DEF Linked
  <2>2. ASSUME NEW p \in Live' \ {tail'}
        PROVE  next'[p] \in Live' /\ line'[next'[p]] = line'[p] + 1
    <3>1. p \in Live /\ p \in Node /\ p # head /\ p # tail /\ line'[p] = line[p]
      BY <1>1, <1>2, <1>9
    <3>2. next[p] \in Live /\ line[next[p]] = line[p] + 1 BY <1>0, <3>1 DEF Linked
    <3>3. next[p] # head
      <4>1. line[p] \in Nat /\ line[p] > line[head] /\ line[head] \in Nat
        BY <1>2, <1>4, <1>9
      <4> QED BY <3>2, <4>1
    <3> QED BY <1>2, <1>3, <1>7, <3>1, <3>2, <3>3
  <2>3. ASSUME NEW p \in Live' \ {head'}
        PROVE  prev'[p] \in Live' /\ line'[prev'[p]] = line'[p] - 1
    <3>1. p \in Live /\ p \in Node /\ p # head /\ line'[p] = line[p]
      BY <1>2, <1>9
    <3>2. prev[p] \in Live /\ line[prev[p]] = line[p] - 1 BY <1>0, <3>1 DEF Linked
    <3>3. prev[p] # head
      <4>1. SUFFICES ASSUME prev[p] = head PROVE FALSE OBVIOUS
      <4>2. line[p] \in Nat /\ line[head] \in Nat BY <1>2, <1>4, <3>1
      <4>3. line[p] = line[head'] BY <1>6, <3>2, <4>1, <4>2
      <4> QED BY <4>3, <1>0, <1>6, <3>1 DEF HoldsLines
    <3> QED BY <1>2, <1>3, <1>7, <3>1, <3>2, <3>3
  <2>4. line'[head'] # 1
    <3>1. line[head] \in Nat /\ line[head] > 0 BY <1>2, <1>4
    <3> QED BY <3>1, <1>8
  <2> QED BY <2>1, <2>2, <2>3, <2>4 DEF Linked
<1>13. FreeIsZero' BY <1>0, <1>3, <1>7 DEF FreeIsZero
<1>14. FitsBuffer' BY <1>0, <1>2, <1>3, <1>7 DEF FitsBuffer, Capacity
<1>15. line'[tail'] - line'[head'] + 1 = line[tail] - line[head]
  BY <1>2, <1>4, <1>8
<1>16. RetainsScrollback' BY <1>5, <1>15 DEF RetainsScrollback
<1>17. TailNotLogged'
  <2>1. line[head] \in Nat /\ line[head] < line[tail]
    <3>1. line[head] \in Nat /\ line[tail] \in Nat BY <1>2, <1>4
    <3> QED BY <3>1, <1>5, Sizes
  <2>2. log \in Seq(Nat) BY <1>0 DEF ControlTypeOK
  <2>3. \A j \in DOMAIN log' :
          log'[j] = line[head] \/ (j \in DOMAIN log /\ log'[j] = log[j])
    <3>1. DOMAIN log = 1 .. Len(log) /\ Len(log) \in Nat BY <2>2
    <3>2. DOMAIN log' = 1 .. Len(log) + 1 BY <1>1, <2>1, <2>2
    <3>3. \A j \in 1 .. Len(log) + 1 :
            log'[j] = IF j = Len(log) + 1 THEN line[head] ELSE log[j]
      BY <1>1, <2>1, <2>2
    <3> QED BY <3>1, <3>2, <3>3
  <2>4. dirty'[tail'] BY <1>0, <1>1, <1>2, <1>6, <1>7 DEF TailNotLogged
  <2> QED BY <2>1, <2>3, <2>4, <1>0, <1>8 DEF TailNotLogged
<1>18. left' \in 0 .. LINE_BUFFER_NUM \div 4
  BY <1>0, <1>1, Sizes DEF ControlTypeOK
<1>19. ControlTypeOK'
  <2>1. log' \in Seq(Nat) BY <1>0, <1>1, <1>2, <1>4 DEF ControlTypeOK
  <2> QED BY <2>1, <1>0, <1>1, <1>18 DEF ControlTypeOK
<1>20. RecycleCount'
  <2>1. line[tail] - line[head] + 1 >=
          LINE_BUFFER_NUM - (LINE_BUFFER_NUM \div 4 - left)
    BY <1>0, <1>1 DEF RecycleCount
  <2>2. left \in Nat /\ left' = left - 1 BY <1>0, <1>1, Sizes DEF ControlTypeOK
  <2>3. line[tail] \in Nat /\ line[head] \in Nat BY <1>2, <1>4
  <2> QED BY <2>1, <2>2, <2>3, <1>15, Sizes DEF RecycleCount
<1>21. DumpProgress' /\ OutPending' BY <1>0, <1>1 DEF DumpProgress, OutPending
<1>22. SavedLines' = SavedLines \ {line[head]}
  <2>1. \A q \in Live : line[q] = line[head] <=> q = head
    BY <1>0, <1>2 DEF HoldsLines
  <2>2. {q \in Live : ~dirty[q]}' = {q \in Live : ~dirty[q]} \ {head}
    BY <1>3, <1>9
  <2>3. \A q \in {x \in Live : ~dirty[x]} \ {head} : line'[q] = line[q]
    BY <1>3, <1>9
  <2> QED BY <2>1, <2>2, <2>3 DEF SavedLines
<1> QED
  BY <1>5, <1>8, <1>10, <1>11, <1>12, <1>13, <1>14, <1>16, <1>17, <1>19, <1>20,
     <1>21, <1>22
  DEF IInv, StoreInv

-----------------------------------------------------------------------------
(* The dump loop.                                                          *)

LEMMA DumpLineInv ==
  ASSUME IInv, DumpLine
  PROVE  /\ IInv'
         /\ UNCHANGED <<head, tail, line, pc>>
         /\ pc = "dump" /\ cur \in Live /\ line[cur] > 0 /\ line[cur] < line[tail]
         /\ line[cur'] = line[cur] + 1
         /\ log' = IF line[cur] \in SavedLines THEN log ELSE Append(log, line[cur])
         /\ SavedLines' = SavedLines \cup {line[cur]}
<1>0. /\ StoreTypeOK /\ HoldsLines /\ Linked /\ FreeIsZero /\ FitsBuffer
      /\ RetainsScrollback /\ ControlTypeOK /\ TailNotLogged /\ DumpProgress
  BY DEF IInv, StoreInv
<1>1. /\ pc = "dump" /\ cur # tail /\ cur' = next[cur]
      /\ \/ /\ dirty[cur] /\ log' = Append(log, line[cur])
            /\ dirty' = [dirty EXCEPT ![cur] = FALSE]
         \/ /\ ~dirty[cur] /\ UNCHANGED <<log, dirty>>
      /\ UNCHANGED <<head, tail, prev, next, len, mask, heap, line, pc, out, left, after>>
  BY DEF DumpLine, DumpDone, Dumped, NextDumped
<1>2. cur \in Live /\ tail \in Live /\ Live \subseteq Node /\ Live' = Live
  BY <1>0, <1>1, LiveIsNode, LiveSame DEF DumpProgress, HoldsLines
<1>3. \A q \in Live : line[q] \in Nat /\ line[q] <= line[tail] /\ line[q] > 0
  BY <1>0, <1>2 DEF HoldsLines, StoreTypeOK
<1>4. line[cur] < line[tail]
  <2>1. line[cur] # line[tail] BY <1>0, <1>1, <1>2 DEF HoldsLines
  <2>2. line[cur] \in Nat /\ line[tail] \in Nat /\ line[cur] <= line[tail] BY <1>2, <1>3
  <2> QED BY <2>1, <2>2
<1>5. cur' \in Live /\ line[cur'] = line[cur] + 1 BY <1>0, <1>1, <1>2 DEF Linked
<1>6. \A q \in Node : dirty'[q] = IF q = cur THEN FALSE ELSE dirty[q]
  BY <1>0, <1>1, <1>2 DEF StoreTypeOK
<1>7. StoreTypeOK' BY <1>0, <1>1, <1>2 DEF StoreTypeOK
<1>8. HoldsLines' /\ Linked' /\ RetainsScrollback' /\ FitsBuffer'
  BY <1>0, <1>1, <1>2 DEF HoldsLines, Linked, RetainsScrollback, FitsBuffer, Capacity
<1>9. FreeIsZero'
  <2>1. \A q \in Node \ Live : ~dirty'[q] BY <1>0, <1>6 DEF FreeIsZero
  <2>2. \A q \in Node \ Live : /\ next'[q] = NULL /\ prev'[q] = NULL
                               /\ len'[q] = 0 /\ line'[q] = 0
    BY <1>0, <1>1 DEF FreeIsZero
  <2> QED BY <2>1, <2>2, <1>2 DEF FreeIsZero
<1>10. log' \in Seq(Nat)
  <2>1. log \in Seq(Nat) /\ line[cur] \in Nat BY <1>0, <1>2, <1>3 DEF ControlTypeOK
  <2>2. Append(log, line[cur]) \in Seq(Nat) BY <2>1
  <2> QED BY <2>1, <2>2, <1>1
<1>11. TailNotLogged'
  <2>1. log \in Seq(Nat) BY <1>0 DEF ControlTypeOK
  <2>2. \A j \in DOMAIN log' :
          log'[j] = line[cur] \/ (j \in DOMAIN log /\ log'[j] = log[j])
    <3>1. CASE log' = log BY <3>1
    <3>2. CASE log' = Append(log, line[cur])
      <4>1. DOMAIN log = 1 .. Len(log) /\ Len(log) \in Nat BY <2>1
      <4>2. line[cur] \in Nat BY <1>2, <1>3
      <4>3. DOMAIN log' = 1 .. Len(log) + 1 BY <3>2, <2>1, <4>2
      <4>4. \A j \in 1 .. Len(log) + 1 :
              log'[j] = IF j = Len(log) + 1 THEN line[cur] ELSE log[j]
        BY <3>2, <2>1, <4>2
      <4> QED BY <4>1, <4>3, <4>4
    <3> QED BY <3>1, <3>2, <1>1
  <2>3. dirty'[tail'] BY <1>0, <1>1, <1>2, <1>6 DEF TailNotLogged
  <2> QED BY <2>2, <2>3, <1>0, <1>1, <1>4 DEF TailNotLogged
<1>12. ControlTypeOK' BY <1>0, <1>1, <1>2, <1>5, <1>10 DEF ControlTypeOK
<1>13. DumpProgress'
  <2> SUFFICES ASSUME NEW p \in Live, line[p] < line[cur'] PROVE ~dirty'[p]
    BY <1>1, <1>2, <1>5 DEF DumpProgress
  <2>1. line[p] \in Nat /\ line[cur] \in Nat BY <1>2, <1>3
  <2>2. CASE line[p] = line[cur]
    BY <2>2, <1>0, <1>2, <1>6 DEF HoldsLines
  <2>3. CASE line[p] < line[cur]
    BY <2>3, <1>0, <1>1, <1>2, <1>6 DEF DumpProgress
  <2> QED BY <2>1, <2>2, <2>3, <1>5
<1>14. RecycleCount' /\ OutPending' BY <1>1 DEF RecycleCount, OutPending
<1>15. line[cur] \in SavedLines <=> ~dirty[cur]
  BY <1>0, <1>2 DEF SavedLines, HoldsLines
<1>16. SavedLines' = SavedLines \cup {line[cur]}
  <2>1. {q \in Live : ~dirty[q]}' = {q \in Live : ~dirty[q]} \cup {cur}
    BY <1>2, <1>6
  <2> QED BY <2>1, <1>1 DEF SavedLines
<1> QED
  BY <1>1, <1>2, <1>3, <1>4, <1>5, <1>7, <1>8, <1>9, <1>11, <1>12, <1>13, <1>14,
     <1>15, <1>16
  DEF IInv, StoreInv

LEMMA DumpEndInv == IInv /\ DumpEnd => IInv'
<1> SUFFICES ASSUME IInv, DumpEnd PROVE IInv' OBVIOUS
<1>1. Live' = Live BY LiveSame DEF DumpEnd, store
<1> QED
  BY <1>1
  DEF IInv, DumpEnd, store, StoreInv, StoreTypeOK, HoldsLines, Linked,
      FreeIsZero, FitsBuffer, RetainsScrollback, Capacity, ControlTypeOK,
      TailNotLogged, RecycleCount, DumpProgress, OutPending

-----------------------------------------------------------------------------
(* The steps that leave the store alone.                                   *)

LEMMA StoreSame == StoreInv /\ UNCHANGED store => StoreInv' /\ SavedLines' = SavedLines
<1> SUFFICES ASSUME StoreInv, UNCHANGED store
             PROVE  StoreInv' /\ SavedLines' = SavedLines
  OBVIOUS
<1>1. Live' = Live BY LiveSame DEF store
<1> QED
  BY <1>1
  DEF store, StoreInv, StoreTypeOK, HoldsLines, Linked, FreeIsZero, FitsBuffer,
      RetainsScrollback, Capacity, SavedLines

LEMMA ControlInv ==
  ASSUME IInv, UNCHANGED store,
         \/ \E o \in Output : Printv(o)
         \/ ExecLogfileFlush
         \/ ExecLogfileClear
         \/ EndRecycle
         \/ UNCHANGED vars
  PROVE  IInv'
<1>1. StoreInv' /\ line'[tail'] = line[tail] /\ dirty'[tail'] = dirty[tail]
  BY StoreSame DEF IInv, store
<1>2. CASE \E o \in Output : Printv(o)
  <2>1. PICK o \in Output : Printv(o) BY <1>2
  <2>2. o \in Seq(Nat) /\ o # <<>> BY TextAssumption
  <2> QED
    BY <1>1, <2>1, <2>2
    DEF IInv, Printv, ControlTypeOK, TailNotLogged, RecycleCount, DumpProgress,
        OutPending
<1>3. CASE ExecLogfileFlush
  <2>1. <<FlushMsgLen, 0>> \in Seq(Nat) /\ <<FlushMsgLen, 0>> # <<>>
    BY TextAssumption
  <2> QED
    BY <1>1, <1>3, <2>1
    DEF IInv, ExecLogfileFlush, ControlTypeOK, TailNotLogged, RecycleCount,
        DumpProgress, OutPending
<1>4. CASE ExecLogfileClear
  BY <1>1, <1>4
  DEF IInv, ExecLogfileClear, ctl, ControlTypeOK, TailNotLogged, RecycleCount,
      DumpProgress, OutPending
<1>5. CASE EndRecycle
  BY <1>1, <1>5
  DEF IInv, EndRecycle, ControlTypeOK, TailNotLogged, RecycleCount, DumpProgress,
      OutPending
<1>6. CASE UNCHANGED vars
  <2>1. Live' = Live BY LiveSame DEF store
  <2> QED
    BY <1>1, <1>6, <2>1
    DEF IInv, vars, ControlTypeOK, TailNotLogged, RecycleCount, DumpProgress,
        OutPending
<1> QED BY <1>2, <1>3, <1>4, <1>5, <1>6

LEMMA DropOutputInv == IInv /\ DropOutput => IInv'
<1> SUFFICES ASSUME IInv, DropOutput PROVE IInv' OBVIOUS
<1>1. UNCHANGED <<store, log>> /\ Return BY DEF DropOutput
<1>2. StoreInv' /\ line'[tail'] = line[tail] /\ dirty'[tail'] = dirty[tail]
  BY <1>1, StoreSame DEF IInv, store
<1>3. head' \in Live' /\ head' \in Node
  BY <1>2 DEF StoreInv, StoreTypeOK, HoldsLines
<1>4. DumpProgress'
  <2> SUFFICES ASSUME pc' = "dump", NEW p \in Live', line'[p] < line'[cur']
               PROVE  FALSE
    BY <1>1, <1>3 DEF Return, DumpStart, DumpProgress
  <2>1. cur' = head' BY <1>1 DEF Return, DumpStart
  <2>2. line'[p] \in line'[head'] .. line'[tail'] BY <1>2 DEF StoreInv, HoldsLines
  <2>3. line'[head'] \in Nat BY <1>2, <1>3 DEF StoreInv, StoreTypeOK
  <2> QED BY <2>1, <2>2, <2>3
<1>5. ControlTypeOK' BY <1>1, <1>3 DEF IInv, Return, DumpStart, ControlTypeOK
<1> QED
  BY <1>1, <1>2, <1>4, <1>5
  DEF IInv, Return, TailNotLogged, RecycleCount, OutPending

LEMMA NextInv == IInv /\ [Next]_vars => IInv'
<1> SUFFICES ASSUME IInv, [Next]_vars PROVE IInv' OBVIOUS
<1>1. CASE SaveOneLine BY <1>1, SaveOneLineInv
<1>2. CASE TakeSlot BY <1>2, TakeSlotInv
<1>3. CASE StartRecycle BY <1>3, StartRecycleInv
<1>4. CASE RecycleHeadLine BY <1>4, RecycleHeadLineInv
<1>5. CASE EndRecycle BY <1>5, ControlInv DEF EndRecycle
<1>6. CASE DropOutput BY <1>6, DropOutputInv
<1>7. CASE DumpLine BY <1>7, DumpLineInv
<1>8. CASE DumpEnd BY <1>8, DumpEndInv
<1>9. CASE \E o \in Output : Printv(o) BY <1>9, ControlInv DEF Printv
<1>10. CASE \E n \in PromptLen : ReplaceLastLine(n) BY <1>10, ReplaceLastLineInv
<1>11. CASE ExecLogfileFlush BY <1>11, ControlInv DEF ExecLogfileFlush
<1>12. CASE ExecLogfileClear BY <1>12, ControlInv DEF ExecLogfileClear
<1>13. CASE UNCHANGED vars BY <1>13, ControlInv DEF vars, store
<1> QED
  BY <1>1, <1>2, <1>3, <1>4, <1>5, <1>6, <1>7, <1>8, <1>9, <1>10, <1>11, <1>12,
     <1>13
  DEF Next, Step, Call

-----------------------------------------------------------------------------
(* The theorems.                                                           *)

(* The invariant holds in every reachable state.                           *)
THEOREM Invariance == Spec => []IInv
<1>1. IInv /\ [Next]_vars => IInv' BY NextInv
<1> QED BY InitInv, <1>1, PTL DEF Spec

(* Every variable keeps its type; in particular head and tail always point
   at a buffer, however many lines are recycled.                           *)
THEOREM TypeCorrect == Spec => []TypeOK
<1>1. IInv => TypeOK BY DEF IInv, StoreInv, TypeOK
<1> QED BY Invariance, <1>1, PTL

(* The buffers in use hold consecutive lines, each once: no slot is handed
   out twice and none is lost.                                             *)
THEOREM LinesHeld == Spec => []HoldsLines
<1>1. IInv => HoldsLines BY DEF IInv, StoreInv
<1> QED BY Invariance, <1>1, PTL

(* The lines are linked in order, both ways except before the head.        *)
THEOREM ListLinked == Spec => []Linked
<1>1. IInv => Linked BY DEF IInv, StoreInv
<1> QED BY Invariance, <1>1, PTL

(* A free buffer is all zeros.                                             *)
THEOREM FreeZeroed == Spec => []FreeIsZero
<1>1. IInv => FreeIsZero BY DEF IInv, StoreInv
<1> QED BY Invariance, <1>1, PTL

(* No line outgrows its buffer.                                            *)
THEOREM NoOverflow == Spec => []FitsBuffer
<1>1. IInv => FitsBuffer BY DEF IInv, StoreInv
<1> QED BY Invariance, <1>1, PTL

(* The line being written is never in the log.                             *)
THEOREM TailStaysOut == Spec => []TailNotLogged
<1>1. IInv => TailNotLogged BY DEF IInv
<1> QED BY Invariance, <1>1, PTL

(* At least three quarters of a pool of lines survive every recycling.     *)
THEOREM ScrollbackKept == Spec => []RetainsScrollback
<1>1. IInv => RetainsScrollback BY DEF IInv, StoreInv
<1> QED BY Invariance, <1>1, PTL

(* Printing, editing, recycling, flushing and moving a line to a heap block
   keep list, slots, flags and log consistent, whatever calloc() answers.  *)
THEOREM StoreSound == Spec => []StoreConsistent
BY TypeCorrect, ListLinked, FreeZeroed, NoOverflow, TailStaysOut, PTL
   DEF StoreConsistent

-----------------------------------------------------------------------------
(* The line store implements Console.                                      *)

LEMMA InitRefines == Init => Promise!CInit
<1> SUFFICES ASSUME Init PROVE Promise!CInit OBVIOUS
<1>1. \A q \in Live : dirty[q]
  <2>1. Live \subseteq {0}
    <3>1. IInv BY InitInv
    <3>2. \A q \in Live : q \in Node /\ line[q] > 0
      BY <3>1, LiveIsNode DEF IInv, StoreInv, HoldsLines
    <3>3. \A q \in Node : line[q] = IF q = 0 THEN 1 ELSE 0 BY DEF Init
    <3> QED BY <3>2, <3>3
  <2>2. 0 \in Node BY PoolAssumption DEF Node, Slot
  <2> QED BY <2>1, <2>2 DEF Init
<1>2. SavedLines = {} BY <1>1 DEF SavedLines
<1>3. 0 \in Node BY PoolAssumption DEF Node, Slot
<1> QED BY <1>2, <1>3 DEF Init, Promise!CInit

(* printv() returns: nothing the console shows changes, or a flush starts. *)
LEMMA ReturnRefines ==
  ASSUME IInv, pc # "dump", Return, log' = log, SavedLines' = SavedLines,
         line'[head'] = line[head], line'[tail'] = line[tail]
  PROVE  [Promise!CNext]_(Promise!cvars)
<1>1. CASE pc' = "idle" BY <1>1 DEF Promise!cvars
<1>2. CASE pc' = "dump" /\ cur' = head'
  BY <1>2 DEF Promise!CNext, Promise!Flush
<1> QED BY <1>1, <1>2 DEF Return, DumpStart

LEMMA NextRefines == IInv /\ [Next]_vars => [Promise!CNext]_(Promise!cvars)
<1> SUFFICES ASSUME IInv, [Next]_vars PROVE [Promise!CNext]_(Promise!cvars)
  OBVIOUS
<1>1. ASSUME UNCHANGED store, log' = log, pc # "dump", pc' # "dump"
      PROVE  UNCHANGED Promise!cvars
  BY <1>1, StoreSame DEF IInv, store, Promise!cvars
<1>2. CASE SaveOneLine
  <2> DEFINE total == len[tail] + Head(out)
  <2> DEFINE l == Appended(total, CapacityFor(tail, total))
  <2>1. pc = "save" /\ StoreInTail(total, l) /\ log' = log BY <1>2 DEF SaveOneLine
  <2>2. StoreInv /\ dirty[tail] /\ tail \in Node
    BY TailPrev DEF IInv, TailNotLogged
  <2>3. out \in Seq(Nat) /\ out # <<>>
    BY <2>1 DEF IInv, OutPending, ControlTypeOK
  <2>4. total \in Nat BY <2>2, <2>3 DEF StoreInv, StoreTypeOK
  <2>5. l \in 0 .. CapacityFor(tail, total)
    BY <2>4, TextAssumption DEF Appended, CapacityFor, Capacity
  <2> HIDE DEF total, l
  <2>6. /\ line'[head'] = line[head] /\ line'[tail'] = line[tail]
        /\ SavedLines' = SavedLines
    BY <2>1, <2>2, <2>4, <2>5, StoreInTailInv
  <2>7. CASE Return BY <2>1, <2>6, <2>7, ReturnRefines
  <2>8. CASE pc' = "switch" BY <2>1, <2>6, <2>8 DEF Promise!cvars
  <2> QED BY <1>2, <2>7, <2>8 DEF SaveOneLine
<1>3. CASE TakeSlot
  <2>1. /\ line'[head'] = line[head] /\ line'[tail'] = line[tail] + 1
        /\ SavedLines' = SavedLines
    BY <1>3, TakeSlotInv
  <2>2. pc # "dump" /\ pc' = "save" /\ log' = log
    BY <1>3 DEF TakeSlot, SwitchToNewLineBuffer
  <2> QED BY <2>1, <2>2 DEF Promise!CNext, Promise!NewLine
<1>4. CASE StartRecycle \/ EndRecycle BY <1>1, <1>4 DEF StartRecycle, EndRecycle
<1>5. CASE RecycleHeadLine
  <2>1. /\ line[tail] - line[head] >= LINE_BUFFER_NUM - LINE_BUFFER_NUM \div 4
        /\ line'[head'] = line[head] + 1 /\ line'[tail'] = line[tail]
        /\ SavedLines' = SavedLines \ {line[head]}
    BY <1>5, RecycleHeadLineInv
  <2>2. pc = "recycle" /\ pc' = pc /\ log' = Append(log, line[head])
    BY <1>5 DEF RecycleHeadLine, Dumped
  <2> QED BY <2>1, <2>2 DEF Promise!CNext, Promise!Evict
<1>6. CASE DropOutput
  <2>1. pc = "retry" /\ Return /\ UNCHANGED store /\ log' = log
    BY <1>6 DEF DropOutput
  <2>2. SavedLines' = SavedLines BY <2>1, StoreSame DEF IInv
  <2> QED BY <2>1, <2>2, ReturnRefines DEF store
<1>7. CASE DumpLine
  <2>1. /\ UNCHANGED <<head, tail, line, pc>>
        /\ pc = "dump" /\ line[cur] > 0 /\ line[cur] < line[tail]
        /\ line[cur'] = line[cur] + 1
        /\ log' = IF line[cur] \in SavedLines THEN log ELSE Append(log, line[cur])
        /\ SavedLines' = SavedLines \cup {line[cur]}
    BY <1>7, DumpLineInv
  <2> QED BY <2>1 DEF Promise!CNext, Promise!Sweep
<1>8. CASE DumpEnd
  <2>1. pc = "dump" /\ cur = tail /\ pc' = "idle" /\ UNCHANGED store /\ log' = log
    BY <1>8 DEF DumpEnd, DumpDone
  <2>2. SavedLines' = SavedLines BY <2>1, StoreSame DEF IInv
  <2> QED BY <2>1, <2>2 DEF store, Promise!CNext, Promise!Flushed
<1>9. CASE \E o \in Output : Printv(o) BY <1>1, <1>9 DEF Printv
<1>10. CASE \E n \in PromptLen : ReplaceLastLine(n)
  <2>1. PICK n \in PromptLen : ReplaceLastLine(n) BY <1>10
  <2>2. n \in 0 .. BIG_LINE_BUFFER_CONTENT_MAX_LEN BY TextAssumption
  <2>3. n \in Nat /\ n \in 0 .. CapacityFor(tail, n)
    BY <2>2, TextAssumption
    DEF CapacityFor, NeedsBig, Capacity, BigFlag, LINE_BUFFER_FLAG_BIG
  <2>4. /\ line'[head'] = line[head] /\ line'[tail'] = line[tail]
        /\ SavedLines' = SavedLines
    BY <2>1, <2>3, StoreInTailInv DEF IInv, TailNotLogged, ReplaceLastLine
  <2>5. pc = "idle" /\ pc' = pc /\ log' = log BY <2>1 DEF ReplaceLastLine, ctl
  <2> QED BY <2>4, <2>5 DEF Promise!cvars
<1>11. CASE ExecLogfileFlush BY <1>1, <1>11 DEF ExecLogfileFlush
<1>12. CASE ExecLogfileClear
  <2>1. pc = "idle" /\ pc' = pc /\ UNCHANGED store /\ log' = <<>>
    BY <1>12 DEF ExecLogfileClear, ctl
  <2>2. SavedLines' = SavedLines BY <2>1, StoreSame DEF IInv
  <2> QED BY <2>1, <2>2 DEF store, Promise!CNext, Promise!Clear
<1>13. CASE UNCHANGED vars
  <2>1. UNCHANGED store /\ log' = log /\ pc' = pc /\ cur' = cur
    BY <1>13 DEF vars, store
  <2>2. SavedLines' = SavedLines BY <2>1, StoreSame DEF IInv
  <2> QED BY <2>1, <2>2 DEF store, Promise!cvars
<1> QED
  BY <1>2, <1>3, <1>4, <1>5, <1>6, <1>7, <1>8, <1>9, <1>10, <1>11, <1>12, <1>13
  DEF Next, Step, Call

(* The line store implements the console: whatever the slots, mask bits,
   heap blocks and pointers do, lines come, are swept and leave as Console
   says.                                                                   *)
THEOREM Refinement == Spec => KeepsPromise
<1>1. IInv /\ [Next]_vars => [Promise!CNext]_(Promise!cvars) BY NextRefines
<1> QED BY InitRefines, Invariance, <1>1, PTL DEF Spec, KeepsPromise, Promise!CSpec

(* The console of Console never evicts its last line, never writes a line
   that is still being written, and a sweep leaves nothing unsaved behind. *)
LEMMA PromiseStep ==
  ASSUME Promise!CInv, [Promise!CNext]_(Promise!cvars)
  PROVE  Promise!CInv'
<1> USE DEF Promise!CInv
<1>1. CASE Promise!NewLine
  BY <1>1 DEF Promise!NewLine
<1>2. CASE Promise!Evict
  <2>1. log' \in Seq(Nat) /\ \A i \in DOMAIN log' : log'[i] < line'[tail']
    BY <1>2, Sizes DEF Promise!Evict
  <2>2. /\ line[head] \in Nat \ {0} /\ line[tail] \in Nat
        /\ line[tail] - line[head] >= 3
        /\ line'[head'] = line[head] + 1 /\ line'[tail'] = line[tail]
        /\ SavedLines' = SavedLines \ {line[head]}
        /\ SavedLines \subseteq line[head] .. line[tail] - 1
    BY <1>2, Sizes DEF Promise!Evict
  <2>3. ASSUME NEW i \in SavedLines'
        PROVE  i \in line'[head'] .. line'[tail'] - 1
    <3>1. i \in line[head] .. line[tail] - 1 /\ i # line[head]
      BY <2>2
    <3> QED
      BY <2>2, <3>1
  <2>4. (IF pc' = "dump" THEN line'[cur'] ELSE 0) = 0
    BY <1>2 DEF Promise!Evict
  <2>5. SavedLines' \subseteq line'[head'] .. line'[tail'] - 1
    BY <2>3
  <2>6. line'[head'] \in Nat \ {0} /\ line'[tail'] \in Nat /\ line'[head'] <= line'[tail']
    BY <2>2
  <2> QED
    BY <2>1, <2>4, <2>5, <2>6
<1>3. CASE Promise!Flush
  BY <1>3 DEF Promise!Flush
<1>4. CASE Promise!Sweep
  <2> DEFINE from == IF pc = "dump" THEN line[cur] ELSE 0
             to   == IF pc' = "dump" THEN line'[cur'] ELSE 0
  <2>1. log' \in Seq(Nat) /\ \A i \in DOMAIN log' : log'[i] < line'[tail']
    BY <1>4 DEF Promise!Sweep
  <2>2. /\ line[head] \in Nat \ {0} /\ line[tail] \in Nat
        /\ from \in line[head] .. line[tail] /\ from < line[tail]
        /\ line'[head'] = line[head] /\ line'[tail'] = line[tail] /\ to = from + 1
        /\ SavedLines \subseteq line[head] .. line[tail] - 1
        /\ line[head] .. from - 1 \subseteq SavedLines
        /\ SavedLines' = SavedLines \cup {from}
    BY <1>4 DEF Promise!Sweep
  <2> HIDE DEF from, to
  <2>3. /\ SavedLines' \subseteq line'[head'] .. line'[tail'] - 1
        /\ to \in line'[head'] .. line'[tail']
        /\ line'[head'] .. to - 1 \subseteq SavedLines'
    BY <2>2
  <2> QED
    BY <2>1, <2>2, <2>3 DEF to
<1>5. CASE Promise!Flushed
  BY <1>5 DEF Promise!Flushed
<1>6. CASE Promise!Clear
  BY <1>6 DEF Promise!Clear
<1>7. CASE UNCHANGED Promise!cvars
  BY <1>7 DEF Promise!cvars
<1> QED
  BY <1>1, <1>2, <1>3, <1>4, <1>5, <1>6, <1>7 DEF Promise!CNext

(* So neither does the line store: recycling (gvd_line_buffer.c:414-447)
   and dumping (gvd_line_buffer.c:85-110) keep the log file, the clean
   lines and the dump loop's cursor within the scrollback.                 *)
THEOREM PromiseSound == Spec => []Promise!CInv
<1>1. Promise!CInit => Promise!CInv
  BY DEF Promise!CInit, Promise!CInv
<1>2. Promise!CInv /\ [Promise!CNext]_(Promise!cvars) => Promise!CInv'
  BY PromiseStep
<1>3. IInv /\ [Next]_vars => [Promise!CNext]_(Promise!cvars)
  BY NextRefines
<1> QED
  BY InitRefines, Invariance, <1>1, <1>2, <1>3, PTL DEF Spec

(* A line leaves the scrollback only oldest first and into the log.        *)
THEOREM EvictionLogged == Spec => NothingLost
<1>1. IInv /\ [Next]_vars =>
        [\/ line'[head'] = line[head]
         \/ /\ line'[head'] = line[head] + 1
            /\ \E i \in DOMAIN log' : log'[i] = line[head]]_vars
  <2> SUFFICES ASSUME IInv, [Next]_vars
               PROVE  \/ line'[head'] = line[head]
                      \/ /\ line'[head'] = line[head] + 1
                         /\ \E i \in DOMAIN log' : log'[i] = line[head]
    OBVIOUS
  <2>1. [Promise!CNext]_(Promise!cvars) BY NextRefines
  <2>2. log \in Seq(Nat) BY DEF IInv, ControlTypeOK
  <2>3. line[head] \in Nat BY DEF IInv, StoreInv, StoreTypeOK
  <2>4. LET a == Append(log, line[head])
        IN  Len(log) + 1 \in DOMAIN a /\ a[Len(log) + 1] = line[head]
    BY <2>2, <2>3
  <2> QED
    BY <2>1, <2>4
    DEF Promise!CNext, Promise!cvars, Promise!NewLine, Promise!Evict,
        Promise!Flush, Promise!Sweep, Promise!Flushed, Promise!Clear
<1> QED BY Invariance, <1>1, PTL DEF Spec, NothingLost

(* A flush that returns leaves no complete line dirty.                     *)
THEOREM FlushCleans == Spec => FlushLeavesClean
<1>1. IInv /\ [Next]_vars =>
        [pc = "dump" /\ pc' = "idle" => \A p \in Live \ {tail} : ~dirty[p]]_vars
  <2> SUFFICES ASSUME IInv, [Next]_vars, pc = "dump", pc' = "idle",
                      NEW p \in Live \ {tail}
               PROVE  ~dirty[p]
    OBVIOUS
  <2>1. DumpEnd
    BY DEF Next, Step, Call, SaveOneLine, TakeSlot, StartRecycle, RecycleHeadLine,
       EndRecycle, DropOutput, DumpLine, Printv, ReplaceLastLine,
       ExecLogfileFlush, ExecLogfileClear, vars
  <2>2. cur = tail /\ DumpProgress BY <2>1 DEF DumpEnd, DumpDone, IInv
  <2>3. line[p] < line[tail]
    <3>1. p \in Node /\ tail \in Node /\ tail \in Live
      BY LiveIsNode DEF IInv, StoreInv, HoldsLines
    <3>2. line[p] <= line[tail] /\ line[p] # line[tail]
      BY <3>1 DEF IInv, StoreInv, HoldsLines, StoreTypeOK
    <3> QED BY <3>1, <3>2 DEF IInv, StoreInv, StoreTypeOK
  <2> QED BY <2>2, <2>3 DEF DumpProgress
<1> QED BY Invariance, <1>1, PTL DEF Spec, FlushLeavesClean

=============================================================================
