-------------------------- MODULE SendBuffer_proofs --------------------------
(***************************************************************************)
(* Proofs about the upload buffer: its invariants hold for every payload   *)
(* size and every length of stream, and it implements ByteStream.          *)
(***************************************************************************)
EXTENDS SendBuffer, TLAPS

(***************************************************************************)
(* The number of cuts leaves between one byte and MaxPayload bytes in      *)
(* last_block: the while loop of add() stops exactly there.                *)
(***************************************************************************)
LEMMA CutsBounds ==
  ASSUME NEW len \in Nat \ {0}
  PROVE  /\ Cuts(len) \in Nat
         /\ Cuts(len) * MaxPayload < len
         /\ len <= Cuts(len) * MaxPayload + MaxPayload
BY SendBufferAssumption, SMT DEF Cuts

(***************************************************************************)
(* The places where add() cuts: consecutive cuts are MaxPayload apart.     *)
(* Stated apart because the product is not linear.                         *)
(***************************************************************************)
LEMMA CutPlaces ==
  ASSUME last_block.lo \in Nat, head_sn \in Nat
  PROVE  /\ CutAt(head_sn) = last_block.lo
         /\ \A sn \in Nat : sn >= head_sn =>
               CutAt(sn) \in Nat /\ CutAt(sn + 1) = CutAt(sn) + MaxPayload
         /\ \A sn, m \in Nat : sn >= head_sn /\ m >= sn => CutAt(sn) <= CutAt(m)
<1>1. CutAt(head_sn) = last_block.lo
  <2>1. head_sn - head_sn = 0
    OBVIOUS
  <2>2. 0 * MaxPayload = 0
    BY SendBufferAssumption, SMT
  <2>3. QED
    BY <2>1, <2>2 DEF CutAt
<1>2. ASSUME NEW sn \in Nat, sn >= head_sn
      PROVE  CutAt(sn) \in Nat /\ CutAt(sn + 1) = CutAt(sn) + MaxPayload
  <2>1. PICK i \in Nat : sn - head_sn = i /\ sn + 1 - head_sn = i + 1
    <3>1. sn - head_sn \in Nat /\ sn + 1 - head_sn = (sn - head_sn) + 1
      BY <1>2
    <3>2. QED
      BY <3>1
  <2>2. i * MaxPayload \in Nat /\ (i + 1) * MaxPayload = i * MaxPayload + MaxPayload
    BY SendBufferAssumption, SMT
  <2>3. CutAt(sn) = last_block.lo + i * MaxPayload
    BY <2>1 DEF CutAt
  <2>4. CutAt(sn + 1) = last_block.lo + (i + 1) * MaxPayload
    BY <2>1 DEF CutAt
  <2>5. QED
    BY <2>2, <2>3, <2>4, SendBufferAssumption
<1>3. ASSUME NEW sn \in Nat, NEW m \in Nat, sn >= head_sn, m >= sn
      PROVE  CutAt(sn) <= CutAt(m)
  <2>1. PICK i \in Nat, d \in Nat : sn - head_sn = i /\ m - head_sn = i + d
    <3>1. sn - head_sn \in Nat /\ m - sn \in Nat
          /\ m - head_sn = (sn - head_sn) + (m - sn)
      BY <1>3
    <3>2. QED
      BY <3>1
  <2>2. /\ i * MaxPayload \in Nat /\ d * MaxPayload \in Nat
        /\ (i + d) * MaxPayload = i * MaxPayload + d * MaxPayload
    BY SendBufferAssumption, SMT
  <2>3. CutAt(sn) = last_block.lo + i * MaxPayload
    BY <2>1 DEF CutAt
  <2>4. CutAt(m) = last_block.lo + (i + d) * MaxPayload
    BY <2>1 DEF CutAt
  <2>5. QED
    BY <2>2, <2>3, <2>4
<1>4. QED
  BY <1>1, <1>2, <1>3

(***************************************************************************)
(* The buffer of __init__ and of reset() satisfies the invariant.          *)
(***************************************************************************)
LEMMA InitBufInv == InitBuffer => BufInv
<1> SUFFICES ASSUME InitBuffer PROVE BufInv
  OBVIOUS
<1> USE SendBufferAssumption
    DEF InitBuffer, NoBlocks, Slice, Size, NextBlock, FirstByte, SliceSet
<1>1. BufTypeOK
  BY DEF BufTypeOK
<1>2. Contiguous /\ BlocksBefore
  BY DEF Contiguous, BlocksBefore
<1>3. PoolSizeExact /\ FetchContinues
  BY DEF PoolSizeExact, FetchContinues
<1>4. QED
  BY <1>1, <1>2, <1>3 DEF BufInv

\* The same for the next state: a buffer that has just been reset is well formed.
LEMMA InitBufInvPrime == InitBuffer' => BufInv'
<1>1. (InitBuffer => BufInv)'
  BY InitBufInv, PTL
<1>2. QED
  BY <1>1

(***************************************************************************)
(* add(data) keeps the invariant, however many blocks it cuts.             *)
(***************************************************************************)
LEMMA AddBufInv ==
  ASSUME BufInv, NEW n \in Nat \ {0}, Add(n)
  PROVE  BufInv'
<1> DEFINE cuts == Cuts(Size(last_block) + n)
<1> USE SendBufferAssumption DEF SliceSet, Slice
<1>1. /\ last_block.lo \in Nat /\ last_block.hi \in Nat
      /\ Size(last_block) + n \in Nat \ {0}
      /\ Size(last_block) = last_block.hi - last_block.lo
      /\ tail_sn \in Nat \ {0} /\ head_sn \in Nat \ {0} /\ tail_sn <= head_sn
      /\ DOMAIN block_list = tail_sn .. (head_sn - 1)
  BY DEF BufInv, BufTypeOK, Contiguous, Size
<1>2. /\ cuts \in Nat
      /\ CutAt(head_sn + cuts) \in Nat
      /\ CutAt(head_sn + cuts) < last_block.hi + n
      /\ last_block.hi + n <= CutAt(head_sn + cuts) + MaxPayload
  <2>1. /\ cuts \in Nat
        /\ cuts * MaxPayload < Size(last_block) + n
        /\ Size(last_block) + n <= cuts * MaxPayload + MaxPayload
    BY <1>1, CutsBounds
  <2>2. cuts * MaxPayload \in Nat
    BY <2>1, SMT
  <2> HIDE DEF cuts
  <2>3. (head_sn + cuts) - head_sn = cuts
    BY <1>1, <2>1
  <2>4. CutAt(head_sn + cuts) = last_block.lo + cuts * MaxPayload
    <3>1. CutAt(head_sn + cuts) = last_block.lo + ((head_sn + cuts) - head_sn) * MaxPayload
      BY DEF CutAt
    <3>2. QED
      BY <2>3, <3>1, Zenon
  <2>5. PICK p \in Nat : p = cuts * MaxPayload
    BY <2>2
  <2>6. p < Size(last_block) + n /\ Size(last_block) + n <= p + MaxPayload /\ cuts \in Nat
    BY <2>1, <2>5
  <2>7. CutAt(head_sn + cuts) = last_block.lo + p
    BY <2>4, <2>5
  <2>8. PICK lo \in Nat, hi \in Nat : lo = last_block.lo /\ hi = last_block.hi /\ Size(last_block) = hi - lo
    BY <1>1
  <2>9. QED
    BY <2>6, <2>7, <2>8
<1>3. /\ pool_size' = pool_size + n
      /\ head_sn' = head_sn + cuts
      /\ tail_sn' = tail_sn
      /\ fetched' = fetched
      /\ added' = added + n
      /\ last_block' = [lo |-> CutAt(head_sn + cuts), hi |-> last_block.hi + n]
      /\ block_list' = [sn \in DOMAIN block_list \cup head_sn .. (head_sn + cuts - 1) |->
                          IF sn \in head_sn .. (head_sn + cuts - 1)
                          THEN [lo |-> CutAt(sn), hi |-> CutAt(sn + 1)]
                          ELSE block_list[sn]]
  BY DEF Add
<1>4. \A sn \in Nat : sn >= head_sn =>
         CutAt(sn) \in Nat /\ CutAt(sn + 1) = CutAt(sn) + MaxPayload
  BY <1>1, CutPlaces
<1>5. CutAt(head_sn) = last_block.lo
  BY <1>1, CutPlaces
<1> HIDE DEF cuts
<1>6. DOMAIN block_list' = tail_sn' .. (head_sn' - 1)
  BY <1>1, <1>2, <1>3
<1>7. ASSUME NEW sn \in tail_sn .. (head_sn - 1)
      PROVE  sn \in tail_sn' .. (head_sn' - 1) /\ block_list'[sn] = block_list[sn]
  BY <1>1, <1>2, <1>3
<1>8. ASSUME NEW sn \in tail_sn' .. (head_sn' - 1), sn >= head_sn
      PROVE  /\ block_list'[sn].lo = CutAt(sn)
             /\ block_list'[sn].hi = CutAt(sn + 1)
             /\ block_list'[sn] \in SliceSet
  <2>1. sn \in Nat /\ sn \in head_sn .. (head_sn + cuts - 1)
    BY <1>8, <1>1, <1>2, <1>3
  <2>2. block_list'[sn] = [lo |-> CutAt(sn), hi |-> CutAt(sn + 1)]
    BY <2>1, <1>3
  <2>3. CutAt(sn) \in Nat /\ CutAt(sn + 1) \in Nat
    BY <2>1, <1>4, <1>8
  <2>4. QED
    BY <2>2, <2>3
<1>9. BufTypeOK'
  <2>1. ASSUME NEW sn \in tail_sn' .. (head_sn' - 1)
        PROVE  block_list'[sn] \in SliceSet
    <3>1. CASE sn < head_sn
      <4>1. sn \in tail_sn .. (head_sn - 1)
        BY <3>1, <1>1, <1>2, <1>3
      <4>2. QED
        BY <4>1, <1>7 DEF BufInv, BufTypeOK
    <3>2. CASE sn >= head_sn
      BY <3>2, <1>8
    <3>3. QED
      BY <3>1, <3>2, <1>1, <1>2, <1>3
  <2>2. block_list' \in [tail_sn' .. (head_sn' - 1) -> SliceSet]
    BY <2>1, <1>3, <1>6
  <2>3. last_block' \in SliceSet
    BY <1>1, <1>2, <1>3
  <2>4. pool_size' \in Nat /\ head_sn' \in Nat \ {0} /\ tail_sn' \in Nat \ {0}
        /\ added' \in Nat /\ fetched' \in [sn : Nat, lo : Nat, hi : Nat]
    <3>1. /\ pool_size \in Nat /\ added \in Nat
          /\ fetched \in [sn : Nat, lo : Nat, hi : Nat]
      BY DEF BufInv, BufTypeOK
    <3>2. pool_size' \in Nat /\ added' \in Nat
      BY <3>1, <1>3
    <3>3. head_sn' \in Nat \ {0} /\ tail_sn' \in Nat \ {0}
      BY <1>1, <1>2, <1>3
    <3>4. QED
      BY <3>1, <3>2, <3>3, <1>3
  <2>5. QED
    BY <2>2, <2>3, <2>4 DEF BufTypeOK
<1>10. Contiguous'
  <2>1. ASSUME NEW sn \in tail_sn' .. (head_sn' - 1)
        PROVE  /\ block_list'[sn].hi = block_list'[sn].lo + MaxPayload
               /\ block_list'[sn].hi = IF sn + 1 < head_sn'
                                       THEN block_list'[sn + 1].lo
                                       ELSE last_block'.lo
    <3>1. /\ sn \in Nat /\ tail_sn <= sn /\ sn < head_sn + cuts
          /\ sn + 1 < head_sn' => sn + 1 \in tail_sn' .. (head_sn' - 1)
      BY <1>1, <1>2, <1>3
    <3>2. CASE sn < head_sn
      <4>1. sn \in tail_sn .. (head_sn - 1)
        BY <3>1, <3>2, <1>1
      <4>2. /\ block_list'[sn] = block_list[sn]
            /\ block_list[sn].hi = block_list[sn].lo + MaxPayload
            /\ block_list[sn].hi = IF sn + 1 < head_sn THEN block_list[sn + 1].lo
                                                       ELSE last_block.lo
        BY <4>1, <1>7 DEF BufInv, Contiguous
      <4>3. CASE sn + 1 < head_sn
        <5>1. sn + 1 < head_sn' /\ sn + 1 \in tail_sn .. (head_sn - 1)
          BY <3>1, <4>3, <1>1, <1>2, <1>3
        <5>2. block_list'[sn + 1] = block_list[sn + 1]
          BY <5>1, <1>7
        <5>3. QED
          BY <4>2, <4>3, <5>1, <5>2
      <4>4. CASE sn + 1 = head_sn /\ cuts > 0
        <5>1. /\ ~(sn + 1 < head_sn) /\ sn + 1 < head_sn' /\ sn + 1 >= head_sn
              /\ sn + 1 \in tail_sn' .. (head_sn' - 1)
          BY <3>1, <4>4, <1>1, <1>2, <1>3
        <5>2. block_list'[sn + 1].lo = CutAt(sn + 1)
          BY <5>1, <1>8
        <5>3. QED
          BY <4>2, <4>4, <5>1, <5>2, <1>5
      <4>5. CASE sn + 1 = head_sn /\ cuts = 0
        <5>1. /\ ~(sn + 1 < head_sn) /\ ~(sn + 1 < head_sn')
              /\ head_sn + cuts = head_sn
          BY <4>5, <1>1, <1>2, <1>3
        <5>2. last_block'.lo = last_block.lo
          BY <5>1, <1>3, <1>5
        <5>3. QED
          BY <4>2, <5>1, <5>2
      <4>6. QED
        BY <3>1, <3>2, <4>3, <4>4, <4>5, <1>1, <1>2
    <3>3. CASE sn >= head_sn
      <4>1. /\ block_list'[sn].lo = CutAt(sn)
            /\ block_list'[sn].hi = CutAt(sn + 1)
            /\ CutAt(sn) \in Nat
            /\ CutAt(sn + 1) = CutAt(sn) + MaxPayload
        BY <3>1, <3>3, <1>4, <1>8
      <4>2. CASE sn + 1 < head_sn'
        <5>1. sn + 1 \in tail_sn' .. (head_sn' - 1) /\ sn + 1 >= head_sn
          BY <3>1, <3>3, <4>2, <1>1
        <5>2. block_list'[sn + 1].lo = CutAt(sn + 1)
          BY <5>1, <1>8
        <5>3. QED
          BY <4>1, <4>2, <5>2
      <4>3. CASE ~(sn + 1 < head_sn')
        <5>1. head_sn + cuts = sn + 1
          BY <3>1, <4>3, <1>1, <1>2, <1>3
        <5>2. last_block'.lo = CutAt(sn + 1)
          BY <5>1, <1>3
        <5>3. QED
          BY <4>1, <4>3, <5>2
      <4>4. QED
        BY <4>2, <4>3
    <3>4. QED
      BY <3>1, <3>2, <3>3, <1>1
  <2>2. /\ tail_sn' <= head_sn'
        /\ last_block'.lo <= last_block'.hi
        /\ last_block'.hi = added'
        /\ last_block'.hi - last_block'.lo <= MaxPayload
    <3>1. last_block.hi = added
      BY DEF BufInv, Contiguous
    <3>2. QED
      BY <3>1, <1>1, <1>2, <1>3
  <2>3. Size(last_block)' <= MaxPayload
    BY <2>2 DEF Size
  <2>4. QED
    BY <2>1, <2>2, <2>3 DEF Contiguous
<1>11. FirstByte' = FirstByte
  <2>1. CASE tail_sn < head_sn
    <3>1. tail_sn' < head_sn' /\ tail_sn \in tail_sn .. (head_sn - 1)
      BY <2>1, <1>1, <1>2, <1>3
    <3>2. block_list'[tail_sn] = block_list[tail_sn]
      BY <3>1, <1>7
    <3>3. QED
      BY <2>1, <3>1, <3>2, <1>3 DEF FirstByte, NextBlock
  <2>2. CASE tail_sn = head_sn /\ cuts = 0
    <3>1. /\ ~(tail_sn < head_sn) /\ ~(tail_sn' < head_sn')
          /\ head_sn + cuts = head_sn
      BY <2>2, <1>1, <1>3
    <3>2. last_block'.lo = last_block.lo
      BY <3>1, <1>3, <1>5
    <3>3. QED
      BY <3>1, <3>2 DEF FirstByte, NextBlock
  <2>3. CASE tail_sn = head_sn /\ cuts > 0
    <3>1. /\ ~(tail_sn < head_sn) /\ tail_sn' < head_sn' /\ tail_sn' = head_sn
          /\ head_sn \in tail_sn' .. (head_sn' - 1) /\ head_sn >= head_sn
      BY <2>3, <1>1, <1>2, <1>3
    <3>2. block_list'[head_sn].lo = last_block.lo
      BY <3>1, <1>5, <1>8
    <3>3. QED
      BY <3>1, <3>2 DEF FirstByte, NextBlock
  <2>4. QED
    BY <2>1, <2>2, <2>3, <1>1, <1>2
<1>12. PoolSizeExact' /\ FetchContinues'
  <2>1. FirstByte \in Nat
    BY <1>1 DEF BufInv, BufTypeOK, FirstByte, NextBlock
  <2>2. QED
    BY <2>1, <1>3, <1>11 DEF BufInv, BufTypeOK, PoolSizeExact, FetchContinues
<1>13. BlocksBefore'
  <2>1. SUFFICES ASSUME NEW sn \in tail_sn' .. (head_sn' - 1)
                 PROVE  block_list'[sn].hi <= last_block'.lo
    BY DEF BlocksBefore
  <2>2. CASE sn < head_sn
    <3>1. sn \in tail_sn .. (head_sn - 1)
      BY <2>2, <1>1, <1>2, <1>3
    <3>2. /\ block_list'[sn] = block_list[sn] /\ block_list[sn] \in SliceSet
          /\ block_list[sn].hi <= last_block.lo
      BY <3>1, <1>7 DEF BufInv, BufTypeOK, BlocksBefore
    <3>3. last_block.lo <= CutAt(head_sn + cuts)
      <4>1. /\ head_sn \in Nat /\ head_sn + cuts \in Nat
            /\ head_sn >= head_sn /\ head_sn + cuts >= head_sn
        BY <1>1, <1>2
      <4>2. CutAt(head_sn) <= CutAt(head_sn + cuts)
        BY <4>1, <1>1, CutPlaces
      <4>3. QED
        BY <4>2, <1>5
    <3>4. last_block'.lo = CutAt(head_sn + cuts) /\ CutAt(head_sn + cuts) \in Nat
      BY <1>2, <1>3
    <3>5. block_list[sn].hi \in Nat
      BY <3>2
    <3>6. QED
      BY <3>2, <3>3, <3>4, <3>5, <1>1
  <2>3. CASE sn >= head_sn
    <3>1. /\ sn \in Nat /\ sn + 1 \in Nat /\ sn + 1 >= head_sn
          /\ head_sn + cuts \in Nat /\ head_sn + cuts >= sn + 1
      BY <2>3, <1>1, <1>2, <1>3
    <3>2. CutAt(sn + 1) <= CutAt(head_sn + cuts)
      BY <3>1, <1>1, CutPlaces
    <3>3. QED
      BY <2>3, <3>2, <1>3, <1>8
  <2>4. QED
    BY <2>2, <2>3, <1>1, <1>2, <1>3
<1>14. QED
  BY <1>9, <1>10, <1>12, <1>13 DEF BufInv

(***************************************************************************)
(* get() keeps the invariant, from block_list and from last_block alike.   *)
(***************************************************************************)
LEMMA GetBufInv ==
  ASSUME BufInv, Get
  PROVE  BufInv' /\ fetched'.hi > fetched.hi /\ Size(NextBlock) <= MaxPayload
<1> USE SendBufferAssumption DEF SliceSet
<1>1. /\ tail_sn \in Nat \ {0} /\ head_sn \in Nat \ {0} /\ tail_sn <= head_sn
      /\ block_list \in [tail_sn .. (head_sn - 1) -> SliceSet]
      /\ last_block \in SliceSet /\ last_block.lo <= last_block.hi
      /\ last_block.hi = added /\ last_block.hi - last_block.lo <= MaxPayload
      /\ pool_size \in Nat /\ added \in Nat
      /\ pool_size = added - FirstByte
      /\ fetched.hi = FirstByte /\ tail_sn = fetched.sn + 1
  BY DEF BufInv, BufTypeOK, Contiguous, PoolSizeExact, FetchContinues, Size
<1>nums. tail_sn \in Nat \ {0} /\ head_sn \in Nat \ {0}
  BY <1>1
<1>2. /\ tail_sn' = tail_sn + 1
      /\ pool_size' = pool_size - (NextBlock.hi - NextBlock.lo)
      /\ fetched' = [sn |-> tail_sn, lo |-> NextBlock.lo, hi |-> NextBlock.hi]
      /\ added' = added
  BY DEF Get, Size
<1>3. CASE GetCut
  <2>1. /\ tail_sn < head_sn
        /\ block_list' = [sn \in DOMAIN block_list \ {tail_sn} |-> block_list[sn]]
        /\ head_sn' = head_sn /\ last_block' = last_block
        /\ NextBlock = block_list[tail_sn]
    BY <1>3 DEF GetCut, NextBlock
  <2>2. tail_sn \in tail_sn .. (head_sn - 1)
    BY <1>1, <2>1
  <2>3. /\ block_list[tail_sn] \in SliceSet
        /\ block_list[tail_sn].hi = block_list[tail_sn].lo + MaxPayload
        /\ block_list[tail_sn].hi = IF tail_sn + 1 < head_sn
                                    THEN block_list[tail_sn + 1].lo
                                    ELSE last_block.lo
    BY <2>2, <1>1 DEF BufInv, Contiguous
  <2>4. DOMAIN block_list \ {tail_sn} = tail_sn' .. (head_sn' - 1)
    <3>1. DOMAIN block_list = tail_sn .. (head_sn - 1) /\ tail_sn \in Nat /\ head_sn \in Nat
      BY <1>1
    <3>2. tail_sn' = tail_sn + 1 /\ head_sn' = head_sn
      BY <1>2, <2>1
    <3>3. (tail_sn .. (head_sn - 1)) \ {tail_sn} = (tail_sn + 1) .. (head_sn - 1)
      BY <3>1
    <3>4. QED
      BY <3>1, <3>2, <3>3
  <2>5. ASSUME NEW sn \in tail_sn' .. (head_sn' - 1)
        PROVE  sn \in tail_sn .. (head_sn - 1) /\ block_list'[sn] = block_list[sn]
    BY <1>1, <1>2, <2>1, <2>4
  <2>6. FirstByte' = NextBlock.hi
    <3>1. CASE tail_sn + 1 < head_sn
      <4>1. /\ tail_sn' < head_sn' /\ tail_sn' = tail_sn + 1
            /\ tail_sn + 1 \in tail_sn' .. (head_sn' - 1)
        <5>1. tail_sn' = tail_sn + 1 /\ head_sn' = head_sn
          BY <1>2, <2>1
        <5>2. QED
          BY <1>nums, <3>1, <5>1
      <4>2. block_list'[tail_sn + 1] = block_list[tail_sn + 1]
        BY <4>1, <2>5
      <4>3. FirstByte' = block_list'[tail_sn + 1].lo
        BY <4>1 DEF FirstByte, NextBlock
      <4>4. tail_sn \in tail_sn .. (head_sn - 1) /\ NextBlock = block_list[tail_sn]
        BY <1>1, <2>1 DEF NextBlock
      <4>5. block_list[tail_sn].hi = block_list[tail_sn + 1].lo
        BY <3>1, <4>4, <2>3
      <4>6. QED
        BY <4>2, <4>3, <4>4, <4>5
    <3>2. CASE ~(tail_sn + 1 < head_sn)
      <4>1. ~(tail_sn' < head_sn')
        BY <3>2, <1>2, <2>1
      <4>2. QED
        BY <3>2, <4>1, <2>1, <2>3 DEF FirstByte, NextBlock
    <3>3. QED
      BY <3>1, <3>2
  <2>7. FirstByte = NextBlock.lo
    BY DEF FirstByte
  <2>8. /\ NextBlock \in SliceSet /\ NextBlock.lo < NextBlock.hi
        /\ NextBlock.hi - NextBlock.lo <= MaxPayload
        /\ NextBlock.hi <= added
        /\ pool_size' = added - NextBlock.hi
    <3>1. block_list[tail_sn].hi <= last_block.lo
      BY <2>2 DEF BufInv, BlocksBefore
    <3>2. /\ NextBlock \in SliceSet /\ NextBlock.hi = NextBlock.lo + MaxPayload
          /\ NextBlock.hi <= last_block.lo
      BY <3>1, <2>1, <2>3
    <3>3. /\ NextBlock.lo \in Nat /\ NextBlock.hi \in Nat
          /\ last_block.lo \in Nat /\ last_block.hi \in Nat
      BY <3>2, <1>1
    <3>4. pool_size = added - NextBlock.lo
      BY <1>1, <2>7
    <3>5. pool_size' = pool_size - (NextBlock.hi - NextBlock.lo)
      BY <1>2
    <3>6. pool_size \in Nat /\ added \in Nat /\ last_block.lo <= added
      BY <3>3, <1>1
    <3>7. /\ NextBlock.lo < NextBlock.hi
          /\ NextBlock.hi - NextBlock.lo <= MaxPayload
          /\ NextBlock.hi <= added
      BY <3>2, <3>3, <3>6
    <3>8. pool_size' = added - NextBlock.hi
      BY <3>3, <3>4, <3>5, <3>6
    <3>9. QED
      BY <3>2, <3>7, <3>8
  <2>9. BufTypeOK'
    <3>1. block_list' \in [tail_sn' .. (head_sn' - 1) -> SliceSet]
      <4>1. ASSUME NEW sn \in tail_sn' .. (head_sn' - 1)
            PROVE  block_list'[sn] \in SliceSet
        BY <2>5, <1>1
      <4>2. QED
        BY <4>1, <2>1, <2>4
    <3>2. fetched' \in [sn : Nat, lo : Nat, hi : Nat]
      BY <1>1, <1>2, <2>8
    <3>3. pool_size' \in Nat /\ tail_sn' \in Nat \ {0}
      <4>1. NextBlock.hi \in Nat
        BY <2>8
      <4>2. pool_size' = added - NextBlock.hi /\ NextBlock.hi <= added
        BY <2>8
      <4>3. added \in Nat /\ tail_sn \in Nat /\ tail_sn' = tail_sn + 1
        BY <1>1, <1>2
      <4>4. QED
        BY <4>1, <4>2, <4>3
    <3>4. QED
      BY <3>1, <3>2, <3>3, <1>1, <1>2, <2>1 DEF BufTypeOK
  <2>10. Contiguous'
    <3>1. ASSUME NEW sn \in tail_sn' .. (head_sn' - 1)
          PROVE  /\ block_list'[sn].hi = block_list'[sn].lo + MaxPayload
                 /\ block_list'[sn].hi = IF sn + 1 < head_sn'
                                         THEN block_list'[sn + 1].lo
                                         ELSE last_block'.lo
      <4>1. /\ sn \in tail_sn .. (head_sn - 1) /\ block_list'[sn] = block_list[sn]
        BY <2>5
      <4>2. sn + 1 < head_sn' => block_list'[sn + 1] = block_list[sn + 1]
        <5>1. SUFFICES ASSUME sn + 1 < head_sn'
                       PROVE  block_list'[sn + 1] = block_list[sn + 1]
          OBVIOUS
        <5>2. sn + 1 \in tail_sn' .. (head_sn' - 1)
          BY <5>1, <1>1, <1>2, <2>1
        <5>3. QED
          BY <5>2, <2>5
      <4>3. QED
        BY <4>1, <4>2, <2>1 DEF BufInv, Contiguous
    <3>2. tail_sn' <= head_sn'
      BY <1>1, <1>2, <2>1
    <3>3. /\ last_block'.lo <= last_block'.hi
          /\ last_block'.hi = added'
          /\ Size(last_block)' <= MaxPayload
      BY <1>1, <1>2, <2>1 DEF Size
    <3>4. QED
      BY <3>1, <3>2, <3>3 DEF Contiguous
  <2>11. BlocksBefore'
    BY <2>1, <2>5 DEF BufInv, BlocksBefore
  <2>12. PoolSizeExact' /\ FetchContinues'
    BY <1>1, <1>2, <2>6, <2>8 DEF PoolSizeExact, FetchContinues
  <2>13. QED
    BY <1>1, <1>2, <2>7, <2>8, <2>9, <2>10, <2>11, <2>12 DEF BufInv, Size
<1>4. CASE GetLast
  <2>1. /\ tail_sn = head_sn /\ last_block.hi - last_block.lo > 0
        /\ last_block' = [lo |-> last_block.hi, hi |-> last_block.hi]
        /\ head_sn' = head_sn + 1 /\ tail_sn' = head_sn'
        /\ block_list' = block_list
        /\ NextBlock = last_block
    BY <1>1, <1>2, <1>4 DEF GetLast, NextBlock, Size, Slice
  <2>2. FirstByte = last_block.lo /\ FirstByte' = last_block.hi
    BY <1>1, <1>2, <2>1 DEF FirstByte, NextBlock
  <2>3. tail_sn .. (head_sn - 1) = {} /\ tail_sn' .. (head_sn' - 1) = {}
    <3>1. tail_sn = head_sn /\ tail_sn' = head_sn + 1 /\ head_sn' = head_sn + 1
      BY <2>1
    <3>2. QED
      BY <1>nums, <3>1
  <2>4. BufTypeOK'
    <3>1. /\ last_block.lo \in Nat /\ last_block.hi \in Nat
          /\ pool_size = added - last_block.lo
      BY <1>1, <2>2
    <3>2. /\ fetched' \in [sn : Nat, lo : Nat, hi : Nat]
          /\ last_block' \in SliceSet
      BY <3>1, <1>1, <1>2, <2>1
    <3>3. pool_size' \in Nat
      <4>1. pool_size' = pool_size - (last_block.hi - last_block.lo)
        BY <1>2, <2>1
      <4>2. last_block.hi = added /\ added \in Nat
        BY <1>1
      <4>3. QED
        BY <3>1, <4>1, <4>2
    <3>4. block_list' \in [tail_sn' .. (head_sn' - 1) -> SliceSet]
      BY <1>1, <2>1, <2>3
    <3>5. head_sn' \in Nat \ {0} /\ tail_sn' \in Nat \ {0} /\ added' \in Nat
      BY <1>nums, <1>1, <1>2, <2>1
    <3>6. QED
      BY <3>2, <3>3, <3>4, <3>5 DEF BufTypeOK
  <2>5. Contiguous' /\ BlocksBefore'
    BY <1>1, <1>2, <2>1, <2>3 DEF Contiguous, BlocksBefore, Size
  <2>6. PoolSizeExact' /\ FetchContinues'
    BY <1>1, <1>2, <2>1, <2>2 DEF PoolSizeExact, FetchContinues
  <2>7. QED
    BY <1>1, <1>2, <2>1, <2>2, <2>4, <2>5, <2>6 DEF BufInv, Size
<1>5. QED
  BY <1>3, <1>4 DEF Get

(***************************************************************************)
(* Every step of the buffer keeps the invariant.                           *)
(***************************************************************************)
LEMMA NextBufInv == BufInv /\ [NextBuffer]_bufVars => BufInv'
<1> SUFFICES ASSUME BufInv, [NextBuffer]_bufVars PROVE BufInv'
  OBVIOUS
<1>1. ASSUME NEW n \in 1 .. MaxBytes, Add(n) PROVE BufInv'
  BY <1>1, AddBufInv, SendBufferAssumption
<1>2. CASE Get
  BY <1>2, GetBufInv
<1>3. CASE ResetBuffer
  <2>1. InitBuffer'
    BY <1>3 DEF ResetBuffer, InitBuffer
  <2>2. QED
    BY <2>1, InitBufInvPrime
<1>4. CASE UNCHANGED bufVars
  BY <1>4 DEF bufVars, BufInv, BufTypeOK, Contiguous, BlocksBefore, PoolSizeExact,
              FetchContinues, FirstByte, NextBlock, Size
<1>5. QED
  BY <1>1, <1>2, <1>3, <1>4 DEF NextBuffer

(***************************************************************************)
(* The buffer's invariant: types, no hole and no overlap between the       *)
(* waiting blocks, an exact pool_size, and blocks handed out in order.     *)
(***************************************************************************)
THEOREM BufferInvariant ==
  SpecBuffer => [](BufTypeOK /\ Contiguous /\ PoolSizeExact /\ FetchContinues)
<1>1. SpecBuffer => []BufInv
  BY InitBufInv, NextBufInv, PTL DEF SpecBuffer
<1>2. BufInv => BufTypeOK /\ Contiguous /\ PoolSizeExact /\ FetchContinues
  BY DEF BufInv
<1>3. QED
  BY <1>1, <1>2, PTL

(***************************************************************************)
(* The buffer implements ByteStream: what add() takes in comes out of      *)
(* get() once, in order, in consecutively numbered blocks of 1 to          *)
(* MaxPayload bytes.                                                       *)
(***************************************************************************)
THEOREM BufferRefinesStream == SpecBuffer => StreamSpec
<1>1. InitBuffer => Stream!Init
  BY DEF InitBuffer, Stream!Init, Stream!NoBlock
<1>2. BufInv /\ [NextBuffer]_bufVars => [Stream!Next]_(Stream!vars)
  <2> SUFFICES ASSUME BufInv, [NextBuffer]_bufVars
               PROVE  Stream!Next \/ UNCHANGED Stream!vars
    OBVIOUS
  <2>1. ASSUME NEW n \in 1 .. MaxBytes, Add(n) PROVE Stream!Write
    BY <2>1, SendBufferAssumption DEF Add, Stream!Write, BufInv, BufTypeOK
  <2>2. ASSUME Get PROVE Stream!Read
    <3>1. /\ BufInv' /\ fetched'.hi > fetched.hi
          /\ Size(NextBlock) <= MaxPayload
      BY <2>2, GetBufInv
    <3>2. /\ fetched' = [sn |-> tail_sn, lo |-> NextBlock.lo, hi |-> NextBlock.hi]
          /\ added' = added
      BY <2>2 DEF Get
    <3>3. /\ fetched.hi = NextBlock.lo /\ tail_sn = fetched.sn + 1
      BY DEF BufInv, FetchContinues, FirstByte
    <3>4. /\ added \in Nat /\ fetched.hi \in Nat
      BY DEF BufInv, BufTypeOK
    <3>5. fetched'.hi \in Nat /\ fetched'.hi <= added
      <4>1. /\ fetched'.hi = FirstByte' /\ pool_size' \in Nat
            /\ pool_size' = added' - FirstByte' /\ fetched'.hi \in Nat
        BY <3>1 DEF BufInv, BufTypeOK, FetchContinues, PoolSizeExact
      <4>2. QED
        BY <4>1, <3>2, <3>4
    <3>6. fetched'.hi \in (fetched.hi + 1) .. added
      BY <3>1, <3>4, <3>5
    <3>7. fetched'.hi - fetched.hi <= MaxPayload
      BY <3>1, <3>2, <3>3 DEF Size
    <3>8. fetched' = [sn |-> fetched.sn + 1, lo |-> fetched.hi, hi |-> fetched'.hi]
      BY <3>2, <3>3
    <3>9. QED
      BY <3>2, <3>6, <3>7, <3>8 DEF Stream!Read
  <2>3. ASSUME ResetBuffer PROVE Stream!Reset
    BY <2>3 DEF ResetBuffer, Stream!Reset, Stream!NoBlock
  <2>4. CASE UNCHANGED bufVars
    BY <2>4 DEF bufVars, Stream!vars
  <2>5. QED
    BY <2>1, <2>2, <2>3, <2>4 DEF NextBuffer, Stream!Next
<1>3. SpecBuffer => []BufInv
  BY InitBufInv, NextBufInv, PTL DEF SpecBuffer
<1>4. QED
  BY <1>1, <1>2, <1>3, PTL DEF SpecBuffer, StreamSpec, Stream!Spec
=============================================================================
