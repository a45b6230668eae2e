----------------------------- MODULE SendBuffer -----------------------------
(***************************************************************************)
(* AsyncSendBuffer (x_tunnel/local/async_base_container.py): the buffer    *)
(* that joins what all connections upload into one byte stream and hands   *)
(* it to the round-trip workers in blocks numbered by sn.                  *)
(*                                                                         *)
(* A byte is named by its position in the upload stream, so every buffer   *)
(* of the code is a slice [lo, hi) of that stream: add() appends at        *)
(* position added, cutting a block is splitting a slice.  The asyncio lock *)
(* of the class guards bodies without an await, so each method is one      *)
(* step.                                                                   *)
(***************************************************************************)
EXTENDS Integers

CONSTANTS MaxPayload,      \* max_payload, the size at which a block is cut
          MaxBytes         \* bound: bytes added between two resets

ASSUME SendBufferAssumption == /\ MaxPayload \in Nat \ {0}
                               /\ MaxBytes \in Nat

VARIABLES pool_size,       \* len(send_buffer)
          head_sn,         \* number the next cut block gets
          tail_sn,         \* number of the next block get() returns
          block_list,      \* sn -> slice, the blocks cut and not fetched
          last_block,      \* slice still growing
          added,           \* history: length of the stream given to add()
          fetched          \* history: what the last get() returned

bufVars == <<pool_size, head_sn, tail_sn, block_list, last_block, added, fetched>>

Size(slice) == slice.hi - slice.lo
Slice(lo, hi) == [lo |-> lo, hi |-> hi]
NoBlocks == [sn \in {} |-> Slice(0, 0)]

InitBuffer == /\ pool_size = 0
              /\ head_sn = 1
              /\ tail_sn = 1
              /\ block_list = NoBlocks
              /\ last_block = Slice(0, 0)
              /\ added = 0
              /\ fetched = [sn |-> 0, lo |-> 0, hi |-> 0]

(***************************************************************************)
(* add(data), Len(data) = n > 0: the bytes are appended to last_block,     *)
(* which is then cut into blocks of MaxPayload while it is longer than     *)
(* that.                                                                   *)
(***************************************************************************)
\* (Mutant: a block is cut one byte too late.)
CutsLate(len) == (len - 1) \div (MaxPayload + 1)

\* Turns of the while loop, and where the block numbered sn then starts.
Cuts(len) == (len - 1) \div MaxPayload
CutAt(sn) == last_block.lo + (sn - head_sn) * MaxPayload

Add(n) ==
  LET cuts == Cuts(Size(last_block) + n)
      cut  == head_sn .. (head_sn + cuts - 1)
  IN  /\ added + n <= MaxBytes
      /\ pool_size' = pool_size + n
      /\ head_sn' = head_sn + cuts
      /\ block_list' = [sn \in DOMAIN block_list \cup cut |->
                          IF sn \in cut THEN Slice(CutAt(sn), CutAt(sn + 1))
                                        ELSE block_list[sn]]
      /\ last_block' = Slice(CutAt(head_sn + cuts), last_block.hi + n)
      /\ added' = added + n
      /\ UNCHANGED <<tail_sn, fetched>>

(***************************************************************************)
(* get(): the oldest cut block, else what last_block holds.  With nothing  *)
(* to return it changes nothing and returns sn 0.                          *)
(***************************************************************************)
NextBlock == IF tail_sn < head_sn THEN block_list[tail_sn] ELSE last_block

GetCut == /\ tail_sn < head_sn
          /\ block_list' = [sn \in DOMAIN block_list \ {tail_sn} |-> block_list[sn]]
          /\ UNCHANGED <<head_sn, last_block>>

\* (Mutant: last_block is not emptied.)
GetLastKeeps == /\ tail_sn >= head_sn
                /\ Size(last_block) > 0
                /\ head_sn' = head_sn + 1
                /\ UNCHANGED <<block_list, last_block>>

GetLast == /\ tail_sn >= head_sn
           /\ Size(last_block) > 0
           /\ last_block' = Slice(last_block.hi, last_block.hi)
           /\ head_sn' = head_sn + 1
           /\ UNCHANGED block_list

Get == /\ GetCut \/ GetLast
       /\ tail_sn' = tail_sn + 1
       /\ pool_size' = pool_size - Size(NextBlock)
       /\ fetched' = [sn |-> tail_sn, lo |-> NextBlock.lo, hi |-> NextBlock.hi]
       /\ UNCHANGED added

\* reset(): the numbering restarts, and with it the stream.
ResetBuffer == /\ pool_size' = 0
               /\ head_sn' = 1
               /\ tail_sn' = 1
               /\ block_list' = NoBlocks
               /\ last_block' = Slice(0, 0)
               /\ added' = 0
               /\ fetched' = [sn |-> 0, lo |-> 0, hi |-> 0]

NextBuffer == \/ \E n \in 1 .. MaxBytes : Add(n)
              \/ Get
              \/ ResetBuffer

SpecBuffer == InitBuffer /\ [][NextBuffer]_bufVars

-----------------------------------------------------------------------------
(***************************************************************************)
(* Properties                                                              *)
(***************************************************************************)
SliceSet == [lo : Nat, hi : Nat]

\* Types of the buffer's fields.
BufTypeOK == /\ pool_size \in Nat
             /\ head_sn \in Nat \ {0}
             /\ tail_sn \in Nat \ {0}
             /\ block_list \in [tail_sn .. (head_sn - 1) -> SliceSet]
             /\ last_block \in SliceSet
             /\ added \in Nat
             /\ fetched \in [sn : Nat, lo : Nat, hi : Nat]

\* First byte still in the buffer.
FirstByte == NextBlock.lo

\* The blocks waiting in block_list and then last_block are the unread rest
\* of the stream, with no hole and no overlap, each cut block exactly
\* MaxPayload long: what add() and get() rely on when they go by numbers.
Contiguous ==
  /\ tail_sn <= head_sn
  /\ \A sn \in tail_sn .. (head_sn - 1) :
        /\ block_list[sn].hi = block_list[sn].lo + MaxPayload
        /\ block_list[sn].hi = IF sn + 1 < head_sn THEN block_list[sn + 1].lo
                                                   ELSE last_block.lo
  /\ last_block.lo <= last_block.hi
  /\ last_block.hi = added
  /\ Size(last_block) <= MaxPayload

\* pool_size, the number the session's sending decisions look at, is the
\* number of bytes really waiting: it never drifts from the blocks.
PoolSizeExact == pool_size = added - FirstByte

\* get() continues where it last stopped: the next block starts at the last
\* fetched byte and has the next number.
FetchContinues == /\ fetched.hi = FirstByte
                  /\ tail_sn = fetched.sn + 1

\* Every cut block lies before last_block.  It follows from Contiguous by
\* induction on sn; the proofs carry it along instead.
BlocksBefore == \A sn \in tail_sn .. (head_sn - 1) :
                   block_list[sn].hi <= last_block.lo

\* The inductive invariant.
BufInv == /\ BufTypeOK
          /\ Contiguous
          /\ BlocksBefore
          /\ PoolSizeExact
          /\ FetchContinues

\* The buffer is a byte stream cut in numbered blocks of at most MaxPayload:
\* add() may cross the limit or end on it, while earlier blocks
\* wait or have been fetched; no byte is lost or repeated, no block is empty.
Stream == INSTANCE ByteStream WITH MaxBlock <- MaxPayload,
                                   written  <- added,
                                   read     <- fetched.hi,
                                   block    <- fetched
StreamSpec == Stream!Spec
=============================================================================
