----------------------------- MODULE ByteStream -----------------------------
(***************************************************************************)
(* What a user of the upload buffer may rely on: a byte stream that is     *)
(* written at one end and read at the other in numbered, non-empty blocks. *)
(* Bytes are named by their position in the stream, so "written" and       *)
(* "read" are two positions and a block is a pair of positions.  Nothing   *)
(* is said here about how blocks are cut or where they are kept.           *)
(***************************************************************************)
EXTENDS Integers

CONSTANT MaxBlock          \* no block is longer than this

VARIABLES written,         \* bytes written so far
          read,            \* bytes read so far
          block            \* the last block read: number, first, end

vars == <<written, read, block>>

NoBlock == [sn |-> 0, lo |-> 0, hi |-> 0]

Init == /\ written = 0
        /\ read = 0
        /\ block = NoBlock

Write == /\ written' > written
         /\ written' \in Nat
         /\ UNCHANGED <<read, block>>

\* The next block starts where the last one ended and has the next number.
Read == \E hi \in (read + 1) .. written :
           /\ hi - read <= MaxBlock
           /\ block' = [sn |-> block.sn + 1, lo |-> read, hi |-> hi]
           /\ read' = hi
           /\ UNCHANGED written

Reset == /\ written' = 0
         /\ read' = 0
         /\ block' = NoBlock

Next == Write \/ Read \/ Reset

Spec == Init /\ [][Next]_vars
=============================================================================
