--------------------------- MODULE ReliableStream ---------------------------
(***************************************************************************)
(* What the upload of a session promises: the bytes written by the         *)
(* connections reach the server in order and complete, and the client      *)
(* keeps each byte until it has.                                           *)
(***************************************************************************)
EXTENDS Integers

VARIABLES written,         \* bytes written so far
          delivered,       \* bytes the server has, without a hole
          released         \* bytes the client no longer keeps

streamVars == <<written, delivered, released>>

Init == written = 0 /\ delivered = 0 /\ released = 0

Write == /\ written' > written
         /\ UNCHANGED <<delivered, released>>

\* Bytes arrive.
Deliver == /\ delivered' \in delivered .. written
           /\ delivered' > delivered
           /\ UNCHANGED <<written, released>>

\* The client learns that bytes have arrived and forgets them.
Release == /\ released' \in released .. delivered
           /\ released' > released
           /\ UNCHANGED <<written, delivered>>

Spec == Init /\ [][Write \/ Deliver \/ Release]_streamVars

\* Nothing is stuck on its way or kept for ever.
Progress == WF_streamVars(Deliver) /\ WF_streamVars(Release)
=============================================================================
