---------------------------- MODULE MCSessionLife ----------------------------
(* A handler and the web control, a session with two workers.                 *)
EXTENDS SessionLife
=============================================================================
