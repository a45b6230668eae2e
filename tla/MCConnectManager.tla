-------------------------- MODULE MCConnectManager --------------------------
(* Two callers, two connect threads; see the README for the bounds.         *)
EXTENDS ConnectManager
=============================================================================
