-------------------------- MODULE MCHttpDispatcher --------------------------
(* One task, two workers it can be given to; see the README for the bounds. *)
EXTENDS HttpDispatcher, TLC

WorkerSymmetry == Permutations(Workers)
=============================================================================
