----------------------------- MODULE MCDownload -----------------------------
(* Two workers deliver the blocks of one connection or of two.              *)
EXTENDS Download, TLC

CONSTANTS c1, c2

Command(c, seq, cmd) == [conn |-> c, seq |-> seq, cmd |-> cmd]

\* Everything for one connection: data, an ack and the close.
OneConn == << << Command(c1, 1, "data"), Command(c1, 2, "ack") >>,
              << Command(c1, 3, "data") >>, << Command(c1, 4, "close") >> >>

\* Data and the close for one of two connections.
TwoConns == << << Command(c1, 1, "data") >>, << Command(c1, 2, "close") >> >>

Symmetry == Permutations(Workers)
=============================================================================
