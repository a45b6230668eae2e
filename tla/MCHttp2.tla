------------------------------- MODULE MCHttp2 -------------------------------
(* Two requests. A window for their headers and little more, so that frames    *)
(* are blocked, and one grant that is enough for two of them.                  *)
EXTENDS Http2
=============================================================================
