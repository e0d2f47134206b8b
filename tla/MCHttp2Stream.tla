--------------------------- MODULE MCHttp2Stream ---------------------------
(* Small instances of Http2Stream for TLC.                                 *)
EXTENDS Http2Stream
=============================================================================
