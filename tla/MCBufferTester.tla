--------------------------- MODULE MCBufferTester ---------------------------
(* Small instances of BufferTester. *)
EXTENDS BufferTester, TLC
=============================================================================
