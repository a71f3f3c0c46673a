---------------------------- MODULE MCCanSerial ----------------------------
(* CanSerial with small buffers and short ids inside and outside 1..29.    *)
EXTENDS CanSerial
Lens == {1, 2}
Ids == {1, 29, 30}
OneId == {1}
=============================================================================
