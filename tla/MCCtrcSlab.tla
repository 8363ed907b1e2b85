----------------------------- MODULE MCCtrcSlab -----------------------------
(* A size_t of four bits: asking for 8 pages of 3 cells overflows the cell   *)
(* count, growing by 3 pages of 5 bytes and a header overflows the bytes.    *)
EXTENDS CtrcSlab

Requests == {1, 2, 3, 8}
=============================================================================
