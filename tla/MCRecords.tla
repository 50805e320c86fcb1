----------------------------- MODULE MCRecords -----------------------------
(***************************************************************************)
(* Builtin types for TLC: one byte, and more, with the alignment of a      *)
(* pointer and with a lesser one.                                          *)
(***************************************************************************)
EXTENDS RecordLayout

MCScalars == {Ffi(1, 1), Ffi(4, 2), Ffi(4, 4)}
MCPointer == Ffi(4, 4)
=============================================================================
