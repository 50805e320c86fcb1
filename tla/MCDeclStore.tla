---------------------------- MODULE MCDeclStore ----------------------------
(***************************************************************************)
(* DeclStore for TLC; the .cfg files give the names and the bounds.        *)
(***************************************************************************)
EXTENDS DeclStore
=============================================================================
