------------------------------ MODULE MCImages ------------------------------
(***************************************************************************)
(* Two requests at a time about one row, over three milliseconds.          *)
(***************************************************************************)
EXTENDS ImageStore, TLC

Symmetric == Permutations(Slots)
=============================================================================
