------------------------------- MODULE Absent -------------------------------
(***************************************************************************)
(* The value of a column that is null and of a row that is not there.      *)
(***************************************************************************)
CONSTANT None
=============================================================================
