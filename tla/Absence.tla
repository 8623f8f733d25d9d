------------------------------- MODULE Absence -------------------------------
(***************************************************************************)
(* The value that stands for Python's None wherever a model of this        *)
(* project has a field that may be absent.                                 *)
(***************************************************************************)
CONSTANT None

=============================================================================
