------------------------------ MODULE Sessions ------------------------------
(***************************************************************************)
(* The host processes that share one runtime directory.                    *)
(***************************************************************************)
CONSTANT Session

=============================================================================
