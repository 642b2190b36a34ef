--------------------------- MODULE MCStreamDriver ---------------------------
(* Small instances of StreamDriver. *)
EXTENDS StreamDriver
=============================================================================
