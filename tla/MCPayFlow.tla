------------------------------ MODULE MCPayFlow ------------------------------
(* Small instances of PayFlow. *)
EXTENDS PayFlow

NoFiles == {}
=============================================================================
