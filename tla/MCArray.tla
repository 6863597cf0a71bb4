------------------------------ MODULE MCArray ------------------------------
(* Values of the constants of Array: see MCArray.cfg. *)
EXTENDS Array
=============================================================================
