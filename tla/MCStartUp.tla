------------------------------ MODULE MCStartUp ------------------------------
(* Small instances of StartUp for TLC. *)
EXTENDS StartUp
=============================================================================
