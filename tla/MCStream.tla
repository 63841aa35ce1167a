------------------------------ MODULE MCStream ------------------------------
(* Small instances of VideoStream for TLC. *)
EXTENDS VideoStream
=============================================================================
