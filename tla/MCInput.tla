------------------------------ MODULE MCInput ------------------------------
(* Small instances of HidPacket, and with it of InputReport, for TLC. *)
EXTENDS HidPacket
=============================================================================
