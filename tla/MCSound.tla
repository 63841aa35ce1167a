------------------------------- MODULE MCSound -------------------------------
(* Small instances of SoundRelay for TLC. *)
EXTENDS SoundRelay

A(format, mono, vibrate, type) == [format |-> format, mono |-> mono, vibrate |-> vibrate, type |-> type]

\* Stereo with and without vibration, mono with one, and a packet about video.
MCSorts == {A(1, 0, 0, 0), A(1, 0, 1, 0), A(1, 1, 1, 0), A(0, 0, 0, 1)}
=============================================================================
