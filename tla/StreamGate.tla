----------------------------- MODULE StreamGate -----------------------------
(***************************************************************************)
(* What the video path promises the decoder, and through it the clients:   *)
(* one frame at a time, each a key frame or the frame that follows the one *)
(* shown before it in the console's stream.  A frame is known by the       *)
(* places of its first and last packet in that stream.                     *)
(***************************************************************************)
EXTENDS Integers

VARIABLE shown

Nothing == [first |-> 0, last |-> -1, idr |-> FALSE]

Init == shown = Nothing

Show ==
  /\ shown'.first <= shown'.last
  /\ shown'.idr \/ shown'.first = shown.last + 1

Spec == Init /\ [][Show]_shown
=============================================================================
