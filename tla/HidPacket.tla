------------------------------- MODULE HidPacket -------------------------------
(***************************************************************************)
(* The report of InputReport as the console gets it (Input::send_hid_update,*)
(* InputPacketWiiU.h): a packed structure whose numbers have their high     *)
(* byte first. Not so the touchscreen: its words have the low byte first,   *)
(* and their bit fields begin at the highest bit for the console, at the    *)
(* lowest in memory.                                                       *)
(***************************************************************************)
EXTENDS InputReport, BitUtil

\* What the report has for a kind of input, and for an axis of the sticks.
Out(kind, axis) ==
  LET at == {j \in 1..Len(Program) : Program[j] = [kind |-> kind, axis |-> axis]}
  IN IF at = {} THEN Released([kind |-> kind]) ELSE report[CHOOSE j \in at : TRUE].out

Htons(number) == <<(number \div 256) % 256, number % 256>>
Zeros(bytes)  == [i \in 1..bytes |-> 0]

-----------------------------------------------------------------------------
(* The touchscreen: ten times the same point. *)

\* Only the first two points have more than their place in them.
Extra(point, coord) ==
  CASE point = 1 /\ coord = 2 -> 2 [] point = 2 /\ coord = 1 -> 7 [] point = 2 /\ coord = 2 -> 3 [] OTHER -> 0

\* pad, extra and value of one coordinate. Two of the three are turned round.
Coordinate_Straight(value, extra) == Bits(1, 1) \o (Bits(extra, 3) \o Bits(value, 12))
Coordinate(value, extra) == Bits(1, 1) \o (Reversed(Bits(extra, 3), 1, 3) \o Reversed(Bits(value, 12), 1, 12))

\* Then every byte is turned round, and each two of them change places.
TurnedBytes(bits) == <<Number(Reversed(SubSeq(bits, 9, 16), 1, 8)), Number(Reversed(SubSeq(bits, 1, 8), 1, 8))>>

\* Nothing is written for a coordinate that is 0.
Touchscreen ==
  LET touch == Out("touch", 0)
      turned(point, coord) == TurnedBytes(Coordinate(touch[coord], Extra(point, coord)))
  IN IF touch[1] > 0 /\ touch[2] > 0
       THEN [n \in 1..40 |-> turned((n - 1) \div 4 + 1, (((n - 1) \div 2) % 2) + 1)[((n - 1) % 2) + 1]]
       ELSE Zeros(40)

StickWords == [n \in 1..8 |-> Htons(Out("joystick", (n + 1) \div 2)[1])[2 - (n % 2)]]

\* send_hid_update: the structure, from seq_id to fw_version_neg.
Packet ==
  Htons(seq_id) \o (Htons(Out("button", 0)[1]) \o (Zeros(2) \o (StickWords \o (Zeros(1 + 6 + 9 + 6) \o
  (Touchscreen \o (Zeros(4) \o (<<Out("extra", 0)[1] % 256>> \o (Zeros(46) \o <<215>>))))))))

-----------------------------------------------------------------------------
(* What the console reads from it. *)

Word(packet, n) == 256 * packet[n] + packet[n + 1]

Screen(packet, point, coord) ==
  LET n == 37 + 4 * (point - 1) + 2 * (coord - 1) IN packet[n] + 256 * packet[n + 1]

\* The console reads in the bits of a report what the clients' input was turned into:
\* the number, the buttons, each axis, and ten times the touch, complete and not
\* mirrored, behind a mark and the extra bits of the first two; and nothing outside of
\* its ranges, so that no more of a coordinate is cut off than the report of a touch
\* that was being stored may have too much (Input.cpp:54-115, InputPacketWiiU.h:32-62).
ReportUnderstood ==
  LET packet == Packet  touch == Out("touch", 0) IN
  ipc = "send" =>
    /\ Len(packet) = 128 /\ Word(packet, 1) = seq_id
    /\ Word(packet, 3) = Out("button", 0)[1] /\ packet[81] = Out("extra", 0)[1]
    /\ \A axis \in 1..4 : Word(packet, 5 + 2 * axis) = Out("joystick", axis)[1]
    /\ \A point \in 1..10, coord \in 1..2 :
         Screen(packet, point, coord) =
           IF touch = <<0, 0>> THEN 0 ELSE 32768 + 4096 * Extra(point, coord) + (touch[coord] % 4096)
    /\ "touch" \notin overlapped => touch[1] < 4096 /\ touch[2] < 4096
    /\ InBounds
=============================================================================
