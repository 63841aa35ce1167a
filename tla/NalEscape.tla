------------------------------ MODULE NalEscape ------------------------------
(***************************************************************************)
(* How the video handler wraps a frame as H.264 for the decoder            *)
(* (VideoHandlerWiiU::h264_nal_encapsulate): parameter sets before a key   *)
(* frame, a slice header with the frame's number, the first two bytes as   *)
(* they are, then every further byte, with a 3 before each byte that would *)
(* otherwise complete a start code.                                        *)
(*                                                                         *)
(* One action sets up the buffer, one is a turn of the loop.               *)
(***************************************************************************)
EXTENDS Integers, Sequences, FiniteSets

CONSTANTS
  Bytes,     \* values of the bytes of a frame
  MaxLen,    \* bound: bytes of a frame
  MaxFrames  \* bound: frames

ASSUME NalAssumption == Bytes \subseteq 0..255 /\ MaxLen \in Nat /\ MaxFrames \in Nat

VARIABLES
  pc,
  is_idr, frame,     \* the arguments
  nals, byte,        \* the buffer, and the index of the next byte of the frame
  frame_decode_num,
  added              \* history: where in nals an escape byte was put

vars == <<pc, is_idr, frame, nals, byte, frame_decode_num, added>>

StartCode == <<0, 0, 0, 1>>

\* Sequence and picture parameter set, each behind a start code.
Params == <<0, 0, 0, 1, 103, 100, 0, 32, 172, 43, 64, 108, 30, 243, 104,
            0, 0, 0, 1, 104, 238, 6, 12, 232>>

\* 0x25b804ff, or 0x21e003ff with the low eight bits of the number from bit 13 on.
SliceHeader_Unmasked(idr, num) ==
  IF idr THEN <<37, 184, 4, 255>> ELSE <<33, 224 + num \div 8, 3 + 32 * (num % 8), 255>>
SliceHeader(idr, num) ==
  IF idr THEN <<37, 184, 4, 255>>
         ELSE <<33, 224 + (num % 256) \div 8, 3 + 32 * (num % 8), 255>>

Header(idr, num) == (IF idr THEN Params ELSE <<>>) \o (StartCode \o SliceHeader(idr, num))

\* Where the frame's bytes start in nals.
HeaderLen(idr) == IF idr THEN 32 ELSE 8
Offset         == HeaderLen(is_idr)

\* A byte of the frame buffer, which is zero behind a frame of less than two bytes.
At(f, k) == IF k <= Len(f) THEN f[k] ELSE 0

TypeOK ==
  /\ pc \in {"idle", "escape"}
  /\ is_idr \in BOOLEAN
  /\ frame \in Seq(Bytes) /\ Len(frame) <= MaxLen
  /\ nals \in Seq(0..255)
  /\ byte \in 3..(MaxLen + 3)
  /\ frame_decode_num \in 0..MaxFrames
  /\ added \subseteq 1..Len(nals)

Init ==
  /\ pc = "idle" /\ is_idr = FALSE /\ frame = <<>> /\ nals = <<>> /\ byte = 3
  /\ frame_decode_num = 0 /\ added = {}

Encapsulate(idr, f) ==
  /\ pc = "idle" /\ pc' = "escape"
  /\ frame_decode_num < MaxFrames /\ frame_decode_num' = frame_decode_num + 1
  /\ is_idr' = idr /\ frame' = f
  /\ nals' = Header(idr, frame_decode_num) \o <<At(f, 1), At(f, 2)>>
  /\ byte' = 3 /\ added' = {}

\* The byte would complete a start code, or look like an escape.
Zeros(n) == nals[Len(nals)] = 0 /\ (n = 2 => nals[Len(nals) - 1] = 0)

Escapes_OneZero == frame[byte] <= 3 /\ Zeros(1)
Escapes_Below2  == frame[byte] < 2 /\ Zeros(2)
Escapes_Below3  == frame[byte] < 3 /\ Zeros(2)
Escapes         == frame[byte] <= 3 /\ Zeros(2)

EscapeByte ==
  /\ pc = "escape" /\ byte <= Len(frame)
  /\ IF Escapes
       THEN nals' = nals \o <<3, frame[byte]>> /\ added' = added \cup {Len(nals) + 1}
       ELSE nals' = Append(nals, frame[byte]) /\ UNCHANGED added
  /\ byte' = byte + 1
  /\ UNCHANGED <<pc, is_idr, frame, frame_decode_num>>

Done ==
  /\ pc = "escape" /\ byte > Len(frame)
  /\ pc' = "idle" /\ is_idr' = FALSE /\ frame' = <<>> /\ nals' = <<>> /\ byte' = 3 /\ added' = {}
  /\ UNCHANGED frame_decode_num

Next ==
  \/ \E idr \in BOOLEAN, n \in 0..MaxLen : \E f \in [1..n -> Bytes] : Encapsulate(idr, f)
  \/ EscapeByte
  \/ Done

Spec == Init /\ [][Next]_vars

-----------------------------------------------------------------------------
(* Properties. *)

\* Two zeros and a byte of at most 2 are reserved for start codes: they occur in
\* the ones the handler writes and nowhere else, whatever the frame holds and
\* whatever its number does to the slice header.
NoStartCode ==
  \A j \in 1..(Len(nals) - 2) :
    nals[j] = 0 /\ nals[j + 1] = 0 /\ nals[j + 2] <= 2 =>
      j \in {1, 2} \/ (is_idr /\ j \in {16, 17, 25, 26})

\* A decoder takes out every 3 behind two zeros. These are exactly the escape
\* bytes, so it takes out no byte of the frame and leaves no escape byte in.
EscapesMarked ==
  \A p \in (Offset + 1)..Len(nals) :
    p \in added <=> nals[p] = 3 /\ nals[p - 1] = 0 /\ nals[p - 2] = 0

\* What a decoder reads from s: every 3 behind two zeros of s is left out.
Unescaped(s) ==
  LET read[p \in 0..Len(s)] ==
        IF p = 0 THEN <<>>
        ELSE IF p > 2 /\ s[p] = 3 /\ s[p - 1] = 0 /\ s[p - 2] = 0 THEN read[p - 1]
        ELSE Append(read[p - 1], s[p])
  IN read[Len(s)]

\* The decoder reads back the bytes of the frame as far as the handler has come.
RoundTrip ==
  pc = "escape" => Unescaped(SubSeq(nals, Offset + 1, Len(nals))) = [k \in 1..(byte - 1) |-> At(frame, k)]

\* At most every third byte is an escape. nals is allocated as twice the frame,
\* which is enough for every frame of 64 bytes and more, and not for a key frame
\* of 31.
SizeBound == pc = "escape" => 2 * Len(nals) <= 2 * Offset + 3 * (byte - 1)
=============================================================================
