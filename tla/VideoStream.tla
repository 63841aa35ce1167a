----------------------------- MODULE VideoStream -----------------------------
(***************************************************************************)
(* The console's video stream and the handler that puts it together again  *)
(* (src/src/net/wiiu/VideoHandlerWiiU.cpp, src/src/net/PacketHandler.cpp). *)
(*                                                                         *)
(* The console sends frames as runs of UDP packets with a sequence number  *)
(* of few bits.  Packets get lost, overtake each other and arrive twice.   *)
(* The handler collects the payloads of a frame, gives up the stream on    *)
(* any number it did not expect, and then asks at each frame it sees begin *)
(* for a key frame (IDR), until one comes.                                 *)
(*                                                                         *)
(* A packet is known by its place in the stream; its sequence number is    *)
(* that place modulo SeqMod.  One step is one whole call of update.        *)
(***************************************************************************)
EXTENDS Integers, Sequences

CONSTANTS
  SeqMod,       \* sequence numbers are modulo this (1024)
  Window,       \* how far the network delays, repeats or skips packets
  InFlight,     \* packets the console may send before one arrives
  MaxParts,     \* packets of a frame
  MaxPackets,   \* bound: packets the console sends
  MaxFaults,    \* bound: packets that arrive out of order
  UninitFlag,   \* what the is_streaming nobody initialises can be
  UnaskedKeys,  \* whether the console sends key frames nobody asked for
  RequestsLost  \* whether a request for a key frame may be lost

ASSUME StreamAssumption ==
  /\ SeqMod \in Nat /\ Window \in Nat \ {0} /\ 2 * Window <= SeqMod
  /\ InFlight \in Nat \ {0} /\ MaxParts \in Nat \ {0} /\ MaxPackets \in Nat /\ MaxFaults \in Nat
  /\ UninitFlag \subseteq BOOLEAN /\ UnaskedKeys \in BOOLEAN /\ RequestsLost \in BOOLEAN

VARIABLES
  sent, idr_wanted,                          \* the console
  seq_id_expected, is_streaming, frame,      \* the handler
  alive,                                     \* the process runs
  last, newest, faults, clean,  \* history: the arrivals
  assigned,  \* history: is_streaming has been assigned
  shown      \* history: the frame broadcast last

console == <<sent, idr_wanted>>
handler == <<seq_id_expected, is_streaming, frame>>
network == <<last, newest, faults, clean>>
vars    == <<console, handler, alive, network, assigned, shown>>

Packet == [begin : BOOLEAN, end : BOOLEAN, idr : BOOLEAN, part : 1..MaxParts]
Place  == 1..MaxPackets
Shown  == [packets : Seq(Place), idr : BOOLEAN, defined : BOOLEAN]

NoFrame == [packets |-> <<>>, idr |-> FALSE, defined |-> FALSE]

TypeOK ==
  /\ sent \in Seq(Packet) /\ Len(sent) <= MaxPackets /\ idr_wanted \in BOOLEAN
  /\ seq_id_expected \in -1..(SeqMod - 1) /\ is_streaming \in BOOLEAN
  /\ frame \in Seq(Place)
  /\ alive \in BOOLEAN
  /\ last \in 0..Len(sent) /\ newest \in 0..Len(sent) /\ faults \in 0..MaxFaults /\ clean \in Nat
  /\ assigned \in BOOLEAN
  /\ shown \in Shown

Init ==
  /\ sent = <<>> /\ idr_wanted = FALSE
  /\ seq_id_expected = -1 /\ is_streaming \in UninitFlag /\ frame = <<>>
  /\ alive = TRUE
  /\ last = 0 /\ newest = 0 /\ faults = 0 /\ clean = 0
  /\ assigned = FALSE /\ shown = NoFrame

-----------------------------------------------------------------------------
(* The console.  A key frame is marked in every packet of it. *)

AtFrameStart == sent = <<>> \/ sent[Len(sent)].end

SendPacket(packet) ==
  /\ Len(sent) < MaxPackets /\ Len(sent) < newest + InFlight
  /\ packet.part = MaxParts => packet.end
  /\ IF AtFrameStart
       THEN /\ packet.begin /\ packet.part = 1
            /\ IF idr_wanted THEN packet.idr ELSE packet.idr => UnaskedKeys
            /\ idr_wanted' = FALSE
       ELSE /\ ~packet.begin /\ packet.part = sent[Len(sent)].part + 1
            /\ packet.idr = sent[Len(sent)].idr
            /\ UNCHANGED idr_wanted
  /\ sent' = Append(sent, packet)
  /\ UNCHANGED <<handler, alive, network, assigned, shown>>

-----------------------------------------------------------------------------
(* The network hands packet i over: the next one, a later one (those between *)
(* are lost or late), or one that others have overtaken or that came before. *)

Arrivable(i) ==
  /\ i \in 1..Len(sent)
  /\ newest > 0 => newest - Window < i /\ i <= newest + Window

InOrder(i) == last > 0 /\ i = last + 1

Arrives(i) ==
  /\ Arrivable(i)
  /\ last' = i
  /\ newest' = IF i > newest THEN i ELSE newest
  /\ InOrder(i) \/ last = 0 \/ faults < MaxFaults
  /\ faults' = IF InOrder(i) \/ last = 0 THEN faults ELSE faults + 1

-----------------------------------------------------------------------------
(* The handler. *)

SeqId(i) == i % SeqMod

SeqOk_AnyLater(i) == seq_id_expected = -1 \/ seq_id_expected <= SeqId(i)
SeqOk(i)          == seq_id_expected = -1 \/ seq_id_expected = SeqId(i)

UpdateSeqId_NoWrap(i) == seq_id_expected' = SeqId(i) + 1
UpdateSeqId(i)        == seq_id_expected' = (SeqId(i) + 1) % SeqMod

\* is_streaming after the sequence check.
StillStreaming(i) == is_streaming /\ SeqOk(i)

\* A frame begins with a key frame while the stream is off: it is on again.
Starts_AnyFrame(i) == sent[i].begin /\ ~StillStreaming(i)
Starts(i)          == sent[i].begin /\ ~StillStreaming(i) /\ sent[i].idr

MustAsk_Never(i) == FALSE
MustAsk(i)       == sent[i].begin /\ ~StillStreaming(i) /\ ~sent[i].idr

\* frame_index goes back to 0 where a frame begins; a payload is appended in any
\* case, whether the stream is on or not.
Collected_NoReset(i) == Append(frame, i)
Collected(i)         == IF sent[i].begin THEN <<i>> ELSE Append(frame, i)

Receive(i) ==
  /\ Arrives(i) /\ UpdateSeqId(i)
  /\ is_streaming' = (StillStreaming(i) \/ Starts(i))
  /\ assigned' = (assigned \/ ~SeqOk(i) \/ Starts(i))
  /\ UNCHANGED sent

CountClean(i) == clean' = IF InOrder(i) THEN clean + 1 ELSE 0

\* A frame that is no key frame begins while the stream is off: ask for one and
\* return before the payload is copied.
AskForKeyFrame(i) ==
  /\ Receive(i) /\ MustAsk(i)
  /\ frame' = <<>>
  /\ \/ idr_wanted' = TRUE /\ CountClean(i)
     \/ RequestsLost /\ UNCHANGED idr_wanted /\ clean' = 0
  /\ UNCHANGED <<alive, shown>>

\* A failed request ends the process (Gamepad::sendwiiu).
AskFails(i) ==
  /\ RequestsLost /\ Arrivable(i) /\ MustAsk(i)
  /\ alive' = FALSE
  /\ UNCHANGED <<console, handler, network, assigned, shown>>

Collect(i) ==
  /\ Receive(i) /\ ~MustAsk(i)
  /\ frame' = Collected(i)
  /\ CountClean(i)
  /\ ~(is_streaming' /\ sent[i].end)
  /\ UNCHANGED <<idr_wanted, alive, shown>>

\* The payload collected so far is wrapped and decoded as one frame; whether as
\* a key frame, the last packet says.
Broadcast(i) ==
  /\ Receive(i) /\ ~MustAsk(i)
  /\ frame' = Collected(i)
  /\ CountClean(i)
  /\ is_streaming' /\ sent[i].end
  /\ shown' = [packets |-> frame', idr |-> sent[i].idr, defined |-> assigned']
  /\ UNCHANGED <<idr_wanted, alive>>

Next ==
  /\ alive
  /\ \/ \E packet \in Packet : SendPacket(packet)
     \/ \E i \in Place : AskForKeyFrame(i) \/ AskFails(i) \/ Collect(i) \/ Broadcast(i)

Spec == Init /\ [][Next]_vars

-----------------------------------------------------------------------------
(* Properties. *)

Consecutive(s) == \A k \in 1..(Len(s) - 1) : s[k + 1] = s[k] + 1

\* What is broadcast as a frame is one frame of the console: its packets from the
\* first to the last, all there and in order, whatever the network did. Only the
\* first packets may be missing, and only while is_streaming has the value
\* memory happened to hold.
WholeFrames ==
  LET s == shown.packets
  IN s # <<>> =>
       /\ Consecutive(s)
       /\ \A k \in 1..Len(s) : sent[s[k]].end <=> k = Len(s)
       /\ \A k \in 1..Len(s) : sent[s[k]].begin => k = 1
       /\ shown.defined => sent[s[1]].begin
       /\ shown.idr = sent[s[1]].idr

\* While the stream is on, the frame buffer holds packets of one frame, so it
\* stays within the size of a frame. (While it is off nothing bounds it.)
BufferWithinFrame == is_streaming /\ assigned => Len(frame) <= MaxParts

Further      == IF Window > MaxParts THEN Window ELSE MaxParts
RecoveryTime == MaxParts + InFlight + Further - 1

\* After the last fault the stream is on again as soon as the rest of a frame (or the
\* packets that had overtaken), the packets in flight and one more frame can have come:
\* the request is repeated at every frame that begins, and no fault leaves the handler
\* waiting for nothing.
RecoversInTime ==
  clean >= RecoveryTime => is_streaming

\* Every frame shown is a key frame or follows the one shown before.
Gate == INSTANCE StreamGate WITH
  shown <- IF shown.defined
             THEN [first |-> shown.packets[1], last |-> shown.packets[Len(shown.packets)],
                   idr |-> shown.idr]
             ELSE [first |-> 0, last |-> -1, idr |-> FALSE]

ShowsWhatDecodes == Gate!Spec
=============================================================================
