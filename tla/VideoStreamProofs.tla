-------------------------- MODULE VideoStreamProofs --------------------------
(***************************************************************************)
(* Proofs about VideoStream, for every modulus, window and frame size:     *)
(* the types, that frames are broadcast whole, that the buffer stays       *)
(* within a frame while the stream is on, that the handler implements      *)
(* StreamGate, and that the stream comes back within RecoveryTime.         *)
(*                                                                         *)
(* The argument: within the window a matching sequence number means the    *)
(* next packet (NextPacket), so while the stream is on the buffer is the   *)
(* run of packets of one frame that ends with the last arrival (FrameInv), *)
(* and what was shown last ends where this frame begins (ShownInv).        *)
(* For the way back RecoverInv follows the request from the first frame    *)
(* that begins after a fault to the key frame that answers it.             *)
(***************************************************************************)
EXTENDS VideoStream, TLAPS

-----------------------------------------------------------------------------
(* Arithmetic modulo M. *)

LEMMA DivMod == ASSUME NEW M \in Nat \ {0}, NEW i \in Nat
  PROVE /\ i \div M \in Nat /\ i % M \in 0..(M - 1) /\ i = M * (i \div M) + (i % M)
  BY SMT
LEMMA Monotone == ASSUME NEW M \in Nat \ {0}, NEW p \in Int, NEW q \in Int, p < q
  PROVE M * p + M <= M * q
<1>1. p + 1 <= q OBVIOUS
<1>2. M * (p + 1) <= M * q BY <1>1, SMT
<1> QED BY <1>2, SMT
LEMMA ModEq == ASSUME NEW M \in Nat \ {0}, NEW a \in Nat, NEW b \in Nat, a % M = b % M, a - b < M, b - a < M PROVE a = b
<1> DEFINE p == a \div M  q == b \div M
<1>1. p \in Nat /\ q \in Nat /\ a % M \in 0..(M - 1) /\ a = M * p + (a % M) /\ b = M * q + (b % M) BY DivMod
<1>0. M * p \in Int /\ M * q \in Int BY <1>1
<1> HIDE DEF p, q
<1>2. ~(p < q) BY Monotone, <1>0, <1>1
<1>3. ~(q < p) BY Monotone, <1>0, <1>1
<1> QED BY <1>1, <1>2, <1>3
LEMMA ModSucc == ASSUME NEW M \in Nat \ {0}, NEW i \in Nat PROVE ((i % M) + 1) % M = (i + 1) % M
<1> DEFINE q == i \div M  r == i % M
           t == (r + 1) \div M  s == (r + 1) % M
           v == (i + 1) \div M  u == (i + 1) % M
           w == q + t
<1>1. q \in Nat /\ r \in 0..(M - 1) /\ i = M * q + r
  BY DivMod
<1>2. t \in Nat /\ s \in 0..(M - 1) /\ r + 1 = M * t + s
  <2>1. r + 1 \in Nat
    BY <1>1
  <2> HIDE DEF r
  <2> QED BY <2>1, DivMod
<1>3. v \in Nat /\ u \in 0..(M - 1) /\ i + 1 = M * v + u
  <2>1. i + 1 \in Nat
    OBVIOUS
  <2> QED BY <2>1, DivMod
<1> HIDE DEF q, r, s, t, u, v
<1>4. w \in Nat /\ M * w = M * q + M * t
  BY <1>1, <1>2, SMT
<1> HIDE DEF w
<1>5. M * w + s = M * v + u
  <2>1. M * q \in Int /\ M * t \in Int /\ M * v \in Int
    BY <1>1, <1>2, <1>3
  <2> QED BY <2>1, <1>1, <1>2, <1>3, <1>4
<1>6. s = u
  <2>1. M * w \in Int /\ M * v \in Int
    BY <1>3, <1>4
  <2>2. ~(w < v)
    BY <1>2, <1>3, <1>4, <1>5, <2>1, Monotone
  <2>3. ~(v < w)
    BY <1>2, <1>3, <1>4, <1>5, <2>1, Monotone
  <2> QED BY <1>2, <1>3, <1>4, <1>5, <2>1, <2>2, <2>3
<1> QED BY <1>6 DEF s, u, r

-----------------------------------------------------------------------------
(* The inductive invariant. *)

\* The console's stream is a sequence of frames.
WellFormed ==
  \A k \in 1..Len(sent) :
    /\ sent[k].begin <=> sent[k].part = 1
    /\ sent[k].begin <=> (k = 1 \/ sent[k - 1].end)
    /\ ~sent[k].begin => sent[k].part = sent[k - 1].part + 1 /\ sent[k].idr = sent[k - 1].idr

\* The expected number is that of the packet after the last arrival.
SeqInv ==
  /\ last = 0 => seq_id_expected = -1 /\ frame = <<>> /\ newest = 0 /\ ~assigned
  /\ last > 0 => /\ seq_id_expected = (last + 1) % SeqMod
                 /\ newest - Window < last /\ last <= newest

\* Packets f of one frame of a stream, the last of them at place l.
RunOfFrame(stream, f, l) ==
  /\ Len(f) >= 1
  /\ \A k \in 1..Len(f) : f[k] = l - Len(f) + k
  /\ \A k \in 1..Len(f) :
       /\ stream[f[k]].idr = stream[l].idr
       /\ stream[f[k]].begin => k = 1
       /\ stream[f[k]].end => k = Len(f)

FrameInv ==
  is_streaming /\ last > 0 =>
    /\ RunOfFrame(sent, frame, last)
    /\ assigned => sent[frame[1]].begin /\ Len(frame) = sent[last].part

\* What was broadcast last, and what the open frame has to do with it.
LastOf(s) == s[Len(s)]

ShownInv ==
  /\ shown.packets # <<>> =>
       /\ LastOf(shown.packets) <= Len(sent)
       /\ RunOfFrame(sent, shown.packets, LastOf(shown.packets))
       /\ sent[LastOf(shown.packets)].end
       /\ shown.idr = sent[LastOf(shown.packets)].idr
       /\ shown.defined => sent[shown.packets[1]].begin
  /\ shown.defined => assigned /\ shown.packets # <<>>

LinkInv ==
  is_streaming /\ assigned =>
    IF sent[last].end
      THEN shown.defined /\ LastOf(shown.packets) = last
      ELSE sent[last].idr \/ (shown.defined /\ LastOf(shown.packets) = frame[1] - 1)

IInv == TypeOK /\ WellFormed /\ SeqInv /\ FrameInv /\ ShownInv /\ LinkInv

LEMMA InitInv == ASSUME Init PROVE IInv
<1> USE StreamAssumption DEF Init
<1>1. TypeOK
  <2>1. is_streaming \in BOOLEAN
    OBVIOUS
  <2>2. <<>> \in Seq(Place) /\ <<>> \in Seq(Packet)
    OBVIOUS
  <2>3. shown \in Shown
    BY <2>2 DEF NoFrame, Shown
  <2>4. SeqMod \in Nat \ {0} /\ -1 \in -1..(SeqMod - 1) /\ 0 \in 0..MaxFaults /\ Len(sent) = 0
    OBVIOUS
  <2>5. sent \in Seq(Packet) /\ frame \in Seq(Place) /\ Len(sent) <= MaxPackets
    BY <2>2, <2>4
  <2>6. last \in 0..Len(sent) /\ newest \in 0..Len(sent) /\ faults \in 0..MaxFaults /\ clean \in Nat
    BY <2>4
  <2>7. seq_id_expected \in -1..(SeqMod - 1)
    BY <2>4
  <2> QED BY <2>1, <2>3, <2>5, <2>6, <2>7 DEF TypeOK
<1>2. WellFormed /\ SeqInv /\ FrameInv
  BY DEF WellFormed, SeqInv, FrameInv
<1>3. ShownInv /\ LinkInv
  BY DEF ShownInv, LinkInv, NoFrame
<1> QED BY <1>1, <1>2, <1>3 DEF IInv

\* A packet sent changes no packet that was sent before.
LEMMA SendKeeps ==
  ASSUME IInv, NEW packet \in Packet, SendPacket(packet) PROVE IInv'
<1> USE StreamAssumption DEF IInv
<1>1. sent \in Seq(Packet) /\ sent' = Append(sent, packet)
  BY DEF TypeOK, SendPacket
<1>2. /\ Len(sent') = Len(sent) + 1 /\ sent'[Len(sent')] = packet /\ sent' \in Seq(Packet)
      /\ \A k \in 1..Len(sent) : sent'[k] = sent[k]
  BY <1>1
<1>3. UNCHANGED <<handler, alive, network, assigned, shown>>
  BY DEF SendPacket
<1>4. TypeOK'
  <2>1. Len(sent') <= MaxPackets
    BY <1>1, <1>2 DEF SendPacket, TypeOK
  <2>2. idr_wanted' \in BOOLEAN
    BY DEF SendPacket, TypeOK
  <2> QED BY <1>1, <1>2, <1>3, <2>1, <2>2 DEF TypeOK, handler, network
<1>5. WellFormed'
  <2> SUFFICES ASSUME NEW k \in 1..Len(sent')
               PROVE  /\ sent'[k].begin <=> sent'[k].part = 1
                      /\ sent'[k].begin <=> (k = 1 \/ sent'[k - 1].end)
                      /\ ~sent'[k].begin => /\ sent'[k].part = sent'[k - 1].part + 1
                                            /\ sent'[k].idr = sent'[k - 1].idr
    BY DEF WellFormed
  <2>1. CASE k \in 1..Len(sent)
    <3>1. k = 1 \/ k - 1 \in 1..Len(sent)
      BY <2>1
    <3> QED BY <1>2, <2>1, <3>1 DEF WellFormed
  <2>2. CASE k = Len(sent) + 1
    <3>1. sent'[k] = packet
      BY <1>2, <2>2
    <3>2. CASE AtFrameStart
      <4>1. k = 1 \/ (k - 1 \in 1..Len(sent) /\ sent[k - 1].end)
        BY <1>1, <2>2, <3>2 DEF AtFrameStart
      <4> QED BY <1>2, <3>1, <3>2, <4>1 DEF SendPacket
    <3>3. CASE ~AtFrameStart
      <4>1. k # 1 /\ k - 1 = Len(sent) /\ k - 1 \in 1..Len(sent) /\ ~sent[k - 1].end
        BY <1>1, <2>2, <3>3 DEF AtFrameStart
      <4>2. sent[k - 1].part \in 1..MaxParts
        <5>1. sent[k - 1] \in Packet
          BY <1>1, <4>1
        <5> QED BY <5>1 DEF Packet
      <4>3. ~packet.begin /\ packet.part = sent[k - 1].part + 1 /\ packet.idr = sent[k - 1].idr
        BY <3>3, <4>1 DEF SendPacket
      <4> QED BY <1>2, <3>1, <4>1, <4>2, <4>3
    <3> QED BY <3>2, <3>3
  <2> QED BY <1>1, <1>2, <2>1, <2>2
<1>6. SeqInv'
  BY <1>3 DEF SeqInv, handler, network
<1>7. ASSUME NEW f \in Seq(Place), NEW l \in 1..Len(sent), RunOfFrame(sent, f, l)
      PROVE  RunOfFrame(sent', f, l) /\ f[1] \in 1..Len(sent)
  <2>1. \A k \in 1..Len(f) : f[k] \in 1..Len(sent)
    BY <1>1, <1>7 DEF RunOfFrame, Place
  <2>2. sent'[l] = sent[l] /\ \A k \in 1..Len(f) : sent'[f[k]] = sent[f[k]]
    BY <1>2, <2>1
  <2>3. RunOfFrame(sent', f, l)
    BY <1>7, <2>2 DEF RunOfFrame
  <2> QED BY <1>7, <2>1, <2>3 DEF RunOfFrame
<1>8. FrameInv'
  <2> SUFFICES ASSUME is_streaming', last' > 0
               PROVE  /\ RunOfFrame(sent', frame', last')
                      /\ assigned' => sent'[frame'[1]].begin /\ Len(frame') = sent'[last'].part
    BY DEF FrameInv
  <2>1. last \in 1..Len(sent) /\ frame \in Seq(Place)
    BY <1>3 DEF TypeOK, network
  <2>2. RunOfFrame(sent, frame, last) /\ (assigned => sent[frame[1]].begin /\ Len(frame) = sent[last].part)
    BY <1>3 DEF FrameInv, handler, network
  <2>3. RunOfFrame(sent', frame, last) /\ frame[1] \in 1..Len(sent)
    BY <1>7, <2>1, <2>2
  <2> QED BY <1>2, <1>3, <2>1, <2>2, <2>3 DEF handler, network
<1>9. ShownInv'
  <2>1. CASE shown.packets = <<>>
    BY <1>3, <2>1 DEF ShownInv
  <2>2. CASE shown.packets # <<>>
    <3>1. shown.packets \in Seq(Place) /\ LastOf(shown.packets) \in 1..Len(sent)
      BY <2>2, <1>1 DEF TypeOK, Shown, ShownInv, LastOf, Place
    <3>2. RunOfFrame(sent, shown.packets, LastOf(shown.packets))
      BY <2>2 DEF ShownInv
    <3>3. /\ RunOfFrame(sent', shown.packets, LastOf(shown.packets))
          /\ shown.packets[1] \in 1..Len(sent)
      BY <1>7, <3>1, <3>2
    <3> QED BY <1>2, <1>3, <2>2, <3>1, <3>3 DEF ShownInv, LastOf
  <2> QED BY <2>1, <2>2
<1>10. LinkInv'
  <2>1. assigned => last \in 1..Len(sent)
    BY DEF TypeOK, SeqInv
  <2> QED BY <1>2, <1>3, <2>1 DEF LinkInv, LastOf, handler, network
<1> QED BY <1>4, <1>5, <1>6, <1>8, <1>9, <1>10

\* Inside the window a matching sequence number is that of the next packet.
LEMMA NextPacket ==
  ASSUME IInv, NEW i \in Place, Arrivable(i), last > 0, SeqOk(i) PROVE i = last + 1
<1> USE StreamAssumption
<1>1. last \in Nat /\ newest \in Nat /\ i \in Nat /\ SeqMod \in Nat \ {0}
  BY DEF IInv, TypeOK, Place
<1>2. seq_id_expected = (last + 1) % SeqMod /\ newest - Window < last /\ last <= newest
  BY DEF IInv, SeqInv
<1>3. newest - Window < i /\ i <= newest + Window
  BY <1>1, <1>2 DEF Arrivable
<1>4. (last + 1) % SeqMod = i % SeqMod
  <2>1. last + 1 \in Nat
    BY <1>1
  <2>2. (last + 1) % SeqMod \in 0..(SeqMod - 1)
    BY <1>1, <2>1, DivMod
  <2> QED BY <1>1, <1>2, <2>2 DEF SeqOk, SeqId
<1>5. (last + 1) - i < SeqMod /\ i - (last + 1) < SeqMod /\ last + 1 \in Nat
  BY <1>1, <1>2, <1>3
<1> QED BY <1>1, <1>4, <1>5, ModEq

LEMMA ReceiveTypes ==
  ASSUME IInv, NEW i \in Place, Receive(i)
  PROVE  /\ i \in 1..Len(sent) /\ sent' = sent /\ sent[i] \in Packet
         /\ last' = i /\ newest' \in 0..Len(sent) /\ faults' \in 0..MaxFaults
         /\ seq_id_expected' \in -1..(SeqMod - 1)
         /\ is_streaming' \in BOOLEAN /\ assigned' \in BOOLEAN
<1> USE StreamAssumption DEF Receive, Arrives
<1>1. i \in 1..Len(sent) /\ sent' = sent /\ sent[i] \in Packet /\ last' = i
  BY DEF Arrivable, IInv, TypeOK
<1>2. newest' \in 0..Len(sent)
  BY <1>1 DEF IInv, TypeOK
<1>3. faults' \in 0..MaxFaults
  BY DEF IInv, TypeOK
<1>4. seq_id_expected' \in -1..(SeqMod - 1)
  <2>1. SeqMod \in Nat \ {0} /\ i \in Nat
    BY DEF Place
  <2>2. SeqId(i) + 1 \in Nat
    BY <2>1, DivMod DEF SeqId
  <2>3. (SeqId(i) + 1) % SeqMod \in 0..(SeqMod - 1)
    BY <2>1, <2>2, DivMod
  <2> QED BY <2>1, <2>3 DEF UpdateSeqId
<1>5. is_streaming' \in BOOLEAN
  OBVIOUS
<1>6. assigned' \in BOOLEAN
  OBVIOUS
<1> QED BY <1>1, <1>2, <1>3, <1>4, <1>5, <1>6

LEMMA ReceiveKeepsSeq ==
  ASSUME IInv, NEW i \in Place, Receive(i) PROVE SeqInv'
<1> USE StreamAssumption DEF Receive, Arrives
<1>1. SeqMod \in Nat \ {0} /\ i \in Nat \ {0} /\ last' = i
  BY DEF Place
<1>2. seq_id_expected' = (i + 1) % SeqMod
  BY <1>1, ModSucc DEF UpdateSeqId, SeqId
<1>3. newest' - Window < i /\ i <= newest'
  BY <1>1 DEF Arrivable, IInv, TypeOK
<1> QED BY <1>1, <1>2, <1>3 DEF SeqInv

\* While the stream is on, the buffer goes on being a run of one frame, and the
\* frame it holds is a key frame or begins where the one shown last ended.
LEMMA Continues ==
  ASSUME IInv, NEW i \in Place, Receive(i), ~MustAsk(i), frame' = Collected(i), is_streaming'
  PROVE  /\ RunOfFrame(sent, frame', i)
         /\ assigned' =>
              /\ sent[frame'[1]].begin /\ Len(frame') = sent[i].part
              /\ sent[i].idr \/ (shown.defined /\ LastOf(shown.packets) = frame'[1] - 1)
<1> USE StreamAssumption
<1>1. i \in 1..Len(sent) /\ sent[i] \in Packet /\ Arrivable(i)
  BY ReceiveTypes DEF Receive, Arrives
<1>2. frame \in Seq(Place) /\ last \in 0..Len(sent)
  BY DEF IInv, TypeOK
<1>3. ASSUME is_streaming, SeqOk(i), last > 0
      PROVE  /\ i = last + 1 /\ last \in 1..Len(sent)
             /\ sent[i].begin <=> sent[last].end
             /\ ~sent[i].begin => sent[i].part = sent[last].part + 1 /\ sent[i].idr = sent[last].idr
  <2>1. i = last + 1
    BY <1>1, <1>3, NextPacket
  <2>2. last \in 1..Len(sent) /\ i # 1 /\ i - 1 = last
    BY <1>2, <1>3, <2>1
  <2> QED BY <1>1, <2>1, <2>2 DEF IInv, WellFormed
<1>4. CASE sent[i].begin
  <2>1. frame' = <<i>> /\ sent[i].part = 1
    BY <1>1, <1>4 DEF Collected, IInv, WellFormed
  <2>2. RunOfFrame(sent, frame', i)
    BY <2>1 DEF RunOfFrame, Place
  <2>3. ASSUME assigned', ~sent[i].idr
        PROVE  shown.defined /\ LastOf(shown.packets) = i - 1
    <3>1. is_streaming /\ SeqOk(i) /\ assigned
      BY <2>3 DEF Receive, StillStreaming, Starts
    <3>2. last > 0
      BY <1>2, <3>1 DEF IInv, SeqInv
    <3> QED BY <1>3, <1>4, <3>1, <3>2 DEF IInv, LinkInv, Place
  <2> QED BY <1>4, <2>1, <2>2, <2>3
<1>5. CASE ~sent[i].begin
  <2>1. is_streaming /\ SeqOk(i) /\ frame' = Append(frame, i) /\ (assigned' => assigned)
    BY <1>5 DEF Receive, StillStreaming, Starts, Collected
  <2>2. CASE last = 0
    <3>1. frame' = <<i>> /\ ~assigned
      BY <2>1, <2>2 DEF IInv, SeqInv
    <3> QED BY <2>1, <3>1 DEF RunOfFrame, Place
  <2>3. CASE last > 0
    <3>1. RunOfFrame(sent, frame, last)
      BY <2>1, <2>3 DEF IInv, FrameInv
    <3>2. /\ i = last + 1 /\ ~sent[last].end
          /\ sent[i].part = sent[last].part + 1 /\ sent[i].idr = sent[last].idr
      BY <1>3, <1>5, <2>1, <2>3
    <3>3. /\ Len(frame') = Len(frame) + 1 /\ frame'[Len(frame')] = i /\ Len(frame) \in Nat \ {0}
          /\ \A k \in 1..Len(frame) : frame'[k] = frame[k]
      BY <1>2, <2>1, <3>1 DEF RunOfFrame
    <3>4. RunOfFrame(sent, frame', i)
      <4>1. \A k \in 1..Len(frame') : frame'[k] = i - Len(frame') + k
        <5>1. i \in Nat /\ last \in Nat /\ Len(frame') \in Nat
          BY <1>2, <3>3 DEF Place
        <5>2. ASSUME NEW k \in 1..Len(frame) PROVE frame'[k] = i - Len(frame') + k
          <6>1. frame'[k] = last - Len(frame) + k
            BY <3>1, <3>3, <5>2 DEF RunOfFrame
          <6>2. Len(frame') = Len(frame) + 1 /\ Len(frame) \in Nat /\ i = last + 1 /\ k \in Int
            BY <3>2, <3>3
          <6> QED BY <5>1, <6>1, <6>2
        <5> QED BY <3>3, <5>1, <5>2
      <4>2. ASSUME NEW k \in 1..Len(frame')
            PROVE  /\ sent[frame'[k]].idr = sent[i].idr
                   /\ sent[frame'[k]].begin => k = 1
                   /\ sent[frame'[k]].end => k = Len(frame')
        <5>1. CASE k = Len(frame')
          BY <1>5, <3>3, <5>1
        <5>2. CASE k \in 1..Len(frame)
          <6>1. frame'[k] = frame[k] /\ (k = Len(frame) => frame[k] = last)
            BY <1>2, <3>1, <3>3, <5>2 DEF RunOfFrame
          <6> QED BY <3>1, <3>2, <5>2, <6>1 DEF RunOfFrame
        <5> QED BY <3>3, <5>1, <5>2
      <4> QED BY <3>3, <4>1, <4>2 DEF RunOfFrame
    <3>5. ASSUME assigned
          PROVE  /\ sent[frame'[1]].begin /\ Len(frame') = sent[i].part
                 /\ sent[i].idr \/ (shown.defined /\ LastOf(shown.packets) = frame'[1] - 1)
      <4>1. sent[frame[1]].begin /\ Len(frame) = sent[last].part
        BY <2>1, <2>3, <3>5 DEF IInv, FrameInv
      <4>2. sent[last].idr \/ (shown.defined /\ LastOf(shown.packets) = frame[1] - 1)
        BY <2>1, <3>2, <3>5 DEF IInv, LinkInv
      <4>3. frame'[1] = frame[1]
        BY <3>3
      <4> QED BY <3>2, <3>3, <4>1, <4>2, <4>3
    <3> QED BY <2>1, <3>4, <3>5
  <2> QED BY <1>2, <2>2, <2>3
<1> QED BY <1>4, <1>5

LEMMA AskKeeps ==
  ASSUME IInv, NEW i \in Place, AskForKeyFrame(i) PROVE IInv'
<1> USE StreamAssumption
<1>1. Receive(i) /\ MustAsk(i) /\ frame' = <<>> /\ shown' = shown /\ alive' = alive /\ sent' = sent
  BY DEF AskForKeyFrame, Receive
<1>2. ~is_streaming' /\ (assigned => assigned')
  BY <1>1 DEF Receive, MustAsk, StillStreaming, Starts
<1>3. TypeOK'
  <2>1. clean' \in Nat
    BY DEF AskForKeyFrame, CountClean, IInv, TypeOK
  <2>3. idr_wanted' \in BOOLEAN
    BY DEF AskForKeyFrame, IInv, TypeOK
  <2>2. <<>> \in Seq(Place)
    OBVIOUS
  <2> QED BY <1>1, <2>1, <2>2, <2>3, ReceiveTypes DEF IInv, TypeOK
<1>4. WellFormed' /\ FrameInv' /\ LinkInv'
  BY <1>1, <1>2 DEF IInv, WellFormed, FrameInv, LinkInv
<1>5. ShownInv'
  BY <1>1, <1>2 DEF IInv, ShownInv
<1> QED BY <1>1, <1>3, <1>4, <1>5, ReceiveKeepsSeq DEF IInv

LEMMA CollectedTypes ==
  ASSUME IInv, NEW i \in Place PROVE Collected(i) \in Seq(Place)
BY DEF IInv, TypeOK, Collected

\* What a payload that is kept does to the frame, whatever it does to what is shown.
LEMMA KeptPayload ==
  ASSUME IInv, NEW i \in Place, Receive(i), ~MustAsk(i), frame' = Collected(i)
  PROVE  WellFormed' /\ SeqInv' /\ FrameInv'
<1>1. sent' = sent /\ last' = i
  BY ReceiveTypes
<1>2. FrameInv'
  BY <1>1, Continues DEF FrameInv
<1> QED BY <1>1, <1>2, ReceiveKeepsSeq DEF IInv, WellFormed

LEMMA CollectKeeps ==
  ASSUME IInv, NEW i \in Place, Collect(i) PROVE IInv'
<1> USE StreamAssumption
<1>1. /\ Receive(i) /\ ~MustAsk(i) /\ frame' = Collected(i) /\ shown' = shown /\ alive' = alive
      /\ sent' = sent /\ idr_wanted' = idr_wanted /\ ~(is_streaming' /\ sent[i].end)
  BY DEF Collect, Receive
<1>2. assigned => assigned'
  BY <1>1 DEF Receive
<1>3. TypeOK'
  <2>1. clean' \in Nat
    BY DEF Collect, CountClean, IInv, TypeOK
  <2> QED BY <1>1, <2>1, ReceiveTypes, CollectedTypes DEF IInv, TypeOK
<1>4. ShownInv'
  BY <1>1, <1>2 DEF IInv, ShownInv
<1>5. LinkInv'
  BY <1>1, Continues, ReceiveTypes DEF LinkInv
<1> QED BY <1>1, <1>3, <1>4, <1>5, KeptPayload DEF IInv

LEMMA BroadcastKeeps ==
  ASSUME IInv, NEW i \in Place, Broadcast(i) PROVE IInv'
<1> USE StreamAssumption
<1>1. /\ Receive(i) /\ ~MustAsk(i) /\ frame' = Collected(i) /\ alive' = alive
      /\ sent' = sent /\ idr_wanted' = idr_wanted /\ is_streaming' /\ sent[i].end
      /\ shown' = [packets |-> frame', idr |-> sent[i].idr, defined |-> assigned']
  BY DEF Broadcast, Receive
<1>2. i \in 1..Len(sent) /\ sent[i] \in Packet /\ assigned' \in BOOLEAN /\ last' = i
  BY <1>1, ReceiveTypes
<1>3. frame' \in Seq(Place)
  BY <1>1, CollectedTypes
<1>4. TypeOK'
  <2>1. clean' \in Nat
    BY DEF Broadcast, CountClean, IInv, TypeOK
  <2>2. sent[i].idr \in BOOLEAN
    BY <1>2 DEF Packet
  <2>3. shown' \in Shown
    BY <1>1, <1>2, <1>3, <2>2 DEF Shown
  <2> QED BY <1>1, <1>3, <2>1, <2>3, ReceiveTypes DEF IInv, TypeOK
<1>5. RunOfFrame(sent, frame', i) /\ (assigned' => sent[frame'[1]].begin)
  BY <1>1, Continues
<1>6. LastOf(frame') = i /\ frame' # <<>>
  BY <1>3, <1>5 DEF RunOfFrame, LastOf, Place
<1>7. ShownInv'
  BY <1>1, <1>2, <1>5, <1>6 DEF ShownInv, LastOf
<1>8. LinkInv'
  BY <1>1, <1>2, <1>6 DEF LinkInv, LastOf
<1> QED BY <1>1, <1>4, <1>7, <1>8, KeptPayload DEF IInv

LEMMA NextKeeps == ASSUME IInv, [Next]_vars PROVE IInv'
<1>1. CASE UNCHANGED vars
  BY <1>1 DEF IInv, TypeOK, WellFormed, SeqInv, FrameInv, ShownInv, LinkInv, LastOf,
              vars, console, handler, network
<1>2. ASSUME NEW packet \in Packet, SendPacket(packet) PROVE IInv'
  BY <1>2, SendKeeps
<1>3. ASSUME NEW i \in Place, AskForKeyFrame(i) PROVE IInv'
  BY <1>3, AskKeeps
<1>4. ASSUME NEW i \in Place, AskFails(i) PROVE IInv'
  BY <1>4 DEF AskFails, IInv, TypeOK, WellFormed, SeqInv, FrameInv, ShownInv, LinkInv, LastOf,
              console, handler, network
<1>5. ASSUME NEW i \in Place, Collect(i) PROVE IInv'
  BY <1>5, CollectKeeps
<1>6. ASSUME NEW i \in Place, Broadcast(i) PROVE IInv'
  BY <1>6, BroadcastKeeps
<1> QED BY <1>1, <1>2, <1>3, <1>4, <1>5, <1>6 DEF Next

THEOREM Inductive == Spec => []IInv
<1>1. Init => IInv
  BY InitInv
<1>2. IInv /\ [Next]_vars => IInv'
  BY NextKeeps
<1> QED BY <1>1, <1>2, PTL DEF Spec

-----------------------------------------------------------------------------
(* Recovery. *)

\* The last arrival that was no undisturbed one: a fault, the first packet of all,
\* or a request that was lost. Everything after it came in order.
Fault == last - clean

\* No frame that began before the first request after the fault is beyond this place.
Crossing == Fault + Further - 1 + InFlight

\* How far arrivals, and the console, can be ahead of the fault.
CountInv ==
  /\ last = 0 => clean = 0
  /\ last > 0 => clean < last
  /\ last > 0 => newest < Fault + Window \/ newest = last
  /\ Len(sent) <= newest + InFlight

\* While the stream is off, either no frame has begun since the fault, or the console
\* has been asked and begins no frame beyond the crossing but as a key frame, or the key
\* frame is on its way.
NoneBegan == \A k \in (Fault + 1)..last : ~sent[k].begin
Asked     == idr_wanted /\ \A k \in (Crossing + 1)..Len(sent) : ~sent[k].begin
KeyComes  == \E k \in (last + 1)..Len(sent) :
               k <= Crossing + MaxParts /\ sent[k].begin /\ sent[k].idr

RequestInv == last > 0 /\ ~is_streaming => NoneBegan \/ Asked \/ KeyComes

\* Every packet knows where its frame began.
BeginInv == \A k \in 1..Len(sent) : sent[k].part <= k /\ sent[k - sent[k].part + 1].begin

RecoverInv == CountInv /\ BeginInv /\ RequestInv

\* A run of packets none of which begins a frame is shorter than a frame.
LEMMA RestOfFrame ==
  ASSUME IInv, BeginInv, NEW a \in Nat, NEW b \in Nat, a < b, b <= Len(sent),
         \A k \in (a + 1)..b : ~sent[k].begin
  PROVE  b - a < sent[b].part /\ b - a < MaxParts
<1> DEFINE part == sent[b].part
<1>1. MaxParts \in Nat /\ b \in 1..Len(sent) /\ sent[b] \in Packet
  BY StreamAssumption DEF IInv, TypeOK
<1>2. part \in 1..MaxParts /\ part <= b /\ sent[b - part + 1].begin
  BY <1>1 DEF BeginInv, Packet
<1> HIDE DEF part
<1>3. b - part + 1 \notin (a + 1)..b
  BY <1>2
<1>4. b - a < part /\ b - a < MaxParts
  BY <1>1, <1>2, <1>3
<1> QED BY <1>4 DEF part

LEMMA SendRecovers ==
  ASSUME IInv, RecoverInv, NEW packet \in Packet, SendPacket(packet) PROVE RecoverInv'
<1> USE StreamAssumption
<1>1. sent \in Seq(Packet) /\ sent' = Append(sent, packet)
  BY DEF IInv, TypeOK, SendPacket
<1>2. /\ Len(sent') = Len(sent) + 1 /\ sent'[Len(sent) + 1] = packet /\ Len(sent) \in Nat
      /\ \A k \in 1..Len(sent) : sent'[k] = sent[k]
  BY <1>1
<1>3. UNCHANGED <<handler, network>> /\ last \in 0..Len(sent) /\ newest \in 0..Len(sent) /\ clean \in Nat
  BY DEF SendPacket, IInv, TypeOK
<1>4. CountInv'
  BY <1>2, <1>3 DEF SendPacket, RecoverInv, CountInv, Fault, network
<1>5. BeginInv'
  <2> SUFFICES ASSUME NEW k \in 1..Len(sent')
               PROVE  sent'[k].part <= k /\ sent'[k - sent'[k].part + 1].begin
    BY DEF BeginInv
  <2>1. CASE k \in 1..Len(sent)
    <3>0. sent[k] \in Packet
      BY <1>1, <2>1
    <3>1. sent[k].part \in 1..MaxParts
      BY <3>0 DEF Packet
    <3>2. sent[k].part <= k /\ sent[k - sent[k].part + 1].begin
      BY <2>1 DEF RecoverInv, BeginInv
    <3>3. k - sent[k].part + 1 \in 1..Len(sent)
      BY <2>1, <3>1, <3>2
    <3> QED BY <1>2, <2>1, <3>2, <3>3
  <2>2. CASE k = Len(sent) + 1
    <3>1. CASE AtFrameStart
      BY <1>2, <2>2, <3>1 DEF SendPacket
    <3>2. CASE ~AtFrameStart
      <4> DEFINE b == Len(sent)  part == sent[b].part
      <4>1. b \in 1..Len(sent) /\ packet.part = part + 1
        BY <1>1, <1>2, <3>2 DEF SendPacket, AtFrameStart
      <4>0. sent[b] \in Packet
        BY <1>1, <4>1
      <4>2. part \in 1..MaxParts
        BY <4>0 DEF Packet
      <4>3. part <= b /\ sent[b - part + 1].begin
        BY <4>1 DEF RecoverInv, BeginInv
      <4>4. sent'[k].part = part + 1 /\ k = b + 1
        BY <1>2, <2>2, <4>1
      <4> HIDE DEF part
      <4>5. k - (part + 1) + 1 = b - part + 1 /\ b - part + 1 \in 1..Len(sent)
        BY <4>1, <4>2, <4>3, <4>4
      <4> QED BY <1>2, <4>2, <4>3, <4>4, <4>5
    <3> QED BY <3>1, <3>2
  <2> QED BY <1>2, <2>1, <2>2
<1>6. RequestInv'
  <2> SUFFICES ASSUME last > 0, ~is_streaming PROVE NoneBegan' \/ Asked' \/ KeyComes'
    BY <1>3 DEF RequestInv, handler, network
  <2>1. Fault' = Fault /\ Crossing' = Crossing /\ Fault \in Int /\ Crossing \in Int
    BY <1>3 DEF Fault, Crossing, Further, network
  <2>2. CASE NoneBegan
    BY <1>2, <1>3, <2>1, <2>2 DEF NoneBegan, Fault, network, RecoverInv, CountInv
  <2>3. CASE KeyComes
    BY <1>2, <1>3, <2>1, <2>3 DEF KeyComes, network
  <2>4. CASE Asked /\ AtFrameStart
    <3>1. packet.begin /\ packet.idr
      BY <2>4 DEF SendPacket, Asked
    <3>2. Len(sent) + 1 <= Crossing + MaxParts
      <4>1. CASE Len(sent) <= Crossing
        BY <1>2, <2>1, <4>1
      <4>2. CASE Len(sent) > Crossing
        <5>1. Crossing \in Nat
          BY <1>3, <2>1 DEF Crossing, Further, Fault, RecoverInv, CountInv
        <5>2. Len(sent) - Crossing < MaxParts
          BY <1>2, <2>4, <4>2, <5>1, RestOfFrame DEF Asked, RecoverInv
        <5> QED BY <1>2, <2>1, <5>2
      <4> QED BY <1>2, <2>1, <4>1, <4>2
    <3>3. Len(sent) + 1 \in (last' + 1)..Len(sent')
      BY <1>2, <1>3 DEF network
    <3> QED BY <1>2, <2>1, <3>1, <3>2, <3>3 DEF KeyComes
  <2>5. CASE Asked /\ ~AtFrameStart
    <3>1. ~packet.begin /\ idr_wanted'
      BY <2>5 DEF SendPacket, Asked
    <3>2. ASSUME NEW k \in (Crossing + 1)..Len(sent') PROVE ~sent'[k].begin
      <4>1. CASE k = Len(sent) + 1
        BY <1>2, <3>1, <4>1
      <4>2. CASE k \in (Crossing + 1)..Len(sent)
        <5>1. k \in 1..Len(sent)
          BY <1>2, <1>3, <2>1, <4>2 DEF Crossing, Further, Fault, RecoverInv, CountInv
        <5> QED BY <1>2, <2>5, <4>2, <5>1 DEF Asked
      <4> QED BY <1>2, <2>1, <4>1, <4>2
    <3> QED BY <2>1, <3>1, <3>2 DEF Asked
  <2> QED BY <1>3, <2>2, <2>3, <2>4, <2>5 DEF RecoverInv, RequestInv
<1> QED BY <1>4, <1>5, <1>6 DEF RecoverInv

\* An arrival: it either counts anew, or came in order; where the handler must ask, the
\* console hears it or the count starts anew.
LEMMA ArrivalRecovers ==
  ASSUME IInv, RecoverInv, NEW i \in Place, Receive(i),
         clean' = 0 \/ (InOrder(i) /\ clean' = clean + 1),
         MustAsk(i) => clean' = 0 \/ idr_wanted',
         idr_wanted => idr_wanted'
  PROVE  RecoverInv'
<1> USE StreamAssumption
<1>1. /\ i \in 1..Len(sent) /\ sent' = sent /\ last' = i /\ Arrivable(i)
      /\ newest' = IF i > newest THEN i ELSE newest
  BY ReceiveTypes DEF Receive, Arrives
<1>2. last \in 0..Len(sent) /\ newest \in 0..Len(sent) /\ clean \in Nat /\ Len(sent) \in Nat
  BY DEF IInv, TypeOK
<1>3. BeginInv'
  BY <1>1 DEF RecoverInv, BeginInv
<1>4. CASE clean' = 0
  <2>1. Fault' = i
    BY <1>1, <1>4 DEF Fault
  <2>2. CountInv'
    BY <1>1, <1>2, <1>4, <2>1 DEF RecoverInv, CountInv, Arrivable
  <2>3. NoneBegan'
    BY <1>1, <2>1 DEF NoneBegan
  <2> QED BY <1>3, <2>2, <2>3 DEF RecoverInv, RequestInv
<1>5. CASE InOrder(i) /\ clean' = clean + 1
  <2>1. last > 0 /\ i = last + 1 /\ last \in 1..Len(sent)
    BY <1>2, <1>5 DEF InOrder
  <2>2. Fault' = Fault /\ Crossing' = Crossing
    <3>1. Fault' = Fault
      BY <1>1, <1>2, <1>5, <2>1 DEF Fault
    <3> QED BY <3>1 DEF Crossing, Further
  <2>3. /\ Fault \in 1..last
        /\ newest < Fault + Window \/ newest = last
        /\ Len(sent) <= newest + InFlight
    BY <1>2, <2>1 DEF RecoverInv, CountInv, Fault
  <2>4. CountInv'
    <3>1. clean < last
      BY <2>1 DEF RecoverInv, CountInv
    <3> QED BY <1>1, <1>2, <1>5, <2>1, <2>2, <2>3, <3>1 DEF CountInv
  <2>5. RequestInv'
    <3> SUFFICES ASSUME ~is_streaming' PROVE NoneBegan' \/ Asked' \/ KeyComes'
      BY DEF RequestInv
    <3>1. SeqOk(i)
      BY <2>1 DEF SeqOk, SeqId, IInv, SeqInv
    <3>2. ~is_streaming /\ (sent[i].begin => MustAsk(i))
      BY <3>1 DEF Receive, StillStreaming, Starts, MustAsk
    <3>3. sent[i].begin => idr_wanted' /\ ~sent[i].idr
      BY <1>2, <1>5, <3>2 DEF MustAsk
    <3>4. CASE NoneBegan /\ ~sent[i].begin
      BY <1>1, <1>2, <2>1, <2>2, <2>3, <3>4 DEF NoneBegan
    <3>5. CASE NoneBegan /\ sent[i].begin
      <4>1. last < Fault + MaxParts
        <5>1. CASE Fault = last
          BY <1>2, <2>3, <5>1
        <5>2. CASE Fault < last
          <6>1. Fault \in Nat /\ last \in Nat /\ last <= Len(sent) /\ \A k \in (Fault + 1)..last : ~sent[k].begin
            BY <1>2, <2>1, <2>3, <3>5 DEF NoneBegan
          <6>2. last - Fault < MaxParts
            BY <5>2, <6>1, RestOfFrame DEF RecoverInv
          <6> QED BY <6>1, <6>2
        <5> QED BY <2>1, <2>3, <5>1, <5>2
      <4>2. Len(sent) <= Crossing
        <5>1. newest <= Fault + Further - 1
          BY <1>2, <2>1, <2>3, <4>1 DEF Further
        <5>2. Further \in Nat
          BY DEF Further
        <5> QED BY <1>2, <2>1, <2>3, <5>1, <5>2 DEF Crossing
      <4>3. Crossing \in Int
        BY <2>1, <2>3 DEF Crossing, Further
      <4> QED BY <1>1, <1>2, <2>2, <3>3, <3>5, <4>2, <4>3 DEF Asked
    <3>6. CASE Asked
      BY <1>1, <2>2, <3>6 DEF Asked
    <3>7. CASE KeyComes
      <4>1. PICK k \in (last + 1)..Len(sent) : k <= Crossing + MaxParts /\ sent[k].begin /\ sent[k].idr
        BY <3>7 DEF KeyComes
      <4>2. k # i
        BY <3>3, <4>1
      <4>3. k \in (last' + 1)..Len(sent')
        BY <1>1, <1>2, <2>1, <4>2
      <4> QED BY <1>1, <2>2, <4>1, <4>3 DEF KeyComes
    <3> QED BY <2>1, <3>2, <3>4, <3>5, <3>6, <3>7 DEF RecoverInv, RequestInv
  <2> QED BY <1>3, <2>4, <2>5 DEF RecoverInv
<1> QED BY <1>4, <1>5

LEMMA NextRecovers == ASSUME IInv, RecoverInv, [Next]_vars PROVE RecoverInv'
<1> USE DEF RecoverInv, CountInv, BeginInv, RequestInv, NoneBegan, Asked, KeyComes, Crossing, Fault
<1>1. CASE UNCHANGED vars
  BY <1>1 DEF vars, console, handler, network
<1>2. ASSUME NEW i \in Place, AskFails(i) PROVE RecoverInv'
  BY <1>2 DEF AskFails, console, handler, network
<1> USE StreamAssumption
<1> HIDE DEF RecoverInv
<1>3. ASSUME NEW packet \in Packet, SendPacket(packet) PROVE RecoverInv'
  BY <1>3, SendRecovers
<1>4. ASSUME NEW i \in Place, AskForKeyFrame(i) \/ Collect(i) \/ Broadcast(i) PROVE RecoverInv'
  <2>1. Receive(i)
    BY <1>4 DEF AskForKeyFrame, Collect, Broadcast
  <2>2. clean' = 0 \/ (InOrder(i) /\ clean' = clean + 1)
    BY <1>4 DEF AskForKeyFrame, Collect, Broadcast, CountClean
  <2>3. MustAsk(i) => clean' = 0 \/ idr_wanted'
    BY <1>4 DEF AskForKeyFrame, Collect, Broadcast
  <2>4. idr_wanted => idr_wanted'
    BY <1>4 DEF AskForKeyFrame, Collect, Broadcast
  <2> QED BY <2>1, <2>2, <2>3, <2>4, ArrivalRecovers
<1> QED BY <1>1, <1>2, <1>3, <1>4 DEF Next

-----------------------------------------------------------------------------
(* The properties. *)

\* Every variable of the stream keeps its type, whatever arrives.
THEOREM TypeCorrect == Spec => []TypeOK
<1>1. IInv => TypeOK
  BY DEF IInv
<1> QED BY <1>1, Inductive, PTL

\* What is broadcast as a frame is one frame of the console, complete unless
\* is_streaming has never been assigned.
THEOREM WholeFramesHolds == Spec => []WholeFrames
<1>1. IInv => WholeFrames
  <2> SUFFICES ASSUME IInv, shown.packets # <<>>
               PROVE  LET s == shown.packets
                      IN /\ Consecutive(s)
                         /\ \A k \in 1..Len(s) : sent[s[k]].end <=> k = Len(s)
                         /\ \A k \in 1..Len(s) : sent[s[k]].begin => k = 1
                         /\ shown.defined => sent[s[1]].begin
                         /\ shown.idr = sent[s[1]].idr
    BY DEF WholeFrames
  <2> DEFINE s == shown.packets
  <2>1. s \in Seq(Place)
    BY DEF IInv, TypeOK, Shown
  <2>2. /\ RunOfFrame(sent, s, LastOf(s)) /\ sent[LastOf(s)].end
        /\ shown.idr = sent[LastOf(s)].idr /\ (shown.defined => sent[s[1]].begin)
    BY DEF IInv, ShownInv
  <2> HIDE DEF s
  <2>3. Len(s) \in Nat \ {0} /\ LastOf(s) \in Int
    <3>1. Len(s) \in Nat \ {0}
      BY <2>1, <2>2 DEF RunOfFrame
    <3>2. s[Len(s)] \in Place
      BY <2>1, <3>1
    <3> QED BY <3>1, <3>2 DEF LastOf, Place
  <2>4. Consecutive(s)
    BY <2>2, <2>3 DEF RunOfFrame, Consecutive
  <2>5. \A k \in 1..Len(s) : sent[s[k]].end <=> k = Len(s)
    BY <2>2, <2>3 DEF RunOfFrame, LastOf
  <2>6. /\ \A k \in 1..Len(s) : sent[s[k]].begin => k = 1
        /\ shown.idr = sent[s[1]].idr
    BY <2>2, <2>3 DEF RunOfFrame
  <2> QED BY <2>2, <2>4, <2>5, <2>6 DEF s
<1> QED BY <1>1, Inductive, PTL

\* While the stream is on, no more than one frame is in the frame buffer.
THEOREM BufferWithinFrameHolds == Spec => []BufferWithinFrame
<1>1. IInv => BufferWithinFrame
  <2> SUFFICES ASSUME IInv, is_streaming, assigned PROVE Len(frame) <= MaxParts
    BY DEF BufferWithinFrame
  <2>1. last \in 1..Len(sent) /\ sent \in Seq(Packet)
    BY DEF IInv, TypeOK, SeqInv
  <2>2. sent[last] \in Packet /\ Len(frame) = sent[last].part
    BY <2>1 DEF IInv, FrameInv
  <2> QED BY <2>2, StreamAssumption DEF Packet
<1> QED BY <1>1, Inductive, PTL

\* The handler implements StreamGate: what it shows with the stream properly on is
\* a key frame or the frame after the one it showed last.
THEOREM GateImplemented == Spec => ShowsWhatDecodes
<1> DEFINE gate == IF shown.defined
                     THEN [first |-> shown.packets[1], last |-> LastOf(shown.packets),
                           idr |-> shown.idr]
                     ELSE [first |-> 0, last |-> -1, idr |-> FALSE]
<1>1. Init => Gate!Init
  BY DEF Init, NoFrame, Gate!Init, Gate!Nothing
<1>2. ASSUME IInv, [Next]_vars PROVE [Gate!Show]_gate
  <2>1. CASE shown' = shown
    BY <2>1 DEF LastOf
  <2>2. ASSUME NEW i \in Place, Broadcast(i) PROVE [Gate!Show]_gate
    <3>1. /\ Receive(i) /\ ~MustAsk(i) /\ frame' = Collected(i) /\ is_streaming'
          /\ shown' = [packets |-> frame', idr |-> sent[i].idr, defined |-> assigned']
      BY <2>2 DEF Broadcast
    <3>2. CASE assigned'
      <4>1. /\ RunOfFrame(sent, frame', i)
            /\ sent[i].idr \/ (shown.defined /\ LastOf(shown.packets) = frame'[1] - 1)
        BY <1>2, <3>1, <3>2, Continues
      <4>2. frame' \in Seq(Place)
        BY <1>2, <3>1, CollectedTypes
      <4>3. frame'[1] \in Int /\ frame'[1] <= frame'[Len(frame')]
        BY <4>1, <4>2 DEF RunOfFrame, Place
      <4>4. /\ gate'.first = frame'[1] /\ gate'.last = frame'[Len(frame')]
            /\ gate'.idr = sent[i].idr
        BY <3>1, <3>2 DEF LastOf
      <4>5. shown.defined => gate.last = LastOf(shown.packets) /\ LastOf(shown.packets) \in Int
        <5>1. shown.packets \in Seq(Place) /\ (shown.defined => shown.packets # <<>>)
          BY <1>2 DEF IInv, TypeOK, Shown, ShownInv
        <5>2. shown.defined => shown.packets[Len(shown.packets)] \in Place
          BY <5>1
        <5> QED BY <5>1, <5>2 DEF LastOf, Place
      <4> HIDE DEF gate
      <4>6. gate'.first <= gate'.last /\ (gate'.idr \/ gate'.first = gate.last + 1)
        BY <4>1, <4>3, <4>4, <4>5
      <4> QED BY <4>6 DEF Gate!Show, LastOf, gate
    <3>3. CASE ~assigned'
      <4>1. ~shown.defined
        BY <1>2, <3>1, <3>3 DEF Receive, IInv, ShownInv
      <4> QED BY <3>1, <3>3, <4>1
    <3> QED BY <3>2, <3>3
  <2>3. CASE \E i \in Place : AskForKeyFrame(i) \/ AskFails(i) \/ Collect(i)
    BY <2>1, <2>3 DEF AskForKeyFrame, AskFails, Collect
  <2>4. CASE \E packet \in Packet : SendPacket(packet)
    BY <2>1, <2>4 DEF SendPacket
  <2>5. CASE UNCHANGED vars
    BY <2>1, <2>5 DEF vars
  <2> QED BY <1>2, <2>2, <2>3, <2>4, <2>5 DEF Next
<1>3. IInv /\ [Next]_vars => [Gate!Show]_(IF shown.defined
        THEN [first |-> shown.packets[1], last |-> shown.packets[Len(shown.packets)], idr |-> shown.idr]
        ELSE [first |-> 0, last |-> -1, idr |-> FALSE])
  BY <1>2 DEF LastOf
<1> QED BY <1>1, <1>3, Inductive, PTL DEF Spec, ShowsWhatDecodes, Gate!Spec

\* The stream is on again within a bounded run of undisturbed packets: the handler asks
\* at the first frame that begins after the fault, no frame that was begun before the
\* console hears it reaches far beyond the crossing, and the next one is a key frame.
THEOREM RecoversInTimeHolds == Spec => []RecoversInTime
<1>1. Init => RecoverInv
  <2> SUFFICES ASSUME Init PROVE RecoverInv
    OBVIOUS
  <2>1. Len(sent) = 0 /\ last = 0 /\ clean = 0 /\ newest = 0
    BY DEF Init
  <2> QED BY <2>1, StreamAssumption DEF RecoverInv, CountInv, BeginInv, RequestInv
<1>2. ASSUME IInv, RecoverInv PROVE RecoversInTime
  <2> SUFFICES ASSUME clean >= RecoveryTime, ~is_streaming PROVE FALSE
    BY DEF RecoversInTime
  <2> USE StreamAssumption
  <2> DEFINE S == Len(sent)
  <2>1. last \in 0..S /\ clean \in Nat /\ S \in Nat
    BY <1>2 DEF IInv, TypeOK
  <2>2. /\ Further \in Nat /\ Further >= MaxParts /\ RecoveryTime = MaxParts + InFlight + Further - 1
        /\ Crossing = Fault + Further - 1 + InFlight /\ Fault = last - clean
    BY DEF Further, RecoveryTime, Crossing, Fault
  <2>3. /\ clean > 0 /\ last > 0 /\ Fault \in 1..(last - 1) /\ Crossing \in Nat
    BY <1>2, <2>1, <2>2 DEF RecoverInv, CountInv
  <2>4. last >= Crossing + MaxParts
    BY <2>1, <2>2, <2>3
  <2> HIDE DEF S
  <2>5. CASE NoneBegan
    <3>1. last - Fault < MaxParts
      BY <1>2, <2>1, <2>3, <2>5, RestOfFrame DEF NoneBegan, S, RecoverInv
    <3> QED BY <2>1, <2>2, <2>3, <2>4, <3>1
  <2>6. CASE Asked
    <3>1. Crossing < S /\ \A k \in (Crossing + 1)..S : ~sent[k].begin
      BY <2>1, <2>3, <2>4, <2>6 DEF Asked, S
    <3>2. S - Crossing < MaxParts
      BY <1>2, <2>1, <2>3, <3>1, RestOfFrame DEF S, RecoverInv
    <3> QED BY <2>1, <2>3, <2>4, <3>2
  <2>7. CASE KeyComes
    BY <2>1, <2>3, <2>4, <2>7 DEF KeyComes, S
  <2> QED BY <1>2, <2>3, <2>5, <2>6, <2>7 DEF RecoverInv, RequestInv
<1>3. IInv /\ RecoverInv /\ [Next]_vars => RecoverInv'
  BY NextRecovers
<1> QED BY <1>1, <1>2, <1>3, Inductive, PTL DEF Spec

=============================================================================
