------------------------ MODULE ConsoleCommandsProofs ------------------------
(***************************************************************************)
(* Proofs about ConsoleCommands, for every file of answers, modulus and    *)
(* window: the types, and that the handler implements CommandService.      *)
(*                                                                         *)
(* The argument: every packet belongs to a request of the last Window      *)
(* (Recent), so one with the number of the present request belongs to it   *)
(* (SameRequest). An answer carries the content of the request whose copy  *)
(* it was built in (Answered), so the console hears nothing else (HeardInv).*)
(***************************************************************************)
EXTENDS ConsoleCommands, TLAPS

-----------------------------------------------------------------------------
(* Arithmetic. *)

LEMMA DivMod == ASSUME NEW M \in Nat \ {0}, NEW i \in Nat
  PROVE /\ i \div M \in Nat /\ i % M \in 0..(M - 1) /\ i = M * (i \div M) + (i % M)
  BY SMT

LEMMA Monotone == ASSUME NEW M \in Nat \ {0}, NEW p \in Int, NEW q \in Int, p < q
  PROVE M * p + M <= M * q
<1>1. p + 1 <= q OBVIOUS
<1>2. M * (p + 1) <= M * q BY <1>1, SMT
<1> QED BY <1>2, SMT

\* Numbers less than a modulus apart are told apart by their remainders.
LEMMA SameRemainder ==
  ASSUME NEW M \in Nat \ {0}, NEW a \in Nat, NEW b \in Nat, a % M = b % M, a <= b, b < a + M
  PROVE  a = b
<1> DEFINE p == a \div M  q == b \div M
<1>1. p \in Nat /\ q \in Nat /\ a % M \in 0..(M - 1) /\ a = M * p + (a % M) /\ b = M * q + (b % M) BY DivMod
<1>2. M * p \in Int /\ M * q \in Int BY <1>1
<1> HIDE DEF p, q
<1>3. ~(p < q) BY Monotone, <1>1, <1>2
<1>4. ~(q < p) BY Monotone, <1>1, <1>2
<1> QED BY <1>1, <1>3, <1>4

LEMMA MaxWordType == MaxWord \in Nat
  BY DEF MaxWord

\* htons and ntohs undo each other.
LEMMA SwapTwice == ASSUME NEW w \in Word PROVE Swap(w) \in Word /\ Swap(Swap(w)) = w
<1> DEFINE low == w % 256  high == w \div 256
<1>1. low \in 0..255 /\ high \in 0..255 /\ w = 256 * high + low
  <2>1. w \in Int /\ 0 <= w /\ w <= 65535 BY DEF Word, MaxWord
  <2> QED BY <2>1, SMT
<1> DEFINE other == low * 256 + high
<1>2. Swap(w) = other BY DEF Swap
<1> HIDE DEF low, high
<1>3. other \in Int /\ other >= 0 /\ other <= MaxWord BY <1>1, SMT DEF MaxWord
<1>5. other % 256 = high /\ other \div 256 = low BY <1>1, SMT
<1> HIDE DEF other
<1>4. Swap(other) = w BY <1>1, <1>5 DEF Swap
<1>6. other \in Word BY <1>3, MaxWordType DEF Word
<1> QED BY <1>2, <1>4, <1>6

-----------------------------------------------------------------------------
(* The hexadecimal text of an answer. *)

LEMMA LowerIsInjective ==
  ASSUME NEW n \in 1..16, NEW m \in 1..16, LowerDigits[n] = LowerDigits[m] PROVE n = m
  BY DEF LowerDigits

LEMMA UpperIsInjective ==
  ASSUME NEW n \in 1..16, NEW m \in 1..16, hex_array[n] = hex_array[m] PROVE n = m
  BY DEF hex_array

LEMMA DigitValue == ASSUME NEW n \in 0..15 PROVE HexCharToInt(LowerDigits[1 + n]) = n
<1> DEFINE char == LowerDigits[1 + n]
<1>1. 1 + n \in 1..16 OBVIOUS
<1>2. (CHOOSE k \in 1..16 : LowerDigits[k] = char) = 1 + n
  BY <1>1, LowerIsInjective
<1>3. Upper(char) = hex_array[1 + n]
  BY <1>1, <1>2 DEF Upper
<1> DEFINE place == CHOOSE k \in 1..16 : hex_array[k] = hex_array[1 + n]
<1>4. place = 1 + n
  BY <1>1, UpperIsInjective
<1>5. Digit(hex_array[1 + n]) = place - 1
  BY <1>1 DEF Digit
<1> HIDE DEF place
<1>6. Digit(hex_array[1 + n]) = n BY <1>4, <1>5
<1> QED BY <1>3, <1>6 DEF HexCharToInt

LEMMA ElementOf == ASSUME NEW S, NEW s \in Seq(S), NEW i \in 1..Len(s) PROVE s[i] \in S
  OBVIOUS

LEMMA LengthOf == ASSUME NEW S, NEW n \in Nat, NEW f \in [1..n -> S]
  PROVE f \in Seq(S) /\ Len(f) = n
  OBVIOUS

\* Bytes written as text come back as they were.
LEMMA TextReadBack == ASSUME NEW bytes \in Seq(0..255) PROVE HexStrToBytes(Text(bytes)) = bytes
<1> DEFINE str == Text(bytes)
<1>1. Len(bytes) \in Nat /\ Len(str) = 2 * Len(bytes)
  <2>1. 2 * Len(bytes) \in Nat OBVIOUS
  <2>2. str \in [1..(2 * Len(bytes)) -> {str[i] : i \in 1..(2 * Len(bytes))}] BY Zenon DEF Text
  <2> HIDE DEF str
  <2> QED BY <2>1, <2>2, LengthOf
<1> HIDE DEF str
<1>2. Len(str) \div 2 = Len(bytes) BY <1>1
<1>3. ASSUME NEW i \in 1..Len(bytes)
      PROVE Byte(HexCharToInt(str[2 * i - 1]), HexCharToInt(str[2 * i])) = bytes[i]
  <2> DEFINE byte == bytes[i]
  <2>1. byte \in 0..255 BY ElementOf
  <2>2. byte \div 16 \in 0..15 /\ byte % 16 \in 0..15 /\ byte = 16 * (byte \div 16) + (byte % 16)
    <3> HIDE DEF byte
    <3> QED BY <2>1, SMT
  <2>3. /\ 2 * i - 1 \in 1..(2 * Len(bytes)) /\ 2 * i \in 1..(2 * Len(bytes))
        /\ ((2 * i - 1) + 1) \div 2 = i /\ (2 * i + 1) \div 2 = i
        /\ (2 * i - 1) % 2 = 1 /\ (2 * i) % 2 = 0
    BY <1>1, SMT
  <2> USE DEF str
  <2>4. str[2 * i - 1] = LowerDigits[1 + (byte \div 16)] /\ str[2 * i] = LowerDigits[1 + (byte % 16)]
    BY <2>3 DEF Text
  <2> HIDE DEF str
  <2>5. HexCharToInt(str[2 * i - 1]) = byte \div 16 /\ HexCharToInt(str[2 * i]) = byte % 16
    BY <2>2, <2>4, DigitValue
  <2> HIDE DEF byte
  <2>6. Byte(byte \div 16, byte % 16) = byte BY <2>1, <2>2, SMT DEF Byte
  <2> QED BY <2>5, <2>6 DEF byte
<1>4. HexStrToBytes(str) = [i \in 1..Len(bytes) |-> bytes[i]]
  BY <1>2, <1>3 DEF HexStrToBytes
<1> QED BY <1>4 DEF str

-----------------------------------------------------------------------------
(* The inductive invariant. *)

\* A packet belongs to one of the last Window requests, whose number it has.
Recent(p) == p.from \in 1..number /\ p.from + Window > number /\ p.seq = p.from % SeqMod

\* The request a packet was made for.
Asked(p)      == [cmd |-> p.cmd, id |-> p.id]
OwnRequest(p) == p.type \in {"REQ", "RESP"} => Asked(p) \in Requests /\ (p.from = number => Asked(p) = request)
Answered(p)   == p.type = "RESP" => Asked(p) \in Known /\ Heard(p) = Content(Asked(p))

NetInv    == \A p \in net : Recent(p) /\ OwnRequest(p) /\ Answered(p)
PacketInv == pc # "idle" => packet.type = "REQ" /\ Recent(packet) /\ OwnRequest(packet)
HeardInv  == heard # {} => request \in Known /\ heard = {Content(request)}
FirstInv  == IF number = 0 THEN request = NoRequest ELSE request \in Requests

IInv == TypeOK /\ NetInv /\ PacketInv /\ HeardInv /\ FirstInv

-----------------------------------------------------------------------------
(* Packets. *)

USE CommandAssumption

LEMMA WordFacts == 0 \in Word /\ \A n \in 0..PayloadRoom : n \in Word
<1>1. PayloadRoom \in Nat /\ PayloadRoom <= MaxWord BY DEF PayloadRoom, MaxWord
<1> QED BY <1>1, MaxWordType DEF Word

LEMMA RemainderType == ASSUME NEW n \in Nat PROVE n % SeqMod \in 0..(SeqMod - 1)
  BY DivMod

\* What the console sends for request r, its n-th.
RequestPacket(r, n) ==
  [type |-> "REQ", cmd |-> r.cmd, seq |-> n % SeqMod, id |-> r.id, size |-> HeaderSize(r.cmd),
   payload_size |-> 0, payload |-> <<>>, from |-> n]

LEMMA RequestTypes == ASSUME NEW r \in Requests, NEW n \in 1..MaxRequests
  PROVE  RequestPacket(r, n) \in Packet /\ Asked(RequestPacket(r, n)) = r
<1>1. r.cmd \in Cmds /\ r.id \in Ids \cup {NoId} /\ r = [cmd |-> r.cmd, id |-> r.id]
  BY DEF Requests, Cmds
<1>2. n % SeqMod \in 0..(SeqMod - 1)
  BY RemainderType
<1>3. HeaderSize(r.cmd) \in Word
  BY WordFacts DEF HeaderSize, PayloadRoom
<1> QED BY <1>1, <1>2, <1>3, WordFacts DEF RequestPacket, Packet, Asked

LEMMA ParsedTypes == ASSUME NEW p \in Packet
  PROVE  Parsed(p) \in Packet /\ \A field \in {"type", "cmd", "seq", "id", "from"} : Parsed(p)[field] = p[field]
<1>1. p.payload_size \in Word BY DEF Packet
<1>2. Swap(p.payload_size) \in Word BY <1>1, SwapTwice
<1> QED BY <1>2 DEF Parsed, Packet

\* What the handler sends is the memory of the request with some fields overwritten.
LEMMA ResponseTypes ==
  ASSUME NEW bytes, TypeOK, pc # "idle", Fits(packet.cmd, bytes)
  PROVE  /\ Response(bytes) \in Packet /\ Response(bytes).type = "RESP"
         /\ \A field \in {"cmd", "seq", "id", "from"} : Response(bytes)[field] = packet[field]
         /\ Announced(Response(bytes)) = Len(bytes) /\ Response(bytes).payload = BlankOut(bytes)
<1>1. packet \in Packet BY DEF TypeOK
<1>2. bytes \in Seq(0..255) /\ Len(bytes) \in Nat /\ HeaderSize(packet.cmd) \in Nat /\ packet.cmd \in Cmds
  BY <1>1 DEF Fits, HeaderSize, Packet
<1>3. Len(bytes) \in 0..PayloadRoom /\ Len(bytes) + HeaderSize(packet.cmd) \in 0..PayloadRoom
  <2>1. PayloadRoom \in Nat BY DEF PayloadRoom
  <2> QED BY <1>2, <2>1 DEF Fits
<1>4. Len(bytes) \in Word /\ Len(bytes) + HeaderSize(packet.cmd) \in Word
  BY <1>3, WordFacts
<1>5. PayloadSize(bytes) \in Word
  BY <1>1, <1>4, SwapTwice DEF PayloadSize, Packet
<1>6. BlankOut(bytes) \in Seq(0..255)
  <2>1. [i \in 1..Len(bytes) |-> 0] \in [1..Len(bytes) -> 0..255] OBVIOUS
  <2> QED BY <1>2, <2>1, LengthOf DEF BlankOut
<1>7. Response(bytes) \in Packet
  BY <1>1, <1>4, <1>5, <1>6 DEF Response, Packet
<1>8. /\ Response(bytes).type = "RESP" /\ Response(bytes).payload = BlankOut(bytes)
      /\ \A field \in {"cmd", "seq", "id", "from"} : Response(bytes)[field] = packet[field]
      /\ Response(bytes).size = Len(bytes) + HeaderSize(packet.cmd)
      /\ Response(bytes).payload_size = PayloadSize(bytes)
  BY <1>1 DEF Response, Packet
<1>9. Announced(Response(bytes)) = Len(bytes)
  <2>1. CASE packet.cmd = 0 BY <1>4, <1>8, <2>1, SwapTwice DEF Announced, PayloadSize
  <2>2. CASE packet.cmd # 0 BY <1>2, <1>8, <2>2 DEF Announced, HeaderSize
  <2> QED BY <2>1, <2>2
<1> QED BY <1>7, <1>8, <1>9

\* The console hears what was to be said.
LEMMA ResponseHeard ==
  ASSUME NEW bytes, TypeOK, pc # "idle", Fits(packet.cmd, bytes)
  PROVE  Heard(Response(bytes)) = BlankOut(bytes)
<1> DEFINE said == BlankOut(bytes)
<1>1. bytes \in Seq(0..255) BY DEF Fits
<1>2. said \in Seq(0..255) /\ Len(said) = Len(bytes)
  <2>1. [i \in 1..Len(bytes) |-> 0] \in [1..Len(bytes) -> 0..255] /\ Len(bytes) \in Nat BY <1>1
  <2> QED BY <1>1, <2>1, LengthOf DEF BlankOut
<1>3. Announced(Response(bytes)) = Len(bytes) /\ Response(bytes).payload = said
  BY ResponseTypes
<1> HIDE DEF said
<1>4. Heard(Response(bytes)) = [i \in 1..Len(said) |-> said[i]]
  BY <1>2, <1>3 DEF Heard
<1>5. said = [i \in 1..Len(said) |-> said[i]] BY <1>2
<1> QED BY <1>4, <1>5 DEF said

\* What the handler answers is what the file has for the request in its memory.
LEMMA AnswerOfFile ==
  ASSUME NEW bytes, IInv, pc = "answer",
         \/ packet.id \in Listed /\ bytes = ZeroBytes[packet.id]
         \/ packet.cmd = 1 /\ bytes = OneBytes
         \/ packet.cmd = 2 /\ bytes = <<>>
  PROVE  /\ Asked(packet) \in Known /\ bytes = File(Asked(packet)) /\ Fits(packet.cmd, bytes)
         /\ Content(Asked(packet)) = BlankOut(bytes)
<1>1. Asked(packet) \in Requests /\ Asked(packet).cmd = packet.cmd /\ Asked(packet).id = packet.id
  BY DEF IInv, PacketInv, OwnRequest, Asked
<1>2. Asked(packet) \in Known /\ bytes = File(Asked(packet)) /\ Fits(packet.cmd, bytes)
  <2>1. CASE packet.id \in Listed /\ bytes = ZeroBytes[packet.id]
    <3>1. packet.cmd = 0 BY <1>1, <2>1 DEF Requests
    <3>2. Fits(0, Zero(packet.id)) BY <2>1
    <3>3. bytes = Zero(packet.id) BY <2>1, <3>2, TextReadBack DEF ZeroBytes, Fits
    <3> QED BY <1>1, <2>1, <3>1, <3>2, <3>3 DEF Known, File
  <2>2. CASE packet.cmd = 1 /\ bytes = OneBytes
    <3>1. bytes = One BY <2>2, TextReadBack DEF OneBytes, Fits
    <3> QED BY <1>1, <2>2, <3>1 DEF Known, File
  <2>3. CASE packet.cmd = 2 /\ bytes = <<>>
    BY <1>1, <2>3 DEF Known, File, Fits, HeaderSize, PayloadRoom
  <2> QED BY <2>1, <2>2, <2>3
<1> QED BY <1>2 DEF Content, BlankOut

\* An acknowledgement is a packet with its contents left out.
Emptied(p, type, id) == [p EXCEPT !.type = type, !.id = id, !.size = 0, !.payload_size = 0, !.payload = <<>>]

LEMMA EmptiedTypes ==
  ASSUME NEW p \in Packet, NEW type \in {"REQ_ACK", "RESP_ACK"}, NEW id \in Ids \cup {NoId}
  PROVE  /\ Emptied(p, type, id) \in Packet /\ Emptied(p, type, id).type = type
         /\ Emptied(p, type, id).from = p.from /\ Emptied(p, type, id).seq = p.seq
<1>1. <<>> \in Seq(0..255) /\ 0 \in Word /\ type \in {"REQ", "REQ_ACK", "RESP", "RESP_ACK"}
  BY WordFacts
<1> HIDE DEF Word
<1> QED BY <1>1 DEF Packet, Emptied

-----------------------------------------------------------------------------
(* Every action keeps the invariant. *)

\* A packet of the past window is of the request with its number.
LEMMA SameRequest ==
  ASSUME IInv, NEW p \in net, p.seq = number % SeqMod PROVE p.from = number
<1>1. p.from \in 1..number /\ p.from + Window > number /\ p.from % SeqMod = number % SeqMod
  BY DEF IInv, NetInv, Recent
<1>2. number \in Nat BY DEF IInv, TypeOK
<1> DEFINE from == p.from
<1>3. from \in Nat /\ from <= number /\ number < from + SeqMod /\ from % SeqMod = number % SeqMod
  BY <1>1, <1>2
<1> HIDE DEF from
<1>4. from = number BY <1>2, <1>3, SameRemainder
<1> QED BY <1>4 DEF from

LEMMA AskKeeps == ASSUME IInv, NEW r \in Requests, Ask(r) PROVE IInv'
<1> DEFINE fresh == RequestPacket(r, number + 1)
<1>1. /\ number \in Nat /\ number' = number + 1 /\ number' \in 1..MaxRequests /\ request' = r
      /\ acked' = FALSE /\ heard' = {} /\ pc' = pc /\ packet' = packet /\ alive' = alive
      /\ pc # "idle" => packet.from + Window > number + 1
  BY DEF IInv, TypeOK, Ask, handler
<1>2. net' = {p \in net : p.from + Window > number + 1} \cup {fresh}
  BY <1>1 DEF Ask, Message, RequestPacket
<1>3. fresh \in Packet /\ Asked(fresh) = r /\ fresh.type = "REQ" /\ fresh.from = number + 1
      /\ fresh.seq = (number + 1) % SeqMod
  BY <1>1, RequestTypes DEF RequestPacket
<1> HIDE DEF fresh
<1>4. TypeOK'
  <2>1. net' \subseteq Packet BY <1>2, <1>3 DEF IInv, TypeOK
  <2>2. number' \in 0..MaxRequests /\ heard' \subseteq Seq(0..255) BY <1>1
  <2> QED BY <1>1, <2>1, <2>2 DEF IInv, TypeOK
<1>5. NetInv'
  <2>1. ASSUME NEW p \in net' PROVE Recent(p)' /\ OwnRequest(p)' /\ Answered(p)'
    <3>1. CASE p = fresh
      BY <1>1, <1>3, <3>1 DEF Recent, OwnRequest, Answered
    <3>2. CASE p \in net /\ p.from + Window > number + 1
      <4>1. Recent(p) /\ OwnRequest(p) /\ Answered(p)
        BY <3>2 DEF IInv, NetInv
      <4> QED BY <1>1, <3>2, <4>1 DEF Recent, OwnRequest, Answered
    <3> QED BY <1>2, <2>1, <3>1, <3>2
  <2> QED BY <2>1 DEF NetInv
<1>6. PacketInv'
  BY <1>1 DEF IInv, PacketInv, Recent, OwnRequest
<1> QED BY <1>1, <1>4, <1>5, <1>6 DEF IInv, HeardInv, FirstInv

\* A step that changes the network only, by packets that may be there.
LEMMA NetKeeps ==
  ASSUME IInv, UNCHANGED <<number, request, heard, pc, packet>>, acked' \in BOOLEAN, alive' \in BOOLEAN,
         NEW new \in SUBSET Packet, net' \subseteq net \cup new,
         \A p \in new : Recent(p) /\ OwnRequest(p) /\ Answered(p)
  PROVE  IInv'
<1>1. TypeOK' BY DEF IInv, TypeOK
<1>2. NetInv' BY DEF IInv, NetInv, Recent, OwnRequest, Answered
<1> QED BY <1>1, <1>2 DEF IInv, PacketInv, HeardInv, FirstInv, Recent, OwnRequest

LEMMA LossKeeps ==
  ASSUME IInv, UNCHANGED <<number, request, heard, pc, packet>>, acked' \in BOOLEAN, alive' \in BOOLEAN,
         net' \subseteq net
  PROVE  IInv'
<1>1. TypeOK' BY DEF IInv, TypeOK
<1>2. NetInv' BY DEF IInv, NetInv, Recent, OwnRequest, Answered
<1> QED BY <1>1, <1>2 DEF IInv, PacketInv, HeardInv, FirstInv, Recent, OwnRequest

LEMMA RepeatKeeps == ASSUME IInv, Repeat PROVE IInv'
<1> DEFINE copy == RequestPacket(request, number)
<1>1. request \in Requests /\ number \in 1..MaxRequests
  BY DEF IInv, TypeOK, FirstInv, Repeat, NoRequest, Requests
<1>2. net' = net \cup {copy} /\ UNCHANGED <<number, request, acked, heard, pc, packet, alive>>
  BY DEF Repeat, Message, RequestPacket, console, handler
<1>3. copy \in Packet /\ Asked(copy) = request /\ copy.type = "REQ" /\ copy.from = number /\ copy.seq = number % SeqMod
  BY <1>1, RequestTypes DEF RequestPacket
<1> HIDE DEF copy
<1>4. Recent(copy) /\ OwnRequest(copy) /\ Answered(copy)
  BY <1>1, <1>3 DEF Recent, OwnRequest, Answered
<1>5. {copy} \in SUBSET Packet /\ acked' \in BOOLEAN /\ alive' \in BOOLEAN
  BY <1>2, <1>3 DEF IInv, TypeOK
<1> QED BY <1>2, <1>4, <1>5, NetKeeps

LEMMA HearsAnswerKeeps == ASSUME IInv, NEW p \in net, HearsAnswer(p) PROVE IInv'
<1> DEFINE thanks == [p EXCEPT !.type = "RESP_ACK", !.size = 0, !.payload_size = 0, !.payload = <<>>]
<1>1. /\ p \in Packet /\ p.type = "RESP" /\ net' \subseteq net \cup {thanks}
      /\ UNCHANGED <<number, request, acked, pc, packet, alive>>
      /\ heard' = heard \cup (IF p.seq = number % SeqMod THEN {Heard(p)} ELSE {})
  BY DEF IInv, TypeOK, HearsAnswer, handler
<1>2. /\ thanks \in Packet /\ thanks.type = "RESP_ACK"
      /\ thanks.from = p.from /\ thanks.seq = p.seq
  <2>1. p.id \in Ids \cup {NoId} /\ thanks = Emptied(p, "RESP_ACK", p.id)
    BY <1>1 DEF Packet, Emptied
  <2> QED BY <1>1, <2>1, EmptiedTypes
<1> HIDE DEF thanks
<1>3. Recent(p) /\ OwnRequest(p) /\ Answered(p)
  BY DEF IInv, NetInv
<1>4. HeardInv' /\ heard' \subseteq Seq(0..255)
  <2>1. CASE p.seq = number % SeqMod
    <3>1. request = Asked(p) /\ request \in Known /\ Heard(p) = Content(request)
      BY <1>1, <1>3, <2>1, SameRequest DEF OwnRequest, Answered
    <3>2. heard' = {Content(request)}
      BY <1>1, <2>1, <3>1 DEF IInv, HeardInv
    <3>3. Heard(p) \in Seq(0..255)
      <4>1. p.payload \in Seq(0..255) /\ p.payload_size \in Word /\ p.size \in Word
        BY <1>1 DEF Packet
      <4>2. Announced(p) \in Nat
        BY <4>1, SwapTwice, MaxWordType DEF Announced, Word
      <4>3. ASSUME NEW i \in 1..Announced(p)
            PROVE  (IF i <= Len(p.payload) THEN p.payload[i] ELSE 0) \in 0..255
        <5>1. CASE i <= Len(p.payload)
          <6>1. i \in 1..Len(p.payload) BY <4>1, <4>2, <5>1
          <6>2. p.payload[i] \in 0..255 BY <4>1, <6>1, ElementOf
          <6> QED BY <5>1, <6>2
        <5>2. CASE ~(i <= Len(p.payload)) BY <5>2
        <5> QED BY <5>1, <5>2
      <4>4. Heard(p) \in [1..Announced(p) -> 0..255]
        BY <4>2, <4>3 DEF Heard
      <4> QED BY <4>2, <4>4, LengthOf
    <3> QED BY <1>1, <3>1, <3>2, <3>3 DEF HeardInv
  <2>2. CASE p.seq # number % SeqMod
    BY <1>1, <2>2 DEF IInv, HeardInv, TypeOK
  <2> QED BY <2>1, <2>2
<1>5. TypeOK'
  BY <1>1, <1>2, <1>4 DEF IInv, TypeOK
<1>6. NetInv'
  BY <1>1, <1>2, <1>3 DEF IInv, NetInv, Recent, OwnRequest, Answered
<1> QED BY <1>1, <1>4, <1>5, <1>6 DEF IInv, PacketInv, FirstInv, Recent, OwnRequest

LEMMA ReceiveKeeps == ASSUME IInv, NEW p \in net, Receive(p) PROVE IInv'
<1>1. /\ p \in Packet /\ pc = "idle" /\ p.type \in {"REQ", "RESP_ACK"} /\ net' \subseteq net
      /\ UNCHANGED <<number, request, acked, heard, alive>>
  BY DEF IInv, TypeOK, Receive, Delivered, console
<1>2. CASE ~Handled(p.type)
  <2>1. UNCHANGED <<pc, packet>> BY <1>2 DEF Receive, handler
  <2> QED BY <1>1, <2>1, NetKeeps DEF IInv, TypeOK
<1>3. CASE Handled(p.type)
  <2>1. pc' = "ack" /\ packet' = Parsed(p) /\ p.type = "REQ"
    BY <1>1, <1>3 DEF Receive, Handled
  <2>2. packet' \in Packet /\ packet'.type = p.type /\ packet'.cmd = p.cmd /\ packet'.seq = p.seq
        /\ packet'.id = p.id /\ packet'.from = p.from
    BY <1>1, <2>1, ParsedTypes
  <2>3. Recent(p) /\ OwnRequest(p)
    BY DEF IInv, NetInv
  <2>4. PacketInv'
    BY <1>1, <2>1, <2>2, <2>3 DEF PacketInv, Recent, OwnRequest, Asked
  <2>5. TypeOK'
    BY <1>1, <2>1, <2>2 DEF IInv, TypeOK
  <2>6. NetInv'
    BY <1>1 DEF IInv, NetInv, Recent, OwnRequest, Answered
  <2> QED BY <1>1, <2>4, <2>5, <2>6 DEF IInv, HeardInv, FirstInv
<1> QED BY <1>2, <1>3

LEMMA AcknowledgeKeeps == ASSUME IInv, Acknowledge PROVE IInv'
<1> DEFINE ack == [packet EXCEPT !.type = AckType(packet.type), !.id = NoId, !.size = 0,
                                 !.payload_size = 0, !.payload = <<>>]
<1>1. /\ packet \in Packet /\ pc' = "answer" /\ net' = net \cup {ack}
      /\ UNCHANGED <<number, request, acked, heard, packet, alive>>
      /\ packet.type = "REQ" /\ Recent(packet) /\ OwnRequest(packet)
  BY DEF IInv, TypeOK, PacketInv, Acknowledge, console
<1>2. ack \in Packet /\ ack.type = "REQ_ACK" /\ ack.from = packet.from /\ ack.seq = packet.seq
  <2>1. AckType(packet.type) = "REQ_ACK" /\ ack = Emptied(packet, "REQ_ACK", NoId)
    BY <1>1 DEF AckType, Emptied
  <2> QED BY <1>1, <2>1, EmptiedTypes
<1> HIDE DEF ack
<1>3. TypeOK' BY <1>1, <1>2 DEF IInv, TypeOK
<1>4. NetInv' BY <1>1, <1>2 DEF IInv, NetInv, Recent, OwnRequest, Answered
<1>5. PacketInv' BY <1>1 DEF PacketInv, Recent, OwnRequest
<1> QED BY <1>1, <1>3, <1>4, <1>5 DEF IInv, HeardInv, FirstInv

LEMMA RespondKeeps ==
  ASSUME IInv, pc = "answer", HandleCmd0 \/ HandleCmd1 \/ HandleCmd2 PROVE IInv'
<1>1. PICK bytes : /\ Respond(bytes)
                   /\ \/ packet.id \in Listed /\ bytes = ZeroBytes[packet.id]
                      \/ packet.cmd = 1 /\ bytes = OneBytes
                      \/ packet.cmd = 2 /\ bytes = <<>>
  BY DEF HandleCmd0, HandleCmd1, HandleCmd2
<1> DEFINE answer == Response(bytes)
<1>2. /\ net' = net \cup {answer} /\ pc' = "idle"
      /\ UNCHANGED <<number, request, acked, heard, alive>>
  BY <1>1 DEF Respond, Done, console
<1>3. /\ Asked(packet) \in Known /\ Fits(packet.cmd, bytes)
      /\ Content(Asked(packet)) = BlankOut(bytes)
  BY <1>1, AnswerOfFile
<1>4. /\ answer \in Packet /\ answer.type = "RESP" /\ answer.cmd = packet.cmd /\ answer.seq = packet.seq
      /\ answer.id = packet.id /\ answer.from = packet.from
  BY <1>3, ResponseTypes DEF IInv
<1>5. Heard(answer) = Content(Asked(packet))
  BY <1>3, ResponseHeard DEF IInv
<1> HIDE DEF answer
<1>6. packet.type = "REQ" /\ Recent(packet) /\ OwnRequest(packet)
  BY DEF IInv, PacketInv
<1>7. Recent(answer) /\ OwnRequest(answer) /\ Answered(answer)
  BY <1>3, <1>4, <1>5, <1>6 DEF Recent, OwnRequest, Answered, Asked
<1>8. TypeOK' BY <1>2, <1>4 DEF IInv, TypeOK
<1>9. NetInv' BY <1>2, <1>7 DEF IInv, NetInv, Recent, OwnRequest, Answered
<1> QED BY <1>2, <1>8, <1>9 DEF IInv, PacketInv, HeardInv, FirstInv

-----------------------------------------------------------------------------
(* The theorems. *)

LEMMA InitInv == Init => IInv
<1> SUFFICES ASSUME Init PROVE IInv OBVIOUS
<1>1. TypeOK
  <2>1. number \in 0..MaxRequests BY DEF Init
  <2>2. request \in Requests \cup {NoRequest} /\ acked \in BOOLEAN /\ alive \in BOOLEAN BY DEF Init
  <2>3. heard \subseteq Seq(0..255) /\ net \subseteq Packet BY DEF Init
  <2> QED BY <2>1, <2>2, <2>3 DEF Init, TypeOK
<1> QED BY <1>1 DEF Init, IInv, NetInv, PacketInv, HeardInv, FirstInv

LEMMA StepInv == IInv /\ [Next]_vars => IInv'
<1> SUFFICES ASSUME IInv, [Next]_vars PROVE IInv' OBVIOUS
<1>1. ASSUME NEW r \in Requests, Ask(r) PROVE IInv' BY <1>1, AskKeeps
<1>2. CASE Repeat BY <1>2, RepeatKeeps
<1>3. ASSUME NEW p \in net, HearsAck(p) PROVE IInv'
  <2>1. net' \subseteq net /\ UNCHANGED <<number, request, heard, pc, packet>> /\ acked' \in BOOLEAN /\ alive' \in BOOLEAN
    BY <1>3 DEF HearsAck, Delivered, handler, IInv, TypeOK
  <2> QED BY <2>1, LossKeeps
<1>4. ASSUME NEW p \in net, HearsAnswer(p) PROVE IInv' BY <1>4, HearsAnswerKeeps
<1>5. ASSUME NEW p \in net, Lose(p) PROVE IInv'
  <2>1. net' \subseteq net /\ UNCHANGED <<number, request, acked, heard, pc, packet, alive>>
    BY <1>5 DEF Lose, console, handler
  <2> QED BY <2>1, LossKeeps DEF IInv, TypeOK
<1>6. ASSUME NEW p \in net, Receive(p) PROVE IInv' BY <1>6, ReceiveKeeps
<1>7. CASE Acknowledge BY <1>7, AcknowledgeKeeps
<1>8. CASE HandleCmd0 \/ HandleCmd1 \/ HandleCmd2
  BY <1>8, RespondKeeps DEF HandleCmd0, HandleCmd1, HandleCmd2
<1>9. CASE NoResponse
  <2>1. pc' = "idle" /\ UNCHANGED <<number, request, acked, heard, net, alive>>
    BY <1>9 DEF NoResponse, Done, console
  <2> QED BY <2>1 DEF IInv, TypeOK, NetInv, PacketInv, HeardInv, FirstInv, Recent, OwnRequest, Answered
<1>10. CASE SendFails
  <2>1. alive' = FALSE /\ UNCHANGED <<number, request, acked, heard, net, pc, packet>>
    BY <1>10 DEF SendFails, console, handler
  <2> QED BY <2>1, LossKeeps DEF IInv, TypeOK
<1>11. CASE UNCHANGED vars
  <2>1. UNCHANGED <<number, request, acked, heard, net, pc, packet, alive>>
    BY <1>11 DEF vars, console, handler
  <2> QED BY <2>1, LossKeeps DEF IInv, TypeOK
<1> QED
  BY <1>1, <1>2, <1>3, <1>4, <1>5, <1>6, <1>7, <1>8, <1>9, <1>10, <1>11 DEF Next, HandlerNext

LEMMA InvHolds == Spec => []IInv
  BY InitInv, StepInv, PTL DEF Spec

\* Every packet on the way has the fields of a packet, in their widths, whatever the
\* file says and however often sizes are swapped (CommandPacketWiiU.cpp:17-24,
\* CommandHandlerWiiU.cpp:140-165).
THEOREM TypeCorrect == Spec => []TypeOK
<1>1. IInv => TypeOK BY DEF IInv
<1> QED BY <1>1, InvHolds, PTL

\* The handler, with its answers built in the memory of requests, the network and the
\* console that tells requests apart by their number only, implements CommandService:
\* what the console takes for the answer to its request is what the file has for it.
THEOREM ServiceImplemented == Spec => AnswersRequests
<1>1. Init => Service!Init
  BY DEF Init, Service!Init
<1>2. ASSUME IInv, [Next]_vars PROVE [Service!Ask \/ Service!Reply]_<<request, heard>>
  <2>1. ASSUME NEW r \in Requests, Ask(r) PROVE Service!Ask
    BY <2>1 DEF Ask, Service!Ask
  <2>2. ASSUME NEW p \in net, HearsAnswer(p) PROVE [Service!Reply]_<<request, heard>>
    <3>1. request' = request /\ heard' = heard \cup (IF p.seq = number % SeqMod THEN {Heard(p)} ELSE {})
      BY <2>2 DEF HearsAnswer
    <3>2. CASE p.seq = number % SeqMod
      <4>1. request \in Known /\ Heard(p) = Content(request)
        BY <1>2, <2>2, <3>2, SameRequest DEF IInv, NetInv, OwnRequest, Answered, HearsAnswer
      <4>2. heard' = {Content(request)}
        BY <1>2, <3>1, <3>2, <4>1 DEF IInv, HeardInv
      <4> QED BY <3>1, <4>1, <4>2 DEF Service!Reply
    <3>3. CASE p.seq # number % SeqMod
      BY <3>1, <3>3
    <3> QED BY <3>2, <3>3
  <2>3. CASE \/ Repeat \/ HandlerNext \/ SendFails \/ UNCHANGED vars
             \/ \E p \in net : HearsAck(p) \/ Lose(p) \/ Receive(p)
    BY <2>3 DEF Repeat, HandlerNext, Acknowledge, HandleCmd0, HandleCmd1, HandleCmd2, Respond, NoResponse,
                SendFails, HearsAck, Lose, Receive, console, vars
  <2> QED BY <1>2, <2>1, <2>2, <2>3 DEF Next
<1> QED BY <1>1, <1>2, InvHolds, PTL DEF Spec, AnswersRequests, Service!Spec
=============================================================================
