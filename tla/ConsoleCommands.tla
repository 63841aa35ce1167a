--------------------------- MODULE ConsoleCommands ---------------------------
(***************************************************************************)
(* The console's commands and the handler that answers them                *)
(* (src/src/net/wiiu/CommandHandlerWiiU.cpp).                              *)
(*                                                                         *)
(* The console repeats a request until it is served, over a network that   *)
(* loses, delays and repeats packets. The handler acknowledges every copy  *)
(* it gets and then answers it, in the memory of the packet it came in:    *)
(* the header is kept, a few fields are overwritten. Answers to command 0  *)
(* are looked up by two numbers, command 1 has one answer, command 2 an    *)
(* empty one; all come from a file of hexadecimal text. The handler keeps  *)
(* nothing from one packet to the next.                                    *)
(***************************************************************************)
EXTENDS Integers, Sequences

CONSTANTS
  Ids,          \* pairs of numbers the console asks for in command 0
  Zero(_),      \* the file's bytes for a pair of numbers
  Listed,       \* the pairs the file has
  One,          \* the file's bytes for command 1
  Blank,        \* send_blank_response
  SeqMod,       \* the console numbers its requests modulo this
  Window,       \* how many requests old a packet may get on the network
  MaxRequests   \* bound: requests of the console

NoId == <<>>  \* commands other than 0

\* A packet is received into 2048 bytes, of which eight are the header; answers fit.
PayloadRoom == 2040
HeaderSize(cmd) == IF cmd = 0 THEN 12 ELSE 0
Fits(cmd, bytes) == bytes \in Seq(0..255) /\ HeaderSize(cmd) + Len(bytes) <= PayloadRoom

ASSUME CommandAssumption ==
  /\ Listed \subseteq Ids /\ NoId \notin Ids /\ \A id \in Listed : Fits(0, Zero(id))
  /\ Fits(1, One) /\ Blank \in BOOLEAN
  /\ SeqMod \in Nat \ {0} /\ Window \in 1..SeqMod /\ MaxRequests \in Nat

VARIABLES
  number, request, acked, heard,    \* the console: its request, the answers to it
  net,                              \* packets on their way
  pc, packet,                       \* the handler and the memory of the packet
  alive                             \* the process runs

console == <<number, request, acked, heard>>
handler == <<pc, packet>>
vars    == <<console, net, handler, alive>>

Cmds    == {0, 1, 2, 3}

NoRequest == [cmd |-> 0, id |-> NoId]
Requests  == [cmd : {0}, id : Ids] \cup [cmd : Cmds \ {0}, id : {NoId}]

\* A packet as it is in memory; from is history: the request it belongs to.
MaxWord == 65535
Word    == 0..MaxWord
Packet  == [type : {"REQ", "REQ_ACK", "RESP", "RESP_ACK"}, cmd : Cmds, seq : 0..(SeqMod - 1),
           id : Ids \cup {NoId}, size : Word, payload_size : Word,
           payload : Seq(0..255), from : 1..MaxRequests]

\* ntohs and htons.
Swap(word) == (word % 256) * 256 + word \div 256

TypeOK ==
  /\ number \in 0..MaxRequests /\ request \in Requests \cup {NoRequest} /\ acked \in BOOLEAN
  /\ heard \subseteq Seq(0..255)
  /\ net \subseteq Packet
  /\ pc \in {"idle", "ack", "answer"}
  /\ pc # "idle" => packet \in Packet
  /\ alive \in BOOLEAN

Init ==
  /\ number = 0 /\ request = NoRequest /\ acked = FALSE /\ heard = {}
  /\ net = {}
  /\ pc = "idle" /\ packet = <<>>
  /\ alive = TRUE

-----------------------------------------------------------------------------
(* The answers. *)

Known == {r \in Requests : r.cmd \in {1, 2} \/ r.id \in Listed}

\* What the file says, or zeroes.
File(r)    == CASE r.cmd = 0 -> Zero(r.id) [] r.cmd = 1 -> One [] OTHER -> <<>>
Content(r) == IF Blank THEN [i \in 1..Len(File(r)) |-> 0] ELSE File(r)

\* The file spells a byte with two digits, in lower case.
LowerDigits == <<"0", "1", "2", "3", "4", "5", "6", "7", "8", "9", "a", "b", "c", "d", "e", "f">>
hex_array   == <<"0", "1", "2", "3", "4", "5", "6", "7", "8", "9", "A", "B", "C", "D", "E", "F">>

Text(bytes) ==
  [i \in 1..(2 * Len(bytes)) |->
     LET byte == bytes[(i + 1) \div 2]
     IN LowerDigits[1 + (IF i % 2 = 1 THEN byte \div 16 ELSE byte % 16)]]

Upper(char) ==
  IF \E n \in 1..16 : LowerDigits[n] = char
    THEN hex_array[CHOOSE n \in 1..16 : LowerDigits[n] = char] ELSE char

\* hex_char_to_int: 0 for what is no digit.
Digit(char) == IF \E n \in 1..16 : hex_array[n] = char THEN (CHOOSE n \in 1..16 : hex_array[n] = char) - 1 ELSE 0

HexCharToInt_AsIs(char) == Digit(char)
HexCharToInt(char)      == Digit(Upper(char))

Byte_TooFar(one, two) == one * 256 + two
Byte(one, two)        == (one * 16 + two) % 256

HexStrToBytes(str) ==
  [i \in 1..(Len(str) \div 2) |-> Byte(HexCharToInt(str[2 * i - 1]), HexCharToInt(str[2 * i]))]

\* What comes out of the file.
ZeroBytes == [id \in Listed |-> HexStrToBytes(Text(Zero(id)))]
OneBytes  == HexStrToBytes(Text(One))

-----------------------------------------------------------------------------
(* The console. *)

Message(type) == [type |-> type, cmd |-> request.cmd, seq |-> number % SeqMod, id |-> request.id,
                  size |-> HeaderSize(request.cmd), payload_size |-> 0, payload |-> <<>>, from |-> number]

\* The console has what it waits for. It does not know which requests the relay
\* does not answer, and gives those up.
Served == request # NoRequest => acked /\ (request \in Known => heard # {})

\* The next request, when packets that are too old have left the network.
Ask(r) ==
  /\ number < MaxRequests /\ Served
  /\ pc # "idle" => packet.from + Window > number + 1
  /\ number' = number + 1 /\ request' = r /\ acked' = FALSE /\ heard' = {}
  /\ net' = {p \in net : p.from + Window > number + 1} \cup {Message("REQ")'}
  /\ UNCHANGED <<handler, alive>>

Repeat ==
  /\ request # NoRequest /\ ~Served
  /\ net' = net \cup {Message("REQ")}
  /\ UNCHANGED <<console, handler, alive>>

\* A packet arrives, and another copy of it may come later.
Delivered(p) == p \in net /\ net' \in {net, net \ {p}}

HearsAck(p) ==
  /\ p.type = "REQ_ACK" /\ Delivered(p)
  /\ acked' = (acked \/ p.seq = number % SeqMod)
  /\ UNCHANGED <<number, request, heard, handler, alive>>

\* An answer is acknowledged. The console takes the bytes its size fields announce.
Announced(p) == IF p.cmd = 0 THEN Swap(p.payload_size) ELSE p.size
Heard(p)     == [i \in 1..Announced(p) |-> IF i <= Len(p.payload) THEN p.payload[i] ELSE 0]

HearsAnswer(p) ==
  /\ p.type = "RESP" /\ p \in net
  /\ \E rest \in {net, net \ {p}} :
       net' = rest \cup {[p EXCEPT !.type = "RESP_ACK", !.size = 0, !.payload_size = 0, !.payload = <<>>]}
  /\ heard' = heard \cup (IF p.seq = number % SeqMod THEN {Heard(p)} ELSE {})
  /\ UNCHANGED <<number, request, acked, handler, alive>>

Lose(p) ==
  /\ p \in net /\ net' = net \ {p}
  /\ UNCHANGED <<console, handler, alive>>

-----------------------------------------------------------------------------
(* The handler. *)

\* Acknowledgements are not answered.
Handled(type) == type \in {"REQ", "RESP"}

\* The size field of command 0 is turned to host order where it is.
Parsed(p) == IF p.cmd = 0 THEN [p EXCEPT !.payload_size = Swap(@)] ELSE p

Receive(p) ==
  /\ pc = "idle" /\ p.type \in {"REQ", "RESP_ACK"} /\ Delivered(p)
  /\ IF Handled(p.type) THEN pc' = "ack" /\ packet' = Parsed(p) ELSE UNCHANGED handler
  /\ UNCHANGED <<console, alive>>

AckType_AfterAnswer(type) == "RESP_ACK"
AckType(type)             == IF type = "REQ" THEN "REQ_ACK" ELSE "RESP_ACK"

Acknowledge ==
  /\ pc = "ack" /\ pc' = "answer"
  /\ net' = net \cup {[packet EXCEPT !.type = AckType(packet.type), !.id = NoId, !.size = 0,
                                     !.payload_size = 0, !.payload = <<>>]}
  /\ UNCHANGED <<console, packet, alive>>

Done == pc' = "idle" /\ packet' = <<>>

BlankOut_Never(bytes) == bytes
BlankOut(bytes)       == IF Blank THEN [i \in 1..Len(bytes) |-> 0] ELSE bytes

\* send_response_cmd0, send_response, send_command: the request becomes the answer.
PayloadSize_HostOrder(bytes) == IF packet.cmd = 0 THEN Len(bytes) ELSE packet.payload_size
PayloadSize(bytes)           == IF packet.cmd = 0 THEN Swap(Len(bytes)) ELSE packet.payload_size

Response(bytes) ==
  [packet EXCEPT !.type = "RESP", !.size = Len(bytes) + HeaderSize(packet.cmd),
                 !.payload_size = PayloadSize(bytes), !.payload = BlankOut(bytes)]

Respond(bytes) ==
  /\ net' = net \cup {Response(bytes)} /\ Done
  /\ UNCHANGED <<console, alive>>

Answerable == packet.cmd \in {1, 2} \/ packet.id \in Listed

HandleCmd0 == pc = "answer" /\ packet.id \in Listed /\ Respond(ZeroBytes[packet.id])
HandleCmd1 == pc = "answer" /\ packet.cmd = 1 /\ Respond(OneBytes)
HandleCmd2 == pc = "answer" /\ packet.cmd = 2 /\ Respond(<<>>)

NoResponse ==
  /\ pc = "answer" /\ ~Answerable /\ Done
  /\ UNCHANGED <<console, net, alive>>

\* A failed send ends the process.
SendFails ==
  /\ pc = "ack" \/ (pc = "answer" /\ Answerable)
  /\ alive' = FALSE
  /\ UNCHANGED <<console, net, handler>>

HandlerNext == Acknowledge \/ HandleCmd0 \/ HandleCmd1 \/ HandleCmd2 \/ NoResponse

Next ==
  /\ alive
  /\ \/ \E r \in Requests : Ask(r)
     \/ Repeat
     \/ \E p \in net : HearsAck(p) \/ HearsAnswer(p) \/ Lose(p) \/ Receive(p)
     \/ HandlerNext
     \/ SendFails

Spec == Init /\ [][Next]_vars

-----------------------------------------------------------------------------

\* The console repeats its request, of copies sent again and again one arrives in
\* the end, a request of the past does not come back for ever, and the gamepad
\* thread runs.
Current(p) == p.from = number

Fairness ==
  /\ WF_vars(alive /\ Repeat)
  /\ SF_vars(alive /\ \E p \in net : Current(p) /\ p.type = "REQ" /\ Receive(p))
  /\ WF_vars(alive /\ \E p \in net : ~Current(p) /\ p.type = "REQ" /\ Lose(p))
  /\ SF_vars(alive /\ \E p \in net : Current(p) /\ HearsAck(p))
  /\ SF_vars(alive /\ \E p \in net : Current(p) /\ HearsAnswer(p))
  /\ WF_vars(alive /\ HandlerNext)

FairSpec == Spec /\ Fairness

-----------------------------------------------------------------------------
(* Properties. *)

\* What the console takes for the answer to its request is what the file has for
\* that request, although the answer is built in the memory of the request,
\* although size fields change their byte order twice, and whatever comes late
\* or twice.
Service == INSTANCE CommandService

AnswersRequests == Service!Spec

\* Every request is acknowledged as a request, and a known one answered, in the
\* end, unless a failed send has ended the process.
AllServed == \A n \in 1..MaxRequests : number = n ~> ~alive \/ number > n \/ Served
=============================================================================
