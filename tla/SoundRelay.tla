------------------------------ MODULE SoundRelay ------------------------------
(***************************************************************************)
(* The gamepad thread's loop over the console's sockets                    *)
(* (src/src/Gamepad.cpp) and its handler of sound                          *)
(* (src/src/net/wiiu/AudioHandlerWiiU.cpp).                                *)
(*                                                                         *)
(* Every round serves one packet of each socket select() found ready. A    *)
(* sound packet may carry a vibration; both are broadcast to the clients.  *)
(* Then the thread looks whether a client blows into the microphone, which *)
(* the server thread stores without a lock, and if so sends the console a  *)
(* packet of noise whose header it packs bit by bit.                       *)
(***************************************************************************)
EXTENDS Integers, Sequences, FiniteSets, SequencesExt, BitUtil

CONSTANTS
  Busy,       \* the other sockets packets come in at
  Sorts,      \* the kinds of sound packets of the console: format, mono, vibrate, type
  Firsts,     \* numbers the console may start with
  Second,     \* clock ticks in a second
  Delay,      \* Args::input_delay
  MaxSounds,  \* bound: packets the console sends to the sound socket
  MaxWaiting, \* bound: packets that wait at another socket
  MaxBlows,   \* bound: blows of the clients
  MaxTime     \* bound: the clock stops here


\* seq_id has 10 bits.
Modulus == 1024
Sort   == [format : 0..7, mono : 0..1, vibrate : 0..1, type : 0..1]

ASSUME SoundAssumption ==
  /\ Busy \subseteq {"cmd", "vid", "msg", "hid"} /\ Sorts \subseteq Sort
  /\ Firsts \subseteq 0..(Modulus - 1)
  /\ Second \in Nat \ {0} /\ Delay \in 0..Second
  /\ MaxSounds \in Nat /\ MaxWaiting \in Nat /\ MaxBlows \in Nat /\ MaxTime \in Nat

VARIABLES
  first, sent,           \* the console: its first number, its packets so far
  queue, waiting,        \* the sound socket; packets at other sockets
  pc, ready,             \* the gamepad thread; the sockets to serve this round
  packet,                \* the sound packet it has
  seq_id_expected,
  rsec, rtime,           \* the time it looks at
  tv_sec, tv_nsec, blow, \* input_mic_blow
  spc,                   \* the server thread in set_input_mic_blow
  now, alive,            \* the clock; the process runs
  taken,   \* history: sound packets taken from the socket
  heard,   \* history: what the clients got
  stamps,  \* history: when they blew
  overlapped, \* history: a blow was being stored during the last look at its time
  mic      \* history: the last packet to the console

console == <<first, sent>>
thread  == <<pc, ready, packet, seq_id_expected, rsec, rtime>>
object  == <<tv_sec, tv_nsec, blow>>
setter  == <<object, spc, stamps, overlapped>>
vars    == <<console, queue, waiting, thread, setter, now, alive, taken, heard, mic>>

-----------------------------------------------------------------------------
(* The headers, bit by bit. *)

HeaderBytes == 0..7

NoTimestamp == [i \in 1..32 |-> 0]

\* The struct, field after field.
Layout(format, mono, vibrate, type, seq_id, payload_size) ==
  format \o (mono \o (vibrate \o (type \o (seq_id \o (payload_size \o NoTimestamp)))))

Struct(format, mono, vibrate, type, seq_id, payload_size) ==
  Layout(Bits(format, 3), Bits(mono, 1), Bits(vibrate, 1), Bits(type, 1), Bits(seq_id, 10), Bits(payload_size, 16))

Reverse3(number)  == Number(Reversed(Bits(number, 3), 1, 3))
Reverse16(number) == Number(Reversed(Bits(number, 16), 1, 16))

\* AudioPacketWiiU: how a header is read.
Header(bits) ==
  LET b     == ReverseBytes(bits, HeaderBytes)
      Field(from, to) == Number(SubSeq(Reversed(b, from, to), from, to))
  IN [format |-> Field(1, 3), mono |-> b[4], vibrate |-> b[5], type |-> b[6],
      seq_id |-> Field(7, 16), payload_size |-> Field(17, 32)]

\* send_mic_blow: how one is written. The number is turned by hand, the size by
\* reversing it and then the first of its two bytes.
SeqField_LowByte(s) == (s % 256) * 4
SeqField(s)         == (s % 256) * 4 + (((s \div 256) * 2 + (s \div 512)) % 4)

MicHeader(seq) ==
  ReverseBytes(Struct(Reverse3(6), 1, 0, 0, SeqField(seq), Reverse16(512)), {0, 2, 4, 6})

\* The console writes every field with its highest bit first.
Msb(number, bits) == Reversed(Bits(number, bits), 1, bits)
Wire(sort, seq) ==
  ReverseBytes(Layout(Msb(sort.format, 3), Msb(sort.mono, 1), Msb(sort.vibrate, 1), Msb(sort.type, 1),
                      Msb(seq, 10), Msb(512, 16)), HeaderBytes)

\* What is read of the console's headers, and the headers that may be written.
Used     == {(f + n) % Modulus : f \in Firsts, n \in 1..(MaxSounds + 1)}
Read     == [sort \in Sorts |-> [seq \in Used |-> Header(Wire(sort, seq))]]
Answers  == [seq \in Used |-> MicHeader(seq)]

-----------------------------------------------------------------------------

Packets == [sort : Sorts, n : 1..MaxSounds]
Heard   == [what : {"vibrate", "sound"}, n : 1..MaxSounds]
NumberOf(n) == (first + n) % Modulus

TypeOK ==
  /\ first \in Firsts /\ sent \in 0..MaxSounds
  /\ queue \in Seq(Packets) /\ waiting \in [Busy -> 0..MaxWaiting]
  /\ pc \in {"select", "serve", "vibrate", "sound", "sec", "nsec", "blow", "send"}
  /\ ready \subseteq Busy \cup {"aud"}
  /\ pc \notin {"select", "serve"} => packet \in Packets
  /\ seq_id_expected \in -1..(Modulus - 1)
  /\ rsec \in Nat /\ rtime \in 0..now
  /\ tv_sec \in Nat /\ tv_nsec \in 0..(Second - 1) /\ blow \in BOOLEAN
  /\ spc \in {"idle", "nsec", "blow"}
  /\ now \in Nat /\ alive \in BOOLEAN
  /\ taken \in Seq(Packets) /\ heard \in Seq(Heard)
  /\ stamps \in Seq(0..now) /\ overlapped \in BOOLEAN

\* The objects are value-initialised. The machine has been up for a second.
Init ==
  /\ first \in Firsts /\ sent = 0 /\ queue = <<>> /\ waiting = [s \in Busy |-> 0]
  /\ pc = "select" /\ ready = {} /\ packet = <<>> /\ seq_id_expected = -1 /\ rsec = 0 /\ rtime = 0
  /\ tv_sec = 0 /\ tv_nsec = 0 /\ blow = FALSE /\ spc = "idle"
  /\ now = Second /\ alive = TRUE
  /\ taken = <<>> /\ heard = <<>> /\ stamps = <<>> /\ mic = <<>> /\ overlapped = FALSE

-----------------------------------------------------------------------------
(* The console and the clock. *)

\* A sound packet, which may be lost or overtake others.
SendSound(sort) ==
  /\ sent < MaxSounds /\ sent' = sent + 1
  /\ LET p == [sort |-> sort, n |-> sent + 1] IN queue' \in {queue, Append(queue, p), <<p>> \o queue}
  /\ UNCHANGED <<first, waiting, thread, setter, now, alive, taken, heard, mic>>

SendOther(s) ==
  /\ waiting[s] < MaxWaiting /\ waiting' = [waiting EXCEPT ![s] = @ + 1]
  /\ UNCHANGED <<console, queue, thread, setter, now, alive, taken, heard, mic>>

Tick ==
  /\ now < MaxTime /\ now' = now + 1
  /\ UNCHANGED <<console, queue, waiting, thread, setter, alive, taken, heard, mic>>

-----------------------------------------------------------------------------
(* The server thread stores a blow: the words of the time, then the flag. *)

Sec(t)  == t \div Second
Nsec(t) == t % Second

BeginBlow ==
  /\ spc = "idle" /\ Len(stamps) < MaxBlows
  /\ spc' = "nsec" /\ tv_sec' = Sec(now) /\ stamps' = Append(stamps, now)
  /\ overlapped' = (overlapped \/ pc = "nsec")
  /\ UNCHANGED <<console, queue, waiting, thread, tv_nsec, blow, now, alive, taken, heard, mic>>

StampNsec ==
  /\ spc = "nsec" /\ spc' = "blow" /\ tv_nsec' = Nsec(Last(stamps))
  /\ UNCHANGED <<console, queue, waiting, thread, tv_sec, blow, stamps, overlapped, now, alive, taken, heard, mic>>

StoreBlow ==
  /\ spc = "blow" /\ spc' = "idle" /\ blow' = TRUE
  /\ UNCHANGED <<console, queue, waiting, thread, tv_sec, tv_nsec, stamps, overlapped, now, alive, taken, heard, mic>>

-----------------------------------------------------------------------------
(* The loop over the sockets. *)

Order == <<"cmd", "vid", "aud", "msg", "hid">>

\* Sockets with packets.
Pending == {s \in Busy : waiting[s] > 0} \cup (IF queue # <<>> THEN {"aud"} ELSE {})

Select ==
  /\ pc = "select" /\ Pending # {}
  /\ pc' = "serve" /\ ready' = Pending
  /\ UNCHANGED <<console, queue, waiting, packet, seq_id_expected, rsec, rtime, setter, now, alive, taken, heard, mic>>

Turn(s) == s \in ready /\ \A i, j \in 1..Len(Order) : Order[i] = s /\ j < i => Order[j] \notin ready

\* One packet of each ready socket in a round.
Left_WhileAny(s) == IF s # "aud" /\ waiting'[s] > 0 THEN ready ELSE ready \ {s}
Left(s)          == ready \ {s}

\* A packet of another socket: its handler is not the subject here.
ServeOther(s) ==
  /\ pc = "serve" /\ Turn(s) /\ s # "aud"
  /\ waiting' = [waiting EXCEPT ![s] = @ - 1] /\ ready' = Left(s)
  /\ UNCHANGED <<console, queue, pc, packet, seq_id_expected, rsec, rtime, setter, now, alive, taken, heard, mic>>

EndRound ==
  /\ pc = "serve" /\ ready = {} /\ pc' = "select"
  /\ UNCHANGED <<console, queue, waiting, ready, packet, seq_id_expected, rsec, rtime, setter, now, alive, taken, heard, mic>>

-----------------------------------------------------------------------------
(* The handler of sound. *)

UpdateSeqId_NoWrap(s) == s + 1
UpdateSeqId(s)        == (s + 1) % Modulus

Parsed == Read[Head(queue).sort][NumberOf(Head(queue).n)]

\* A number out of order is logged, no more.
IsAudio(h)      == h.type = 0
Skipped_Late(h) == h.format # 1 \/ h.mono = 1 \/ seq_id_expected \notin {-1, h.seq_id}
Skipped(h)      == h.format # 1 \/ h.mono = 1

Take ==
  /\ pc = "serve" /\ Turn("aud") /\ ready' = Left("aud")
  /\ queue' = Tail(queue) /\ taken' = Append(taken, Head(queue)) /\ mic' = <<>>
  /\ LET h == Parsed IN
       /\ seq_id_expected' = IF IsAudio(h) THEN UpdateSeqId(h.seq_id) ELSE seq_id_expected
       /\ IF IsAudio(h) /\ ~Skipped(h)
            THEN packet' = Head(queue) /\ pc' = IF h.vibrate = 1 THEN "vibrate" ELSE "sound"
            ELSE UNCHANGED <<packet, pc>>
  /\ UNCHANGED <<console, waiting, rsec, rtime, setter, now, alive, heard>>

Broadcast(what, next) ==
  /\ heard' = Append(heard, [what |-> what, n |-> packet.n]) /\ pc' = next
  /\ UNCHANGED <<console, queue, waiting, ready, packet, seq_id_expected, rsec, rtime, setter, now, alive, taken, mic>>

Vibrate == pc = "vibrate" /\ Broadcast("vibrate", "sound")
Sound   == pc = "sound" /\ Broadcast("sound", "sec")

LoadSec ==
  /\ pc = "sec" /\ pc' = "nsec" /\ rsec' = tv_sec /\ overlapped' = (spc # "idle")
  /\ UNCHANGED <<console, queue, waiting, ready, packet, seq_id_expected, rtime, object, spc, stamps, now, alive, taken, heard, mic>>

\* The handler returns.
Return == pc' = "serve" /\ packet' = <<>>

WithinTime_NoSeconds(sec, nsec, t) == Nsec(t) - nsec <= Delay
WithinTime(sec, nsec, t)           == Sec(t) - sec <= 0 /\ Nsec(t) - nsec <= Delay

\* The other word of the time is loaded and the clock read.
LookAtTime ==
  /\ pc = "nsec" /\ rsec' = 0
  /\ IF WithinTime(rsec, tv_nsec, now)
       THEN pc' = "blow" /\ rtime' = now /\ UNCHANGED packet
       ELSE Return /\ UNCHANGED rtime
  /\ UNCHANGED <<console, queue, waiting, ready, seq_id_expected, setter, now, alive, taken, heard, mic>>

LoadBlow ==
  /\ pc = "blow"
  /\ IF blow THEN pc' = "send" /\ UNCHANGED <<packet, rtime>> ELSE Return /\ rtime' = 0
  /\ UNCHANGED <<console, queue, waiting, ready, seq_id_expected, rsec, setter, now, alive, taken, heard, mic>>

SendMicBlow ==
  /\ pc = "send" /\ Return /\ rtime' = 0
  /\ mic' = [header |-> Answers[seq_id_expected], time |-> rtime, after |-> packet.n]
  /\ UNCHANGED <<console, queue, waiting, ready, seq_id_expected, rsec, setter, now, alive, taken, heard>>

\* A failed send to the console ends the process.
SendFails ==
  /\ pc = "send" /\ alive' = FALSE
  /\ UNCHANGED <<console, queue, waiting, thread, setter, now, taken, heard, mic>>

GamepadNext ==
  \/ Select \/ (\E s \in Busy : ServeOther(s)) \/ EndRound
  \/ Take \/ Vibrate \/ Sound \/ LoadSec \/ LookAtTime \/ LoadBlow \/ SendMicBlow \/ SendFails

Next ==
  /\ alive
  /\ \/ \E sort \in Sorts : SendSound(sort)
     \/ \E s \in Busy : SendOther(s)
     \/ Tick \/ BeginBlow \/ StampNsec \/ StoreBlow
     \/ GamepadNext

Spec == Init /\ [][Next]_vars

\* The gamepad thread is scheduled, and no client holds it in a send.
FairSpec == Spec /\ WF_vars(alive /\ GamepadNext)

-----------------------------------------------------------------------------
(* Properties. *)

Stereo == {p \in Packets : p.sort.type = 0 /\ p.sort.format = 1 /\ p.sort.mono = 0}
Sounds == {h \in Heard : h.what = "sound"}

\* The numbers of the members of K in s, in the order of s.
NumbersOf(s, K) ==
  LET of[i \in 0..Len(s)] == IF i = 0 THEN <<>> ELSE IF s[i] \in K THEN Append(of[i - 1], s[i].n) ELSE of[i - 1]
  IN of[Len(s)]

\* The clients get every stereo packet once and in the order it came in, however
\* late or out of sequence it is, and a vibration right before the sound it is for.
SoundAsArrived ==
  /\ pc = "select" => NumbersOf(heard, Sounds) = NumbersOf(taken, Stereo)
  /\ \A i \in 1..Len(taken) : taken[i] \in Stereo =>
       \A j \in 1..Len(heard) : heard[j] = [what |-> "sound", n |-> taken[i].n] =>
         (taken[i].sort.vibrate = 1 <=> j > 1 /\ heard[j - 1] = [what |-> "vibrate", n |-> taken[i].n])

\* What the console is sent for the microphone is, read the way the relay itself
\* reads a header, noise of the announced size, numbered as the packet after the
\* sound it answers.
MicUnderstood ==
  mic # <<>> =>
    Header(mic.header) = [format |-> 6, mono |-> 1, vibrate |-> 0, type |-> 0,
                          seq_id |-> NumberOf(mic.after + 1), payload_size |-> 512]

\* The console hears a blow only within Delay of a client's. The time is read in two
\* words that the server thread may be storing: a look that meets a store may take
\* the new second with the old rest, and is then up to a second late, no more.
MicAnswersBlow ==
  mic # <<>> => \E i \in 1..Len(stamps) :
    /\ mic.time - stamps[i] < Second
    /\ ~overlapped => mic.time - stamps[i] <= Delay

\* A sound packet that has come in is taken in the end, whatever comes in at the
\* other sockets.
SoundsServed == \A n \in 1..MaxSounds : (\E i \in 1..Len(queue) : queue[i].n = n) ~>
                                        (~alive \/ \A i \in 1..Len(queue) : queue[i].n # n)
=============================================================================
