---------------------------- MODULE StartUpProofs ----------------------------
(***************************************************************************)
(* Proofs about StartUp, and about the file that the program reads when it *)
(* starts (JsonParser, CommandFile), for every limit on descriptors, any   *)
(* files and any texts.                                                    *)
(*                                                                         *)
(* The three threads: as long as nothing is closed, every number up to     *)
(* that of a socket is in use (packed), so the next socket gets a higher   *)
(* one. The gamepad thread closes its file before it creates sockets;      *)
(* between those of the server thread it may, and then straddled says so.  *)
(*                                                                         *)
(* The file: both passes of the parser are runs of one machine, the        *)
(* reader, which reads the text and counts, and what it knows is a         *)
(* reading. The second pass is at a reading that goes on to the last one   *)
(* of the first (Ahead). On the way a count is never taken back, and what  *)
(* a string or the names of an object have counted for is paid (Paid), so  *)
(* what is written fits into what the first pass has counted.              *)
(***************************************************************************)
EXTENDS StartUp, CommandFile, DataLemmas

Ascending(s) == \A i, j \in 1..Len(s) : i < j => s[i] < s[j]
Packed(s)    == \A i \in 1..Len(s) : \A fd \in FirstFd..s[i] : fd \in open

GamepadFrame ==
  /\ gpc \in {"load", "file"} => gsockets = <<>> /\ ~straddled
  /\ gpc = "file" => file \in Fd
  /\ gpc = "socket" => Len(gsockets) < 5
  /\ gpc \in {"start", "loop"} => Len(gsockets) = 5
  /\ running => gpc = "loop"

ServerFrame ==
  /\ spc = "socket" => Len(ssockets) < 3
  /\ spc = "loop" => Len(ssockets) = 3

InputFrame ==
  /\ ipc = "make" => made < 5
  /\ ipc \in {"wait", "loop"} => made = 5
  /\ ipc = "loop" => running
  /\ reported => ipc = "loop" /\ program # "crashed"

Answers ==
  /\ gpc = "load" => loaded = "none"
  /\ gpc = "load" /\ program = "runs" => blank = (region = "none")
  /\ gpc # "load" => IF blank THEN loaded = "na" ELSE loaded = region

GamepadOrder == Ascending(gsockets) /\ Packed(gsockets)
ServerOrder  == ~straddled => Ascending(ssockets) /\ (Len(ssockets) < 3 => Packed(ssockets))

StartIInv == StartTypeOK /\ GamepadFrame /\ ServerFrame /\ InputFrame /\ Answers /\ GamepadOrder /\ ServerOrder

LEMMA Lengths ==
  Len(GamepadSockets) = 5 /\ Len(ServerSockets) = 3 /\ Len(Objects) = 5 /\ Objects[5] = "mic"
  BY DEF GamepadSockets, ServerSockets, Objects

LEMMA Element == \A S : \A s \in Seq(S) : \A n \in 1..Len(s) : s[n] \in S
  OBVIOUS

LEMMA UpTo == \A n \in Nat, k \in Nat : n <= k => n \in 0..k
  OBVIOUS

LEMMA AtLimit == (\A n \in 0..5 : n < 5 \/ n = 5) /\ (\A n \in 0..3 : n < 3 \/ n = 3)
  OBVIOUS

LEMMA SocketCounts == StartTypeOK => Len(gsockets) \in 0..5 /\ Len(ssockets) \in 0..3
<1> SUFFICES ASSUME StartTypeOK PROVE Len(gsockets) \in 0..5 /\ Len(ssockets) \in 0..3
  OBVIOUS
<1>1. Len(gsockets) \in Nat /\ Len(gsockets) <= 5
  BY Lengths DEF StartTypeOK
<1>2. Len(ssockets) \in Nat /\ Len(ssockets) <= 3
  BY Lengths DEF StartTypeOK
<1>3. 5 \in Nat /\ 3 \in Nat
  OBVIOUS
<1> QED BY <1>1, <1>2, <1>3, UpTo, Zenon

\* A descriptor the kernel hands out is above every socket of a packed sequence.
LEMMA NextDescriptor ==
  ASSUME StartTypeOK, NEW fd \in Lowest, NEW s \in Seq(Fd), Ascending(s), Packed(s)
  PROVE  /\ fd \in Fd /\ Append(s, fd) \in Seq(Fd) /\ Len(Append(s, fd)) = Len(s) + 1
         /\ Ascending(Append(s, fd))
         /\ \A i \in 1..Len(Append(s, fd)) :
              \A x \in FirstFd..Append(s, fd)[i] : x \in open \cup {fd}
<1> DEFINE t == Append(s, fd)
<1>1. fd \in Fd /\ fd \notin open /\ \A other \in Fd \ open : fd <= other
  BY DEF Lowest
<1>2. /\ t \in Seq(Fd) /\ Len(t) = Len(s) + 1 /\ Len(s) \in Nat /\ t[Len(s) + 1] = fd
      /\ \A i \in 1..Len(s) : t[i] = s[i] /\ s[i] \in Fd
  BY <1>1
<1> HIDE DEF t
<1>3. \A x \in FirstFd..fd : x \in open \cup {fd}
  <2> SUFFICES ASSUME NEW x \in FirstFd..fd, x # fd PROVE x \in open
    OBVIOUS
  <2>1. FirstFd \in Nat /\ LastFd \in Nat /\ fd \in FirstFd..LastFd
    BY <1>1, StartUpAssumption DEF Fd
  <2>2. x \in Fd /\ x < fd
    BY <2>1 DEF Fd
  <2> QED BY <1>1, <2>1, <2>2
<1>4. \A i \in 1..Len(s) : s[i] < fd
  <2> SUFFICES ASSUME NEW i \in 1..Len(s), ~(s[i] < fd) PROVE FALSE
    OBVIOUS
  <2>1. s[i] \in FirstFd..LastFd /\ fd \in FirstFd..LastFd /\ FirstFd \in Nat /\ LastFd \in Nat
    BY <1>1, <1>2, StartUpAssumption DEF Fd
  <2>2. fd \in FirstFd..s[i]
    BY <2>1
  <2> QED BY <1>1, <2>2 DEF Packed
<1>5. \A i \in 1..Len(t) : i \in 1..Len(s) \/ i = Len(s) + 1
  BY <1>2
<1>6. Ascending(t)
  <2> SUFFICES ASSUME NEW i \in 1..Len(t), NEW j \in 1..Len(t), i < j PROVE t[i] < t[j]
    BY DEF Ascending
  <2>1. i \in 1..Len(s)
    BY <1>2
  <2>2. CASE j \in 1..Len(s)
    BY <1>2, <2>1, <2>2 DEF Ascending
  <2>3. CASE j = Len(s) + 1
    BY <1>2, <1>4, <2>1, <2>3
  <2> QED BY <1>5, <2>2, <2>3
<1>7. \A i \in 1..Len(t) : \A x \in FirstFd..t[i] : x \in open \cup {fd}
  <2> SUFFICES ASSUME NEW i \in 1..Len(t), NEW x \in FirstFd..t[i] PROVE x \in open \cup {fd}
    OBVIOUS
  <2>1. CASE i \in 1..Len(s)
    BY <1>2, <2>1 DEF Packed
  <2>2. CASE i = Len(s) + 1
    BY <1>2, <1>3, <2>2
  <2> QED BY <1>5, <2>1, <2>2
<1> QED BY <1>1, <1>2, <1>6, <1>7 DEF t

\* More descriptors in use keep a sequence packed.
LEMMA StaysPacked ==
  ASSUME NEW s, Packed(s), open \subseteq open', s' = s
  PROVE  \A i \in 1..Len(s) : \A fd \in FirstFd..s[i] : fd \in open'
  BY DEF Packed

-----------------------------------------------------------------------------

LEMMA InitInv == StartInit => StartIInv
<1> SUFFICES ASSUME StartInit PROVE StartIInv
  OBVIOUS
<1>1. <<>> \in Seq(Fd) /\ Len(<<>>) = 0
  OBVIOUS
<1>2. 0 \in 0..MaxAccepts /\ 0 \in 0..5
  BY StartUpAssumption
<1>3. StartTypeOK
  <2>1. open \subseteq Fd /\ file \in Fd \cup {-1}
    BY DEF StartInit
  <2>2. /\ gsockets \in Seq(Fd) /\ Len(gsockets) <= Len(GamepadSockets)
        /\ ssockets \in Seq(Fd) /\ Len(ssockets) <= Len(ServerSockets)
    BY <1>1, Lengths DEF StartInit
  <2>3. region \in Regions \cup {"none"} /\ loaded \in Regions \cup {"none"}
    BY DEF StartInit
  <2>4. blank \in BOOLEAN
    BY Zenon DEF StartInit
  <2> QED BY <1>2, <2>1, <2>2, <2>3, <2>4 DEF StartInit, StartTypeOK
<1>4. GamepadFrame /\ ServerFrame /\ InputFrame
  BY <1>1 DEF StartInit, GamepadFrame, ServerFrame, InputFrame
<1>5. Answers
  BY DEF StartInit, Answers
<1>6. GamepadOrder /\ ServerOrder
  <2>1. 1..Len(gsockets) = {} /\ 1..Len(ssockets) = {}
    BY <1>1 DEF StartInit
  <2> QED BY <2>1 DEF GamepadOrder, ServerOrder, Ascending, Packed
<1> QED BY <1>3, <1>4, <1>5, <1>6 DEF StartIInv

LEMMA OpenFileKeeps ==
  ASSUME StartIInv, program = "runs", NEW local \in SUBSET Regions, NEW global \in SUBSET Regions,
         OpenFile(local, global)
  PROVE  StartIInv'
<1>1. /\ gpc = "load" /\ UNCHANGED <<gsockets, running, region, spc, ssockets, accepted>>
      /\ UNCHANGED <<ipc, made, straddled, reported>>
  BY DEF OpenFile, server, inputs, history
<1>2. /\ region \in Regions \cup {"none"} /\ loaded = "none" /\ blank = (region = "none")
      /\ "na" \in Regions /\ "none" \notin Regions
  BY <1>1, StartUpAssumption DEF StartIInv, StartTypeOK, Answers
<1>3. PICK own \in Lookups(Wanted, local, global), default \in Lookups("na", local, global) :
        IF own.found THEN ReadFile(Wanted, own.opens) /\ UNCHANGED blank
                     ELSE ReadFile("na", default.opens) /\ Fallback
  BY DEF OpenFile
<1> DEFINE name == IF own.found THEN Wanted ELSE "na"
           opens == IF own.found THEN own.opens ELSE default.opens
<1>4. ReadFile(name, opens)
  <2>1. CASE own.found
    BY <1>3, <2>1
  <2>2. CASE ~own.found
    BY <1>3, <2>2
  <2> QED BY <2>1, <2>2
<1>5. name \in Regions /\ blank' \in BOOLEAN /\ (IF blank' THEN name = "na" ELSE name = region)
  <2>1. CASE own.found
    <3>1. blank' = blank /\ name = Wanted
      BY <1>3, <2>1
    <3> QED BY <1>2, <3>1 DEF Wanted
  <2>2. CASE ~own.found
    <3>1. blank' = TRUE /\ name = "na"
      BY <1>3, <2>2 DEF Fallback
    <3> QED BY <1>2, <3>1
  <2> QED BY <2>1, <2>2
<1> HIDE DEF name, opens
<1>6. CASE opens
  <2>1. /\ gpc' = "file" /\ file' \in Lowest /\ open' = open \cup {file'} /\ loaded' = name
        /\ UNCHANGED program
    BY <1>4, <1>6 DEF ReadFile
  <2>2. file' \in Fd
    BY <2>1 DEF Lowest
  <2>3. StartTypeOK'
    BY <1>1, <1>2, <1>5, <2>1, <2>2 DEF StartIInv, StartTypeOK
  <2>4. GamepadFrame' /\ ServerFrame' /\ InputFrame'
    BY <1>1, <2>1, <2>2 DEF StartIInv, GamepadFrame, ServerFrame, InputFrame
  <2>5. Answers'
    BY <1>1, <1>5, <2>1 DEF Answers
  <2>6. GamepadOrder' /\ ServerOrder'
    BY <1>1, <2>1 DEF StartIInv, GamepadOrder, ServerOrder, Ascending, Packed
  <2> QED BY <2>3, <2>4, <2>5, <2>6 DEF StartIInv
<1>7. CASE ~opens
  <2>1. program' = "exited" /\ UNCHANGED <<gpc, file, open, loaded>>
    BY <1>4, <1>7 DEF ReadFile, Exit
  <2>2. StartTypeOK'
    BY <1>1, <1>2, <1>5, <2>1 DEF StartIInv, StartTypeOK
  <2>3. GamepadFrame' /\ ServerFrame' /\ InputFrame'
    BY <1>1, <2>1 DEF StartIInv, GamepadFrame, ServerFrame, InputFrame
  <2>4. Answers'
    BY <1>1, <1>2, <2>1 DEF Answers
  <2>5. GamepadOrder' /\ ServerOrder'
    BY <1>1, <2>1 DEF StartIInv, GamepadOrder, ServerOrder, Ascending, Packed
  <2> QED BY <2>2, <2>3, <2>4, <2>5 DEF StartIInv
<1> QED BY <1>6, <1>7

\* Closing the file leaves a hole in the numbers, and straddled says whose.
LEMMA CloseFileKeeps == ASSUME StartIInv, CloseFile PROVE StartIInv'
<1>1. /\ gpc = "file" /\ gpc' = "socket" /\ open' = open \ {file} /\ file' = -1
      /\ straddled' = (Len(ssockets) \in 1..2)
      /\ UNCHANGED <<gsockets, running, region, loaded, blank, spc, ssockets, accepted>>
      /\ UNCHANGED <<ipc, made, program, reported>>
  BY Lengths DEF CloseFile, server, inputs
<1>2. Len(ssockets) \in 0..3 /\ gsockets = <<>> /\ ~straddled
  BY <1>1, SocketCounts DEF StartIInv, GamepadFrame
<1>3. straddled' \in BOOLEAN
  <2>1. \A A : (A \in 1..2) \in BOOLEAN
    OBVIOUS
  <2> QED BY <1>1, <2>1, Zenon
<1>4. StartTypeOK'
  BY <1>1, <1>3 DEF StartIInv, StartTypeOK
<1>5. GamepadFrame' /\ ServerFrame' /\ InputFrame' /\ Answers'
  BY <1>1, <1>2 DEF StartIInv, GamepadFrame, ServerFrame, InputFrame, Answers
<1>6. GamepadOrder'
  <2>1. 1..Len(gsockets') = {}
    BY <1>1, <1>2
  <2> QED BY <2>1 DEF GamepadOrder, Ascending, Packed
<1>7. ServerOrder'
  <2> SUFFICES ASSUME ~straddled' PROVE Ascending(ssockets)' /\ (Len(ssockets') < 3 => Packed(ssockets)')
    BY DEF ServerOrder
  <2>1. Ascending(ssockets)'
    BY <1>1, <1>2 DEF StartIInv, ServerOrder, Ascending
  <2>2. Len(ssockets) \notin 1..2
    BY <1>1, Zenon
  <2>3. Len(ssockets') < 3 => 1..Len(ssockets') = {}
    BY <1>1, <1>2, <2>2
  <2> QED BY <2>1, <2>3 DEF Packed
<1> QED BY <1>4, <1>5, <1>6, <1>7 DEF StartIInv

LEMMA GamepadSocketKeeps == ASSUME StartIInv, GamepadSocket PROVE StartIInv'
<1>1. PICK fd \in Lowest : gsockets' = Append(gsockets, fd) /\ open' = open \cup {fd}
  BY DEF GamepadSocket
<1>2. /\ gpc = "socket" /\ gpc' = "bind"
      /\ UNCHANGED <<file, running, region, loaded, blank, spc, ssockets, accepted>>
      /\ UNCHANGED <<ipc, made, program, straddled, reported>>
  BY DEF GamepadSocket, server, inputs, history
<1>3. /\ fd \in Fd /\ gsockets' \in Seq(Fd) /\ Len(gsockets') = Len(gsockets) + 1
      /\ Ascending(gsockets)'
      /\ \A i \in 1..Len(gsockets') : \A x \in FirstFd..gsockets'[i] : x \in open'
  <2>1. StartTypeOK /\ Ascending(gsockets) /\ Packed(gsockets) /\ gsockets \in Seq(Fd)
    BY DEF StartIInv, StartTypeOK, GamepadOrder
  <2>2. /\ fd \in Fd /\ Append(gsockets, fd) \in Seq(Fd)
        /\ Len(Append(gsockets, fd)) = Len(gsockets) + 1 /\ Ascending(Append(gsockets, fd))
        /\ \A i \in 1..Len(Append(gsockets, fd)) :
             \A x \in FirstFd..Append(gsockets, fd)[i] : x \in open \cup {fd}
    BY <2>1, NextDescriptor
  <2> QED BY <1>1, <2>2 DEF Ascending
<1>4. Len(gsockets) \in Nat /\ Len(gsockets) < 5
  BY <1>2 DEF StartIInv, StartTypeOK, GamepadFrame
<1>5. StartTypeOK'
  <2>1. open' \subseteq Fd /\ gsockets' \in Seq(Fd) /\ Len(gsockets') <= Len(GamepadSockets)
    BY <1>1, <1>3, <1>4, Lengths DEF StartIInv, StartTypeOK
  <2> QED BY <1>2, <2>1 DEF StartIInv, StartTypeOK
<1>6. GamepadFrame' /\ ServerFrame' /\ InputFrame' /\ Answers'
  BY <1>2, <1>3 DEF StartIInv, GamepadFrame, ServerFrame, InputFrame, Answers
<1>7. GamepadOrder'
  BY <1>3 DEF GamepadOrder, Packed
<1>8. ServerOrder'
  BY <1>1, <1>2 DEF StartIInv, ServerOrder, Ascending, Packed
<1> QED BY <1>5, <1>6, <1>7, <1>8 DEF StartIInv

LEMMA ServerSocketKeeps == ASSUME StartIInv, ServerSocket PROVE StartIInv'
<1>1. PICK fd \in Lowest : ssockets' = Append(ssockets, fd) /\ open' = open \cup {fd}
  BY DEF ServerSocket
<1>2. /\ spc = "socket" /\ spc' = "bind"
      /\ UNCHANGED <<gpc, file, gsockets, running, region, loaded, blank, accepted>>
      /\ UNCHANGED <<ipc, made, program, straddled, reported>>
  BY DEF ServerSocket, gamepad, inputs, history
<1>3. ssockets \in Seq(Fd) /\ Len(ssockets) \in Nat /\ Len(ssockets) < 3
  BY <1>2 DEF StartIInv, StartTypeOK, ServerFrame
<1>4. fd \in Fd
  BY DEF Lowest
<1>5. ssockets' \in Seq(Fd) /\ Len(ssockets') = Len(ssockets) + 1
  BY <1>1, <1>3, <1>4
<1>6. StartTypeOK'
  <2>1. open' \subseteq Fd /\ Len(ssockets') <= Len(ServerSockets)
    BY <1>1, <1>3, <1>4, <1>5, Lengths DEF StartIInv, StartTypeOK
  <2> QED BY <1>2, <1>5, <2>1 DEF StartIInv, StartTypeOK
<1>7. GamepadFrame' /\ ServerFrame' /\ InputFrame' /\ Answers'
  BY <1>2 DEF StartIInv, GamepadFrame, ServerFrame, InputFrame, Answers
<1>8. GamepadOrder'
  BY <1>1, <1>2 DEF StartIInv, GamepadOrder, Ascending, Packed
<1>9. ServerOrder'
  <2> SUFFICES ASSUME ~straddled' PROVE Ascending(ssockets)' /\ Packed(ssockets)'
    BY DEF ServerOrder
  <2>1. StartTypeOK /\ Ascending(ssockets) /\ Packed(ssockets)
    BY <1>2, <1>3 DEF StartIInv, ServerOrder
  <2>2. /\ Ascending(Append(ssockets, fd))
        /\ \A i \in 1..Len(Append(ssockets, fd)) :
             \A x \in FirstFd..Append(ssockets, fd)[i] : x \in open \cup {fd}
    BY <1>3, <2>1, NextDescriptor
  <2> QED BY <1>1, <2>2 DEF Ascending, Packed
<1> QED BY <1>6, <1>7, <1>8, <1>9 DEF StartIInv

\* A step that closes nothing and creates no socket keeps the order of both.
LEMMA OrderKept ==
  ASSUME StartIInv, UNCHANGED <<gsockets, ssockets, straddled>>, open \subseteq open'
  PROVE  GamepadOrder' /\ ServerOrder'
  BY DEF StartIInv, GamepadOrder, ServerOrder, Ascending, Packed

LEMMA GamepadBindsKeeps == ASSUME StartIInv, GamepadBinds \/ GamepadBindFails \/ RaiseFlag PROVE StartIInv'
<1>1. /\ UNCHANGED <<open, file, gsockets, region, loaded, blank, spc, ssockets, accepted>>
      /\ UNCHANGED <<ipc, made, straddled, reported>>
  BY DEF GamepadBinds, GamepadBindFails, RaiseFlag, gamepad, server, inputs, history
<1>2. Len(gsockets) \in 0..5
  BY SocketCounts DEF StartIInv
<1>3. GamepadOrder' /\ ServerOrder'
  BY <1>1, OrderKept
<1>4. CASE GamepadBinds
  <2>1. /\ gpc = "bind" /\ UNCHANGED <<running, program>>
        /\ \/ Len(gsockets) < 5 /\ gpc' = "socket"
           \/ Len(gsockets) = 5 /\ gpc' = "start"
    <3>1. Len(gsockets) < 5 \/ Len(gsockets) = 5
      BY <1>2, AtLimit, Zenon
    <3>2. /\ gpc = "bind" /\ UNCHANGED <<running, program>>
          /\ gpc' = IF Len(gsockets) < 5 THEN "socket" ELSE "start"
      BY <1>4, Lengths, Zenon DEF GamepadBinds, More
    <3> QED BY <1>2, <3>1, <3>2
  <2>2. StartTypeOK'
    BY <1>1, <2>1 DEF StartIInv, StartTypeOK
  <2>3. GamepadFrame' /\ ServerFrame' /\ InputFrame' /\ Answers'
    BY <1>1, <1>2, <2>1 DEF StartIInv, GamepadFrame, ServerFrame, InputFrame, Answers
  <2> QED BY <1>3, <2>2, <2>3 DEF StartIInv
<1>5. CASE GamepadBindFails
  <2>1. gpc = "bind" /\ program' = "exited" /\ UNCHANGED <<gpc, running>>
    BY <1>5 DEF GamepadBindFails, Exit, gamepad
  <2>2. StartTypeOK'
    BY <1>1, <2>1 DEF StartIInv, StartTypeOK
  <2>3. GamepadFrame' /\ ServerFrame' /\ InputFrame' /\ Answers'
    BY <1>1, <2>1 DEF StartIInv, GamepadFrame, ServerFrame, InputFrame, Answers
  <2> QED BY <1>3, <2>2, <2>3 DEF StartIInv
<1>6. CASE RaiseFlag
  <2>1. gpc = "start" /\ gpc' = "loop" /\ running' = TRUE /\ UNCHANGED program
    BY <1>6 DEF RaiseFlag
  <2>2. StartTypeOK'
    BY <1>1, <2>1 DEF StartIInv, StartTypeOK
  <2>3. GamepadFrame' /\ ServerFrame' /\ InputFrame' /\ Answers'
    BY <1>1, <2>1 DEF StartIInv, GamepadFrame, ServerFrame, InputFrame, Answers
  <2> QED BY <1>3, <2>2, <2>3 DEF StartIInv
<1> QED BY <1>4, <1>5, <1>6

LEMMA ServerStepsKeep ==
  ASSUME StartIInv, ServerBinds \/ ServerBindFails \/ \E n \in 1..Len(ServerSockets) : Accept(n)
  PROVE  StartIInv'
<1>1. /\ UNCHANGED <<gpc, file, gsockets, running, region, loaded, blank, ssockets>>
      /\ UNCHANGED <<ipc, made, straddled, reported>>
  BY DEF ServerBinds, ServerBindFails, Accept, gamepad, server, inputs, history
<1>2. Len(ssockets) \in 0..3
  BY SocketCounts DEF StartIInv
<1>3. CASE ServerBinds
  <2>1. /\ spc = "bind" /\ UNCHANGED <<open, accepted, program>>
        /\ \/ Len(ssockets) < 3 /\ spc' = "socket"
           \/ Len(ssockets) = 3 /\ spc' = "loop"
    <3>1. Len(ssockets) < 3 \/ Len(ssockets) = 3
      BY <1>2, AtLimit, Zenon
    <3>2. /\ spc = "bind" /\ UNCHANGED <<open, accepted, program>>
          /\ spc' = IF Len(ssockets) < 3 THEN "socket" ELSE "loop"
      BY <1>3, Lengths, Zenon DEF ServerBinds, More
    <3> QED BY <1>2, <3>1, <3>2
  <2>2. StartTypeOK'
    BY <1>1, <2>1 DEF StartIInv, StartTypeOK
  <2>3. GamepadFrame' /\ ServerFrame' /\ InputFrame' /\ Answers'
    BY <1>1, <1>2, <2>1 DEF StartIInv, GamepadFrame, ServerFrame, InputFrame, Answers
  <2> QED BY <1>1, <2>1, <2>2, <2>3, OrderKept DEF StartIInv
<1>4. CASE ServerBindFails
  <2>1. program' = "exited" /\ UNCHANGED <<open, spc, accepted>>
    BY <1>4 DEF ServerBindFails, Exit, server
  <2>2. StartTypeOK'
    BY <1>1, <2>1 DEF StartIInv, StartTypeOK
  <2>3. GamepadFrame' /\ ServerFrame' /\ InputFrame' /\ Answers'
    BY <1>1, <2>1 DEF StartIInv, GamepadFrame, ServerFrame, InputFrame, Answers
  <2> QED BY <1>1, <2>1, <2>2, <2>3, OrderKept DEF StartIInv
<1>5. ASSUME NEW n \in 1..Len(ServerSockets), Accept(n) PROVE StartIInv'
  <2>1. PICK fd \in Lowest : open' = open \cup {fd}
    BY <1>5 DEF Accept
  <2>2. accepted < MaxAccepts /\ accepted' = accepted + 1 /\ UNCHANGED <<spc, program>>
    BY <1>5 DEF Accept
  <2>3. open' \subseteq Fd
    BY <2>1 DEF Lowest, StartIInv, StartTypeOK
  <2>4. accepted' \in 0..MaxAccepts
    BY <2>2, StartUpAssumption DEF StartIInv, StartTypeOK
  <2>5. StartTypeOK'
    BY <1>1, <2>2, <2>3, <2>4 DEF StartIInv, StartTypeOK
  <2>6. GamepadFrame' /\ ServerFrame' /\ InputFrame' /\ Answers'
    BY <1>1, <2>2 DEF StartIInv, GamepadFrame, ServerFrame, InputFrame, Answers
  <2> QED BY <1>1, <2>1, <2>5, <2>6, OrderKept DEF StartIInv
<1> QED BY <1>3, <1>4, <1>5

\* A crash needs an object that is missing, and then no report has gone out.
LEMMA CrashKeeps ==
  ASSUME StartIInv, NEW n \in 1..5, Missing(Objects[n]), Crash,
         UNCHANGED <<open, gamepad, server, inputs, history>>
  PROVE  StartIInv'
<1>1. /\ UNCHANGED <<open, gpc, file, gsockets, running, region, loaded, blank, spc, ssockets, accepted>>
      /\ UNCHANGED <<ipc, made, straddled, reported>> /\ program' = "crashed"
  BY DEF gamepad, server, inputs, history, Crash
<1>2. made # 5
  BY DEF Missing
<1>3. ~reported
  BY <1>2 DEF StartIInv, InputFrame
<1>4. StartTypeOK'
  BY <1>1 DEF StartIInv, StartTypeOK
<1>5. GamepadFrame' /\ ServerFrame' /\ InputFrame' /\ Answers'
  BY <1>1, <1>3 DEF StartIInv, GamepadFrame, ServerFrame, InputFrame, Answers
<1> QED BY <1>1, <1>4, <1>5, OrderKept DEF StartIInv

LEMMA InputKeeps == ASSUME StartIInv, program = "runs", InputNext PROVE StartIInv'
<1>1. /\ UNCHANGED <<open, gpc, file, gsockets, running, region, loaded, blank, spc, ssockets, accepted>>
      /\ UNCHANGED straddled
  BY DEF InputNext, MakeObject, StopWaiting, Report, gamepad, server, history
<1>2. GamepadOrder' /\ ServerOrder'
  BY <1>1, OrderKept
<1>3. CASE MakeObject
  <2>1. /\ ipc = "make" /\ made' = made + 1 /\ ipc' = (IF made' < 5 THEN "make" ELSE "wait")
        /\ UNCHANGED <<program, reported>>
    BY <1>3, Lengths DEF MakeObject, history
  <2>2. made \in 0..4 /\ ~reported
    BY <2>1 DEF StartIInv, StartTypeOK, InputFrame
  <2>3. StartTypeOK'
    BY <1>1, <2>1, <2>2 DEF StartIInv, StartTypeOK
  <2>4. GamepadFrame' /\ ServerFrame' /\ InputFrame' /\ Answers'
    BY <1>1, <2>1, <2>2 DEF StartIInv, GamepadFrame, ServerFrame, InputFrame, Answers
  <2> QED BY <1>2, <2>3, <2>4 DEF StartIInv
<1>4. CASE StopWaiting
  <2>1. ipc = "wait" /\ running /\ ipc' = "loop" /\ UNCHANGED <<made, program, reported>>
    BY <1>4 DEF StopWaiting, SeesFlag, history
  <2>2. StartTypeOK'
    BY <1>1, <2>1 DEF StartIInv, StartTypeOK
  <2>3. GamepadFrame' /\ ServerFrame' /\ InputFrame' /\ Answers'
    BY <1>1, <2>1 DEF StartIInv, GamepadFrame, ServerFrame, InputFrame, Answers
  <2> QED BY <1>2, <2>2, <2>3 DEF StartIInv
<1>5. CASE Report
  <2>1. /\ ipc = "loop" /\ UNCHANGED <<ipc, made>> /\ program' \in {program, "exited"}
        /\ reported' \in {reported, TRUE}
    BY <1>5 DEF Report, Exit, inputs
  <2>2. StartTypeOK'
    <3>1. reported' \in BOOLEAN
      BY <2>1, Zenon DEF StartIInv, StartTypeOK
    <3>2. program' \in {"runs", "exited", "crashed"}
      BY <2>1 DEF StartIInv, StartTypeOK
    <3> QED BY <1>1, <2>1, <3>1, <3>2 DEF StartIInv, StartTypeOK
  <2>3. GamepadFrame' /\ ServerFrame' /\ InputFrame' /\ Answers'
    BY <1>1, <2>1 DEF StartIInv, GamepadFrame, ServerFrame, InputFrame, Answers
  <2> QED BY <1>2, <2>2, <2>3 DEF StartIInv
<1> QED BY <1>3, <1>4, <1>5 DEF InputNext

LEMMA Inductive == StartIInv /\ [StartNext]_startVars => StartIInv'
<1> SUFFICES ASSUME StartIInv, [StartNext]_startVars PROVE StartIInv'
  OBVIOUS
<1>1. CASE UNCHANGED startVars
  <2>1. /\ UNCHANGED <<open, gpc, file, gsockets, running, region, loaded, blank, spc, ssockets, accepted>>
        /\ UNCHANGED <<ipc, made, program, straddled, reported>>
    BY <1>1 DEF startVars, gamepad, server, inputs, history
  <2>2. StartTypeOK'
    BY <2>1 DEF StartIInv, StartTypeOK
  <2>3. GamepadFrame' /\ ServerFrame' /\ InputFrame' /\ Answers'
    BY <2>1 DEF StartIInv, GamepadFrame, ServerFrame, InputFrame, Answers
  <2> QED BY <2>1, <2>2, <2>3, OrderKept DEF StartIInv
<1>2. CASE StartNext
  <2>1. program = "runs"
    BY <1>2 DEF StartNext
  <2>2. CASE GamepadNext
    <3>1. ASSUME NEW local \in SUBSET Regions, NEW global \in SUBSET Regions, OpenFile(local, global)
          PROVE  StartIInv'
      BY <2>1, <3>1, OpenFileKeeps
    <3>2. CASE AudioPacket
      <4>1. /\ Missing(Objects[5]) /\ Crash /\ UNCHANGED <<open, gamepad, server, inputs, history>>
        BY <3>2, Lengths DEF AudioPacket
      <4>2. 5 \in 1..5
        OBVIOUS
      <4> QED BY <4>1, <4>2, CrashKeeps
    <3> QED BY <2>2, <3>1, <3>2, CloseFileKeeps, GamepadSocketKeeps, GamepadBindsKeeps DEF GamepadNext
  <2>3. CASE ServerNext
    <3>1. ASSUME NEW n \in 1..Len(Objects), ClientInput(Objects[n]) PROVE StartIInv'
      <4>1. /\ n \in 1..5 /\ Missing(Objects[n]) /\ Crash
            /\ UNCHANGED <<open, gamepad, server, inputs, history>>
        BY <3>1, Lengths DEF ClientInput
      <4> QED BY <4>1, CrashKeeps
    <3> QED BY <2>3, <3>1, ServerSocketKeeps, ServerStepsKeep DEF ServerNext
  <2> QED BY <1>2, <2>1, <2>2, <2>3, InputKeeps DEF StartNext
<1> QED BY <1>1, <1>2

THEOREM Invariant == StartSpec => []StartIInv
  BY InitInv, Inductive, PTL DEF StartSpec

-----------------------------------------------------------------------------

\* Every variable keeps its type (TypeOK).
THEOREM TypeCorrect == StartSpec => []StartTypeOK
<1>1. StartIInv => StartTypeOK
  BY DEF StartIInv
<1> QED BY <1>1, Invariant, PTL

\* The select() of the gamepad thread watches all five sockets of the console
\* (WatchesConsole), whatever the other threads do meanwhile.
THEOREM WatchesConsoleHolds == StartSpec => []WatchesConsole
<1>1. StartIInv => WatchesConsole
  <2> SUFFICES ASSUME StartIInv, gpc = "loop", NEW n \in 1..Len(gsockets) PROVE gsockets[n] <= gsockets[5]
    BY DEF WatchesConsole, GamepadHighest
  <2>1. Len(gsockets) = 5 /\ Ascending(gsockets) /\ gsockets \in Seq(Fd)
    BY DEF StartIInv, StartTypeOK, GamepadFrame, GamepadOrder
  <2>2. gsockets[n] \in Fd /\ gsockets[5] \in Fd
    BY <2>1
  <2>3. n = 5 \/ n < 5
    BY <2>1
  <2> QED BY <2>1, <2>2, <2>3, StartUpAssumption DEF Ascending, Fd
<1> QED BY <1>1, Invariant, PTL

\* The select() of the server thread watches all three sockets of the clients, if
\* the file of the command responses was not closed between them (WatchesClients).
THEOREM WatchesClientsHolds == StartSpec => []WatchesClients
<1>1. StartIInv => WatchesClients
  <2> SUFFICES ASSUME StartIInv, spc = "loop", ~straddled, NEW n \in 1..Len(ssockets)
               PROVE  ssockets[n] <= ssockets[3]
    BY DEF WatchesClients, ServerHighest
  <2>1. Len(ssockets) = 3 /\ Ascending(ssockets) /\ ssockets \in Seq(Fd)
    BY DEF StartIInv, StartTypeOK, ServerFrame, ServerOrder
  <2>2. ssockets[n] \in Fd /\ ssockets[3] \in Fd
    <3>1. 3 \in 1..Len(ssockets)
      BY <2>1
    <3> QED BY <2>1, <3>1, Element, Zenon
  <2>3. n = 3 \/ n < 3
    BY <2>1
  <2>4. CASE n = 3
    BY <2>2, <2>4, StartUpAssumption DEF Fd
  <2>5. CASE n < 3
    <3>1. ssockets[n] < ssockets[3]
      BY <2>1, <2>5 DEF Ascending
    <3> QED BY <2>2, <3>1, StartUpAssumption DEF Fd
  <2> QED BY <2>3, <2>4, <2>5
<1> QED BY <1>1, Invariant, PTL

\* A report goes out only when the console's sockets and all objects that hold
\* input are there (ReportsLast).
THEOREM ReportsLastHolds == StartSpec => []ReportsLast
<1>1. StartIInv => ReportsLast
  BY DEF StartIInv, GamepadFrame, InputFrame, ReportsLast
<1> QED BY <1>1, Invariant, PTL

\* The answers read are those of the region asked for, or blanked (AnswersOfRegion).
THEOREM AnswersOfRegionHolds == StartSpec => []AnswersOfRegion
<1>1. StartIInv => AnswersOfRegion
  BY DEF StartIInv, Answers, AnswersOfRegion
<1> QED BY <1>1, Invariant, PTL

-----------------------------------------------------------------------------
(* The parser. Sequences of anything. *)

IsSeq(s) == \E S : s \in Seq(S)

LEMMA SeqFacts ==
  ASSUME NEW s, IsSeq(s)
  PROVE  Len(s) \in Nat /\ DOMAIN s = 1..Len(s)
  BY DEF IsSeq

IsLonger(t, s, e) == t = Append(s, e)

LEMMA AppendIs ==
  ASSUME NEW s, IsSeq(s), NEW e, NEW t, IsLonger(t, s, e)
  PROVE  /\ IsSeq(t) /\ Len(t) = Len(s) + 1 /\ t[Len(s) + 1] = e
         /\ \A i \in 1..Len(s) : t[i] = s[i]
<1>1. PICK S : s \in Seq(S)
  BY DEF IsSeq
<1>2. s \in Seq(S \cup {e})
  BY <1>1
<1>3. t \in Seq(S \cup {e})
  BY <1>2 DEF IsLonger
<1> QED BY <1>2, <1>3 DEF IsSeq, IsLonger

LEMMA ExceptIs ==
  ASSUME NEW s, IsSeq(s), NEW q \in 1..Len(s), NEW e
  PROVE  LET t == [s EXCEPT ![q] = e] IN
         /\ IsSeq(t) /\ Len(t) = Len(s) /\ t[q] = e
         /\ \A i \in 1..Len(s) : i # q => t[i] = s[i]
<1> DEFINE t == [s EXCEPT ![q] = e]
<1>1. PICK S : s \in Seq(S)
  BY DEF IsSeq
<1>2. s \in Seq(S \cup {e})
  BY <1>1
<1>3. t \in Seq(S \cup {e})
  BY <1>2
<1>4. Len(t) = Len(s) /\ t[q] = e /\ \A i \in 1..Len(s) : i # q => t[i] = s[i]
  BY <1>2
<1> QED BY <1>3, <1>4 DEF IsSeq

\* A sequence given cell by cell.
LEMMA CellsAre ==
  ASSUME NEW t, NEW n \in Nat, t = [i \in 1..n |-> t[i]]
  PROVE  IsSeq(t) /\ Len(t) = n
<1> DEFINE S == {t[i] : i \in 1..n}
<1>1. t \in [1..n -> S]
  OBVIOUS
<1>2. t \in Seq(S) /\ Len(t) = n
  <2> HIDE DEF S
  <2> QED BY <1>1
<1> QED BY <1>2 DEF IsSeq

Larger(a, c) == IF a > c THEN a ELSE c

LEMMA PutIs ==
  ASSUME NEW cells, IsSeq(cells), NEW new, IsSeq(new), NEW base \in Nat
  PROVE  /\ IsSeq(Put(cells, base, new)) /\ Len(Put(cells, base, new)) = Larger(base + Len(new), Len(cells))
         /\ \A i \in 1..Larger(base + Len(new), Len(cells)) :
              Put(cells, base, new)[i] =
                IF i > base /\ i <= base + Len(new) THEN new[i - base] ELSE IF i <= Len(cells) THEN cells[i] ELSE -1
<1> DEFINE n == Larger(base + Len(new), Len(cells))
           cell(i) == IF i > base /\ i <= base + Len(new) THEN new[i - base] ELSE IF i <= Len(cells) THEN cells[i] ELSE -1
<1>1. n \in Nat
  BY SeqFacts DEF Larger
<1>2. Put(cells, base, new) = [i \in 1..n |-> cell(i)]
  BY DEF Put, Larger
<1> HIDE DEF n, cell
<1>3. \A i \in 1..n : Put(cells, base, new)[i] = cell(i)
  BY <1>2
<1>4. Put(cells, base, new) = [i \in 1..n |-> Put(cells, base, new)[i]]
  BY <1>2, <1>3
<1>5. IsSeq(Put(cells, base, new)) /\ Len(Put(cells, base, new)) = n
  BY <1>1, <1>4, CellsAre
<1> QED BY <1>3, <1>5 DEF n, cell

-----------------------------------------------------------------------------
(* The reader. Both passes are runs of one machine that reads the text (m,  *)
(* up to e) and counts: what it knows at a place is a reading. It takes a   *)
(* number in one step, and refuses (place 0) what is malformed or too long. *)

NumberFlags == {"num_negative", "num_zero", "num_e", "num_e_got_sign", "num_e_negative"}
NumberChars == Digits \cup {"+", "-", "e", "E", "."}

Kinds      == {"array", "object", "string", "other", "none"}
Kind(type) == IF type \in {"array", "object", "string"} THEN type ELSE "other"

Begin ==
  [place |-> 1, flags |-> {"seek_value"}, size |-> 0, top |-> 0, begun |-> 0, open |-> {},
   length |-> [v \in Nat |-> 0], names |-> [v \in Nat |-> 0],
   kind |-> [v \in Nat |-> "none"], parent |-> [v \in Nat |-> 0]]

Refused(s)     == [s EXCEPT !.place = 0]
Moved(s, p, f) == [s EXCEPT !.place = p, !.flags = f]
Added(s, n, p) == [s EXCEPT !.place = p, !.flags = s.flags \ {"escaped"}, !.size = s.size + n]

\* A value begins, and top is complete.
Started(s, kind, p, f) ==
  [s EXCEPT !.place = p, !.flags = f, !.top = s.begun + 1, !.begun = s.begun + 1,
            !.open = s.open \cup {s.begun + 1},
            !.kind = [s.kind EXCEPT ![s.begun + 1] = kind],
            !.parent = [s.parent EXCEPT ![s.begun + 1] = s.top]]

EndedIn(s, q, p, f) ==
  [s EXCEPT !.place = p, !.top = q, !.open = s.open \ {s.top},
            !.flags = f \cup {"need_comma"} \cup (IF s.kind[q] = "array" THEN {"seek_value"} ELSE {}),
            !.length = [s.length EXCEPT ![q] = s.length[q] + 1]]

Ended(s, p, f) ==
  IF s.parent[s.top] = 0
    THEN [s EXCEPT !.place = p, !.open = s.open \ {s.top}, !.flags = f \cup {"need_comma", "done"}]
  ELSE IF s.length[s.parent[s.top]] + 1 > Most THEN Refused(s)
  ELSE EndedIn(s, s.parent[s.top], p, f)

Look(m, e, p) == IF p = e THEN NUL ELSE m[p]

HexIn(m, p)  == \A k \in 0..3 : hex_value(m[p + k]) # 255
UnitIn(m, p) == 4096 * hex_value(m[p]) + 256 * hex_value(m[p + 1]) + 16 * hex_value(m[p + 2]) + hex_value(m[p + 3])

ReadUnit(m, e, s) ==
  LET p      == s.place
      pair   == UnitIn(m, p + 1) \div 2048 = 27
      second == e - (p + 4) >= 6 /\ m[p + 5] = "\\" /\ m[p + 6] = "u" /\ HexIn(m, p + 7)
  IN IF ~(e - p >= 4 /\ HexIn(m, p + 1)) \/ (pair /\ ~second) THEN Refused(s)
     ELSE IF pair THEN Added(s, Len(Utf8(PairValue(UnitIn(m, p + 1), UnitIn(m, p + 7)))), p + 11)
     ELSE Added(s, Len(Utf8(UnitIn(m, p + 1))), p + 5)

\* A string or a name ends.
EndOfString(s) ==
  IF s.kind[s.top] = "string"
    THEN Ended([s EXCEPT !.length = [s.length EXCEPT ![s.top] = s.size]], s.place + 1, s.flags \ {"string"})
    ELSE [s EXCEPT !.place = s.place + 1, !.flags = (s.flags \ {"string"}) \cup {"seek_value", "need_colon"},
                   !.names = [s.names EXCEPT ![s.top] = s.names[s.top] + (s.size + 1)]]

ReadString(m, e, s) ==
  LET c == Look(m, e, s.place) IN
  IF c = NUL \/ s.size > Most THEN Refused(s)
  ELSE IF "escaped" \in s.flags THEN (IF c = "u" THEN ReadUnit(m, e, s) ELSE Added(s, 1, s.place + 1))
  ELSE IF c = "\\" THEN Moved(s, s.place + 1, s.flags \cup {"escaped"})
  ELSE IF c = "\"" THEN EndOfString(s)
  ELSE Added(s, 1, s.place + 1)

ReadDone(m, e, s) ==
  LET c == Look(m, e, s.place) IN
  IF c \in Whitespace THEN Moved(s, s.place + 1, s.flags) ELSE IF c = NUL THEN s ELSE Refused(s)

WordAt(m, e, p, w) ==
  Look(m, e, p) = w[1] /\ e - p >= Len(w) - 1 /\ \A k \in 2..Len(w) : m[p + k - 1] = w[k]

BehindNumber(m, e, p) ==
  CHOOSE q \in p..e :
    /\ q = e \/ m[q] \notin NumberChars
    /\ \A k \in p..(q - 1) : m[k] \in NumberChars

\* A value begins.
ReadValue(m, e, s) ==
  LET c == Look(m, e, s.place)
      p == s.place
      f == s.flags \ {"seek_value"}
  IN IF c = "{" THEN Started(s, "object", p + 1, f)
     ELSE IF c = "[" THEN Started(s, "array", p + 1, s.flags)
     ELSE IF c = "\"" THEN [Started(s, "string", p + 1, f \cup {"string"}) EXCEPT !.size = 0]
     ELSE IF c \in Digits \cup {"-"}
       THEN Ended(Started(s, "other", p, f), BehindNumber(m, e, p), f)
     ELSE IF \E w \in Words : WordAt(m, e, p, w)
       THEN Ended(Started(s, "other", p, f), p + Len(CHOOSE w \in Words : WordAt(m, e, p, w)), f)
     ELSE Refused(s)

ReadSeeking(m, e, s) ==
  LET c == Look(m, e, s.place)
      p == s.place
  IN IF c \in Whitespace THEN Moved(s, p + 1, s.flags)
     ELSE IF c = "]"
       THEN (IF s.top # 0 /\ s.kind[s.top] = "array" THEN Ended(s, p + 1, s.flags \ {"need_comma", "seek_value"})
             ELSE Refused(s))
     ELSE IF "need_comma" \in s.flags
       THEN (IF c = "," THEN Moved(s, p + 1, s.flags \ {"need_comma"}) ELSE Refused(s))
     ELSE IF "need_colon" \in s.flags
       THEN (IF c = ":" THEN Moved(s, p + 1, s.flags \ {"need_colon"}) ELSE Refused(s))
     ELSE ReadValue(m, e, s)

ReadObject(m, e, s) ==
  LET c == Look(m, e, s.place)
      p == s.place
  IN IF c \in Whitespace THEN Moved(s, p + 1, s.flags)
     ELSE IF c = "}" THEN Ended(s, p + 1, s.flags \ {"need_comma"})
     ELSE IF c = "\"" /\ "need_comma" \notin s.flags
       THEN [s EXCEPT !.place = p + 1, !.flags = s.flags \cup {"string"}, !.size = 0]
     ELSE IF c = "," /\ "need_comma" \in s.flags THEN Moved(s, p + 1, s.flags \ {"need_comma"})
     ELSE Refused(s)

Read(m, e, s) ==
  IF s.place = 0 THEN s
  ELSE IF "string" \in s.flags THEN ReadString(m, e, s)
  ELSE IF "done" \in s.flags THEN ReadDone(m, e, s)
  ELSE IF "seek_value" \in s.flags THEN ReadSeeking(m, e, s)
  ELSE ReadObject(m, e, s)

\* n turns of the reader.
Reads(m, e, r, n) == r[0] = Begin /\ \A j \in 1..n : r[j] = Read(m, e, r[j - 1])

-----------------------------------------------------------------------------
(* Readings. *)

ReaderFlags == {"need_comma", "seek_value", "escaped", "string", "need_colon", "done"}
Nested      == {"array", "object"}

ReadingType(e, s) ==
  s \in [place : 0..(e + 1), flags : SUBSET ReaderFlags, size : Nat, top : Nat, begun : Nat, open : SUBSET Nat,
         length : [Nat -> Nat], names : [Nat -> Nat], kind : [Nat -> Kinds], parent : [Nat -> Nat]]

\* The values begun, and in which values they are.
TreeOK(s) ==
  /\ s.top <= s.begun /\ (s.top = 0 <=> s.begun = 0)
  /\ \A v \in 1..s.begun :
       /\ s.parent[v] < v /\ (v = 1 <=> s.parent[v] = 0) /\ (s.parent[v] # 0 => s.kind[s.parent[v]] \in Nested)
       /\ s.kind[v] # "none" /\ (s.kind[v] = "other" => s.length[v] = 0)
  /\ \A v \in Nat : v > s.begun => s.length[v] = 0 /\ s.names[v] = 0

\* The values not complete: top, the one it is in, and so on.
OpenOK(s) ==
  /\ s.open \subseteq 1..s.begun
  /\ \A v \in s.open :
       /\ s.parent[v] \in s.open \cup {0} /\ s.parent[v] # s.top
       /\ (v # s.top => s.kind[v] \in Nested)
  /\ \A v, w \in s.open : s.parent[v] = s.parent[w] => v = w

FlagsOK(s) ==
  /\ "done" \in s.flags => s.open = {} /\ s.begun > 0 /\ s.flags \cap {"string", "seek_value"} = {}
  /\ "done" \notin s.flags /\ s.begun > 0 => s.top \in s.open
  /\ s.begun = 0 => "seek_value" \in s.flags
  /\ "string" \in s.flags => s.kind[s.top] \in {"string", "object"} /\ s.flags \cap {"need_comma", "seek_value"} = {}
  /\ "string" \in s.flags /\ s.kind[s.top] = "string" => s.length[s.top] = 0
  /\ s.flags \cap {"string", "done"} = {} /\ s.begun > 0 =>
       s.kind[s.top] \in Nested /\ (s.kind[s.top] = "array" => "seek_value" \in s.flags)

ReadingOK(e, s) == ReadingType(e, s) /\ TreeOK(s) /\ OpenOK(s) /\ FlagsOK(s)

LEMMA BeginOK == ASSUME NEW e \in Nat PROVE ReadingOK(e, Begin)
  BY DEF ReadingOK, ReadingType, TreeOK, OpenOK, FlagsOK, Begin, ReaderFlags, Kinds

\* The same values, none begun and none ended.
Beside(s, t) ==
  /\ t.top = s.top /\ t.begun = s.begun /\ t.open = s.open /\ t.length = s.length
  /\ t.names = s.names /\ t.kind = s.kind /\ t.parent = s.parent

LEMMA BesideKeeps ==
  ASSUME NEW s, NEW t, Beside(s, t), TreeOK(s), OpenOK(s)
  PROVE  TreeOK(t) /\ OpenOK(t)
  BY DEF Beside, TreeOK, OpenOK

LEMMA RefusedIs ==
  ASSUME NEW e \in Nat, NEW s, ReadingType(e, s)
  PROVE  Refused(s).place = 0
  BY DEF ReadingType, Refused

LEMMA StartedIs ==
  ASSUME NEW e \in Nat, NEW s, ReadingOK(e, s), NEW kind \in Kinds \ {"none"}, NEW p \in 0..(e + 1), NEW f \in SUBSET ReaderFlags,
         s.begun > 0 => s.top \in s.open /\ s.kind[s.top] \in Nested
  PROVE  LET t == Started(s, kind, p, f) IN
         /\ ReadingType(e, t) /\ TreeOK(t) /\ OpenOK(t)
         /\ t.place = p /\ t.flags = f /\ t.size = s.size /\ t.top = s.begun + 1 /\ t.begun = s.begun + 1
         /\ t.open = s.open \cup {s.begun + 1} /\ t.length = s.length /\ t.names = s.names
         /\ t.parent[s.begun + 1] = s.top /\ t.kind[s.begun + 1] = kind
         /\ \A v \in 1..s.begun : t.parent[v] = s.parent[v] /\ t.kind[v] = s.kind[v]
<1> DEFINE t == Started(s, kind, p, f)
           n == s.begun + 1
<1>0. /\ s.top \in Nat /\ s.begun \in Nat /\ n \in Nat /\ n # 0 /\ s.open \in SUBSET Nat /\ s.kind \in [Nat -> Kinds]
      /\ s.parent \in [Nat -> Nat] /\ s.length \in [Nat -> Nat] /\ s.names \in [Nat -> Nat]
  BY DEF ReadingOK, ReadingType
<1>1. ReadingType(e, t)
  <2>1. s.open \cup {n} \in SUBSET Nat
    BY <1>0
  <2>2. [s.kind EXCEPT ![n] = kind] \in [Nat -> Kinds] /\ [s.parent EXCEPT ![n] = s.top] \in [Nat -> Nat]
    BY <1>0
  <2> QED BY <1>0, <2>1, <2>2 DEF ReadingOK, ReadingType, Started
<1>2. /\ t.place = p /\ t.flags = f /\ t.size = s.size /\ t.top = n /\ t.begun = n
      /\ t.open = s.open \cup {n} /\ t.length = s.length /\ t.names = s.names
      /\ t.parent = [s.parent EXCEPT ![n] = s.top] /\ t.kind = [s.kind EXCEPT ![n] = kind]
  BY DEF ReadingOK, ReadingType, Started
<1> HIDE DEF t
<1>3. /\ t.parent[n] = s.top /\ t.kind[n] = kind
      /\ \A v \in 1..s.begun : t.parent[v] = s.parent[v] /\ t.kind[v] = s.kind[v]
  <2>1. \A v \in 1..s.begun : v \in Nat /\ v # n
    BY <1>0
  <2> HIDE DEF n
  <2> QED BY <1>0, <1>2, <2>1
<1>4. \A v \in 1..n : v = n \/ v \in 1..s.begun
  BY <1>0
<1>5. s.top <= s.begun /\ (s.top = 0 <=> s.begun = 0) /\ (s.top # 0 => s.top \in 1..s.begun)
  BY <1>0 DEF ReadingOK, TreeOK
<1>6. TreeOK(t)
  <2>1. ASSUME NEW v \in 1..s.begun
        PROVE  /\ t.parent[v] < v /\ (v = 1 <=> t.parent[v] = 0) /\ (t.parent[v] # 0 => t.kind[t.parent[v]] \in Nested)
               /\ t.kind[v] # "none" /\ (t.kind[v] = "other" => t.length[v] = 0)
    <3>1. /\ s.parent[v] < v /\ (v = 1 <=> s.parent[v] = 0) /\ (s.parent[v] # 0 => s.kind[s.parent[v]] \in Nested)
          /\ s.kind[v] # "none" /\ (s.kind[v] = "other" => s.length[v] = 0)
      BY DEF ReadingOK, TreeOK
    <3>2. s.parent[v] # 0 => s.parent[v] \in 1..s.begun
      BY <1>0, <3>1
    <3> QED BY <1>2, <1>3, <3>1, <3>2
  <2>2. /\ t.parent[n] < n /\ (n = 1 <=> t.parent[n] = 0) /\ (t.parent[n] # 0 => t.kind[t.parent[n]] \in Nested)
        /\ t.kind[n] # "none" /\ (t.kind[n] = "other" => t.length[n] = 0)
    <3>1. t.parent[n] < n /\ (n = 1 <=> t.parent[n] = 0)
      BY <1>0, <1>3, <1>5
    <3>2. t.parent[n] # 0 => t.kind[t.parent[n]] \in Nested
      BY <1>0, <1>3, <1>5
    <3>3. s.length[n] = 0
      BY <1>0 DEF ReadingOK, TreeOK
    <3> QED BY <1>2, <1>3, <3>1, <3>2, <3>3
  <2>3. \A v \in Nat : v > n => t.length[v] = 0 /\ t.names[v] = 0
    BY <1>0, <1>2 DEF ReadingOK, TreeOK
  <2>4. t.top <= t.begun /\ (t.top = 0 <=> t.begun = 0)
    BY <1>0, <1>2
  <2> HIDE DEF n
  <2> QED BY <1>2, <1>4, <2>1, <2>2, <2>3, <2>4 DEF TreeOK
<1>7. OpenOK(t)
  <2>0. s.open \subseteq 1..s.begun /\ n \notin s.open /\ (s.top = 0 => s.open = {}) /\ n # s.top
    <3>1. s.open \subseteq 1..s.begun
      BY DEF ReadingOK, OpenOK
    <3> QED BY <1>0, <1>5, <3>1
  <2>1. t.open \subseteq 1..n
    BY <1>0, <1>2, <2>0
  <2>2. ASSUME NEW v \in s.open
        PROVE  /\ t.parent[v] \in t.open \cup {0} /\ t.parent[v] # n /\ t.parent[v] # s.top
               /\ t.kind[v] \in Nested
    <3>1. v \in 1..s.begun /\ t.parent[v] = s.parent[v] /\ t.kind[v] = s.kind[v] /\ s.parent[v] < v
      BY <1>3, <2>0 DEF ReadingOK, TreeOK
    <3>2. /\ s.parent[v] \in s.open \cup {0} /\ s.parent[v] # s.top
          /\ (v # s.top => s.kind[v] \in Nested)
      BY DEF ReadingOK, OpenOK
    <3>3. s.kind[v] \in Nested
      BY <1>0, <3>1, <3>2
    <3>4. s.parent[v] # n
      BY <1>0, <2>0, <3>2
    <3> QED BY <1>2, <3>1, <3>2, <3>3, <3>4
  <2>3. t.parent[n] \in t.open \cup {0} /\ t.parent[n] # n /\ t.length[n] = 0
    <3>1. s.length[n] = 0
      BY <1>0 DEF ReadingOK, TreeOK
    <3>2. s.top = 0 \/ s.top \in s.open
      BY <1>0, <1>5
    <3> QED BY <1>2, <1>3, <2>0, <3>1, <3>2
  <2>4. \A v, w \in s.open : t.parent[v] = t.parent[w] => v = w
    <3>1. \A v \in s.open : t.parent[v] = s.parent[v]
      BY <1>3, <2>0
    <3> QED BY <3>1 DEF ReadingOK, OpenOK
  <2>5. \A v \in s.open : t.parent[v] # t.parent[n]
    BY <1>3, <2>2
  <2>6. \A v, w \in t.open : t.parent[v] = t.parent[w] => v = w
    BY <1>2, <2>4, <2>5
  <2> HIDE DEF n
  <2> QED BY <1>2, <2>1, <2>2, <2>3, <2>6 DEF OpenOK
<1> QED BY <1>1, <1>2, <1>3, <1>6, <1>7 DEF t, n

\* A value that is the first one is the only one not complete.
LEMMA OnlyRoot ==
  ASSUME NEW e \in Nat, NEW s, ReadingType(e, s), TreeOK(s), OpenOK(s), s.top \in s.open, s.parent[s.top] = 0
  PROVE  s.open = {s.top}
<1> DEFINE U == s.open \ {s.top}
<1>1. SUFFICES ASSUME U # {} PROVE FALSE
  OBVIOUS
<1>2. U \in SUBSET Nat
  BY DEF ReadingType
<1>3. PICK v \in U : \A w \in U : v <= w
  <2> HIDE DEF U
  <2> QED BY <1>1, <1>2, LeastElement
<1>4. v \in 1..s.begun /\ s.top \in 1..s.begun /\ s.begun \in Nat
  BY DEF OpenOK, ReadingType
<1>5. s.parent[v] < v /\ s.parent[v] \in Nat /\ s.parent[v] # 0
  BY <1>4 DEF TreeOK, ReadingType
<1>6. s.parent[v] \in s.open /\ s.parent[v] # s.top
  BY <1>3, <1>5 DEF OpenOK
<1>7. v <= s.parent[v] /\ v \in Nat
  BY <1>2, <1>3, <1>6
<1> QED BY <1>5, <1>7

\* What is true of a value that ends.
Ends1(s, t, q, p, f) ==
  /\ t.place = p /\ t.size = s.size /\ t.begun = s.begun /\ t.open = s.open \ {s.top}
  /\ t.names = s.names /\ t.kind = s.kind /\ t.parent = s.parent
  /\ q = 0 => t.top = s.top /\ t.flags = f \cup {"need_comma", "done"} /\ t.length = s.length
  /\ q # 0 => /\ t.top = q /\ t.length = [s.length EXCEPT ![q] = s.length[q] + 1] /\ s.length[q] + 1 <= Most
              /\ t.flags = f \cup {"need_comma"} \cup (IF s.kind[q] = "array" THEN {"seek_value"} ELSE {})
              /\ q \in s.open /\ q \in 1..s.begun /\ q # s.top /\ s.kind[q] \in Nested

LEMMA EndedIs ==
  ASSUME JsonAssumption, NEW e \in Nat, NEW s, ReadingType(e, s), TreeOK(s), OpenOK(s), s.top \in s.open,
         NEW p \in 1..(e + 1), NEW f \in SUBSET ReaderFlags, f \cap {"string", "done", "seek_value"} = {}
  PROVE  LET t == Ended(s, p, f) IN
         \/ t.place = 0 /\ s.parent[s.top] # 0 /\ s.length[s.parent[s.top]] + 1 > Most
         \/ ReadingOK(e, t) /\ Ends1(s, t, s.parent[s.top], p, f)
<1> DEFINE t == Ended(s, p, f)
           q == s.parent[s.top]
<1>a. s.open \in SUBSET Nat /\ s.kind \in [Nat -> Kinds] /\ s.flags \in SUBSET ReaderFlags
  BY DEF ReadingType
<1>b. s.parent \in [Nat -> Nat] /\ s.length \in [Nat -> Nat] /\ s.names \in [Nat -> Nat]
  BY DEF ReadingType
<1>c. s.top \in Nat /\ s.begun \in Nat /\ s.top \in 1..s.begun
  BY DEF ReadingType, OpenOK
<1>d. q \in Nat /\ Most \in Nat /\ s.begun > 0
  <2>1. Most \in Nat
    BY Zenon DEF JsonAssumption
  <2>2. q \in Nat
    BY <1>b, <1>c
  <2> QED BY <1>c, <2>1, <2>2
<1>1. CASE q = 0
  <2>1. t = [s EXCEPT !.place = p, !.open = s.open \ {s.top}, !.flags = f \cup {"need_comma", "done"}]
    BY <1>1 DEF Ended
  <2>2. ReadingType(e, t)
    <3>1. f \cup {"need_comma", "done"} \in SUBSET ReaderFlags /\ s.open \ {s.top} \in SUBSET Nat
      BY <1>a DEF ReaderFlags
    <3>2. p \in 0..(e + 1)
      OBVIOUS
    <3> HIDE DEF t
    <3> QED BY <2>1, <3>1, <3>2 DEF ReadingType
  <2>3. Ends1(s, t, q, p, f)
    BY <1>1, <2>1 DEF Ends1, ReadingType
  <2>4. t.open = {}
    BY <1>1, <2>3, OnlyRoot DEF Ends1
  <2> HIDE DEF t
  <2>5. TreeOK(t)
    BY <1>1, <2>3 DEF Ends1, TreeOK
  <2>6. OpenOK(t)
    BY <2>4 DEF OpenOK
  <2>7. FlagsOK(t)
    <3>1. t.begun > 0 /\ t.flags = f \cup {"need_comma", "done"}
      BY <1>d, <1>1, <2>3 DEF Ends1
    <3> QED BY <2>4, <3>1 DEF FlagsOK
  <2> QED BY <2>2, <2>3, <2>5, <2>6, <2>7 DEF t, q, ReadingOK
<1>2. CASE q # 0 /\ s.length[q] + 1 > Most
  BY <1>2, RefusedIs DEF Ended
<1>3. CASE q # 0 /\ ~(s.length[q] + 1 > Most)
  <2>1. t = EndedIn(s, q, p, f)
    BY <1>3 DEF Ended
  <2> DEFINE g == f \cup {"need_comma"} \cup (IF s.kind[q] = "array" THEN {"seek_value"} ELSE {})
  <2>2. ReadingType(e, t)
    <3>1. g \in SUBSET ReaderFlags /\ s.open \ {s.top} \in SUBSET Nat
      BY <1>a DEF ReaderFlags
    <3>2. [s.length EXCEPT ![q] = s.length[q] + 1] \in [Nat -> Nat]
      <4>1. s.length[q] + 1 \in Nat
        <5>1. s.length[q] \in Nat
          BY <1>b, <1>d
        <5> QED BY ONLY <5>1
      <4> QED BY <1>b, <1>d, <4>1
    <3>3. p \in 0..(e + 1)
      OBVIOUS
    <3> HIDE DEF g, q, t
    <3>4. t = [s EXCEPT !.place = p, !.top = q, !.open = s.open \ {s.top}, !.flags = g,
                        !.length = [s.length EXCEPT ![q] = s.length[q] + 1]]
      BY <2>1 DEF EndedIn, g
    <3> QED BY <1>d, <3>1, <3>2, <3>3, <3>4, ZenonT(60) DEF ReadingType
  <2>3. q \in s.open /\ q \in 1..s.begun /\ q # s.top /\ s.kind[q] \in Nested
    <3>1. q \in s.open /\ q < s.top
      BY <1>c, <1>3 DEF OpenOK, TreeOK
    <3>2. s.open \subseteq 1..s.begun /\ s.kind[q] \in Nested
      BY <1>c, <1>3 DEF OpenOK, TreeOK
    <3>3. q # s.top
      BY <1>c, <1>d, <3>1
    <3> QED BY <3>1, <3>2, <3>3
  <2>4. Ends1(s, t, q, p, f)
    <3>1. s.length[q] + 1 <= Most
      <4>1. s.length[q] \in Nat
        BY <1>b, <1>d
      <4> QED BY <4>1, <1>d, <1>3
    <3> QED BY <1>3, <2>1, <2>3, <3>1 DEF Ends1, ReadingType, EndedIn
  <2> HIDE DEF t
  <2>5. t.length[q] = s.length[q] + 1 /\ \A v \in Nat : v # q => t.length[v] = s.length[v]
    BY <1>b, <1>3, <1>d, <2>4 DEF Ends1
  <2>6. TreeOK(t)
    <3>1. \A v \in Nat : v > s.begun => v # q
      <4>1. q <= s.begun
        BY <1>c, <1>d, <2>3
      <4> QED BY <1>c, <1>d, <4>1
    <3>2. \A v \in 1..s.begun : s.kind[v] = "other" => v # q
      BY <2>3 DEF Nested
    <3>3. t.top = q /\ t.begun = s.begun /\ t.kind = s.kind /\ t.parent = s.parent /\ t.names = s.names
      BY <1>3, <2>4 DEF Ends1
    <3>4. q <= s.begun /\ (q = 0 <=> s.begun = 0)
      <4> HIDE DEF q
      <4> QED BY <1>c, <1>d, <2>3
    <3>5. \A v \in 1..s.begun :
            /\ s.parent[v] < v /\ (v = 1 <=> s.parent[v] = 0) /\ (s.parent[v] # 0 => s.kind[s.parent[v]] \in Nested)
            /\ s.kind[v] # "none" /\ (s.kind[v] = "other" => s.length[v] = 0)
      BY DEF TreeOK
    <3>6. \A v \in Nat : v > s.begun => s.length[v] = 0 /\ s.names[v] = 0
      BY DEF TreeOK
    <3>7. \A v \in 1..s.begun : s.kind[v] = "other" => t.length[v] = 0
      <4>1. \A v \in 1..s.begun : v \in Nat
        OBVIOUS
      <4> QED BY <2>5, <3>2, <3>5, <4>1
    <3>8. \A v \in Nat : v > s.begun => t.length[v] = 0 /\ t.names[v] = 0
      BY <2>5, <3>1, <3>3, <3>6
    <3> QED BY <3>3, <3>4, <3>5, <3>7, <3>8 DEF TreeOK
  <2>7. OpenOK(t)
    <3>1. t.open = s.open \ {s.top} /\ t.top = q /\ t.begun = s.begun /\ t.kind = s.kind /\ t.parent = s.parent
      BY <1>3, <2>4 DEF Ends1
    <3>2. ASSUME NEW v \in t.open
          PROVE  /\ t.parent[v] \in t.open \cup {0} /\ t.parent[v] # q /\ t.kind[v] \in Nested
      <4>1. v \in s.open /\ v # s.top
        BY <3>1
      <4>2. s.parent[v] \in s.open \cup {0} /\ s.parent[v] # s.top /\ s.kind[v] \in Nested
        BY <4>1 DEF OpenOK
      <4>3. s.parent[v] # q
        BY <4>1 DEF OpenOK
      <4> QED BY <3>1, <4>2, <4>3
    <3>3. t.open \subseteq 1..t.begun /\ \A v, w \in t.open : t.parent[v] = t.parent[w] => v = w
      BY <3>1 DEF OpenOK
    <3> QED BY <3>1, <3>2, <3>3 DEF OpenOK
  <2>8. FlagsOK(t)
    <3>1. t.open = s.open \ {s.top} /\ t.top = q /\ t.begun = s.begun /\ t.kind = s.kind /\ t.flags = g
      BY <1>3, <2>4 DEF Ends1
    <3>2. "done" \notin t.flags /\ "string" \notin t.flags /\ (s.kind[q] = "array" => "seek_value" \in t.flags)
      BY <3>1
    <3>3. q \in t.open /\ t.begun # 0
      <4> HIDE DEF q
      <4> QED BY <1>c, <1>d, <2>3, <3>1
    <3> QED BY <2>3, <3>1, <3>2, <3>3 DEF FlagsOK
  <2> QED BY <2>2, <2>4, <2>6, <2>7, <2>8 DEF t, q, ReadingOK
<1> QED BY <1>1, <1>2, <1>3

\* What a reading has counted, and has begun to count, is within the counts L and N of a
\* later one.
PaidCounts(s, L, N)  == \A v \in Nat : s.length[v] <= L[v] /\ s.names[v] <= N[v]
PaidText(s, L, N) ==
  "string" \in s.flags =>
    /\ s.kind[s.top] = "string" => s.size <= L[s.top]
    /\ s.kind[s.top] = "object" => s.names[s.top] + (s.size + 1) <= N[s.top]
PaidEntries(s, L) ==
  \A v \in s.open :
    s.kind[v] = "object" /\ (v # s.top \/ s.flags \cap {"string", "seek_value"} # {}) => s.length[v] + 1 <= L[v]
Paid(s, L, N) == PaidCounts(s, L, N) /\ PaidText(s, L, N) /\ PaidEntries(s, L)

Counters == [Nat -> Nat]

\* What was counted stays counted, and what a value is and where it is.
Rigid(s, t) == s.begun <= t.begun /\ \A v \in 1..s.begun : t.kind[v] = s.kind[v] /\ t.parent[v] = s.parent[v]
Progress(s, t) == Rigid(s, t) /\ \A L, N \in Counters : Paid(t, L, N) => Paid(s, L, N)

\* A turn that begins and ends nothing.
LEMMA QuietTurn ==
  ASSUME NEW e \in Nat, NEW s, NEW t, ReadingOK(e, s), ReadingType(e, t), Beside(s, t), s.size <= t.size,
         \A flag \in {"done", "seek_value", "string"} : flag \in t.flags <=> flag \in s.flags,
         "need_comma" \in t.flags => "need_comma" \in s.flags
  PROVE  ReadingOK(e, t) /\ Progress(s, t)
<1>1. TreeOK(t) /\ OpenOK(t)
  BY BesideKeeps DEF ReadingOK
<1>2. FlagsOK(t)
  BY DEF ReadingOK, FlagsOK, Beside
<1>3. Rigid(s, t)
  BY DEF Rigid, Beside, ReadingOK, ReadingType
<1>4. ASSUME NEW L \in Counters, NEW N \in Counters, Paid(t, L, N) PROVE Paid(s, L, N)
  <2>1. PaidCounts(s, L, N)
    BY <1>4 DEF Paid, PaidCounts, Beside
  <2>2. PaidText(s, L, N)
    <3>1. s.top \in Nat /\ s.size \in Nat /\ t.size \in Nat /\ s.names[s.top] \in Nat
      BY DEF ReadingOK, ReadingType
    <3>2. L[s.top] \in Nat /\ N[s.top] \in Nat
      BY <3>1 DEF Counters
    <3>3. /\ "string" \in s.flags => "string" \in t.flags
          /\ t.kind[t.top] = s.kind[s.top] /\ t.names[t.top] = s.names[s.top] /\ t.top = s.top
      BY DEF Beside
    <3>4. s.size <= t.size
      OBVIOUS
    <3>5. PaidText(t, L, N)
      BY <1>4 DEF Paid
    <3>6. ASSUME "string" \in s.flags, s.kind[s.top] = "string" PROVE s.size <= L[s.top]
      <4>1. t.size <= L[s.top]
        BY <3>3, <3>5, <3>6 DEF PaidText
      <4> QED BY ONLY <3>1, <3>2, <3>4, <4>1
    <3>7. ASSUME "string" \in s.flags, s.kind[s.top] = "object" PROVE s.names[s.top] + (s.size + 1) <= N[s.top]
      <4>1. s.names[s.top] + (t.size + 1) <= N[s.top]
        BY <3>3, <3>5, <3>7 DEF PaidText
      <4> QED BY ONLY <3>1, <3>2, <3>4, <4>1
    <3> QED BY <3>6, <3>7 DEF PaidText
  <2>3. PaidEntries(s, L)
    BY <1>4 DEF Paid, PaidEntries, Beside
  <2> QED BY <2>1, <2>2, <2>3 DEF Paid
<1> QED BY <1>1, <1>2, <1>3, <1>4 DEF ReadingOK, Progress

LEMMA StartedPays ==
  ASSUME NEW e \in Nat, NEW s, NEW t, ReadingOK(e, s), "string" \notin s.flags, NEW L \in Counters, NEW N \in Counters,
         t.top = s.begun + 1, t.begun = s.begun + 1, t.open = s.open \cup {s.begun + 1},
         t.length = s.length, t.names = s.names,
         \A v \in 1..s.begun : t.parent[v] = s.parent[v] /\ t.kind[v] = s.kind[v]
  PROVE  /\ Rigid(s, t)
         /\ PaidCounts(t, L, N) /\ PaidEntries(t, L) => Paid(s, L, N)
<1>0. s.begun \in Nat /\ s.open \subseteq 1..s.begun
  BY DEF ReadingOK, ReadingType, OpenOK
<1>1. Rigid(s, t)
  BY <1>0 DEF Rigid
<1>2. ASSUME PaidCounts(t, L, N), PaidEntries(t, L) PROVE Paid(s, L, N)
  <2>1. PaidCounts(s, L, N)
    BY <1>2 DEF PaidCounts
  <2>2. \A v \in s.open : v # t.top /\ v \in t.open /\ t.kind[v] = s.kind[v]
    BY <1>0
  <2>3. PaidEntries(s, L)
    BY <1>2, <2>2 DEF PaidEntries
  <2> QED BY <2>1, <2>3 DEF Paid, PaidText
<1> QED BY <1>1, <1>2

LEMMA EndedPays ==
  ASSUME NEW e \in Nat, NEW s, NEW t, NEW q, NEW p, NEW f, ReadingType(e, s), TreeOK(s), OpenOK(s), s.top \in s.open,
         Ends1(s, t, q, p, f), q = s.parent[s.top], NEW L \in Counters, NEW N \in Counters,
         s.kind[s.top] = "object" => s.flags \cap {"string", "seek_value"} = {},
         PaidCounts(t, L, N), PaidEntries(t, L)
  PROVE  PaidCounts(s, L, N) /\ PaidEntries(s, L)
<1>0. /\ s.length \in [Nat -> Nat] /\ s.open \in SUBSET Nat /\ L \in [Nat -> Nat]
      /\ t.kind = s.kind /\ t.names = s.names /\ t.open = s.open \ {s.top}
  BY DEF ReadingType, Ends1, Counters
<1>1. CASE q = 0
  <2>1. t.length = s.length
    BY <1>1 DEF Ends1
  <2>2. PaidCounts(s, L, N)
    BY <1>0, <2>1 DEF PaidCounts
  <2>3. s.open = {s.top}
    BY <1>1, OnlyRoot
  <2> QED BY <2>2, <2>3 DEF PaidEntries
<1>2. CASE q # 0
  <2>1. t.top = q /\ t.length = [s.length EXCEPT ![q] = s.length[q] + 1] /\ q \in s.open
    BY <1>2 DEF Ends1
  <2>2. q \in Nat
    BY <1>0, <2>1
  <2>3. t.length[q] = s.length[q] + 1 /\ \A v \in Nat : v # q => t.length[v] = s.length[v]
    BY <1>0, <2>1, <2>2
  <2>4. s.length[q] \in Nat /\ L[q] \in Nat
    BY <1>0, <2>2
  <2>5. s.length[q] + 1 <= L[q]
    BY <2>2, <2>3 DEF PaidCounts
  <2>6. s.length[q] <= L[q]
    BY ONLY <2>4, <2>5
  <2>7. PaidCounts(s, L, N)
    BY <1>0, <2>3, <2>6 DEF PaidCounts
  <2>8. ASSUME NEW v \in s.open, s.kind[v] = "object", v # s.top PROVE s.length[v] + 1 <= L[v]
    <3>1. CASE v = q
      BY <3>1, <2>5
    <3>2. CASE v # q
      <4>1. v \in t.open /\ v # t.top /\ t.kind[v] = "object" /\ v \in Nat
        BY <1>0, <2>1, <2>8, <3>2
      <4>2. t.length[v] + 1 <= L[v]
        BY <4>1 DEF PaidEntries
      <4> QED BY <2>3, <3>2, <4>1, <4>2
    <3> QED BY <3>1, <3>2
  <2> QED BY <2>7, <2>8 DEF PaidEntries
<1> QED BY <1>1, <1>2

-----------------------------------------------------------------------------
(* One turn of the reader. *)

Memory(m, e) == \A p \in Nat : p > e => m[p] = NUL

LEMMA InTheText ==
  ASSUME NEW m, NEW e \in Nat, Memory(m, e), NEW p \in 1..(e + 1), Look(m, e, p) # NUL
  PROVE  p < e /\ p + 1 \in 1..(e + 1)
<1>1. p # e
  BY DEF Look
<1>2. p <= e
  BY <1>1 DEF Look, Memory
<1> QED BY <1>1, <1>2

\* The turn leads to a reading that knows more, or nowhere.
GoodTurn(e, s, t) == t.place = 0 \/ (t.place \in 1..(e + 1) /\ ReadingOK(e, t) /\ Progress(s, t))

LEMMA MovedTurn ==
  ASSUME NEW e \in Nat, NEW s, ReadingOK(e, s), NEW p \in 1..(e + 1), NEW f \in SUBSET ReaderFlags,
         \A flag \in {"done", "seek_value", "string"} : flag \in f <=> flag \in s.flags,
         "need_comma" \in f => "need_comma" \in s.flags
  PROVE  GoodTurn(e, s, Moved(s, p, f))
<1> DEFINE t == Moved(s, p, f)
<1>1. ReadingType(e, t) /\ t.place = p /\ t.flags = f /\ t.size = s.size /\ Beside(s, t)
  <2>1. s \in [place : 0..(e + 1), flags : SUBSET ReaderFlags, size : Nat, top : Nat, begun : Nat, open : SUBSET Nat,
               length : [Nat -> Nat], names : [Nat -> Nat], kind : [Nat -> Kinds], parent : [Nat -> Nat]]
    BY DEF ReadingOK, ReadingType
  <2>2. p \in 0..(e + 1) /\ t = [s EXCEPT !.place = p, !.flags = f]
    BY DEF Moved
  <2> HIDE DEF t
  <2> QED BY <2>1, <2>2 DEF ReadingType, Beside
<1>2. s.size <= t.size
  BY <1>1 DEF ReadingOK, ReadingType
<1> HIDE DEF t
<1>3. ReadingOK(e, t) /\ Progress(s, t)
  BY <1>1, <1>2, QuietTurn
<1> QED BY <1>1, <1>3 DEF GoodTurn, t

LEMMA AddedTurn ==
  ASSUME NEW e \in Nat, NEW s, ReadingOK(e, s), NEW n \in Nat, NEW p \in 1..(e + 1)
  PROVE  GoodTurn(e, s, Added(s, n, p))
<1> DEFINE t == Added(s, n, p)
<1>0. s.size \in Nat /\ s.flags \ {"escaped"} \in SUBSET ReaderFlags /\ s.size + n \in Nat
  BY DEF ReadingOK, ReadingType
<1>1. ReadingType(e, t) /\ t.place = p /\ t.flags = s.flags \ {"escaped"} /\ t.size = s.size + n /\ Beside(s, t)
  <2>1. s \in [place : 0..(e + 1), flags : SUBSET ReaderFlags, size : Nat, top : Nat, begun : Nat, open : SUBSET Nat,
               length : [Nat -> Nat], names : [Nat -> Nat], kind : [Nat -> Kinds], parent : [Nat -> Nat]]
    BY DEF ReadingOK, ReadingType
  <2>2. p \in 0..(e + 1) /\ t = [s EXCEPT !.place = p, !.flags = s.flags \ {"escaped"}, !.size = s.size + n]
    BY DEF Added
  <2> HIDE DEF t
  <2> QED BY <1>0, <2>1, <2>2 DEF ReadingType, Beside
<1>2. s.size <= t.size
  BY <1>0, <1>1
<1> HIDE DEF t
<1>3. ReadingOK(e, t) /\ Progress(s, t)
  BY <1>1, <1>2, QuietTurn
<1> QED BY <1>1, <1>3 DEF GoodTurn, t

LEMMA RefusedTurn ==
  ASSUME NEW e \in Nat, NEW s, ReadingOK(e, s) PROVE GoodTurn(e, s, Refused(s))
  BY RefusedIs DEF GoodTurn, ReadingOK

\* An array or an object ends.
LEMMA EndedTurn ==
  ASSUME JsonAssumption, NEW e \in Nat, NEW s, ReadingOK(e, s), NEW p \in 1..(e + 1), NEW f \in SUBSET ReaderFlags,
         f \cap {"string", "done", "seek_value"} = {}, s.begun > 0, s.flags \cap {"string", "done"} = {},
         s.kind[s.top] = "object" => "seek_value" \notin s.flags
  PROVE  GoodTurn(e, s, Ended(s, p, f))
<1> DEFINE t == Ended(s, p, f)
           q == s.parent[s.top]
<1>1. s.top \in s.open /\ ReadingType(e, s) /\ TreeOK(s) /\ OpenOK(s)
  BY DEF ReadingOK, FlagsOK
<1>2. t.place = 0 \/ (ReadingOK(e, t) /\ Ends1(s, t, q, p, f))
  BY <1>1, EndedIs
<1>3. ASSUME ReadingOK(e, t), Ends1(s, t, q, p, f) PROVE Progress(s, t) /\ t.place = p
  <2>1. Rigid(s, t) /\ t.place = p
    BY <1>3, <1>1 DEF Ends1, Rigid, ReadingType
  <2>2. ASSUME NEW L \in Counters, NEW N \in Counters, Paid(t, L, N) PROVE Paid(s, L, N)
    <3>1. PaidCounts(t, L, N) /\ PaidEntries(t, L)
      BY <2>2 DEF Paid
    <3>0. s.kind[s.top] = "object" => s.flags \cap {"string", "seek_value"} = {}
      OBVIOUS
    <3>2. PaidCounts(s, L, N) /\ PaidEntries(s, L)
      <4> HIDE DEF t, q
      <4> QED BY <1>1, <1>3, <3>0, <3>1, EndedPays DEF q
    <3> QED BY <3>2 DEF Paid, PaidText
  <2> QED BY <2>1, <2>2 DEF Progress
<1> QED BY <1>2, <1>3 DEF GoodTurn

LEMMA Utf8Length == ASSUME NEW c PROVE Len(Utf8(c)) \in Nat
<1> DEFINE tail(k) == 128 + ((c \div 64 ^ k) % 64)
           a == c <= 127  d == c \in 128..2047  f == c \in 2048..65535
           u == <<c>>  v == <<192 + (c \div 64), tail(0)>>
           w == <<224 + (c \div 4096), tail(1), tail(0)>>  x == <<240 + (c \div 262144), tail(2), tail(1), tail(0)>>
<1>1. Utf8(c) = CASE a -> u [] d -> v [] f -> w [] OTHER -> x
  BY DEF Utf8
<1>2. Len(u) = 1 /\ Len(v) = 2 /\ Len(w) = 3 /\ Len(x) = 4
  OBVIOUS
<1> HIDE DEF a, d, f, u, v, w, x
<1>3. Utf8(c) \in {u, v, w, x}
  BY <1>1
<1> QED BY <1>2, <1>3

LEMMA ReadUnitTurn ==
  ASSUME NEW m, NEW e \in Nat, NEW s, ReadingOK(e, s), s.place # 0
  PROVE  GoodTurn(e, s, ReadUnit(m, e, s))
<1> DEFINE p == s.place
           pair == UnitIn(m, p + 1) \div 2048 = 27
           one == e - p >= 4 /\ HexIn(m, p + 1)
           second == e - (p + 4) >= 6 /\ m[p + 5] = "\\" /\ m[p + 6] = "u" /\ HexIn(m, p + 7)
<1>0. p \in 1..(e + 1)
  BY DEF ReadingOK, ReadingType
<1>1. CASE ~one \/ (pair /\ ~second)
  BY <1>1, RefusedTurn DEF ReadUnit
<1>2. CASE one /\ pair /\ second
  <2>1. p + 11 \in 1..(e + 1)
    BY <1>0, <1>2
  <2>2. Len(Utf8(PairValue(UnitIn(m, p + 1), UnitIn(m, p + 7)))) \in Nat
    BY Utf8Length
  <2>3. ReadUnit(m, e, s) = Added(s, Len(Utf8(PairValue(UnitIn(m, p + 1), UnitIn(m, p + 7)))), p + 11)
    BY <1>2 DEF ReadUnit
  <2> HIDE DEF p, pair, one, second
  <2> QED BY <2>1, <2>2, <2>3, AddedTurn
<1>3. CASE one /\ ~pair
  <2>1. p + 5 \in 1..(e + 1)
    BY <1>0, <1>3
  <2>2. Len(Utf8(UnitIn(m, p + 1))) \in Nat
    BY Utf8Length
  <2>3. ReadUnit(m, e, s) = Added(s, Len(Utf8(UnitIn(m, p + 1))), p + 5)
    BY <1>3 DEF ReadUnit
  <2> HIDE DEF p, pair, one, second
  <2> QED BY <2>1, <2>2, <2>3, AddedTurn
<1> QED BY <1>1, <1>2, <1>3

LEMMA StringEndTurn ==
  ASSUME JsonAssumption, NEW e \in Nat, NEW s, ReadingOK(e, s), "string" \in s.flags, s.place + 1 \in 1..(e + 1)
  PROVE  GoodTurn(e, s, EndOfString(s))
<1>0. /\ s.top \in s.open /\ s.top \in 1..s.begun /\ s.begun \in Nat /\ s.top \in Nat /\ s.size \in Nat /\ s.begun > 0
      /\ s.length \in [Nat -> Nat] /\ s.names \in [Nat -> Nat] /\ s.kind[s.top] \in {"string", "object"}
  <2>1. /\ s.begun \in Nat /\ s.top \in Nat /\ s.size \in Nat
        /\ s.length \in [Nat -> Nat] /\ s.names \in [Nat -> Nat]
    BY DEF ReadingOK, ReadingType
  <2>2. s.kind[s.top] \in {"string", "object"} /\ s.begun # 0 /\ "done" \notin s.flags
    BY DEF ReadingOK, FlagsOK
  <2>3. s.begun > 0
    <3>1. s.begun \in Nat /\ s.begun # 0
      BY <2>1, <2>2
    <3> QED BY ONLY <3>1
  <2>4. s.top \in s.open
    BY <2>2, <2>3 DEF ReadingOK, FlagsOK
  <2>5. s.top \in 1..s.begun
    BY <2>4 DEF ReadingOK, OpenOK
  <2> QED BY <2>1, <2>2, <2>3, <2>4, <2>5
<1>a. s.flags \in SUBSET ReaderFlags /\ s.flags \cap {"done", "need_comma", "seek_value"} = {}
  BY DEF ReadingOK, ReadingType, FlagsOK
<1>1. CASE s.kind[s.top] = "string"
  <2> DEFINE u == [s EXCEPT !.length = [s.length EXCEPT ![s.top] = s.size]]
             f == s.flags \ {"string"}
             t == Ended(u, s.place + 1, f)
             q == s.parent[s.top]
  <2>1. /\ u.place = s.place /\ u.flags = s.flags /\ u.size = s.size /\ u.top = s.top /\ u.begun = s.begun /\ u.open = s.open
        /\ u.names = s.names /\ u.kind = s.kind /\ u.parent = s.parent /\ u.length = [s.length EXCEPT ![s.top] = s.size]
    BY DEF ReadingOK, ReadingType
  <2>2. ReadingType(e, u)
    <3>1. [s.length EXCEPT ![s.top] = s.size] \in [Nat -> Nat]
      BY <1>0
    <3> QED BY <3>1 DEF ReadingOK, ReadingType
  <2> HIDE DEF u
  <2>3. u.length[s.top] = s.size /\ \A v \in Nat : v # s.top => u.length[v] = s.length[v]
    BY <1>0, <2>1
  <2>4. TreeOK(u)
    <3>1. \A v \in Nat : v > s.begun => v # s.top
      BY <1>0
    <3>2. \A v \in 1..s.begun : s.kind[v] = "other" => v # s.top /\ v \in Nat
      BY <1>1
    <3> QED BY <2>1, <2>3, <3>1, <3>2 DEF ReadingOK, TreeOK
  <2>5. OpenOK(u)
    BY <2>1 DEF ReadingOK, OpenOK
  <2>6. f \in SUBSET ReaderFlags /\ f \cap {"string", "done", "seek_value"} = {}
    BY <1>a
  <2>7. t.place = 0 \/ (ReadingOK(e, t) /\ Ends1(u, t, u.parent[u.top], s.place + 1, f))
    <3> HIDE DEF f
    <3> QED BY <1>0, <2>1, <2>2, <2>4, <2>5, <2>6, EndedIs
  <2>8. ASSUME ReadingOK(e, t), Ends1(u, t, u.parent[u.top], s.place + 1, f) PROVE Progress(s, t) /\ t.place = s.place + 1
    <3>1. Rigid(s, t) /\ t.place = s.place + 1
      <4>1. t.begun = s.begun /\ t.kind = s.kind /\ t.parent = s.parent /\ t.place = s.place + 1
        BY <2>1, <2>8 DEF Ends1
      <4>2. s.begun <= s.begun
        <5>1. s.begun \in Nat
          BY <1>0
        <5> QED BY ONLY <5>1
      <4> QED BY <4>1, <4>2 DEF Rigid
    <3>2. ASSUME NEW L \in Counters, NEW N \in Counters, Paid(t, L, N) PROVE Paid(s, L, N)
      <4>1. PaidCounts(t, L, N) /\ PaidEntries(t, L)
        BY <3>2 DEF Paid
      <4>2. PaidCounts(u, L, N) /\ PaidEntries(u, L)
        <5> HIDE DEF t, f
        <5>1. u.kind[u.top] # "object"
          BY <1>1, <2>1
        <5>2. u.top \in u.open
          BY <1>0, <2>1
        <5>3. Ends1(u, t, u.parent[u.top], s.place + 1, f) /\ L \in Counters /\ N \in Counters
          BY <2>8
        <5> DEFINE x == u.parent[u.top]
                   y == s.place + 1
        <5>4. Ends1(u, t, x, y, f) /\ x = u.parent[u.top]
          BY <5>3
        <5> HIDE DEF x, y
        <5> QED BY ONLY e \in Nat, <2>2, <2>4, <2>5, <4>1, <5>1, <5>2, <5>3, <5>4, EndedPays
      <4>3. s.size <= L[s.top]
        BY <1>0, <2>3, <4>2 DEF PaidCounts
      <4>4. s.length[s.top] = 0 /\ L[s.top] \in Nat
        BY <1>0, <1>1 DEF ReadingOK, FlagsOK, Counters
      <4>5. PaidCounts(s, L, N)
        <5>1. s.length[s.top] <= L[s.top]
          BY <4>4
        <5> QED BY <2>1, <2>3, <4>2, <5>1 DEF PaidCounts
      <4>6. PaidEntries(s, L)
        <5>1. \A v \in s.open : s.kind[v] = "object" => v # s.top /\ v \in Nat
          BY <1>1 DEF ReadingOK, ReadingType
        <5> QED BY <2>1, <2>3, <4>2, <5>1 DEF PaidEntries
      <4> QED BY <1>1, <4>3, <4>5, <4>6 DEF Paid, PaidText
    <3> QED BY <3>1, <3>2 DEF Progress
  <2>9. EndOfString(s) = t
    BY <1>1 DEF EndOfString, u
  <2> HIDE DEF t
  <2> QED BY <2>7, <2>8, <2>9 DEF GoodTurn
<1>2. CASE s.kind[s.top] = "object"
  <2> DEFINE g == (s.flags \ {"string"}) \cup {"seek_value", "need_colon"}
             n == s.names[s.top] + (s.size + 1)
             t == [s EXCEPT !.place = s.place + 1, !.flags = g, !.names = [s.names EXCEPT ![s.top] = n]]
  <2>0. g \in SUBSET ReaderFlags /\ n \in Nat /\ "string" \notin g /\ "done" \notin g /\ "seek_value" \in g
    <3>1. s.names[s.top] \in Nat
      BY <1>0
    <3>2. n \in Nat
      <4>1. s.names[s.top] \in Nat /\ s.size \in Nat
        BY <1>0
      <4> QED BY ONLY <4>1
    <3> HIDE DEF n
    <3> QED BY <1>a, <3>2 DEF ReaderFlags
  <2> HIDE DEF g, n
  <2>1. /\ t.place = s.place + 1 /\ t.flags = g /\ t.size = s.size /\ t.top = s.top /\ t.begun = s.begun /\ t.open = s.open
        /\ t.names = [s.names EXCEPT ![s.top] = n] /\ t.kind = s.kind /\ t.parent = s.parent /\ t.length = s.length
    BY DEF ReadingOK, ReadingType
  <2>2. ReadingType(e, t)
    <3>1. [s.names EXCEPT ![s.top] = n] \in [Nat -> Nat]
      BY <1>0, <2>0
    <3>2. s.place + 1 \in 0..(e + 1)
      OBVIOUS
    <3> HIDE DEF t
    <3>3. t = [s EXCEPT !.place = s.place + 1, !.flags = g, !.names = [s.names EXCEPT ![s.top] = n]]
      BY DEF t
    <3>4. s \in [place : 0..(e + 1), flags : SUBSET ReaderFlags, size : Nat, top : Nat, begun : Nat, open : SUBSET Nat,
                 length : [Nat -> Nat], names : [Nat -> Nat], kind : [Nat -> Kinds], parent : [Nat -> Nat]]
      BY DEF ReadingOK, ReadingType
    <3> QED BY <2>0, <3>1, <3>2, <3>3, <3>4 DEF ReadingType
  <2> HIDE DEF t
  <2>3. t.names[s.top] = n /\ \A v \in Nat : v # s.top => t.names[v] = s.names[v]
    BY <1>0, <2>1
  <2>4. TreeOK(t)
    <3>1. \A v \in Nat : v > s.begun => v # s.top
      BY <1>0
    <3> QED BY <2>1, <2>3, <3>1 DEF ReadingOK, TreeOK
  <2>5. OpenOK(t)
    BY <2>1 DEF ReadingOK, OpenOK
  <2>6. FlagsOK(t)
    BY <1>0, <1>2, <2>0, <2>1 DEF FlagsOK, Nested
  <2>7. Rigid(s, t)
    <3>1. s.begun <= s.begun
      <4>1. s.begun \in Nat
        BY <1>0
      <4> QED BY ONLY <4>1
    <3> QED BY <2>1, <3>1 DEF Rigid
  <2>8. ASSUME NEW L \in Counters, NEW N \in Counters, Paid(t, L, N) PROVE Paid(s, L, N)
    <3>1. n <= N[s.top]
      BY <1>0, <2>3, <2>8 DEF Paid, PaidCounts
    <3>2. s.names[s.top] <= N[s.top]
      <4>1. s.names[s.top] \in Nat /\ N[s.top] \in Nat /\ n = s.names[s.top] + (s.size + 1)
        BY <1>0 DEF Counters, n
      <4> QED BY ONLY <1>0, <3>1, <4>1
    <3>3. PaidCounts(s, L, N)
      BY <2>1, <2>3, <2>8, <3>2 DEF Paid, PaidCounts
    <3>4. PaidEntries(s, L)
      BY <2>0, <2>1, <2>8 DEF Paid, PaidEntries
    <3> QED BY <1>2, <3>1, <3>3, <3>4 DEF Paid, PaidText, n
  <2>9. EndOfString(s) = t
    BY <1>2 DEF EndOfString, t, g, n
  <2> QED BY <2>1, <2>2, <2>4, <2>5, <2>6, <2>7, <2>8, <2>9 DEF GoodTurn, ReadingOK, Progress
<1> QED BY <1>0, <1>1, <1>2

LEMMA NumberEnds ==
  ASSUME NEW m, NEW e \in Nat, NEW p \in 1..e
  PROVE  BehindNumber(m, e, p) \in p..e
<1> DEFINE U == {q \in p..e : q = e \/ m[q] \notin NumberChars}
<1>1. e \in U /\ U \in SUBSET Nat
  OBVIOUS
<1>2. PICK q \in U : \A x \in U : q <= x
  <2>1. U # {}
    BY <1>1
  <2> HIDE DEF U
  <2> QED BY <1>1, <2>1, LeastElement
<1>3. \A k \in p..(q - 1) : m[k] \in NumberChars
  <2>1. SUFFICES ASSUME NEW k \in p..(q - 1), m[k] \notin NumberChars PROVE FALSE
    OBVIOUS
  <2>2. k \in U
    BY <2>1
  <2> QED BY <1>2, <2>2
<1>4. \E x \in p..e : (x = e \/ m[x] \notin NumberChars) /\ \A k \in p..(x - 1) : m[k] \in NumberChars
  BY <1>2, <1>3
<1> QED BY <1>4 DEF BehindNumber

LEMMA WordFits ==
  ASSUME NEW m, NEW e \in Nat, NEW p \in 1..(e + 1), \E w \in Words : WordAt(m, e, p, w)
  PROVE  p + Len(CHOOSE w \in Words : WordAt(m, e, p, w)) \in 1..(e + 1)
<1> DEFINE w == CHOOSE w \in Words : WordAt(m, e, p, w)
<1>1. w \in Words /\ WordAt(m, e, p, w)
  OBVIOUS
<1>2. Len(w) \in {4, 5}
  BY <1>1 DEF Words
<1>3. e - p >= Len(w) - 1
  BY <1>1 DEF WordAt
<1> HIDE DEF w
<1>4. p + Len(w) \in 1..(e + 1)
  BY <1>2, <1>3
<1> QED BY <1>4 DEF w

\* Between two values.
Seeks(s) == s.flags \cap {"string", "done"} = {} /\ "seek_value" \in s.flags

LEMMA SeeksIn ==
  ASSUME NEW e \in Nat, NEW s, ReadingOK(e, s), Seeks(s)
  PROVE  /\ s.begun > 0 => s.top \in s.open /\ s.kind[s.top] \in Nested
         /\ s.flags \in SUBSET ReaderFlags /\ s.begun \in Nat
  BY DEF ReadingOK, ReadingType, FlagsOK, Seeks

\* A value of one turn.
LEMMA LeafTurn ==
  ASSUME JsonAssumption, NEW e \in Nat, NEW s, ReadingOK(e, s), Seeks(s), s.place # 0, NEW p \in 1..(e + 1)
  PROVE  GoodTurn(e, s, Ended(Started(s, "other", s.place, s.flags \ {"seek_value"}), p, s.flags \ {"seek_value"}))
<1> DEFINE f == s.flags \ {"seek_value"}
           u == Started(s, "other", s.place, f)
           t == Ended(u, p, f)
           q == u.parent[u.top]
<1>1. f \in SUBSET ReaderFlags /\ f \cap {"string", "done", "seek_value"} = {} /\ s.place \in 0..(e + 1) /\ "other" \in Kinds \ {"none"}
  BY SeeksIn DEF Seeks, Kinds, ReadingOK, ReadingType
<1>0. u = Started(s, "other", s.place, f) /\ (s.begun > 0 => s.top \in s.open /\ s.kind[s.top] \in Nested)
  BY SeeksIn
<1> HIDE DEF f, u
<1>2. /\ ReadingType(e, u) /\ TreeOK(u) /\ OpenOK(u) /\ u.flags = f
      /\ u.top = s.begun + 1 /\ u.begun = s.begun + 1
      /\ u.open = s.open \cup {s.begun + 1} /\ u.length = s.length /\ u.names = s.names
      /\ u.parent[s.begun + 1] = s.top /\ u.kind[s.begun + 1] = "other"
      /\ \A v \in 1..s.begun : u.parent[v] = s.parent[v] /\ u.kind[v] = s.kind[v]
  BY <1>0, <1>1, StartedIs
<1>3. u.top \in u.open /\ u.kind[u.top] # "object"
  BY <1>2
<1>4. t.place = 0 \/ (ReadingOK(e, t) /\ Ends1(u, t, q, p, f))
  BY <1>1, <1>2, <1>3, EndedIs
<1>5. ASSUME ReadingOK(e, t), Ends1(u, t, q, p, f) PROVE Progress(s, t) /\ t.place = p
  <2>0. "string" \notin s.flags /\ s.begun \in Nat
    BY SeeksIn DEF Seeks
  <2>1. Rigid(s, t) /\ t.place = p
    <3>1. t.begun = u.begun /\ t.kind = u.kind /\ t.parent = u.parent /\ t.place = p
      BY <1>5 DEF Ends1
    <3>2. s.begun <= s.begun + 1
      BY ONLY <2>0
    <3> QED BY <1>2, <3>1, <3>2 DEF Rigid
  <2>2. ASSUME NEW L \in Counters, NEW N \in Counters, Paid(t, L, N) PROVE Paid(s, L, N)
    <3>1. PaidCounts(t, L, N) /\ PaidEntries(t, L)
      BY <2>2 DEF Paid
    <3>2. PaidCounts(u, L, N) /\ PaidEntries(u, L)
      <4>1. Ends1(u, t, q, p, f) /\ q = u.parent[u.top] /\ L \in Counters /\ N \in Counters
        BY <1>5, <2>2
      <4> HIDE DEF t, q
      <4> QED BY ONLY e \in Nat, <1>2, <1>3, <3>1, <4>1, EndedPays
    <3> QED BY <1>2, <2>0, <2>2, <3>2, StartedPays
  <2> QED BY <2>1, <2>2 DEF Progress
<1> QED BY <1>4, <1>5 DEF GoodTurn, f, u

LEMMA NestedTurn ==
  ASSUME NEW e \in Nat, NEW s, ReadingOK(e, s), Seeks(s), NEW p \in 1..(e + 1), NEW kind \in Nested,
         NEW f \in SUBSET ReaderFlags, f = IF kind = "array" THEN s.flags ELSE s.flags \ {"seek_value"}
  PROVE  GoodTurn(e, s, Started(s, kind, p, f))
<1> DEFINE t == Started(s, kind, p, f)
<1>1. kind \in Kinds \ {"none"} /\ p \in 0..(e + 1)
  BY DEF Nested, Kinds
<1>0. t = Started(s, kind, p, f) /\ (s.begun > 0 => s.top \in s.open /\ s.kind[s.top] \in Nested)
  BY SeeksIn
<1> HIDE DEF t
<1>2. /\ ReadingType(e, t) /\ TreeOK(t) /\ OpenOK(t) /\ t.place = p /\ t.flags = f
      /\ t.top = s.begun + 1 /\ t.begun = s.begun + 1
      /\ t.open = s.open \cup {s.begun + 1} /\ t.length = s.length /\ t.names = s.names
      /\ t.parent[s.begun + 1] = s.top /\ t.kind[s.begun + 1] = kind
      /\ \A v \in 1..s.begun : t.parent[v] = s.parent[v] /\ t.kind[v] = s.kind[v]
  BY <1>0, <1>1, StartedIs
<1>3. f \cap {"string", "done"} = {} /\ (kind = "array" => "seek_value" \in f)
  BY DEF Seeks
<1>4. s.begun + 1 > 0 /\ s.begun + 1 # 0
  <2>1. s.begun \in Nat
    BY SeeksIn
  <2> QED BY ONLY <2>1
<1>5. FlagsOK(t)
  BY <1>2, <1>3, <1>4 DEF FlagsOK
<1>6. Progress(s, t)
  <2>1. "string" \notin s.flags
    BY DEF Seeks
  <2>2. \A L, N \in Counters : Rigid(s, t) /\ (PaidCounts(t, L, N) /\ PaidEntries(t, L) => Paid(s, L, N))
    BY <1>2, <2>1, StartedPays
  <2>3. [v \in Nat |-> 0] \in Counters
    BY DEF Counters
  <2> QED BY <2>2, <2>3 DEF Progress, Paid
<1> QED BY <1>2, <1>5, <1>6 DEF GoodTurn, ReadingOK, t

LEMMA StringTurn ==
  ASSUME NEW e \in Nat, NEW s, ReadingOK(e, s), Seeks(s), "need_comma" \notin s.flags, NEW p \in 1..(e + 1)
  PROVE  GoodTurn(e, s, [Started(s, "string", p, (s.flags \ {"seek_value"}) \cup {"string"}) EXCEPT !.size = 0])
<1> DEFINE f == (s.flags \ {"seek_value"}) \cup {"string"}
           u == Started(s, "string", p, f)
           t == [u EXCEPT !.size = 0]
<1>1. "string" \in Kinds \ {"none"} /\ p \in 0..(e + 1) /\ f \in SUBSET ReaderFlags
  BY SeeksIn DEF Kinds, ReaderFlags
<1>2. "string" \in f /\ f \cap {"done", "need_comma", "seek_value"} = {}
  BY DEF Seeks
<1>0. u = Started(s, "string", p, f) /\ (s.begun > 0 => s.top \in s.open /\ s.kind[s.top] \in Nested)
  BY SeeksIn
<1> HIDE DEF f, u
<1>3. /\ ReadingType(e, u) /\ TreeOK(u) /\ OpenOK(u) /\ u.place = p /\ u.flags = f
      /\ u.top = s.begun + 1 /\ u.begun = s.begun + 1
      /\ u.open = s.open \cup {s.begun + 1} /\ u.length = s.length /\ u.names = s.names
      /\ u.parent[s.begun + 1] = s.top /\ u.kind[s.begun + 1] = "string"
      /\ \A v \in 1..s.begun : u.parent[v] = s.parent[v] /\ u.kind[v] = s.kind[v]
  BY <1>0, <1>1, StartedIs
<1>4. ReadingType(e, t) /\ t.place = p /\ t.flags = f /\ Beside(u, t)
  BY <1>3 DEF ReadingType, Beside
<1> HIDE DEF t
<1>5. TreeOK(t) /\ OpenOK(t)
  BY <1>3, <1>4, BesideKeeps
<1>6. s.begun + 1 > 0 /\ s.begun + 1 # 0 /\ s.begun + 1 \in Nat /\ s.begun + 1 > s.begun
  <2>1. s.begun \in Nat
    BY SeeksIn
  <2> QED BY ONLY <2>1
<1>7. FlagsOK(t)
  <2>1. s.length[s.begun + 1] = 0
    BY <1>6 DEF ReadingOK, TreeOK
  <2> QED BY <1>2, <1>3, <1>4, <1>6, <2>1 DEF FlagsOK, Beside
<1>8. Progress(s, t)
  <2>1. "string" \notin s.flags
    BY DEF Seeks
  <2>2. /\ t.top = s.begun + 1 /\ t.begun = s.begun + 1 /\ t.open = s.open \cup {s.begun + 1}
        /\ t.length = s.length /\ t.names = s.names
        /\ \A v \in 1..s.begun : t.parent[v] = s.parent[v] /\ t.kind[v] = s.kind[v]
    BY <1>3, <1>4 DEF Beside
  <2>3. \A L, N \in Counters : Rigid(s, t) /\ (PaidCounts(t, L, N) /\ PaidEntries(t, L) => Paid(s, L, N))
    BY <2>1, <2>2, StartedPays
  <2>4. [v \in Nat |-> 0] \in Counters
    BY DEF Counters
  <2> QED BY <2>3, <2>4 DEF Progress, Paid
<1> QED BY <1>4, <1>5, <1>7, <1>8 DEF GoodTurn, ReadingOK, t, u, f

LEMMA NameTurn ==
  ASSUME NEW e \in Nat, NEW s, ReadingOK(e, s), s.flags \cap {"string", "done", "seek_value", "need_comma"} = {},
         NEW p \in 1..(e + 1)
  PROVE  GoodTurn(e, s, [s EXCEPT !.place = p, !.flags = s.flags \cup {"string"}, !.size = 0])
<1> DEFINE f == s.flags \cup {"string"}
           t == [s EXCEPT !.place = p, !.flags = f, !.size = 0]
<1>1. p \in 0..(e + 1) /\ f \in SUBSET ReaderFlags
  BY DEF ReadingOK, ReadingType, ReaderFlags
<1>2. "string" \in f /\ f \cap {"done", "need_comma", "seek_value"} = {} /\ s.begun # 0 /\ s.begun \in Nat
  BY DEF ReadingOK, ReadingType, FlagsOK
<1> HIDE DEF f
<1>3. ReadingType(e, t) /\ t.place = p /\ t.flags = f /\ Beside(s, t)
  BY <1>1 DEF ReadingOK, ReadingType, Beside
<1> HIDE DEF t
<1>4. TreeOK(t) /\ OpenOK(t)
  BY <1>3, BesideKeeps DEF ReadingOK
<1>5. s.begun > 0
  BY ONLY <1>2
<1>6. s.kind[s.top] = "object" /\ s.top \in s.open
  BY <1>5 DEF ReadingOK, FlagsOK, Nested
<1>7. FlagsOK(t)
  BY <1>2, <1>3, <1>5, <1>6 DEF FlagsOK, Beside
<1>8. Rigid(s, t)
  <2>1. s.begun <= s.begun
    BY ONLY <1>2
  <2> QED BY <1>3, <2>1 DEF Rigid, Beside
<1>9. ASSUME NEW L \in Counters, NEW N \in Counters, Paid(t, L, N) PROVE Paid(s, L, N)
  <2>1. PaidCounts(s, L, N)
    BY <1>3, <1>9 DEF Paid, PaidCounts, Beside
  <2>2. PaidEntries(s, L)
    BY <1>3, <1>9 DEF Paid, PaidEntries, Beside
  <2> QED BY <2>1, <2>2 DEF Paid, PaidText
<1> QED BY <1>3, <1>4, <1>7, <1>8, <1>9 DEF GoodTurn, ReadingOK, Progress, t, f

LEMMA ReadStringTurn ==
  ASSUME JsonAssumption, NEW m, NEW e \in Nat, Memory(m, e), NEW s, ReadingOK(e, s), s.place # 0, "string" \in s.flags
  PROVE  GoodTurn(e, s, ReadString(m, e, s))
<1> DEFINE c == Look(m, e, s.place)
<1>1. CASE c = NUL \/ s.size > Most
  BY <1>1, RefusedTurn DEF ReadString
<1>2. CASE ~(c = NUL \/ s.size > Most)
  <2>1. s.place \in 1..(e + 1)
    BY DEF ReadingOK, ReadingType
  <2>2. s.place + 1 \in 1..(e + 1)
    BY <1>2, <2>1, InTheText
  <2>3. GoodTurn(e, s, Added(s, 1, s.place + 1)) /\ GoodTurn(e, s, ReadUnit(m, e, s)) /\ GoodTurn(e, s, EndOfString(s))
    BY <2>2, AddedTurn, ReadUnitTurn, StringEndTurn
  <2>4. GoodTurn(e, s, Moved(s, s.place + 1, s.flags \cup {"escaped"}))
    <3>1. s.flags \cup {"escaped"} \in SUBSET ReaderFlags
      BY DEF ReadingOK, ReadingType, ReaderFlags
    <3> QED BY <2>2, <3>1, MovedTurn
  <2> QED BY <1>2, <2>3, <2>4 DEF ReadString
<1> QED BY <1>1, <1>2

LEMMA ReadDoneTurn ==
  ASSUME NEW m, NEW e \in Nat, Memory(m, e), NEW s, ReadingOK(e, s), s.place # 0
  PROVE  GoodTurn(e, s, ReadDone(m, e, s))
<1> DEFINE c == Look(m, e, s.place)
<1>0. s.place \in 1..(e + 1) /\ s.flags \in SUBSET ReaderFlags /\ s.begun \in Nat
  BY DEF ReadingOK, ReadingType
<1>1. CASE c \in Whitespace
  <2>1. c # NUL
    BY <1>1 DEF Whitespace, NUL
  <2>2. s.place + 1 \in 1..(e + 1)
    BY <1>0, <2>1, InTheText
  <2>3. GoodTurn(e, s, Moved(s, s.place + 1, s.flags))
    BY <1>0, <2>2, MovedTurn
  <2> QED BY <1>1, <2>3 DEF ReadDone
<1>2. CASE c \notin Whitespace /\ c = NUL
  <2>1. ReadDone(m, e, s) = s
    BY <1>2 DEF ReadDone
  <2>2. Progress(s, s)
    BY <1>0 DEF Progress, Rigid
  <2> QED BY <1>0, <2>1, <2>2 DEF GoodTurn
<1>3. CASE c \notin Whitespace /\ c # NUL
  BY <1>3, RefusedTurn DEF ReadDone
<1> QED BY <1>1, <1>2, <1>3

LEMMA ReadValueTurn ==
  ASSUME JsonAssumption, NEW m, NEW e \in Nat, Memory(m, e), NEW s, ReadingOK(e, s), s.place # 0, Seeks(s),
         "need_comma" \notin s.flags
  PROVE  GoodTurn(e, s, ReadValue(m, e, s))
<1> DEFINE c == Look(m, e, s.place)
           p == s.place
           f == s.flags \ {"seek_value"}
<1>0. p \in 1..(e + 1) /\ s.flags \in SUBSET ReaderFlags /\ f \in SUBSET ReaderFlags
  <2>1. s.place \in 0..(e + 1) /\ s.flags \in SUBSET ReaderFlags
    BY DEF ReadingOK, ReadingType
  <2>2. s.place \in 1..(e + 1)
    BY ONLY <2>1, s.place # 0, e \in Nat
  <2> QED BY <2>1, <2>2
<1>1. ASSUME c # NUL PROVE p < e /\ p + 1 \in 1..(e + 1)
  BY <1>0, <1>1, InTheText
<1>2. CASE c = "{"
  <2>1. p + 1 \in 1..(e + 1) /\ "object" \in Nested
    BY <1>1, <1>2 DEF NUL, Nested
  <2>2. GoodTurn(e, s, Started(s, "object", p + 1, f))
    BY <1>0, <2>1, NestedTurn
  <2> QED BY <1>2, <2>2 DEF ReadValue
<1>3. CASE c = "["
  <2>1. p + 1 \in 1..(e + 1) /\ "array" \in Nested
    BY <1>1, <1>3 DEF NUL, Nested
  <2>2. GoodTurn(e, s, Started(s, "array", p + 1, s.flags))
    BY <1>0, <2>1, NestedTurn
  <2> QED BY <1>3, <2>2 DEF ReadValue
<1>4. CASE c = "\""
  <2>1. p + 1 \in 1..(e + 1)
    BY <1>1, <1>4 DEF NUL
  <2>2. GoodTurn(e, s, [Started(s, "string", p + 1, f \cup {"string"}) EXCEPT !.size = 0])
    BY <2>1, StringTurn
  <2> QED BY <1>4, <2>2 DEF ReadValue
<1>5. CASE c \in Digits \cup {"-"}
  <2>1. c # NUL /\ c \notin {"{", "[", "\""}
    BY <1>5 DEF NUL, Digits
  <2>2. BehindNumber(m, e, p) \in 1..(e + 1)
    <3>1. p \in 1..e
      <4>1. p \in 1..(e + 1) /\ p < e
        BY <1>0, <1>1, <2>1
      <4> QED BY ONLY <4>1, e \in Nat
    <3>2. BehindNumber(m, e, p) \in p..e
      BY <3>1, NumberEnds
    <3> HIDE DEF p
    <3> QED BY ONLY <3>1, <3>2, e \in Nat
  <2>3. GoodTurn(e, s, Ended(Started(s, "other", p, f), BehindNumber(m, e, p), f))
    BY <2>2, LeafTurn
  <2> QED BY <1>5, <2>1, <2>3 DEF ReadValue
<1>6. CASE c \notin {"{", "[", "\""} /\ c \notin Digits \cup {"-"} /\ \E w \in Words : WordAt(m, e, p, w)
  <2>1. p + Len(CHOOSE w \in Words : WordAt(m, e, p, w)) \in 1..(e + 1)
    BY <1>0, <1>6, WordFits
  <2>2. GoodTurn(e, s, Ended(Started(s, "other", p, f), p + Len(CHOOSE w \in Words : WordAt(m, e, p, w)), f))
    BY <2>1, LeafTurn
  <2> QED BY <1>6, <2>2 DEF ReadValue
<1>7. CASE c \notin {"{", "[", "\""} /\ c \notin Digits \cup {"-"} /\ ~\E w \in Words : WordAt(m, e, p, w)
  BY <1>7, RefusedTurn DEF ReadValue
<1> QED BY <1>2, <1>3, <1>4, <1>5, <1>6, <1>7

LEMMA ReadSeekingTurn ==
  ASSUME JsonAssumption, NEW m, NEW e \in Nat, Memory(m, e), NEW s, ReadingOK(e, s), s.place # 0, Seeks(s)
  PROVE  GoodTurn(e, s, ReadSeeking(m, e, s))
<1> DEFINE c == Look(m, e, s.place)
           p == s.place
<1>0. p \in 1..(e + 1) /\ s.flags \in SUBSET ReaderFlags
  <2>1. s.place \in 0..(e + 1) /\ s.flags \in SUBSET ReaderFlags
    BY DEF ReadingOK, ReadingType
  <2>2. s.place \in 1..(e + 1)
    BY ONLY <2>1, s.place # 0, e \in Nat
  <2> QED BY <2>1, <2>2
<1>1. ASSUME c # NUL PROVE p + 1 \in 1..(e + 1)
  BY <1>0, <1>1, InTheText
<1>2. CASE c \in Whitespace
  <2>1. p + 1 \in 1..(e + 1)
    BY <1>1, <1>2 DEF Whitespace, NUL
  <2>2. GoodTurn(e, s, Moved(s, p + 1, s.flags))
    BY <1>0, <2>1, MovedTurn
  <2> QED BY <1>2, <2>2 DEF ReadSeeking
<1>3. CASE c = "]"
  <2>1. p + 1 \in 1..(e + 1) /\ c \notin Whitespace
    BY <1>1, <1>3 DEF NUL, Whitespace
  <2>2. CASE s.top # 0 /\ s.kind[s.top] = "array"
    <3> DEFINE f == s.flags \ {"need_comma", "seek_value"}
    <3>1. f \in SUBSET ReaderFlags /\ f \cap {"string", "done", "seek_value"} = {} /\ s.flags \cap {"string", "done"} = {}
      BY <1>0 DEF Seeks
    <3>2. s.begun > 0
      <4>1. s.begun \in Nat /\ s.begun # 0
        BY <2>2 DEF ReadingOK, ReadingType, TreeOK
      <4> QED BY ONLY <4>1
    <3>3. GoodTurn(e, s, Ended(s, p + 1, f))
      <4> HIDE DEF f
      <4> QED BY <2>1, <2>2, <3>1, <3>2, EndedTurn
    <3> QED BY <1>3, <2>1, <2>2, <3>3 DEF ReadSeeking
  <2>3. CASE ~(s.top # 0 /\ s.kind[s.top] = "array")
    BY <1>3, <2>1, <2>3, RefusedTurn DEF ReadSeeking
  <2> QED BY <2>2, <2>3
<1>4. CASE c \notin Whitespace /\ c # "]" /\ "need_comma" \in s.flags
  <2>1. CASE c = ","
    <3>1. p + 1 \in 1..(e + 1) /\ s.flags \ {"need_comma"} \in SUBSET ReaderFlags
      BY <1>0, <1>1, <2>1 DEF NUL
    <3>2. GoodTurn(e, s, Moved(s, p + 1, s.flags \ {"need_comma"}))
      BY <3>1, MovedTurn
    <3> QED BY <1>4, <2>1, <3>2 DEF ReadSeeking
  <2> QED BY <1>4, <2>1, RefusedTurn DEF ReadSeeking
<1>5. CASE c \notin Whitespace /\ c # "]" /\ "need_comma" \notin s.flags /\ "need_colon" \in s.flags
  <2>1. CASE c = ":"
    <3>1. p + 1 \in 1..(e + 1) /\ s.flags \ {"need_colon"} \in SUBSET ReaderFlags
      BY <1>0, <1>1, <2>1 DEF NUL
    <3>2. GoodTurn(e, s, Moved(s, p + 1, s.flags \ {"need_colon"}))
      BY <3>1, MovedTurn
    <3> QED BY <1>5, <2>1, <3>2 DEF ReadSeeking
  <2> QED BY <1>5, <2>1, RefusedTurn DEF ReadSeeking
<1>6. CASE c \notin Whitespace /\ c # "]" /\ s.flags \cap {"need_comma", "need_colon"} = {}
  BY <1>6, ReadValueTurn DEF ReadSeeking
<1> QED BY <1>2, <1>3, <1>4, <1>5, <1>6

LEMMA ReadObjectTurn ==
  ASSUME JsonAssumption, NEW m, NEW e \in Nat, Memory(m, e), NEW s, ReadingOK(e, s), s.place # 0,
         s.flags \cap {"string", "done", "seek_value"} = {}
  PROVE  GoodTurn(e, s, ReadObject(m, e, s))
<1> DEFINE c == Look(m, e, s.place)
           p == s.place
<1>0. p \in 1..(e + 1) /\ s.flags \in SUBSET ReaderFlags
  <2>1. s.place \in 0..(e + 1) /\ s.flags \in SUBSET ReaderFlags
    BY DEF ReadingOK, ReadingType
  <2>2. s.place \in 1..(e + 1)
    BY ONLY <2>1, s.place # 0, e \in Nat
  <2> QED BY <2>1, <2>2
<1>1. ASSUME c # NUL PROVE p + 1 \in 1..(e + 1)
  BY <1>0, <1>1, InTheText
<1>2. CASE c \in Whitespace
  <2>1. p + 1 \in 1..(e + 1)
    BY <1>1, <1>2 DEF Whitespace, NUL
  <2>2. GoodTurn(e, s, Moved(s, p + 1, s.flags))
    BY <1>0, <2>1, MovedTurn
  <2> QED BY <1>2, <2>2 DEF ReadObject
<1>3. CASE c = "}"
  <2>1. p + 1 \in 1..(e + 1) /\ c \notin Whitespace
    BY <1>1, <1>3 DEF NUL, Whitespace
  <2> DEFINE f == s.flags \ {"need_comma"}
  <2>2. f \in SUBSET ReaderFlags /\ f \cap {"string", "done", "seek_value"} = {} /\ s.flags \cap {"string", "done"} = {}
    BY <1>0
  <2>3. s.begun > 0
    <3>1. s.begun \in Nat /\ s.begun # 0
      BY DEF ReadingOK, ReadingType, FlagsOK
    <3> QED BY ONLY <3>1
  <2>4. GoodTurn(e, s, Ended(s, p + 1, f))
    <3> HIDE DEF f
    <3> QED BY <2>1, <2>2, <2>3, EndedTurn
  <2> QED BY <1>3, <2>1, <2>4 DEF ReadObject
<1>4. CASE c = "\"" /\ "need_comma" \notin s.flags
  <2>1. p + 1 \in 1..(e + 1) /\ c \notin Whitespace /\ c # "}"
    BY <1>1, <1>4 DEF NUL, Whitespace
  <2>2. GoodTurn(e, s, [s EXCEPT !.place = p + 1, !.flags = s.flags \cup {"string"}, !.size = 0])
    BY <1>4, <2>1, NameTurn
  <2> QED BY <1>4, <2>1, <2>2 DEF ReadObject
<1>5. CASE c = "," /\ "need_comma" \in s.flags
  <2>1. p + 1 \in 1..(e + 1) /\ c \notin Whitespace /\ c # "}" /\ s.flags \ {"need_comma"} \in SUBSET ReaderFlags
    BY <1>0, <1>1, <1>5 DEF NUL, Whitespace
  <2>2. GoodTurn(e, s, Moved(s, p + 1, s.flags \ {"need_comma"}))
    BY <2>1, MovedTurn
  <2> QED BY <1>5, <2>1, <2>2 DEF ReadObject
<1>6. CASE c \notin Whitespace \cup {"}"} /\ ~(c = "\"" /\ "need_comma" \notin s.flags) /\ ~(c = "," /\ "need_comma" \in s.flags)
  BY <1>6, RefusedTurn DEF ReadObject
<1> QED BY <1>2, <1>3, <1>4, <1>5, <1>6

LEMMA ReadTurn ==
  ASSUME JsonAssumption, NEW m, NEW e \in Nat, Memory(m, e), NEW s, ReadingOK(e, s), s.place # 0
  PROVE  GoodTurn(e, s, Read(m, e, s))
<1>1. CASE "string" \in s.flags
  BY <1>1, ReadStringTurn DEF Read
<1>2. CASE "string" \notin s.flags /\ "done" \in s.flags
  BY <1>2, ReadDoneTurn DEF Read
<1>3. CASE s.flags \cap {"string", "done"} = {} /\ "seek_value" \in s.flags
  BY <1>3, ReadSeekingTurn DEF Read, Seeks
<1>4. CASE s.flags \cap {"string", "done", "seek_value"} = {}
  BY <1>4, ReadObjectTurn DEF Read
<1> QED BY <1>1, <1>2, <1>3, <1>4

-----------------------------------------------------------------------------
(* Runs of the reader. *)

LEMMA RunBegins == ASSUME NEW m, NEW e PROVE \E r : Reads(m, e, r, 0)
<1> DEFINE r == [j \in 0..0 |-> Begin]
<1>1. Reads(m, e, r, 0)
  BY DEF Reads
<1> QED BY <1>1

LEMMA RunGoesOn ==
  ASSUME NEW m, NEW e, NEW r, NEW n \in Nat, Reads(m, e, r, n)
  PROVE  \E x : Reads(m, e, x, n + 1) /\ x[n + 1] = Read(m, e, r[n])
<1> DEFINE x == [j \in 0..(n + 1) |-> IF j <= n THEN r[j] ELSE Read(m, e, r[n])]
<1>1. x[0] = Begin /\ x[n + 1] = Read(m, e, r[n])
  BY DEF Reads
<1>2. ASSUME NEW j \in 1..(n + 1) PROVE x[j] = Read(m, e, x[j - 1])
  <2>1. CASE j <= n
    <3>1. j \in 1..n /\ j - 1 \in 0..(n + 1) /\ j - 1 <= n /\ j \in 0..(n + 1)
      BY <2>1
    <3>2. x[j] = r[j] /\ x[j - 1] = r[j - 1]
      BY <2>1, <3>1
    <3> QED BY <3>1, <3>2 DEF Reads
  <2>2. CASE j = n + 1
    <3>1. x[j - 1] = r[n]
      BY <2>2
    <3> QED BY <1>1, <2>2, <3>1
  <2> QED BY <2>1, <2>2
<1> HIDE DEF x
<1> QED BY <1>1, <1>2 DEF Reads

\* A run that was not refused never was.
LEMMA RunWasGood ==
  ASSUME JsonAssumption, NEW m, NEW e \in Nat, Memory(m, e), NEW r, NEW n \in Nat, Reads(m, e, r, n), r[n].place # 0
  PROVE  \A j \in 0..n : r[j].place # 0 /\ ReadingOK(e, r[j])
<1> DEFINE Good == {i \in Nat : i <= n => r[n - i].place # 0}
           U == {j \in Nat : j <= n => ReadingOK(e, r[j])}
<1>1. \A i \in Nat : i \in Good
  <2>1. 0 \in Good
    OBVIOUS
  <2>2. ASSUME NEW i \in Nat, i \in Good PROVE i + 1 \in Good
    <3>1. SUFFICES ASSUME i + 1 <= n, r[n - (i + 1)].place = 0 PROVE FALSE
      OBVIOUS
    <3>2. n - i \in 1..n /\ (n - i) - 1 = n - (i + 1)
      BY <3>1
    <3>3. r[n - i] = Read(m, e, r[n - (i + 1)])
      BY <3>2 DEF Reads
    <3>4. r[n - i].place = 0
      BY <3>1, <3>3 DEF Read
    <3> QED BY <2>2, <3>1, <3>4
  <2> HIDE DEF Good
  <2> QED BY <2>1, <2>2, InductionOnSets
<1>2. ASSUME NEW j \in 0..n PROVE r[j].place # 0
  <2>1. n - j \in Nat /\ n - j <= n /\ n - (n - j) = j
    OBVIOUS
  <2>2. n - j \in Good
    BY <1>1, <2>1
  <2> QED BY <2>1, <2>2
<1>3. \A j \in Nat : j \in U
  <2>1. 0 \in U
    BY BeginOK DEF Reads
  <2>2. ASSUME NEW j \in Nat, j \in U PROVE j + 1 \in U
    <3>1. SUFFICES ASSUME j + 1 <= n PROVE ReadingOK(e, r[j + 1])
      OBVIOUS
    <3>2. j \in 0..n /\ j + 1 \in 0..n /\ j + 1 \in 1..n /\ (j + 1) - 1 = j /\ j <= n
      BY <3>1
    <3>3. ReadingOK(e, r[j]) /\ r[j].place # 0 /\ r[j + 1].place # 0
      BY <1>2, <2>2, <3>2
    <3>4. r[j + 1] = Read(m, e, r[j])
      BY <3>2 DEF Reads
    <3>5. GoodTurn(e, r[j], r[j + 1])
      BY <3>3, <3>4, ReadTurn
    <3> QED BY <3>3, <3>5 DEF GoodTurn
  <2> HIDE DEF U
  <2> QED BY <2>1, <2>2, InductionOnSets
<1> QED BY <1>2, <1>3

LEMMA RigidThrough ==
  ASSUME NEW s, NEW t, NEW u, s.begun \in Nat, t.begun \in Nat, u.begun \in Nat, Rigid(s, t), Rigid(t, u)
  PROVE  Rigid(s, u)
<1>1. s.begun <= u.begun /\ \A v \in 1..s.begun : v \in 1..t.begun
  BY DEF Rigid
<1> QED BY <1>1 DEF Rigid

\* What a complete run has counted covers all that it counted on the way.
LEMMA RunPays ==
  ASSUME JsonAssumption, NEW m, NEW e \in Nat, Memory(m, e), NEW r, NEW n \in Nat, Reads(m, e, r, n),
         r[n].place # 0, "done" \in r[n].flags
  PROVE  \A j \in 0..n : Paid(r[j], r[n].length, r[n].names) /\ Rigid(r[j], r[n])
<1> DEFINE z == r[n]
           Good == {i \in Nat : i <= n => Paid(r[n - i], z.length, z.names) /\ Rigid(r[n - i], z)}
<1>1. \A j \in 0..n : r[j].place # 0 /\ ReadingOK(e, r[j])
  BY RunWasGood
<1>2. z.length \in Counters /\ z.names \in Counters /\ z.begun \in Nat /\ ReadingOK(e, z)
  <2>1. ReadingOK(e, z)
    BY <1>1
  <2> QED BY <2>1 DEF ReadingOK, ReadingType, Counters
<1>3. 0 \in Good
  <2>1. Paid(z, z.length, z.names)
    <3>1. PaidCounts(z, z.length, z.names)
      <4>1. \A v \in Nat : z.length[v] \in Nat /\ z.names[v] \in Nat
        BY <1>2 DEF Counters
      <4>2. \A v \in Nat : z.length[v] <= z.length[v] /\ z.names[v] <= z.names[v]
        <5> HIDE DEF z
        <5> QED BY ONLY <4>1
      <4> QED BY <4>2 DEF PaidCounts
    <3>2. z.open = {} /\ "string" \notin z.flags
      BY <1>2 DEF ReadingOK, FlagsOK
    <3> HIDE DEF z
    <3> QED BY <3>1, <3>2 DEF Paid, PaidText, PaidEntries
  <2>2. Rigid(z, z)
    BY <1>2 DEF Rigid
  <2> HIDE DEF z
  <2>3. n - 0 = n
    OBVIOUS
  <2> QED BY <2>1, <2>2, <2>3 DEF z
<1>4. ASSUME NEW i \in Nat, i \in Good PROVE i + 1 \in Good
  <2>1. SUFFICES ASSUME i + 1 <= n PROVE Paid(r[n - (i + 1)], z.length, z.names) /\ Rigid(r[n - (i + 1)], z)
    OBVIOUS
  <2> DEFINE s == r[n - (i + 1)]
             t == r[n - i]
  <2>2. n - i \in 1..n /\ (n - i) - 1 = n - (i + 1) /\ n - i \in 0..n /\ n - (i + 1) \in 0..n /\ i <= n
    BY <2>1
  <2>3. t = Read(m, e, s)
    BY <2>2 DEF Reads
  <2>4. s.place # 0 /\ ReadingOK(e, s) /\ t.place # 0 /\ ReadingOK(e, t)
    BY <1>1, <2>2
  <2>5. GoodTurn(e, s, t)
    BY <2>3, <2>4, ReadTurn
  <2>6. Progress(s, t) /\ s.begun \in Nat /\ t.begun \in Nat
    BY <2>4, <2>5 DEF GoodTurn, ReadingOK, ReadingType
  <2>7. Paid(t, z.length, z.names) /\ Rigid(t, z)
    BY <1>4, <2>2
  <2> HIDE DEF s, t, z
  <2>8. Paid(s, z.length, z.names) /\ Rigid(s, z)
    BY <1>2, <2>6, <2>7, RigidThrough DEF Progress
  <2> QED BY <2>8 DEF s, z
<1>5. \A i \in Nat : i \in Good
  <2> HIDE DEF Good
  <2> QED BY <1>3, <1>4, InductionOnSets
<1> SUFFICES ASSUME NEW j \in 0..n PROVE Paid(r[j], z.length, z.names) /\ Rigid(r[j], z)
  OBVIOUS
<1>6. n - j \in Nat /\ n - j <= n /\ n - (n - j) = j
  OBVIOUS
<1>7. n - j \in Good
  BY <1>5, <1>6
<1> QED BY <1>6, <1>7

\* The readings of a text, and those on the way to a reading of all of it.
Reached(m, e, s) == \E n \in Nat : \E r : Reads(m, e, r, n) /\ r[n] = s /\ s.place # 0

Complete(m, e, z) == z.place # 0 /\ "done" \in z.flags /\ Look(m, e, z.place) = NUL
Ahead(m, e, s, z) ==
  \E n \in Nat : \E r : \E k \in 0..n : Reads(m, e, r, n) /\ r[k] = s /\ r[n] = z /\ Complete(m, e, z)

LEMMA ReachedBegins == ASSUME NEW m, NEW e PROVE Reached(m, e, Begin)
<1>1. PICK r : Reads(m, e, r, 0)
  BY RunBegins
<1>2. Begin.place # 0 /\ r[0] = Begin
  BY <1>1 DEF Begin, Reads
<1> QED BY <1>1, <1>2 DEF Reached

LEMMA ReachedGoesOn ==
  ASSUME NEW m, NEW e, NEW s, Reached(m, e, s), Read(m, e, s).place # 0
  PROVE  Reached(m, e, Read(m, e, s))
<1>1. PICK n \in Nat : \E r : Reads(m, e, r, n) /\ r[n] = s /\ s.place # 0
  BY DEF Reached
<1>2. PICK r : Reads(m, e, r, n) /\ r[n] = s
  BY <1>1
<1>3. PICK x : Reads(m, e, x, n + 1) /\ x[n + 1] = Read(m, e, r[n])
  BY <1>2, RunGoesOn
<1> QED BY <1>2, <1>3 DEF Reached

LEMMA ReachedIs ==
  ASSUME JsonAssumption, NEW m, NEW e \in Nat, Memory(m, e), NEW s, Reached(m, e, s)
  PROVE  ReadingOK(e, s) /\ s.place # 0
<1>1. PICK n \in Nat : \E r : Reads(m, e, r, n) /\ r[n] = s /\ s.place # 0
  BY DEF Reached
<1>2. PICK r : Reads(m, e, r, n) /\ r[n] = s /\ s.place # 0
  BY <1>1
<1>3. \A j \in 0..n : r[j].place # 0 /\ ReadingOK(e, r[j])
  BY <1>2, RunWasGood
<1> QED BY <1>2, <1>3

LEMMA AheadBegins ==
  ASSUME NEW m, NEW e, NEW z, Reached(m, e, z), Complete(m, e, z)
  PROVE  Ahead(m, e, Begin, z)
<1>1. PICK n \in Nat : \E r : Reads(m, e, r, n) /\ r[n] = z /\ z.place # 0
  BY DEF Reached
<1>2. PICK r : Reads(m, e, r, n) /\ r[n] = z
  BY <1>1
<1>3. r[0] = Begin /\ 0 \in 0..n
  BY <1>2 DEF Reads
<1> QED BY <1>2, <1>3 DEF Ahead

LEMMA AheadIs ==
  ASSUME JsonAssumption, NEW m, NEW e \in Nat, Memory(m, e), NEW s, NEW z, Ahead(m, e, s, z)
  PROVE  /\ ReadingOK(e, s) /\ s.place # 0 /\ ReadingOK(e, z) /\ z.open = {}
         /\ Paid(s, z.length, z.names) /\ Rigid(s, z)
<1>1. PICK n \in Nat : \E r : \E k \in 0..n : Reads(m, e, r, n) /\ r[k] = s /\ r[n] = z /\ Complete(m, e, z)
  BY DEF Ahead
<1>2. PICK r : \E k \in 0..n : Reads(m, e, r, n) /\ r[k] = s /\ r[n] = z /\ Complete(m, e, z)
  BY <1>1
<1>3. PICK k \in 0..n : Reads(m, e, r, n) /\ r[k] = s /\ r[n] = z /\ Complete(m, e, z)
  BY <1>2
<1>4. r[n].place # 0 /\ "done" \in r[n].flags
  BY <1>3 DEF Complete
<1>5. \A j \in 0..n : r[j].place # 0 /\ ReadingOK(e, r[j])
  BY <1>3, <1>4, RunWasGood
<1>6. \A j \in 0..n : Paid(r[j], r[n].length, r[n].names) /\ Rigid(r[j], r[n])
  BY <1>3, <1>4, RunPays
<1>7. n \in 0..n
  OBVIOUS
<1>8. ReadingOK(e, z)
  BY <1>3, <1>5, <1>7
<1>9. z.open = {}
  BY <1>3, <1>4, <1>8 DEF ReadingOK, FlagsOK
<1> QED BY <1>3, <1>5, <1>6, <1>8, <1>9

LEMMA AheadGoesOn ==
  ASSUME JsonAssumption, NEW m, NEW e \in Nat, Memory(m, e), NEW s, NEW z, Ahead(m, e, s, z)
  PROVE  Ahead(m, e, Read(m, e, s), z)
<1>1. PICK n \in Nat : \E r : \E k \in 0..n : Reads(m, e, r, n) /\ r[k] = s /\ r[n] = z /\ Complete(m, e, z)
  BY DEF Ahead
<1>2. PICK r : \E k \in 0..n : Reads(m, e, r, n) /\ r[k] = s /\ r[n] = z /\ Complete(m, e, z)
  BY <1>1
<1>3. PICK k \in 0..n : Reads(m, e, r, n) /\ r[k] = s /\ r[n] = z /\ Complete(m, e, z)
  BY <1>2
<1>4. CASE k = n
  <2>1. "string" \notin z.flags
    <3>1. ReadingOK(e, z)
      BY AheadIs
    <3> QED BY <1>3, <3>1 DEF ReadingOK, FlagsOK, Complete
  <2>2. NUL \notin Whitespace
    BY DEF NUL, Whitespace
  <2>3. Read(m, e, s) = s
    BY <1>3, <1>4, <2>1, <2>2 DEF Read, ReadDone, Complete
  <2> QED BY <2>3
<1>5. CASE k # n
  <2>1. k + 1 \in 0..n /\ k + 1 \in 1..n /\ (k + 1) - 1 = k
    BY <1>5
  <2>2. r[k + 1] = Read(m, e, s)
    BY <1>3, <2>1 DEF Reads
  <2> QED BY <1>3, <2>1, <2>2 DEF Ahead
<1> QED BY <1>4, <1>5

-----------------------------------------------------------------------------
(* The json_values. *)

\* An entry of an array or an object, when there are n values.
IsEntry(x, n) == x = [name |-> x.name, name_length |-> x.name_length, value |-> x.value] /\ x.value \in 0..n

IsRecord(r) ==
  r \in [type : {r.type}, parent : {r.parent}, length : {r.length}, names : {r.names}, reserved : {r.reserved},
         number : {r.number}, room : {r.room}, slots : {r.slots}, bytes : {r.bytes}]

IsValue(r, v, n) ==
  /\ IsRecord(r)
  /\ r.type \in Types /\ r.parent \in 0..(v - 1) /\ r.length \in Nat /\ r.names \in Nat /\ r.reserved \in Nat
  /\ r.room \in Nat \X Nat /\ IsSeq(r.slots) /\ IsSeq(r.bytes)
  /\ Len(r.slots) <= r.room[1] /\ Len(r.bytes) <= r.room[2]
  /\ \A i \in 1..Len(r.slots) : IsEntry(r.slots[i], n)

AreValues(vals) == IsSeq(vals) /\ \A v \in 1..Len(vals) : IsValue(vals[v], v, Len(vals))

\* The same but for one value.
Others(vals, new, q) == Len(new) = Len(vals) /\ \A v \in 1..Len(vals) : v # q => new[v] = vals[v]

LEMMA Changed ==
  ASSUME NEW vals, AreValues(vals), NEW q \in 1..Len(vals), NEW r, IsValue(r, q, Len(vals))
  PROVE  LET new == [vals EXCEPT ![q] = r] IN AreValues(new) /\ Others(vals, new, q) /\ new[q] = r
<1> DEFINE new == [vals EXCEPT ![q] = r]
<1>1. IsSeq(new) /\ Len(new) = Len(vals) /\ new[q] = r /\ \A v \in 1..Len(vals) : v # q => new[v] = vals[v]
  BY ExceptIs DEF AreValues
<1> HIDE DEF new
<1>2. AreValues(new)
  BY <1>1 DEF AreValues
<1> QED BY <1>1, <1>2 DEF Others, new

\* What the second pass allocates for a value.
RoomOf(kind, l, n) ==
  IF kind \in Nested /\ l > 0 THEN <<l, n>> ELSE IF kind = "string" THEN <<0, l + 1>> ELSE <<0, 0>>

Blank(r) == r.room = <<0, 0>> /\ r.slots = <<>> /\ r.bytes = <<>>

\* The bytes of names so far.
NamesOf(r, fp) == IF fp THEN r.names ELSE IF r.type = "object" /\ r.room # <<0, 0>> THEN r.reserved ELSE 0

\* A value as a reading s has it, and in the second pass the room z has counted for it; or
\* one that the second pass has not begun yet, as z has it.
Begun(r, s, v, fp, z) ==
  /\ s.length[v] = r.length /\ s.names[v] = NamesOf(r, fp) /\ s.parent[v] = r.parent /\ s.kind[v] = Kind(r.type)
  /\ fp => Blank(r)
  /\ ~fp => r.room = RoomOf(s.kind[v], z.length[v], z.names[v]) /\ (s.kind[v] \in Nested => r.length <= Len(r.slots))
Waiting(r, v, z) ==
  Blank(r) /\ z.length[v] = r.length /\ z.names[v] = r.names /\ z.parent[v] = r.parent /\ z.kind[v] = Kind(r.type)

Stand(vals, s, fp, z) ==
  /\ s.begun <= Len(vals) /\ Len(vals) = (IF fp THEN s.begun ELSE z.begun)
  /\ \A v \in 1..Len(vals) : IF v <= s.begun THEN Begun(vals[v], s, v, fp, z) ELSE Waiting(vals[v], v, z)

\* What two readings and the values they are about have in common but for one value.
LEMMA StandChanged ==
  ASSUME NEW vals, NEW new, NEW s, NEW t, NEW fp, NEW z, NEW q, Stand(vals, s, fp, z), Others(vals, new, q), t.begun = s.begun,
         \A v \in 1..Len(vals) : v # q => t.length[v] = s.length[v] /\ t.names[v] = s.names[v],
         \A v \in 1..Len(vals) : v # q => t.parent[v] = s.parent[v] /\ t.kind[v] = s.kind[v],
         q <= s.begun, Begun(new[q], t, q, fp, z)
  PROVE  Stand(new, t, fp, z)
<1>1. ASSUME NEW v \in 1..Len(vals), v # q PROVE IF v <= t.begun THEN Begun(new[v], t, v, fp, z) ELSE Waiting(new[v], v, z)
  <2>1. new[v] = vals[v]
    BY <1>1 DEF Others
  <2>2. t.length[v] = s.length[v] /\ t.names[v] = s.names[v] /\ t.parent[v] = s.parent[v] /\ t.kind[v] = s.kind[v]
    BY <1>1
  <2>3. IF v <= s.begun THEN Begun(vals[v], s, v, fp, z) ELSE Waiting(vals[v], v, z)
    BY DEF Stand
  <2>4. CASE v <= s.begun
    <3>1. Begun(vals[v], s, v, fp, z)
      BY <2>3, <2>4
    <3>2. Begun(vals[v], t, v, fp, z)
      BY <2>2, <3>1 DEF Begun
    <3> QED BY <2>1, <2>4, <3>2
  <2>5. CASE ~(v <= s.begun)
    BY <2>1, <2>3, <2>5
  <2> QED BY <2>4, <2>5
<1>2. Len(new) = Len(vals)
  BY DEF Others
<1> QED BY <1>1, <1>2 DEF Stand

\* The same if the readings are about the same values.
LEMMA StandBeside ==
  ASSUME NEW vals, NEW s, NEW t, NEW fp, NEW z, Stand(vals, s, fp, z), Beside(s, t) PROVE Stand(vals, t, fp, z)
<1>1. \A v \in 1..Len(vals) : Begun(vals[v], s, v, fp, z) => Begun(vals[v], t, v, fp, z)
  BY DEF Beside, Begun
<1> QED BY <1>1 DEF Stand, Beside

-----------------------------------------------------------------------------
(* What the parser knows, as a reading. *)

Mem == [p \in Nat |-> At(p)]

Chain ==
  \A v \in 1..Len(values) : first_pass \/ (alloc # 0 /\ v >= alloc) =>
    values[v].reserved = IF v < Len(values) THEN v + 1 ELSE 0

\* What is true throughout.
Sound ==
  /\ json \in Texts /\ behind \in Behind /\ first_pass \in BOOLEAN
  /\ ptr \in 1..(Len(json) + 2) /\ flags \subseteq ReaderFlags \cup NumberFlags
  /\ string_length \in Nat /\ num_digits \in Nat /\ num_fraction \in Nat /\ num_e \in Nat
  /\ AreValues(values) /\ {top, root, alloc, at} \subseteq 0..Len(values) /\ Chain
  /\ pc \in {"parse", "e_failed", "chain", "tree", "done", "failed", "crashed"} /\ (pc = "parse" => at = 0)
  /\ live \subseteq (1..Len(values)) \X {"itself", "contents"} /\ failure \in {"none", "text", "long", "memory"}

\* The way to the reading s: in the first pass from the beginning; in the second pass it
\* goes on to z.
Way(s, z) == IF first_pass THEN Reached(Mem, End, s) ELSE Ahead(Mem, End, s, z)

Settled(s, z) ==
  /\ pc = "parse" /\ s.place = ptr /\ s.flags = flags \ NumberFlags /\ s.size = string_length /\ s.top = top
  /\ Stand(values, s, first_pass, z)
  /\ alloc = (IF first_pass THEN s.begun ELSE IF s.begun < z.begun THEN s.begun + 1 ELSE 0)
  /\ root = IF s.begun = 0 THEN 0 ELSE 1

LEMMA TextIs ==
  ASSUME JsonAssumption, Sound
  PROVE  Len(json) \in Nat /\ End \in Nat /\ End = Len(json) + 1 /\ Memory(Mem, End) /\ Look(Mem, End, ptr) = b /\ Most \in Nat
<1>1. Len(json) \in Nat
  <2>1. json \in Seq(Printable \cup Whitespace)
    BY DEF JsonAssumption, Sound
  <2> HIDE DEF Printable, Whitespace
  <2> QED BY <2>1
<1>2. ptr \in Nat
  BY <1>1 DEF Sound
<1>3. Most \in Nat
  BY Zenon DEF JsonAssumption
<1>4. Look(Mem, End, ptr) = b
  BY <1>1, <1>2 DEF Look, Mem, b, End
<1> QED BY <1>1, <1>3, <1>4 DEF Memory, Mem, At, End

LEMMA WayIs ==
  ASSUME JsonAssumption, Sound, NEW s, NEW z, Way(s, z)
  PROVE  ReadingOK(End, s) /\ s.place # 0
  BY TextIs, ReachedIs, AheadIs DEF Way

LEMMA WayGoesOn ==
  ASSUME JsonAssumption, Sound, NEW s, NEW z, Way(s, z), NEW t, t = Read(Mem, End, s), t.place # 0, UNCHANGED <<input, first_pass>>
  PROVE  Way(t, z)'
<1>1. Mem' = Mem /\ End' = End /\ first_pass' = first_pass
  BY DEF Mem, End, At, input
<1>2. IF first_pass THEN Reached(Mem, End, t) ELSE Ahead(Mem, End, t, z)
  BY TextIs, ReachedGoesOn, AheadGoesOn DEF Way
<1> QED BY <1>1, <1>2 DEF Way

\* In a settled state: the reading s, and the next one.
Turn(s, t, z) == JsonAssumption /\ Sound /\ Way(s, z) /\ Settled(s, z) /\ t = Read(Mem, End, s)

\* A step that goes on to the next reading.
Continues(t, z) == t.place # 0 /\ Settled(t, z)' /\ AreValues(values)' /\ Chain'

LEMMA TurnIs ==
  ASSUME NEW s, NEW t, NEW z, Turn(s, t, z)
  PROVE  /\ ReadingOK(End, s) /\ s.place = ptr /\ ptr # 0 /\ ptr \in Nat /\ End \in Nat /\ Look(Mem, End, ptr) = b
         /\ s.flags = flags \ NumberFlags
         /\ \A flag \in ReaderFlags : flag \in s.flags <=> Has(flag)
         /\ t = IF Has("string") THEN ReadString(Mem, End, s)
                ELSE IF Has("done") THEN ReadDone(Mem, End, s)
                ELSE IF Has("seek_value") THEN ReadSeeking(Mem, End, s)
                ELSE ReadObject(Mem, End, s)
<1>1. ReadingOK(End, s) /\ s.place # 0 /\ End \in Nat /\ Look(Mem, End, ptr) = b /\ Len(json) \in Nat
  BY TextIs, WayIs DEF Turn
<1>2. s.place = ptr /\ s.flags = flags \ NumberFlags /\ ptr \in Nat
  BY <1>1 DEF Turn, Settled, Sound
<1>3. \A flag \in ReaderFlags : flag \in s.flags <=> Has(flag)
  BY <1>2 DEF ReaderFlags, NumberFlags, Has
<1>4. /\ "string" \in s.flags <=> Has("string")
      /\ "done" \in s.flags <=> Has("done")
      /\ "seek_value" \in s.flags <=> Has("seek_value")
  BY <1>3 DEF ReaderFlags
<1> QED BY <1>1, <1>2, <1>3, <1>4 DEF Turn, Read

LEMMA MovedIs ==
  ASSUME NEW e \in Nat, NEW s, ReadingType(e, s), NEW p, NEW f
  PROVE  LET t == Moved(s, p, f) IN Beside(s, t) /\ t.place = p /\ t.flags = f /\ t.size = s.size
  BY DEF ReadingType, Moved, Beside

LEMMA BesideGoesOn ==
  ASSUME NEW s, NEW t, NEW z, Sound, Settled(s, z), Beside(s, t), t.place = ptr', ptr' # 0, t.flags = flags' \ NumberFlags,
         t.size = string_length', UNCHANGED <<first_pass, tree, pc>>
  PROVE  Continues(t, z)
<1>0. UNCHANGED <<top, root, alloc, values>> /\ UNCHANGED <<first_pass, pc>>
  BY DEF tree
<1>1. Stand(values, t, first_pass, z)
  BY StandBeside DEF Settled
<1>2. t.top = s.top /\ t.begun = s.begun
  BY DEF Beside
<1>3. Settled(t, z)'
  BY <1>0, <1>1, <1>2 DEF Settled
<1>4. AreValues(values)' /\ Chain'
  BY <1>0 DEF Sound, Chain
<1> QED BY <1>3, <1>4 DEF Continues

\* Steps that only go on in the text.
LEMMA MovesOn ==
  ASSUME NEW s, NEW t, NEW z, Turn(s, t, z), Backslash \/ SkipSpace \/ Separator \/ OpenName \/ EntryComma
  PROVE  Continues(t, z)
<1>0. ReadingType(End, s) /\ Sound /\ Settled(s, z) /\ End \in Nat
  BY TurnIs DEF Turn, ReadingOK
<1>1. /\ s.place = ptr /\ ptr \in Nat /\ Look(Mem, End, ptr) = b /\ s.flags = flags \ NumberFlags
      /\ s.size = string_length
  BY TurnIs DEF Turn, Settled
<1>2. \A flag \in ReaderFlags : flag \in s.flags <=> Has(flag)
  BY TurnIs
<1>3. t = IF Has("string") THEN ReadString(Mem, End, s)
          ELSE IF Has("done") THEN ReadDone(Mem, End, s)
          ELSE IF Has("seek_value") THEN ReadSeeking(Mem, End, s)
          ELSE ReadObject(Mem, End, s)
  BY TurnIs
<1>4. /\ "escaped" \in s.flags <=> Has("escaped")
      /\ "need_comma" \in s.flags <=> Has("need_comma")
      /\ "need_colon" \in s.flags <=> Has("need_colon")
  BY <1>2 DEF ReaderFlags
<1>5. ASSUME NEW f, t = Moved(s, ptr + 1, f \ NumberFlags), Go(ptr + 1, f), UNCHANGED <<string_length, first_pass, tree, pc>>
      PROVE  Continues(t, z)
  <2>1. Beside(s, t) /\ t.place = ptr + 1 /\ t.flags = f \ NumberFlags /\ t.size = s.size
    BY <1>0, <1>5, MovedIs
  <2>2. ptr' = ptr + 1 /\ flags' = f /\ ptr' # 0 /\ string_length' = string_length
    BY <1>1, <1>5 DEF Go
  <2> QED BY <1>0, <1>1, <1>5, <2>1, <2>2, BesideGoesOn
<1>s. s.size > Most <=> ~(string_length <= Most)
  <2>1. string_length \in Nat /\ Most \in Nat
    BY TextIs DEF Turn, Sound
  <2> QED BY ONLY <1>1, <2>1
<1>6. CASE Backslash
  <2>1. Has("string") /\ ~Has("escaped") /\ b = "\\" /\ b # NUL /\ string_length <= Most
    BY <1>6 DEF Backslash, InString
  <2>2. t = Moved(s, ptr + 1, s.flags \cup {"escaped"})
    BY <1>1, <1>3, <1>4, <1>s, <2>1 DEF ReadString
  <2>3. (flags \cup {"escaped"}) \ NumberFlags = s.flags \cup {"escaped"}
    BY <1>1 DEF NumberFlags
  <2>4. Go(ptr + 1, flags \cup {"escaped"}) /\ UNCHANGED <<string_length, first_pass, tree, pc>>
    BY <1>6 DEF Backslash
  <2> QED BY <1>5, <2>2, <2>3, <2>4
<1>7. CASE SkipSpace
  <2>1. t = Moved(s, ptr + 1, s.flags)
    BY <1>1, <1>3, <1>4, <1>7 DEF SkipSpace, AfterRoot, Seeking, In, ReadDone, ReadSeeking, ReadObject, Has
  <2>2. Go(ptr + 1, flags) /\ UNCHANGED <<string_length, first_pass, tree, pc>>
    BY <1>7 DEF SkipSpace
  <2> QED BY <1>1, <1>5, <2>1, <2>2
<1>8. CASE Separator
  <2>1. /\ ~Has("string") /\ ~Has("done") /\ Has("seek_value") /\ b \notin Whitespace \cup {"]"}
        /\ Has("need_comma") \/ Has("need_colon")
        /\ b = Due
    BY <1>8 DEF Separator, Separates, Seeking, Has
  <2>2. t = ReadSeeking(Mem, End, s)
    BY <1>3, <2>1
  <2>3. CASE Has("need_comma")
    <3>1. b = "," /\ Due = ","
      BY <2>1, <2>3 DEF Due
    <3>2. t = Moved(s, ptr + 1, s.flags \ {"need_comma"})
      BY <1>1, <1>4, <2>1, <2>2, <2>3, <3>1 DEF ReadSeeking
    <3>3. (flags \ {"need_comma"}) \ NumberFlags = s.flags \ {"need_comma"}
      BY <1>1
    <3>4. Go(ptr + 1, flags \ {"need_comma"}) /\ UNCHANGED <<string_length, first_pass, tree, pc>>
      BY <1>8, <3>1 DEF Separator
    <3> QED BY <1>5, <3>2, <3>3, <3>4
  <2>4. CASE ~Has("need_comma")
    <3>1. b = ":" /\ Due # ","
      BY <2>1, <2>4 DEF Due
    <3>2. t = Moved(s, ptr + 1, s.flags \ {"need_colon"})
      BY <1>1, <1>4, <2>1, <2>2, <2>4, <3>1 DEF ReadSeeking
    <3>3. (flags \ {"need_colon"}) \ NumberFlags = s.flags \ {"need_colon"}
      BY <1>1
    <3>4. Go(ptr + 1, flags \ {"need_colon"}) /\ UNCHANGED <<string_length, first_pass, tree, pc>>
      BY <1>8, <3>1 DEF Separator
    <3> QED BY <1>5, <3>2, <3>3, <3>4
  <2> QED BY <2>3, <2>4
<1>9. CASE OpenName
  <2>1. ~Has("string") /\ ~Has("done") /\ ~Has("seek_value") /\ b = "\"" /\ ~Has("need_comma")
    BY <1>9 DEF OpenName, In, Has
  <2>2. t = [s EXCEPT !.place = ptr + 1, !.flags = s.flags \cup {"string"}, !.size = 0]
    BY <1>1, <1>3, <1>4, <2>1 DEF ReadObject, Whitespace
  <2>3. Beside(s, t) /\ t.place = ptr + 1 /\ t.flags = s.flags \cup {"string"} /\ t.size = 0
    BY <1>0, <2>2 DEF ReadingType, Beside
  <2>4. /\ ptr' = ptr + 1 /\ flags' = flags \cup {"string"} /\ string_length' = 0
        /\ UNCHANGED <<first_pass, tree, pc>>
    BY <1>9 DEF OpenName, Go
  <2>5. flags' \ NumberFlags = s.flags \cup {"string"} /\ ptr' # 0
    BY <1>1, <2>4 DEF NumberFlags
  <2> QED BY <1>0, <2>3, <2>4, <2>5, BesideGoesOn
<1>10. CASE EntryComma
  <2>1. ~Has("string") /\ ~Has("done") /\ ~Has("seek_value") /\ b = "," /\ Has("need_comma")
    BY <1>10 DEF EntryComma, In, Has
  <2>2. t = Moved(s, ptr + 1, s.flags \ {"need_comma"})
    BY <1>1, <1>3, <1>4, <2>1 DEF ReadObject, Whitespace
  <2>3. (flags \ {"need_comma"}) \ NumberFlags = s.flags \ {"need_comma"}
    BY <1>1
  <2>4. Go(ptr + 1, flags \ {"need_comma"}) /\ UNCHANGED <<string_length, first_pass, tree, pc>>
    BY <1>10 DEF EntryComma
  <2> QED BY <1>5, <2>2, <2>3, <2>4
<1> QED BY <1>6, <1>7, <1>8, <1>9, <1>10

\* Inside a string or a name, top is what it belongs to.
LEMMA InText ==
  ASSUME NEW e \in Nat, NEW s, ReadingOK(e, s), "string" \in s.flags
  PROVE  /\ s.top \in 1..s.begun /\ s.top \in s.open /\ s.begun \in Nat
         /\ s.kind[s.top] \in {"string", "object"} /\ (s.kind[s.top] = "string" => s.length[s.top] = 0)
<1>1. s.top \in Nat /\ s.begun \in Nat /\ s.top <= s.begun /\ (s.top = 0 <=> s.begun = 0)
  BY DEF ReadingOK, ReadingType, TreeOK
<1>2. /\ "done" \notin s.flags /\ s.begun # 0 /\ s.kind[s.top] \in {"string", "object"}
      /\ s.kind[s.top] = "string" => s.length[s.top] = 0
  BY DEF ReadingOK, FlagsOK
<1>3. s.begun > 0 /\ s.top \in 1..s.begun
  BY ONLY <1>1, <1>2
<1> QED BY <1>1, <1>2, <1>3 DEF ReadingOK, FlagsOK

\* In the second pass there is room for the text so far and for its end, and behind a name
\* for another entry.
LEMMA TextFits ==
  ASSUME NEW e \in Nat, NEW s, ReadingOK(e, s), "string" \in s.flags, NEW z, ReadingOK(e, z), Paid(s, z.length, z.names),
         NEW vals, Stand(vals, s, FALSE, z), NEW r, r = vals[s.top], AreValues(vals)
  PROVE  /\ s.top \in 1..Len(vals) /\ Len(vals) \in Nat /\ r.reserved \in Nat
         /\ r.type \in {"string", "object"} /\ r.type = s.kind[s.top] /\ r.room[1] \in Nat /\ r.room[2] \in Nat
         /\ r.type = "string" => s.size + 1 <= r.room[2]
         /\ r.type = "object" => r.reserved = s.names[s.top] /\ r.reserved + (s.size + 1) <= r.room[2] /\ r.length + 1 <= r.room[1]
<1> DEFINE q == s.top
<1>1. /\ q \in 1..s.begun /\ q \in s.open /\ s.begun \in Nat /\ s.kind[q] \in {"string", "object"} /\ q \in Nat
  BY InText
<1>2. Len(vals) \in Nat /\ s.begun <= Len(vals)
  BY SeqFacts DEF AreValues, Stand
<1>3. q \in 1..Len(vals) /\ q <= s.begun
  BY <1>1, <1>2
<1>4. Begun(r, s, q, FALSE, z) /\ IsValue(r, q, Len(vals))
  BY <1>3 DEF Stand, AreValues
<1>5. r.type = s.kind[q]
  BY <1>1, <1>4 DEF Begun, Kind
<1>6. /\ r.room = RoomOf(s.kind[q], z.length[q], z.names[q]) /\ s.names[q] = NamesOf(r, FALSE) /\ s.length[q] = r.length
  BY <1>4 DEF Begun
<1>7. r.reserved \in Nat /\ r.room[1] \in Nat /\ r.room[2] \in Nat /\ r.length \in Nat
  BY <1>4 DEF IsValue
<1>8. s.size \in Nat /\ z.length[q] \in Nat /\ z.names[q] \in Nat
  BY <1>1 DEF ReadingOK, ReadingType
<1>9. ASSUME r.type = "string" PROVE s.size + 1 <= r.room[2]
  <2>1. s.size <= z.length[q]
    BY <1>5, <1>9 DEF Paid, PaidText
  <2>2. r.room[2] = z.length[q] + 1
    BY <1>5, <1>6, <1>9 DEF RoomOf, Nested
  <2> QED BY ONLY <1>8, <2>1, <2>2
<1>10. ASSUME r.type = "object"
       PROVE r.reserved = s.names[s.top] /\ r.reserved + (s.size + 1) <= r.room[2] /\ r.length + 1 <= r.room[1]
  <2>1. s.length[q] + 1 <= z.length[q]
    BY <1>1, <1>5, <1>10 DEF Paid, PaidEntries
  <2>2. z.length[q] > 0 /\ r.length + 1 <= z.length[q]
    BY ONLY <1>6, <1>7, <1>8, <2>1
  <2>3. r.room = <<z.length[q], z.names[q]>>
    BY <1>5, <1>6, <1>10, <2>2 DEF RoomOf, Nested
  <2>4. r.room # <<0, 0>>
    BY <2>2, <2>3
  <2>5. s.names[q] = r.reserved
    BY <1>6, <1>10, <2>4 DEF NamesOf
  <2>6. s.names[q] + (s.size + 1) <= z.names[q]
    BY <1>5, <1>10 DEF Paid, PaidText
  <2> QED BY <2>2, <2>3, <2>5, <2>6
<1> QED BY <1>1, <1>2, <1>3, <1>5, <1>7, <1>9, <1>10

\* A value with more bytes.
LEMMA WrittenIs ==
  ASSUME NEW vals, AreValues(vals), NEW q \in 1..Len(vals), NEW from \in Nat, NEW new, IsSeq(new),
         from + Len(new) <= vals[q].room[2]
  PROVE  LET to == [vals EXCEPT ![q].bytes = Put(@, from, new)] IN
         /\ AreValues(to) /\ Others(vals, to, q)
         /\ to[q].type = vals[q].type /\ to[q].parent = vals[q].parent /\ to[q].length = vals[q].length
         /\ to[q].names = vals[q].names /\ to[q].reserved = vals[q].reserved /\ to[q].room = vals[q].room
         /\ to[q].slots = vals[q].slots
<1> DEFINE put == Put(vals[q].bytes, from, new)
           r == [vals[q] EXCEPT !.bytes = put]
           to == [vals EXCEPT ![q].bytes = Put(@, from, new)]
<1>1. IsValue(vals[q], q, Len(vals))
  BY DEF AreValues
<1>2. IsSeq(put) /\ Len(put) = Larger(from + Len(new), Len(vals[q].bytes))
  BY <1>1, PutIs DEF IsValue
<1>3. Len(put) <= vals[q].room[2]
  <2>1. Len(vals[q].bytes) <= vals[q].room[2]
    BY <1>1 DEF IsValue
  <2> QED BY ONLY <1>2, <2>1, from + Len(new) <= vals[q].room[2] DEF Larger
<1> HIDE DEF put
<1>4. /\ IsRecord(r) /\ r.bytes = put
      /\ r.type = vals[q].type /\ r.parent = vals[q].parent /\ r.length = vals[q].length /\ r.names = vals[q].names
      /\ r.reserved = vals[q].reserved /\ r.room = vals[q].room /\ r.slots = vals[q].slots
  BY <1>1 DEF IsValue, IsRecord
<1>5. to = [vals EXCEPT ![q] = r]
  BY DEF put
<1> HIDE DEF r, to
<1>6. IsValue(r, q, Len(vals))
  BY <1>1, <1>2, <1>3, <1>4 DEF IsValue
<1>7. AreValues(to) /\ Others(vals, to, q) /\ to[q] = r
  BY <1>5, <1>6, Changed
<1> QED BY <1>4, <1>7 DEF to

LEMMA ChainKept ==
  ASSUME Sound, Len(values') = Len(values), UNCHANGED <<first_pass, alloc>>,
         \A v \in 1..Len(values) : first_pass \/ (alloc # 0 /\ v >= alloc) => values'[v].reserved = values[v].reserved
  PROVE  Chain'
  BY DEF Sound, Chain

\* The next reading of the second pass is paid for as well.
LEMMA NextIs ==
  ASSUME NEW s, NEW t, NEW z, Turn(s, t, z), ~first_pass
  PROVE  /\ ReadingOK(End, t) /\ t.place # 0 /\ ReadingOK(End, z)
         /\ Paid(t, z.length, z.names) /\ Rigid(t, z) /\ Paid(s, z.length, z.names) /\ Rigid(s, z)
<1>1. Ahead(Mem, End, s, z) /\ t = Read(Mem, End, s)
  BY DEF Turn, Way
<1>2. End \in Nat /\ Memory(Mem, End)
  BY TextIs DEF Turn
<1>3. JsonAssumption
  BY Zenon DEF Turn
<1>4. Ahead(Mem, End, t, z)
  BY <1>1, <1>2, <1>3, AheadGoesOn
<1> QED BY <1>1, <1>2, <1>3, <1>4, AheadIs

\* The steps that add to a string or a name.
LEMMA AddsOn ==
  ASSUME NEW s, NEW t, NEW z, Turn(s, t, z), Has("string"), NEW new, IsSeq(new), NEW p \in Nat \ {0},
         t = Added(s, Len(new), p), StringAdd(new, p)
  PROVE  Continues(t, z)
<1>0. ReadingType(End, s) /\ ReadingOK(End, s) /\ Sound /\ Settled(s, z) /\ End \in Nat
  BY TurnIs DEF Turn, ReadingOK
<1>1. /\ s.place = ptr /\ s.flags = flags \ NumberFlags /\ s.size = string_length /\ s.top = top
  BY DEF Turn, Settled
<1>2. "string" \in s.flags
  BY TurnIs DEF ReaderFlags
<1>3. /\ ptr' = p /\ flags' = flags \ {"escaped"} /\ string_length' = string_length + Len(new) /\ values' = Written(new)
      /\ UNCHANGED <<input, first_pass, digits, top, root, alloc, pc, at, live, failure>>
  BY DEF StringAdd, Go
<1>4. /\ Beside(s, t) /\ t.place = p /\ t.size = s.size + Len(new) /\ t.flags = s.flags \ {"escaped"}
  BY <1>0 DEF ReadingType, Added, Beside
<1>5. t.flags = flags' \ NumberFlags /\ t.size = string_length' /\ ptr' # 0
  BY <1>1, <1>3, <1>4
<1>6. CASE first_pass
  <2>1. UNCHANGED <<first_pass, tree, pc>>
    BY <1>3, <1>6 DEF Written, tree
  <2> QED BY <1>0, <1>3, <1>4, <1>5, <2>1, BesideGoesOn
<1>7. CASE ~first_pass
  <2>1. /\ ReadingOK(End, t) /\ ReadingOK(End, z) /\ Paid(t, z.length, z.names)
    BY <1>7, NextIs
  <2>2. "string" \in t.flags
    BY <1>2, <1>4
  <2>3. Stand(values, s, FALSE, z) /\ AreValues(values)
    BY <1>0, <1>7 DEF Settled, Sound
  <2>4. Stand(values, t, FALSE, z)
    BY <1>4, <2>3, StandBeside
  <2>5. t.top = top
    BY <1>1, <1>4 DEF Beside
  <2> DEFINE r == values[top]
             from == IF r.type = "object" THEN r.reserved ELSE 0
  <2>6. /\ top \in 1..Len(values) /\ Len(values) \in Nat /\ r.reserved \in Nat
        /\ r.type \in {"string", "object"} /\ r.room[2] \in Nat
        /\ r.type = "string" => t.size + 1 <= r.room[2]
        /\ r.type = "object" => r.reserved + (t.size + 1) <= r.room[2]
    BY <1>0, <2>1, <2>2, <2>3, <2>4, <2>5, TextFits
  <2>7. from + string_length \in Nat /\ (from + string_length) + Len(new) <= r.room[2]
    <3>1. string_length \in Nat /\ Len(new) \in Nat /\ t.size = string_length + Len(new)
      BY <1>0, <1>1, <1>4, SeqFacts DEF Sound
    <3>2. from \in Nat /\ from + (t.size + 1) <= r.room[2]
      BY <2>6, <3>1
    <3>3. r.room[2] \in Nat
      BY <2>6
    <3> HIDE DEF from, r
    <3> QED BY ONLY <3>1, <3>2, <3>3
  <2>8. values' = [values EXCEPT ![top].bytes = Put(@, from + string_length, new)]
    BY <1>3, <1>7 DEF Written, Base, T
  <2>9. /\ AreValues(values') /\ Others(values, values', top)
        /\ values'[top].type = r.type /\ values'[top].parent = r.parent /\ values'[top].length = r.length
        /\ values'[top].names = r.names /\ values'[top].reserved = r.reserved /\ values'[top].room = r.room
        /\ values'[top].slots = r.slots
    <3> DEFINE cell == from + string_length
    <3> HIDE DEF from
    <3>1. values' = [values EXCEPT ![top].bytes = Put(@, cell, new)]
      BY <2>8
    <3>2. cell \in Nat /\ cell + Len(new) <= values[top].room[2] /\ top \in 1..Len(values)
      BY <2>6, <2>7
    <3> HIDE DEF cell
    <3> DEFINE to == [values EXCEPT ![top].bytes = Put(@, cell, new)]
    <3>3. /\ AreValues(to) /\ Others(values, to, top)
          /\ to[top].type = values[top].type /\ to[top].parent = values[top].parent /\ to[top].length = values[top].length
          /\ to[top].names = values[top].names /\ to[top].reserved = values[top].reserved /\ to[top].room = values[top].room
          /\ to[top].slots = values[top].slots
      BY <2>3, <3>2, WrittenIs
    <3>4. values' = to
      BY <3>1
    <3> HIDE DEF to
    <3> QED BY <3>3, <3>4
  <2> HIDE DEF from, r
  <2>10. Begun(r, t, top, FALSE, z) /\ top <= t.begun
    <3>1. t.top <= t.begun
      BY <2>1 DEF ReadingOK, TreeOK
    <3> QED BY <2>4, <2>5, <2>6, <3>1 DEF Stand, r
  <2>11. Begun(values'[top], t, top, FALSE, z)
    BY <2>9, <2>10 DEF Begun, NamesOf, r
  <2>12. Stand(values', t, FALSE, z)
    BY <2>4, <2>9, <2>10, <2>11, StandChanged
  <2>13. Settled(t, z)'
    <3>1. t.begun = s.begun /\ first_pass = FALSE
      BY <1>0, <1>4, <1>7 DEF Beside, Sound
    <3> QED BY <1>0, <1>3, <1>4, <1>5, <1>7, <2>5, <2>12, <3>1 DEF Settled
  <2>14. Chain'
    <3>1. \A v \in 1..Len(values) : values'[v].reserved = values[v].reserved
      BY <2>9 DEF Others, r
    <3> QED BY <1>0, <1>3, <2>9, <3>1, ChainKept DEF Others
  <2> QED BY <1>3, <1>4, <1>5, <2>9, <2>13, <2>14 DEF Continues
<1> QED BY <1>6, <1>7

LEMMA Utf8IsSeq == ASSUME NEW c PROVE IsSeq(Utf8(c))
<1> DEFINE tail(k) == 128 + ((c \div 64 ^ k) % 64)
           a == c <= 127  d == c \in 128..2047  f == c \in 2048..65535
           d1 == 192 + (c \div 64)  f1 == 224 + (c \div 4096)  x1 == 240 + (c \div 262144)
           t0 == tail(0)  t1 == tail(1)  t2 == tail(2)
           u == <<c>>  v == <<d1, t0>>  w == <<f1, t1, t0>>  x == <<x1, t2, t1, t0>>
<1>1. Utf8(c) = CASE a -> u [] d -> v [] f -> w [] OTHER -> x
  BY DEF Utf8
<1> HIDE DEF a, d, f, d1, f1, x1, t0, t1, t2
<1>2. IsSeq(u) /\ IsSeq(v) /\ IsSeq(w) /\ IsSeq(x)
  <2>1. u \in Seq({c}) /\ v \in Seq({d1, t0}) /\ w \in Seq({f1, t1, t0}) /\ x \in Seq({x1, t2, t1, t0})
    OBVIOUS
  <2> HIDE DEF u, v, w, x
  <2> QED BY <2>1 DEF IsSeq
<1> HIDE DEF u, v, w, x
<1>3. Utf8(c) \in {u, v, w, x}
  BY <1>1
<1> QED BY <1>2, <1>3

LEMMA CharactersGoOn ==
  ASSUME NEW s, NEW t, NEW z, Turn(s, t, z), Character \/ Escape \/ (UnicodeEscape /\ pc' = "parse")
  PROVE  Continues(t, z)
<1>0. /\ s.place = ptr /\ ptr \in Nat /\ Look(Mem, End, ptr) = b /\ End \in Nat
  BY TurnIs
<1>1. /\ "escaped" \in s.flags <=> Has("escaped")
      /\ t = IF Has("string") THEN ReadString(Mem, End, s)
             ELSE IF Has("done") THEN ReadDone(Mem, End, s)
             ELSE IF Has("seek_value") THEN ReadSeeking(Mem, End, s)
             ELSE ReadObject(Mem, End, s)
  BY TurnIs DEF ReaderFlags
<1>2. InString => Has("string") /\ b # NUL /\ ~(s.size > Most)
  <2>1. string_length \in Nat /\ Most \in Nat /\ s.size = string_length
    BY TextIs DEF Turn, Sound, Settled
  <2>2. InString => string_length <= Most
    BY DEF InString
  <2>3. InString => ~(s.size > Most)
    BY ONLY <2>1, <2>2
  <2> QED BY <2>3 DEF InString
<1>3. \A x : IsSeq(<<x>>) /\ Len(<<x>>) = 1
  <2>1. \A x : <<x>> \in Seq({x})
    OBVIOUS
  <2> QED BY <2>1 DEF IsSeq
<1>4. CASE Character
  <2>1. InString /\ ~Has("escaped") /\ b \notin {"\\", "\""} /\ StringAdd(<<Code[b]>>, ptr + 1)
    BY <1>4 DEF Character
  <2>2. t = Added(s, 1, ptr + 1)
    BY <1>0, <1>1, <1>2, <2>1 DEF ReadString
  <2> DEFINE new == <<Code[b]>>
  <2>3. IsSeq(new) /\ Len(new) = 1
    BY <1>3
  <2>4. StringAdd(new, ptr + 1)
    BY <2>1
  <2>6. InString
    BY <2>1
  <2>5. Has("string") /\ ptr + 1 \in Nat \ {0}
    BY <1>0, <1>2, <2>6
  <2> HIDE DEF new
  <2> QED BY <2>2, <2>3, <2>4, <2>5, AddsOn
<1>5. CASE Escape
  <2>1. InString /\ Has("escaped") /\ b # "u" /\ \E x : StringAdd(<<x>>, ptr + 1)
    BY <1>5 DEF Escape
  <2>2. t = Added(s, 1, ptr + 1)
    BY <1>0, <1>1, <1>2, <2>1 DEF ReadString
  <2>3. PICK x : StringAdd(<<x>>, ptr + 1)
    BY <2>1
  <2> DEFINE new == <<x>>
  <2>4. IsSeq(new) /\ Len(new) = 1
    BY <1>3
  <2>5. StringAdd(new, ptr + 1)
    BY <2>3
  <2>6. InString
    BY <2>1
  <2>7. Has("string") /\ ptr + 1 \in Nat \ {0}
    BY <1>0, <1>2, <2>6
  <2> HIDE DEF new
  <2> QED BY <2>2, <2>4, <2>5, <2>7, AddsOn
<1>6. CASE UnicodeEscape /\ pc' = "parse"
  <2>1. InString /\ Has("escaped") /\ b = "u"
    BY <1>6 DEF UnicodeEscape
  <2>2. t = ReadUnit(Mem, End, s)
    BY <1>0, <1>1, <1>2, <2>1 DEF ReadString
  <2>3. /\ UnitOk <=> End - ptr >= 4 /\ HexIn(Mem, ptr + 1)
        /\ IsPair <=> UnitIn(Mem, ptr + 1) \div 2048 = 27
        /\ SecondOk <=> End - (ptr + 4) >= 6 /\ Mem[ptr + 5] = "\\" /\ Mem[ptr + 6] = "u" /\ HexIn(Mem, ptr + 7)
        /\ Hex4(ptr + 1) = UnitIn(Mem, ptr + 1) /\ Hex4(ptr + 7) = UnitIn(Mem, ptr + 7)
    <3>1. \A p \in Nat : Mem[p] = At(p)
      BY DEF Mem
    <3>2. \A p \in Nat : p + 1 \in Nat /\ p + 2 \in Nat /\ p + 3 \in Nat /\ \A k \in 0..3 : p + k \in Nat
      OBVIOUS
    <3>3. \A p \in Nat : (IsHex4(p) <=> HexIn(Mem, p)) /\ Hex4(p) = UnitIn(Mem, p)
      <4>1. ASSUME NEW p \in Nat PROVE Hex4(p) = UnitIn(Mem, p)
        BY <3>1, <3>2 DEF Hex4, UnitIn
      <4>2. ASSUME NEW p \in Nat PROVE IsHex4(p) <=> HexIn(Mem, p)
        BY <3>1, <3>2 DEF IsHex4, HexIn
      <4> QED BY <4>1, <4>2
    <3>4. ptr + 1 \in Nat /\ ptr + 5 \in Nat /\ ptr + 6 \in Nat /\ ptr + 7 \in Nat
      BY <1>0
    <3> QED BY <3>1, <3>3, <3>4 DEF UnitOk, IsPair, SecondOk
  <2>4. UnitOk /\ ~(IsPair /\ ~SecondOk)
    BY <1>6 DEF UnicodeEscape, Fail
  <2>5. Has("string")
    BY <1>2, <2>1
  <2>6. CASE IsPair
    <3> DEFINE new == Utf8(PairValue(Hex4(ptr + 1), Hex4(ptr + 7)))
    <3>1. StringAdd(new, ptr + 11)
      BY <1>6, <2>4, <2>6 DEF UnicodeEscape
    <3>2. t = Added(s, Len(new), ptr + 11)
      BY <1>0, <2>2, <2>3, <2>4, <2>6 DEF ReadUnit
    <3>3. IsSeq(new)
      BY Utf8IsSeq
    <3>4. ptr + 11 \in Nat \ {0}
      BY <1>0
    <3> HIDE DEF new
    <3> QED BY <2>5, <3>1, <3>2, <3>3, <3>4, AddsOn
  <2>7. CASE ~IsPair
    <3> DEFINE new == Utf8(Hex4(ptr + 1))
    <3>1. StringAdd(new, ptr + 5)
      BY <1>6, <2>4, <2>7 DEF UnicodeEscape
    <3>2. t = Added(s, Len(new), ptr + 5)
      BY <1>0, <2>2, <2>3, <2>4, <2>7 DEF ReadUnit
    <3>3. IsSeq(new)
      BY Utf8IsSeq
    <3>4. ptr + 5 \in Nat \ {0}
      BY <1>0
    <3> HIDE DEF new
    <3> QED BY <2>5, <3>1, <3>2, <3>3, <3>4, AddsOn
  <2> QED BY <2>6, <2>7
<1> QED BY <1>4, <1>5, <1>6

LEMMA StandSame ==
  ASSUME NEW vals, NEW s, NEW t, NEW fp, NEW z, Stand(vals, s, fp, z), t.begun = s.begun, t.length = s.length,
         t.names = s.names, t.kind = s.kind, t.parent = s.parent
  PROVE  Stand(vals, t, fp, z)
<1>1. \A v \in 1..Len(vals) : Begun(vals[v], s, v, fp, z) => Begun(vals[v], t, v, fp, z)
  BY DEF Begun
<1> QED BY <1>1 DEF Stand

\* A value that takes another in: an entry more, in the second pass written behind those
\* there are or over the one whose name is there.
Taking(vals, q, v) ==
  LET n     == vals[q].length
      slots == vals[q].slots
      x     == [(IF n < Len(slots) THEN slots[n + 1] ELSE NoEntry) EXCEPT !.value = v]
  IN [vals EXCEPT ![q].length = n + 1, ![q].slots = Put(@, n, <<x>>)]

LEMMA TakesIn ==
  ASSUME NEW vals, AreValues(vals), NEW q \in 1..Len(vals), NEW v \in 1..Len(vals), vals[q].length <= Len(vals[q].slots),
         vals[q].length + 1 <= vals[q].room[1]
  PROVE  LET to == Taking(vals, q, v) IN
         /\ AreValues(to) /\ Others(vals, to, q) /\ to[q].length = vals[q].length + 1
         /\ vals[q].length + 1 <= Len(to[q].slots)
         /\ to[q].type = vals[q].type /\ to[q].parent = vals[q].parent /\ to[q].names = vals[q].names
         /\ to[q].reserved = vals[q].reserved /\ to[q].room = vals[q].room
<1> DEFINE n == vals[q].length
           slots == vals[q].slots
           x == [(IF n < Len(slots) THEN slots[n + 1] ELSE NoEntry) EXCEPT !.value = v]
           put == Put(slots, n, <<x>>)
           r == [vals[q] EXCEPT !.length = n + 1, !.slots = put]
           to == Taking(vals, q, v)
<1>0. n <= Len(slots) /\ n + 1 <= vals[q].room[1]
  OBVIOUS
<1>1. IsValue(vals[q], q, Len(vals)) /\ Len(vals) \in Nat
  BY SeqFacts DEF AreValues
<1>2. n \in Nat /\ IsSeq(slots) /\ Len(slots) \in Nat /\ vals[q].room[1] \in Nat /\ Len(slots) <= vals[q].room[1]
  BY <1>1, SeqFacts DEF IsValue
<1>3. IsSeq(<<x>>) /\ Len(<<x>>) = 1 /\ <<x>>[1] = x
  <2>1. <<x>> \in Seq({x})
    OBVIOUS
  <2> QED BY <2>1 DEF IsSeq
<1>4. /\ IsSeq(put) /\ Len(put) = Larger(n + 1, Len(slots))
      /\ \A i \in 1..Larger(n + 1, Len(slots)) :
           put[i] = IF i > n /\ i <= n + 1 THEN <<x>>[i - n] ELSE IF i <= Len(slots) THEN slots[i] ELSE -1
  <2> DEFINE one == <<x>>
  <2>1. IsSeq(one) /\ Len(one) = 1 /\ IsSeq(slots) /\ n \in Nat
    BY <1>2, <1>3
  <2> HIDE DEF one
  <2>2. /\ IsSeq(Put(slots, n, one)) /\ Len(Put(slots, n, one)) = Larger(n + Len(one), Len(slots))
        /\ \A i \in 1..Larger(n + Len(one), Len(slots)) :
             Put(slots, n, one)[i] = IF i > n /\ i <= n + Len(one) THEN one[i - n] ELSE IF i <= Len(slots) THEN slots[i] ELSE -1
    BY ONLY <2>1, PutIs, ZenonT(60)
  <2>3. n + Len(one) = n + 1
    BY <2>1
  <2> QED BY <2>2, <2>3 DEF one
<1>5. Larger(n + 1, Len(slots)) <= vals[q].room[1] /\ n + 1 <= Larger(n + 1, Len(slots))
  BY ONLY <1>0, <1>2 DEF Larger
<1>6. IsEntry(x, Len(vals))
  <2>1. ASSUME NEW y, y = [name |-> y.name, name_length |-> y.name_length, value |-> y.value]
        PROVE  IsEntry([y EXCEPT !.value = v], Len(vals))
    <3>1. [y EXCEPT !.value = v].value = v
      BY <2>1
    <3>2. [y EXCEPT !.value = v] = [name |-> y.name, name_length |-> y.name_length, value |-> v]
      BY <2>1
    <3>3. v \in 0..Len(vals)
      BY <1>1
    <3> QED BY <3>1, <3>2, <3>3 DEF IsEntry
  <2>2. CASE n < Len(slots)
    <3>1. IsEntry(slots[n + 1], Len(vals))
      BY <1>1, <1>2, <2>2, SMTT(30) DEF IsValue
    <3> QED BY <2>1, <2>2, <3>1 DEF IsEntry
  <2>3. CASE ~(n < Len(slots))
    <3>1. NoEntry = [name |-> NoEntry.name, name_length |-> NoEntry.name_length, value |-> NoEntry.value]
      BY DEF NoEntry
    <3> QED BY <2>1, <2>3, <3>1
  <2> QED BY <2>2, <2>3
<1>7. ASSUME NEW i \in 1..Len(put) PROVE IsEntry(put[i], Len(vals))
  <2>1. i \in 1..Larger(n + 1, Len(slots))
    BY <1>4, <1>7
  <2>2. CASE i = n + 1
    <3>0. i > n /\ i <= n + 1 /\ i - n = 1
      BY <1>2, <2>2
    <3>1. put[i] = <<x>>[1]
      BY <1>4, <2>1, <3>0
    <3> QED BY <1>3, <1>6, <3>1
  <2>3. CASE i # n + 1
    <3>1. ~(i > n /\ i <= n + 1) /\ i \in 1..Len(slots) /\ i <= Len(slots)
      BY ONLY <1>0, <1>2, <2>1, <2>3 DEF Larger
    <3>2. put[i] = slots[i]
      BY <1>4, <2>1, <3>1
    <3> QED BY <1>1, <3>1, <3>2 DEF IsValue
  <2> QED BY <2>2, <2>3
<1> HIDE DEF put
<1>8. /\ IsRecord(r) /\ r.slots = put /\ r.length = n + 1
      /\ r.type = vals[q].type /\ r.parent = vals[q].parent /\ r.names = vals[q].names
      /\ r.reserved = vals[q].reserved /\ r.room = vals[q].room /\ r.bytes = vals[q].bytes
  BY <1>1 DEF IsValue, IsRecord
<1>9. to = [vals EXCEPT ![q] = r]
  BY DEF put, Taking
<1> HIDE DEF r, to
<1>10. IsValue(r, q, Len(vals))
  <2>1. n + 1 \in Nat
    BY <1>2
  <2> QED BY <1>1, <1>4, <1>5, <1>7, <1>8, <2>1 DEF IsValue
<1>11. AreValues(to) /\ Others(vals, to, q) /\ to[q] = r
  BY <1>9, <1>10, Changed
<1> QED BY <1>4, <1>5, <1>8, <1>11 DEF to

\* The same in the first pass, where only the length counts.
LEMMA Counts ==
  ASSUME NEW vals, AreValues(vals), NEW q \in 1..Len(vals), NEW n \in Nat
  PROVE  LET to == [vals EXCEPT ![q].length = n] IN
         /\ AreValues(to) /\ Others(vals, to, q) /\ to[q].length = n
         /\ to[q].type = vals[q].type /\ to[q].parent = vals[q].parent /\ to[q].names = vals[q].names
         /\ to[q].reserved = vals[q].reserved /\ to[q].room = vals[q].room /\ to[q].slots = vals[q].slots
         /\ to[q].bytes = vals[q].bytes
<1> DEFINE r == [vals[q] EXCEPT !.length = n]
           to == [vals EXCEPT ![q].length = n]
<1>1. IsValue(vals[q], q, Len(vals))
  BY DEF AreValues
<1>2. /\ IsRecord(r) /\ r.slots = vals[q].slots /\ r.length = n
      /\ r.type = vals[q].type /\ r.parent = vals[q].parent /\ r.names = vals[q].names
      /\ r.reserved = vals[q].reserved /\ r.room = vals[q].room /\ r.bytes = vals[q].bytes
  BY <1>1 DEF IsValue, IsRecord
<1>3. to = [vals EXCEPT ![q] = r]
  OBVIOUS
<1> HIDE DEF r, to
<1>4. IsValue(r, q, Len(vals))
  BY <1>1, <1>2 DEF IsValue
<1>5. AreValues(to) /\ Others(vals, to, q) /\ to[q] = r
  BY <1>3, <1>4, Changed
<1> QED BY <1>2, <1>5 DEF to

\* A value ends: Finish does what Ended does, or fails on too long a list.
Finished(u, t, z, vals, p) ==
  /\ AreValues(values') /\ Len(values') = Len(vals) /\ \A v \in 1..Len(vals) : values'[v].reserved = vals[v].reserved
  /\ ptr' = p /\ flags' \subseteq ReaderFlags \cup NumberFlags
  /\ \/ first_pass /\ pc' = "e_failed" /\ failure' = "long" /\ top' = u.top
     \/ /\ pc' = pc /\ failure' = failure /\ Stand(values', t, first_pass, z) /\ t.place = p /\ t.size = u.size
        /\ t.begun = u.begun /\ t.flags = flags' \ NumberFlags /\ t.top = top'

LEMMA Finishes ==
  ASSUME JsonAssumption, NEW e \in Nat, NEW u, ReadingType(e, u), TreeOK(u), OpenOK(u), u.top \in u.open,
         NEW vals, AreValues(vals), NEW z, Stand(vals, u, first_pass, z), first_pass \in BOOLEAN,
         NEW p \in 1..(e + 1), NEW new, new \subseteq ReaderFlags \cup NumberFlags,
         NEW f, f = new \ NumberFlags, f \cap {"string", "done", "seek_value"} = {},
         NEW t, t = Ended(u, p, f), Finish(u.top, vals, p, new),
         ~first_pass => t.place # 0 /\ PaidCounts(t, z.length, z.names) /\ ReadingOK(e, z)
  PROVE  Finished(u, t, z, vals, p)
<1> DEFINE v == u.top
           q == vals[v].parent
           n == vals[q].length
           slots == vals[q].slots
           x == [(IF n < Len(slots) THEN slots[n + 1] ELSE NoEntry) EXCEPT !.value = v]
<1>0. /\ v \in 1..u.begun /\ u.begun \in Nat /\ Len(vals) \in Nat /\ u.begun <= Len(vals) /\ v \in 1..Len(vals) /\ v <= u.begun
      /\ Most \in Nat
  <2>1. v \in 1..u.begun /\ u.begun \in Nat
    BY DEF OpenOK, ReadingType
  <2>2. Len(vals) \in Nat /\ u.begun <= Len(vals)
    BY SeqFacts DEF AreValues, Stand
  <2>3. Most \in Nat
    BY Zenon DEF JsonAssumption
  <2> HIDE DEF v
  <2> QED BY <2>1, <2>2, <2>3
<1>1. f \in SUBSET ReaderFlags
  OBVIOUS
<1>2. \/ t.place = 0 /\ u.parent[v] # 0 /\ u.length[u.parent[v]] + 1 > Most
      \/ ReadingOK(e, t) /\ Ends1(u, t, u.parent[v], p, f)
  BY <1>1, EndedIs
<1>3. q = u.parent[v] /\ u.parent[v] < v /\ q \in Nat /\ Begun(vals[v], u, v, first_pass, z)
  <2>1. Begun(vals[v], u, v, first_pass, z)
    BY <1>0 DEF Stand
  <2>2. u.parent[v] < v /\ u.parent[v] \in Nat
    BY <1>0 DEF TreeOK, ReadingType
  <2> QED BY <2>1, <2>2 DEF Begun
<1>4. p # 0 /\ {"need_comma", "done", "seek_value"} \subseteq ReaderFlags /\ {"need_comma", "done", "seek_value"} \cap NumberFlags = {}
  BY DEF ReaderFlags, NumberFlags
<1>5. CASE q = 0
  <2>1. /\ ptr' = p /\ flags' = new \cup {"need_comma", "done"} /\ top' = v /\ values' = vals
        /\ UNCHANGED <<pc, failure>>
    BY <1>5 DEF Finish
  <2>2. Ends1(u, t, 0, p, f)
    BY <1>2, <1>3, <1>5
  <2>3. /\ t.begun = u.begun /\ t.length = u.length /\ t.names = u.names /\ t.kind = u.kind /\ t.parent = u.parent
        /\ t.place = p /\ t.size = u.size /\ t.top = v /\ t.flags = f \cup {"need_comma", "done"}
    BY <2>2 DEF Ends1
  <2>4. Stand(vals, t, first_pass, z)
    BY <2>3, StandSame
  <2>5. t.flags = flags' \ NumberFlags /\ flags' \subseteq ReaderFlags \cup NumberFlags
    BY <1>4, <2>1, <2>3
  <2> QED BY <2>1, <2>3, <2>4, <2>5 DEF Finished
<1>6. CASE q # 0
  <2>0. q \in 1..Len(vals) /\ q <= u.begun /\ q \in 1..u.begun
    <3> HIDE DEF v, q
    <3> QED BY <1>0, <1>3, <1>6
  <2>1. /\ ptr' = p
        /\ flags' = new \cup {"need_comma"} \cup (IF vals[q].type = "array" THEN {"seek_value"} ELSE {})
        /\ values' = [vals EXCEPT ![q].length = n + 1, ![q].slots = IF first_pass THEN @ ELSE Put(@, n, <<x>>)]
        /\ top' = IF n + 1 > Most THEN v ELSE q
        /\ IF n + 1 > Most THEN pc' = "e_failed" /\ failure' = "long" ELSE UNCHANGED <<pc, failure>>
    BY <1>6 DEF Finish
  <2>2. Begun(vals[q], u, q, first_pass, z) /\ IsValue(vals[q], q, Len(vals))
    BY <2>0 DEF Stand, AreValues
  <2>3. n \in Nat /\ n = u.length[q] /\ u.kind[q] = Kind(vals[q].type)
    BY <2>2 DEF Begun, IsValue
  <2>4. flags' \subseteq ReaderFlags \cup NumberFlags
    BY <1>4, <2>1
  <2>5. /\ AreValues(values') /\ Others(vals, values', q) /\ values'[q].length = n + 1
        /\ values'[q].type = vals[q].type /\ values'[q].parent = vals[q].parent /\ values'[q].names = vals[q].names
        /\ values'[q].reserved = vals[q].reserved /\ values'[q].room = vals[q].room
        /\ first_pass => values'[q].slots = vals[q].slots /\ values'[q].bytes = vals[q].bytes
        /\ ~first_pass => n + 1 <= Len(values'[q].slots)
    <3>1. CASE first_pass
      <4> DEFINE to == [vals EXCEPT ![q].length = n + 1]
                 m == n + 1
      <4>1. m \in Nat
        BY <2>3
      <4>2. values' = to
        <5>1. values' = [vals EXCEPT ![q].length = n + 1, ![q].slots = @]
          BY <2>1, <3>1
        <5>2. vals = [i \in 1..Len(vals) |-> vals[i]] /\ IsRecord(vals[q])
          BY <2>2, SeqFacts, SMTT(30) DEF AreValues, IsValue, IsSeq
        <5> HIDE DEF n, q
        <5> QED BY <2>0, <5>1, <5>2 DEF IsRecord
      <4> HIDE DEF m, n
      <4>3. /\ AreValues(to) /\ Others(vals, to, q) /\ to[q].length = m
            /\ to[q].type = vals[q].type /\ to[q].parent = vals[q].parent /\ to[q].names = vals[q].names
            /\ to[q].reserved = vals[q].reserved /\ to[q].room = vals[q].room /\ to[q].slots = vals[q].slots
            /\ to[q].bytes = vals[q].bytes
        <5> HIDE DEF q
        <5> QED BY <2>0, <4>1, Counts DEF m
      <4> HIDE DEF to
      <4> QED BY <3>1, <4>2, <4>3 DEF m
    <3>2. CASE ~first_pass
      <4>1. Ends1(u, t, q, p, f)
        BY <1>2, <1>3, <3>2
      <4>2. t.length = [u.length EXCEPT ![q] = u.length[q] + 1] /\ u.kind[q] \in Nested
        BY <1>6, <4>1 DEF Ends1
      <4>3. t.length[q] = n + 1 /\ q \in Nat
        <5>1. u.length \in [Nat -> Nat] /\ q \in Nat
          BY <1>3 DEF ReadingType
        <5> HIDE DEF q, n
        <5> QED BY ONLY <2>3, <4>2, <5>1
      <4>4. n + 1 <= z.length[q] /\ z.length[q] \in Nat
        BY <3>2, <4>3, ZenonT(60) DEF PaidCounts, ReadingOK, ReadingType
      <4>5. vals[q].room = RoomOf(u.kind[q], z.length[q], z.names[q]) /\ n <= Len(slots)
        BY <2>2, <3>2, <4>2 DEF Begun
      <4>6. z.length[q] > 0
        BY ONLY <2>3, <4>4
      <4>7. vals[q].room[1] = z.length[q]
        BY <4>2, <4>5, <4>6 DEF RoomOf
      <4>8. n + 1 <= vals[q].room[1]
        BY <4>4, <4>7
      <4> DEFINE to == Taking(vals, q, v)
      <4>9. /\ AreValues(to) /\ Others(vals, to, q) /\ to[q].length = n + 1 /\ n + 1 <= Len(to[q].slots)
            /\ to[q].type = vals[q].type /\ to[q].parent = vals[q].parent /\ to[q].names = vals[q].names
            /\ to[q].reserved = vals[q].reserved /\ to[q].room = vals[q].room
        <5>1. /\ v \in 1..Len(vals) /\ q \in 1..Len(vals) /\ vals[q].length <= Len(vals[q].slots)
              /\ vals[q].length + 1 <= vals[q].room[1] /\ AreValues(vals)
          BY <1>0, <2>0, <4>5, <4>8
        <5> HIDE DEF v, q
        <5> QED BY ONLY <5>1, TakesIn
      <4>10. values' = to
        BY <2>1, <3>2 DEF Taking
      <4> HIDE DEF to
      <4> QED BY <3>2, <4>9, <4>10
    <3> QED BY <3>1, <3>2
  <2>6. \A w \in 1..Len(vals) : values'[w].reserved = vals[w].reserved
    BY <2>5 DEF Others
  <2>7. CASE n + 1 > Most
    <3>1. first_pass
      <4>1. SUFFICES ASSUME ~first_pass PROVE FALSE
        OBVIOUS
      <4>2. Ends1(u, t, q, p, f)
        BY <1>2, <1>3, <4>1
      <4>3. u.length[q] + 1 <= Most
        BY <1>6, <4>2 DEF Ends1
      <4> HIDE DEF q, n
      <4> QED BY ONLY <1>0, <2>3, <2>7, <4>3
    <3>2. top' = v
      BY <2>1, <2>7
    <3> QED BY <2>1, <2>4, <2>5, <2>6, <2>7, <3>1, <3>2 DEF Finished, Others
  <2>8. CASE ~(n + 1 > Most)
    <3>1. Ends1(u, t, q, p, f)
      <4>1. ~(u.length[q] + 1 > Most)
        BY <2>3, <2>8
      <4> QED BY <1>2, <1>3, <4>1
    <3>2. /\ t.begun = u.begun /\ t.names = u.names /\ t.kind = u.kind /\ t.parent = u.parent
          /\ t.place = p /\ t.size = u.size /\ t.top = q
          /\ t.length = [u.length EXCEPT ![q] = u.length[q] + 1]
          /\ t.flags = f \cup {"need_comma"} \cup (IF u.kind[q] = "array" THEN {"seek_value"} ELSE {})
      BY <1>6, <3>1 DEF Ends1
    <3>3. Stand(values', t, first_pass, z)
      <4>0. u.length \in [Nat -> Nat] /\ q \in Nat /\ \A w \in 1..Len(vals) : w \in Nat
        <5>1. u.length \in [Nat -> Nat]
          BY DEF ReadingType
        <5>2. \A w \in 1..Len(vals) : w \in Nat
          BY ONLY <1>0
        <5> QED BY <1>3, <5>1, <5>2
      <4>1. t.length[q] = n + 1 /\ \A w \in 1..Len(vals) : w # q => t.length[w] = u.length[w]
        <5> HIDE DEF q, n
        <5> QED BY ONLY <2>3, <3>2, <4>0
      <4>2. Begun(values'[q], t, q, first_pass, z)
        <5> HIDE DEF q, n, slots
        <5>1. /\ t.length[q] = values'[q].length /\ t.parent[q] = values'[q].parent /\ t.kind[q] = Kind(values'[q].type)
          BY <2>2, <2>5, <3>2, <4>1 DEF Begun
        <5>4. t.names[q] = NamesOf(values'[q], first_pass)
          <6>1. NamesOf(values'[q], first_pass) = NamesOf(vals[q], first_pass)
            BY <2>5 DEF NamesOf
          <6>2. t.names[q] = NamesOf(vals[q], first_pass)
            BY <2>2, <3>2 DEF Begun
          <6> QED BY <6>1, <6>2
        <5>2. first_pass => Blank(values'[q])
          BY <2>2, <2>5 DEF Begun, Blank
        <5>3. ~first_pass => /\ values'[q].room = RoomOf(t.kind[q], z.length[q], z.names[q])
                             /\ values'[q].length <= Len(values'[q].slots)
          BY <2>2, <2>5, <3>2 DEF Begun
        <5> QED BY <5>1, <5>2, <5>3, <5>4 DEF Begun
      <4> HIDE DEF q, n, slots
      <4> QED BY <2>0, <2>5, <3>2, <4>1, <4>2, StandChanged, ZenonT(60)
    <3>4. t.flags = flags' \ NumberFlags
      <4>1. u.kind[q] = "array" <=> vals[q].type = "array"
        BY <2>3 DEF Kind
      <4> HIDE DEF q, n, slots, x
      <4> QED BY <1>4, <2>1, <3>2, <4>1
    <3>5. top' = q /\ UNCHANGED <<pc, failure>>
      BY <2>1, <2>8
    <3> QED BY <2>1, <2>4, <2>5, <2>6, <3>2, <3>3, <3>4, <3>5 DEF Finished, Others
  <2> QED BY <2>7, <2>8
<1> QED BY <1>5, <1>6

\* In a settled state the value parsing is in is as the reading has it.
LEMMA TopIs ==
  ASSUME NEW s, NEW t, NEW z, Turn(s, t, z), s.begun # 0 \/ top # 0
  PROVE  /\ s.top = top /\ top \in 1..Len(values) /\ top <= s.begun /\ Len(values) \in Nat /\ s.begun \in Nat /\ s.begun > 0
         /\ Begun(values[top], s, top, first_pass, z) /\ s.kind[top] = Kind(T.type) /\ IsValue(values[top], top, Len(values))
         /\ "done" \notin s.flags => top \in s.open
<1>1. ReadingOK(End, s) /\ Settled(s, z) /\ Sound
  BY TurnIs DEF Turn
<1>2. s.top = top /\ s.top \in Nat /\ s.begun \in Nat /\ s.top <= s.begun /\ (s.top = 0 <=> s.begun = 0)
  BY <1>1 DEF ReadingOK, ReadingType, TreeOK, Settled
<1>3. Len(values) \in Nat /\ s.begun <= Len(values)
  BY <1>1, SeqFacts DEF Sound, AreValues, Settled, Stand
<1>4. top \in 1..Len(values) /\ top <= s.begun /\ s.begun > 0
  BY ONLY <1>2, <1>3, s.begun # 0 \/ top # 0
<1>5. Begun(values[top], s, top, first_pass, z) /\ IsValue(values[top], top, Len(values))
  BY <1>1, <1>4 DEF Settled, Stand, Sound, AreValues
<1>6. s.kind[top] = Kind(T.type)
  BY <1>5 DEF Begun, T
<1>7. "done" \notin s.flags => top \in s.open
  BY <1>1, <1>2, <1>4 DEF ReadingOK, FlagsOK
<1> QED BY <1>2, <1>3, <1>4, <1>5, <1>6, <1>7

Fails == pc' = "e_failed" /\ Sound'

\* After Finish parsing goes on, or fails on too long a list.
LEMMA FinishGoesOn ==
  ASSUME JsonAssumption, Sound, pc = "parse", NEW t, NEW z, NEW u, NEW vals, NEW p \in 1..(End + 1), Finished(u, t, z, vals, p),
         u.top \in 1..u.begun, u.begun \in Nat, Len(vals) \in Nat, u.begun <= Len(vals), ~first_pass => Len(vals) = z.begun,
         alloc' = (IF first_pass THEN u.begun ELSE IF u.begun < z.begun THEN u.begun + 1 ELSE 0), root' = 1,
         string_length' = u.size, u.size \in Nat,
         UNCHANGED <<input, first_pass, digits, at>>, live' \subseteq (1..Len(vals)) \X {"itself", "contents"},
         \A v \in 1..Len(vals) : first_pass \/ (alloc' # 0 /\ v >= alloc') => vals[v].reserved = IF v < Len(vals) THEN v + 1 ELSE 0
  PROVE  Continues(t, z) \/ Fails
<1>1. /\ AreValues(values') /\ Len(values') = Len(vals) /\ \A v \in 1..Len(vals) : values'[v].reserved = vals[v].reserved
      /\ ptr' = p /\ flags' \subseteq ReaderFlags \cup NumberFlags
  BY DEF Finished
<1>2. Sound /\ pc = "parse" /\ p # 0 /\ End = Len(json) + 1 /\ Len(json) \in Nat
  BY TextIs
<1>3. Chain'
  BY <1>1 DEF Chain
<1>4. CASE first_pass /\ pc' = "e_failed" /\ failure' = "long" /\ top' = u.top
  <2>1. top' \in 0..Len(values') /\ alloc' \in 0..Len(values') /\ root' \in 0..Len(values') /\ 0 \in 0..Len(values')
    <3>1. u.top \in 0..Len(vals) /\ u.begun \in 0..Len(vals) /\ 1 \in 0..Len(vals) /\ 0 \in 0..Len(vals)
      OBVIOUS
    <3> QED BY <1>1, <1>4, <3>1
  <2>2. at' = 0
    BY <1>2 DEF Sound
  <2>3. json' = json /\ behind' = behind /\ num_digits' = num_digits /\ num_fraction' = num_fraction /\ num_e' = num_e /\ first_pass' = first_pass
    BY DEF input, digits
  <2>4. ptr' \in 1..(Len(json') + 2)
    BY <1>1, <1>2, <2>3
  <2>5. live' \subseteq (1..Len(values')) \X {"itself", "contents"}
    BY <1>1
  <2>6. string_length' \in Nat
    OBVIOUS
  <2>7. Sound'
    BY <1>1, <1>2, <1>3, <1>4, <2>1, <2>2, <2>3, <2>4, <2>5, <2>6 DEF Sound
  <2> QED BY <1>4, <2>7 DEF Fails
<1>5. CASE /\ pc' = pc /\ failure' = failure /\ Stand(values', t, first_pass, z) /\ t.place = p /\ t.size = u.size
           /\ t.begun = u.begun /\ t.flags = flags' \ NumberFlags /\ t.top = top'
  <2>1. t.begun # 0
    BY <1>5
  <2>2. Settled(t, z)'
    BY <1>1, <1>2, <1>5, <2>1 DEF Settled
  <2> QED BY <1>1, <1>2, <1>3, <1>5, <2>2 DEF Continues
<1> QED BY <1>4, <1>5 DEF Finished

\* The two passes agree on what the counters are when nothing begins.
LEMMA CountersAre ==
  ASSUME NEW s, NEW t, NEW z, Turn(s, t, z), s.begun > 0, s.begun \in Nat
  PROVE  /\ alloc = (IF first_pass THEN s.begun ELSE IF s.begun < z.begun THEN s.begun + 1 ELSE 0) /\ root = 1
         /\ ~first_pass => Len(values) = z.begun
         /\ s.begun <= Len(values)
  BY DEF Turn, Settled, Stand

\* A value ends that was begun before: u and vals are what is known when it does.
LEMMA EndsOn ==
  ASSUME NEW s, NEW t, NEW z, Turn(s, t, z), s.begun > 0,
         NEW u, ReadingType(End, u), TreeOK(u), OpenOK(u), u.top \in u.open, u.top = top, u.begun = s.begun, u.size = s.size,
         NEW vals, AreValues(vals), Stand(vals, u, first_pass, z), Len(vals) = Len(values),
         \A v \in 1..Len(vals) : vals[v].reserved = values[v].reserved,
         NEW new, new \subseteq flags, (new \ NumberFlags) \cap {"string", "done", "seek_value"} = {},
         NEW p \in 1..(End + 1), t = Ended(u, p, new \ NumberFlags), Finish(top, vals, p, new),
         UNCHANGED <<input, first_pass, string_length, digits, root, alloc, at, live>>
  PROVE  Continues(t, z) \/ Fails
<1> DEFINE f == new \ NumberFlags
<1>1. /\ ReadingOK(End, s) /\ End \in Nat
  BY TurnIs
<1>2. /\ s.top = top /\ top \in 1..Len(values) /\ Len(values) \in Nat /\ top <= s.begun /\ s.begun \in Nat
  BY TopIs
<1>4. JsonAssumption
  BY Zenon DEF Turn
<1>6. first_pass \in BOOLEAN /\ flags \subseteq ReaderFlags \cup NumberFlags
  BY DEF Turn, Sound
<1>7. new \subseteq ReaderFlags \cup NumberFlags /\ f = new \ NumberFlags /\ f \cap {"string", "done", "seek_value"} = {}
  BY <1>6
<1>8. ~first_pass => t.place # 0 /\ PaidCounts(t, z.length, z.names) /\ ReadingOK(End, z)
  BY NextIs DEF Paid
<1>9. t = Ended(u, p, f) /\ Finish(u.top, vals, p, new)
  OBVIOUS
<1> HIDE DEF f
<1>10. Finished(u, t, z, vals, p)
  <2>1. ReadingType(End, u) /\ TreeOK(u) /\ OpenOK(u) /\ u.top \in u.open /\ AreValues(vals) /\ Stand(vals, u, first_pass, z)
    OBVIOUS
  <2>2. p \in 1..(End + 1)
    OBVIOUS
  <2> QED BY ONLY <1>1, <1>4, <1>6, <1>7, <1>8, <1>9, <2>1, <2>2, Finishes
<1>11. /\ alloc = (IF first_pass THEN s.begun ELSE IF s.begun < z.begun THEN s.begun + 1 ELSE 0) /\ root = 1
       /\ ~first_pass => Len(values) = z.begun
       /\ s.begun <= Len(values)
  BY <1>2, CountersAre
<1>12. /\ u.top \in 1..u.begun /\ u.begun \in Nat /\ Len(vals) \in Nat /\ u.begun <= Len(vals) /\ (~first_pass => Len(vals) = z.begun)
       /\ alloc' = (IF first_pass THEN u.begun ELSE IF u.begun < z.begun THEN u.begun + 1 ELSE 0) /\ root' = 1
  BY <1>2, <1>11
<1>13. string_length' = u.size /\ u.size \in Nat
  BY <1>1 DEF Turn, Settled, ReadingOK, ReadingType
<1>14. /\ live' \subseteq (1..Len(vals)) \X {"itself", "contents"}
       /\ \A v \in 1..Len(vals) : first_pass \/ (alloc' # 0 /\ v >= alloc') =>
            vals[v].reserved = IF v < Len(vals) THEN v + 1 ELSE 0
  BY DEF Turn, Sound, Chain
<1>15. UNCHANGED <<input, first_pass, digits, at>>
  OBVIOUS
<1>16. Sound /\ pc = "parse"
  BY DEF Turn, Settled
<1> QED BY <1>4, <1>10, <1>12, <1>13, <1>14, <1>15, <1>16, FinishGoesOn

\* The character read is in the text.
LEMMA NextPlace ==
  ASSUME NEW s, NEW t, NEW z, Turn(s, t, z), b # NUL PROVE ptr < End /\ ptr + 1 \in 1..(End + 1)
<1>1. ptr \in 1..(End + 1) /\ Memory(Mem, End) /\ End \in Nat /\ Look(Mem, End, ptr) = b
  <2>1. ptr \in 1..(Len(json) + 2) /\ End = Len(json) + 1 /\ Len(json) \in Nat /\ Memory(Mem, End) /\ End \in Nat /\ Look(Mem, End, ptr) = b
    BY TextIs DEF Turn, Sound
  <2> QED BY ONLY <2>1
<1> QED BY <1>1, InTheText

\* A list ends.
LEMMA ListEnds ==
  ASSUME NEW s, NEW t, NEW z, Turn(s, t, z), s.begun > 0, "string" \notin s.flags, "done" \notin s.flags,
         NEW new, new \subseteq flags, new \cap {"string", "done", "seek_value"} = {}, t = Ended(s, ptr + 1, new \ NumberFlags),
         b # NUL, Finish(top, values, ptr + 1, new),
         UNCHANGED <<input, first_pass, string_length, digits, root, alloc, at, live>>
  PROVE  Continues(t, z) \/ Fails
<1>1. ptr + 1 \in 1..(End + 1) /\ ReadingOK(End, s)
  BY NextPlace, TurnIs
<1>2. s.top = top /\ top \in s.open
  BY TopIs
<1>3. AreValues(values) /\ Stand(values, s, first_pass, z)
  BY DEF Turn, Sound, Settled
<1>4. ReadingType(End, s) /\ TreeOK(s) /\ OpenOK(s)
  BY <1>1 DEF ReadingOK
<1>5. (new \ NumberFlags) \cap {"string", "done", "seek_value"} = {}
  OBVIOUS
<1> QED BY <1>1, <1>2, <1>3, <1>4, <1>5, EndsOn

LEMMA ListsGoOn ==
  ASSUME NEW s, NEW t, NEW z, Turn(s, t, z), CloseArray \/ CloseObject
  PROVE  Continues(t, z) \/ Fails
<1>1. /\ s.place = ptr /\ ptr \in Nat /\ Look(Mem, End, ptr) = b /\ End \in Nat /\ s.flags = flags \ NumberFlags /\ ReadingOK(End, s)
  BY TurnIs
<1>2. /\ "string" \in s.flags <=> Has("string")
      /\ "done" \in s.flags <=> Has("done")
      /\ "seek_value" \in s.flags <=> Has("seek_value")
      /\ t = IF Has("string") THEN ReadString(Mem, End, s)
             ELSE IF Has("done") THEN ReadDone(Mem, End, s)
             ELSE IF Has("seek_value") THEN ReadSeeking(Mem, End, s)
             ELSE ReadObject(Mem, End, s)
  BY TurnIs DEF ReaderFlags
<1>3. CASE CloseArray
  <2> DEFINE new == flags \ {"need_comma", "seek_value"}
  <2>1. /\ ~Has("string") /\ ~Has("done") /\ Has("seek_value") /\ b = "]" /\ top # 0 /\ T.type = "array"
        /\ Finish(top, values, ptr + 1, new)
        /\ UNCHANGED <<input, first_pass, string_length, digits, root, alloc, at, live>>
    BY <1>3 DEF CloseArray, Seeking, InArray, Has
  <2>2. s.top = top /\ s.kind[top] = "array" /\ s.begun > 0
    BY <2>1, TopIs DEF Kind
  <2>3. t = Ended(s, ptr + 1, s.flags \ {"need_comma", "seek_value"})
    BY <1>1, <1>2, <2>1, <2>2 DEF ReadSeeking, Whitespace
  <2>4. new \ NumberFlags = s.flags \ {"need_comma", "seek_value"}
    BY <1>1
  <2>5. new \subseteq flags /\ new \cap {"string", "done", "seek_value"} = {} /\ b # NUL
    BY <1>1, <2>1 DEF Has, NUL
  <2> HIDE DEF new
  <2> QED BY <1>2, <2>1, <2>2, <2>3, <2>4, <2>5, ListEnds
<1>4. CASE CloseObject
  <2> DEFINE new == flags \ {"need_comma"}
  <2>1. /\ ~Has("string") /\ ~Has("done") /\ ~Has("seek_value") /\ b = "}"
        /\ Finish(top, values, ptr + 1, new)
        /\ UNCHANGED <<input, first_pass, string_length, digits, root, alloc, at, live>>
    BY <1>4 DEF CloseObject, In, Has
  <2>2. s.begun > 0
    <3>1. s.begun # 0 /\ s.begun \in Nat
      BY <1>1, <1>2, <2>1 DEF ReadingOK, FlagsOK, ReadingType
    <3> QED BY ONLY <3>1
  <2>3. t = Ended(s, ptr + 1, s.flags \ {"need_comma"})
    BY <1>1, <1>2, <2>1, <2>2 DEF ReadObject, Whitespace
  <2>4. new \ NumberFlags = s.flags \ {"need_comma"}
    BY <1>1
  <2>5. new \subseteq flags /\ new \cap {"string", "done", "seek_value"} = {} /\ b # NUL
    BY <1>1, <2>1 DEF Has, NUL
  <2> HIDE DEF new
  <2> QED BY <1>2, <2>1, <2>2, <2>3, <2>4, <2>5, ListEnds
<1> QED BY <1>3, <1>4

\* What is known when a string ends.
Measured(s) == [s EXCEPT !.length = [s.length EXCEPT ![s.top] = s.size]]

LEMMA MeasuredIs ==
  ASSUME NEW e \in Nat, NEW s, ReadingOK(e, s), "string" \in s.flags, s.kind[s.top] = "string"
  PROVE  LET u == Measured(s) IN
         /\ ReadingType(e, u) /\ TreeOK(u) /\ OpenOK(u)
         /\ u.place = s.place /\ u.flags = s.flags /\ u.size = s.size /\ u.top = s.top /\ u.begun = s.begun /\ u.open = s.open
         /\ u.names = s.names /\ u.kind = s.kind /\ u.parent = s.parent
         /\ u.length[s.top] = s.size /\ \A v \in Nat : v # s.top => u.length[v] = s.length[v]
<1> DEFINE u == Measured(s)
<1>1. /\ s.top \in 1..s.begun /\ s.begun \in Nat /\ s.top \in Nat /\ s.size \in Nat /\ s.length \in [Nat -> Nat]
  BY InText DEF ReadingOK, ReadingType
<1>2. /\ u.place = s.place /\ u.flags = s.flags /\ u.size = s.size /\ u.top = s.top /\ u.begun = s.begun /\ u.open = s.open
      /\ u.names = s.names /\ u.kind = s.kind /\ u.parent = s.parent /\ u.length = [s.length EXCEPT ![s.top] = s.size]
  BY DEF ReadingOK, ReadingType, Measured
<1>3. ReadingType(e, u)
  <2>1. [s.length EXCEPT ![s.top] = s.size] \in [Nat -> Nat]
    BY <1>1
  <2> QED BY <2>1 DEF ReadingOK, ReadingType, Measured
<1> HIDE DEF u
<1>4. u.length[s.top] = s.size /\ \A v \in Nat : v # s.top => u.length[v] = s.length[v]
  BY <1>1, <1>2
<1>5. TreeOK(u)
  <2>1. \A v \in Nat : v > s.begun => v # s.top
    BY <1>1
  <2>2. \A v \in 1..s.begun : s.kind[v] = "other" => v # s.top /\ v \in Nat
    BY <1>1
  <2> QED BY <1>2, <1>4, <2>1, <2>2 DEF ReadingOK, TreeOK
<1>6. OpenOK(u)
  BY <1>2 DEF ReadingOK, OpenOK
<1> QED BY <1>2, <1>3, <1>4, <1>5, <1>6 DEF u

\* What the end of the text writes.
WrittenEnd(to, r) ==
  /\ AreValues(to) /\ Others(values, to, top)
  /\ to[top].type = r.type /\ to[top].parent = r.parent /\ to[top].length = r.length
  /\ to[top].names = r.names /\ to[top].reserved = r.reserved /\ to[top].room = r.room /\ to[top].slots = r.slots
  /\ first_pass => to[top].bytes = r.bytes

LEMMA EndIsWritten ==
  ASSUME NEW s, NEW t, NEW z, Turn(s, t, z), Has("string")
  PROVE  WrittenEnd(Written(<<0>>), values[top])
<1>0. ReadingOK(End, s) /\ Sound /\ Settled(s, z) /\ End \in Nat /\ "string" \in s.flags
  BY TurnIs DEF Turn, ReaderFlags
<1>1. AreValues(values) /\ Stand(values, s, first_pass, z) /\ s.top = top
  BY <1>0 DEF Sound, Settled
<1>2. CASE first_pass
  <2>1. Written(<<0>>) = values
    BY <1>2 DEF Written
  <2> QED BY <1>1, <2>1 DEF WrittenEnd, Others
<1>3. CASE ~first_pass
  <2>1. ReadingOK(End, z) /\ Paid(s, z.length, z.names)
    BY <1>3, NextIs
  <2>2. Stand(values, s, FALSE, z)
    BY <1>0, <1>1, <1>3 DEF Sound
  <2> DEFINE r == values[top]
             from == IF r.type = "object" THEN r.reserved ELSE 0
             new == <<0>>
             cell == from + string_length
  <2>3. /\ top \in 1..Len(values) /\ Len(values) \in Nat /\ r.reserved \in Nat
        /\ r.type \in {"string", "object"} /\ r.room[2] \in Nat
        /\ r.type = "string" => s.size + 1 <= r.room[2]
        /\ r.type = "object" => r.reserved + (s.size + 1) <= r.room[2]
    BY <1>0, <1>1, <2>1, <2>2, TextFits
  <2>4. string_length \in Nat /\ s.size = string_length
    BY <1>0 DEF Sound, Settled
  <2>5. IsSeq(new) /\ Len(new) = 1
    <3>1. <<0>> \in Seq(Nat)
      OBVIOUS
    <3> QED BY <3>1 DEF IsSeq
  <2>6. cell \in Nat /\ cell + Len(new) <= r.room[2]
    <3>1. from \in Nat /\ from + (s.size + 1) <= r.room[2] /\ r.room[2] \in Nat
      BY <2>3, <2>4
    <3> HIDE DEF from, r
    <3> QED BY <2>4, <2>5, <3>1
  <2>9. cell \in Nat /\ cell + Len(new) <= values[top].room[2] /\ top \in 1..Len(values)
    BY <2>3, <2>6
  <2> DEFINE to == [values EXCEPT ![top].bytes = Put(@, cell, new)]
  <2>7. Written(<<0>>) = to
    BY <1>3 DEF Written, Base, T
  <2> HIDE DEF cell, new
  <2>8. /\ AreValues(to) /\ Others(values, to, top)
        /\ to[top].type = values[top].type /\ to[top].parent = values[top].parent /\ to[top].length = values[top].length
        /\ to[top].names = values[top].names /\ to[top].reserved = values[top].reserved /\ to[top].room = values[top].room
        /\ to[top].slots = values[top].slots
    <3>1. AreValues(values)
      BY <1>1
    <3>2. IsSeq(new)
      BY <2>5
    <3> HIDE DEF from, r
    <3> QED BY ONLY <2>9, <3>1, <3>2, WrittenIs
  <2> HIDE DEF to
  <2> QED BY <1>3, <2>7, <2>8 DEF WrittenEnd
<1> QED BY <1>2, <1>3

LEMMA StringGoesOn ==
  ASSUME NEW s, NEW t, NEW z, Turn(s, t, z), CloseString
  PROVE  Continues(t, z) \/ Fails
<1> DEFINE w == Written(<<0>>)
           vals == [w EXCEPT ![top].length = string_length]
           new == flags \ {"string"}
           u == Measured(s)
           r == values[top]
<1>1. /\ Has("string") /\ ~Has("escaped") /\ b = "\"" /\ b # NUL /\ string_length <= Most /\ T.type = "string" /\ pc = "parse"
      /\ Finish(top, vals, ptr + 1, new)
      /\ UNCHANGED <<input, first_pass, string_length, digits, root, alloc, at, live>>
  BY DEF CloseString, Closes, InString
<1>2. /\ ReadingOK(End, s) /\ s.place = ptr /\ ptr \in Nat /\ End \in Nat /\ Look(Mem, End, ptr) = b /\ s.flags = flags \ NumberFlags
      /\ "string" \in s.flags /\ "escaped" \notin s.flags /\ t = ReadString(Mem, End, s)
  <2>1. /\ "string" \in s.flags <=> Has("string")
        /\ "escaped" \in s.flags <=> Has("escaped")
        /\ t = IF Has("string") THEN ReadString(Mem, End, s)
               ELSE IF Has("done") THEN ReadDone(Mem, End, s)
               ELSE IF Has("seek_value") THEN ReadSeeking(Mem, End, s)
               ELSE ReadObject(Mem, End, s)
    BY TurnIs DEF ReaderFlags
  <2> QED BY <1>1, <2>1, TurnIs
<1>3. s.size = string_length /\ string_length \in Nat /\ ~(s.size > Most)
  <2>1. s.size = string_length /\ string_length \in Nat /\ Most \in Nat
    BY TextIs DEF Turn, Settled, Sound
  <2>2. string_length <= Most
    BY <1>1
  <2> QED BY ONLY <2>1, <2>2
<1>4. s.top \in 1..s.begun /\ s.begun \in Nat /\ s.begun > 0 /\ s.top \in s.open /\ s.begun # 0
  <2>1. s.top \in 1..s.begun /\ s.begun \in Nat /\ s.top \in s.open
    BY <1>2, InText
  <2>2. s.begun > 0 /\ s.begun # 0
    BY ONLY <2>1
  <2> QED BY <2>1, <2>2
<1>5. /\ s.top = top /\ top \in 1..Len(values) /\ top <= s.begun /\ Len(values) \in Nat
      /\ Begun(r, s, top, first_pass, z) /\ s.kind[top] = "string"
  <2>1. /\ s.top = top /\ top \in 1..Len(values) /\ top <= s.begun /\ Len(values) \in Nat
        /\ Begun(values[top], s, top, first_pass, z) /\ s.kind[top] = Kind(T.type)
    BY <1>4, TopIs
  <2> QED BY <1>1, <2>1 DEF Kind
<1>6. t = Ended(u, ptr + 1, s.flags \ {"string"})
  <2>1. t = EndOfString(s)
    BY <1>1, <1>2, <1>3 DEF ReadString
  <2> QED BY <1>2, <1>5, <2>1 DEF EndOfString, Measured
<1>7. /\ ReadingType(End, u) /\ TreeOK(u) /\ OpenOK(u)
      /\ u.size = s.size /\ u.top = s.top /\ u.begun = s.begun /\ u.open = s.open
      /\ u.names = s.names /\ u.kind = s.kind /\ u.parent = s.parent
      /\ u.length[s.top] = s.size /\ \A v \in Nat : v # s.top => u.length[v] = s.length[v]
  BY <1>2, <1>5, MeasuredIs
<1>8. WrittenEnd(w, r)
  BY <1>1, EndIsWritten
<1>9. Len(w) = Len(values) /\ top \in 1..Len(w) /\ AreValues(w)
  BY <1>5, <1>8 DEF WrittenEnd, Others
<1> HIDE DEF w, u, r
<1>10. /\ AreValues(vals) /\ Others(w, vals, top) /\ vals[top].length = string_length
       /\ vals[top].type = w[top].type /\ vals[top].parent = w[top].parent /\ vals[top].names = w[top].names
       /\ vals[top].reserved = w[top].reserved /\ vals[top].room = w[top].room /\ vals[top].slots = w[top].slots
       /\ vals[top].bytes = w[top].bytes
  BY <1>3, <1>9, Counts
<1> HIDE DEF vals
<1>11. /\ Others(values, vals, top) /\ Len(vals) = Len(values)
       /\ vals[top].type = r.type /\ vals[top].parent = r.parent /\ vals[top].names = r.names
       /\ vals[top].reserved = r.reserved /\ vals[top].room = r.room /\ vals[top].slots = r.slots
       /\ first_pass => vals[top].bytes = r.bytes
  BY <1>8, <1>10 DEF WrittenEnd, Others
<1>12. \A v \in 1..Len(vals) : vals[v].reserved = values[v].reserved
  BY <1>11 DEF Others, r
<1>13. Stand(vals, u, first_pass, z)
  <2>1. Begun(vals[top], u, top, first_pass, z)
    <3>1. /\ u.length[top] = vals[top].length /\ u.parent[top] = vals[top].parent /\ u.kind[top] = Kind(vals[top].type)
      BY <1>3, <1>5, <1>7, <1>10, <1>11 DEF Begun
    <3>2. u.names[top] = NamesOf(vals[top], first_pass)
      BY <1>5, <1>7, <1>11 DEF Begun, NamesOf
    <3>3. first_pass => Blank(vals[top])
      BY <1>5, <1>11 DEF Begun, Blank
    <3>4. u.kind[top] \notin Nested /\ u.kind[top] = s.kind[top]
      BY <1>5, <1>7 DEF Nested
    <3>5. ~first_pass => vals[top].room = RoomOf(u.kind[top], z.length[top], z.names[top])
      BY <1>5, <1>11, <3>4 DEF Begun
    <3> QED BY <3>1, <3>2, <3>3, <3>4, <3>5 DEF Begun
  <2>2. Stand(values, s, first_pass, z)
    BY DEF Turn, Settled
  <2>3. \A v \in 1..Len(values) : v # top => u.length[v] = s.length[v] /\ u.names[v] = s.names[v]
    <3>1. \A v \in 1..Len(values) : v \in Nat
      BY ONLY <1>5
    <3> QED BY <1>5, <1>7, <3>1
  <2> QED BY <1>5, <1>7, <1>11, <2>1, <2>2, <2>3, StandChanged
<1>14. ptr + 1 \in 1..(End + 1)
  BY <1>1, NextPlace
<1>15. new \ NumberFlags = s.flags \ {"string"} /\ new \subseteq flags /\ (new \ NumberFlags) \cap {"string", "done", "seek_value"} = {}
  <2>1. s.flags \cap {"done", "seek_value"} = {}
    BY <1>2 DEF ReadingOK, FlagsOK
  <2>2. new \ NumberFlags = s.flags \ {"string"}
    BY <1>2
  <2>3. (s.flags \ {"string"}) \cap {"string", "done", "seek_value"} = {}
    BY <2>1
  <2> QED BY <2>2, <2>3
<1> HIDE DEF new
<1>16. u.top \in u.open /\ u.top = top
  BY <1>4, <1>5, <1>7
<1>17. t = Ended(u, ptr + 1, new \ NumberFlags)
  BY <1>6, <1>15
<1> QED BY <1>1, <1>4, <1>7, <1>10, <1>11, <1>12, <1>13, <1>14, <1>15, <1>16, <1>17, EndsOn

\* An object that gets the name of its next entry.
Naming(vals, q, x, m) == [vals EXCEPT ![q].slots = Put(@, vals[q].length, <<x>>), ![q].reserved = m]

LEMMA NameIsIn ==
  ASSUME NEW vals, AreValues(vals), NEW q \in 1..Len(vals), NEW x, IsEntry(x, Len(vals)), NEW m \in Nat,
         vals[q].length <= Len(vals[q].slots), vals[q].length + 1 <= vals[q].room[1]
  PROVE  LET to == Naming(vals, q, x, m) IN
         /\ AreValues(to) /\ Others(vals, to, q) /\ to[q].length = vals[q].length
         /\ to[q].length <= Len(to[q].slots)
         /\ to[q].type = vals[q].type /\ to[q].parent = vals[q].parent /\ to[q].names = vals[q].names
         /\ to[q].reserved = m /\ to[q].room = vals[q].room
<1> DEFINE n == vals[q].length
           slots == vals[q].slots
           put == Put(slots, n, <<x>>)
           r == [vals[q] EXCEPT !.slots = put, !.reserved = m]
           to == Naming(vals, q, x, m)
<1>0. n <= Len(slots) /\ n + 1 <= vals[q].room[1]
  OBVIOUS
<1>1. IsValue(vals[q], q, Len(vals)) /\ Len(vals) \in Nat
  BY SeqFacts DEF AreValues
<1>2. n \in Nat /\ IsSeq(slots) /\ Len(slots) \in Nat /\ vals[q].room[1] \in Nat /\ Len(slots) <= vals[q].room[1]
  BY <1>1, SeqFacts DEF IsValue
<1>3. IsSeq(<<x>>) /\ Len(<<x>>) = 1 /\ <<x>>[1] = x
  <2>1. <<x>> \in Seq({x})
    OBVIOUS
  <2> QED BY <2>1 DEF IsSeq
<1>4. /\ IsSeq(put) /\ Len(put) = Larger(n + 1, Len(slots))
      /\ \A i \in 1..Larger(n + 1, Len(slots)) :
           put[i] = IF i > n /\ i <= n + 1 THEN <<x>>[i - n] ELSE IF i <= Len(slots) THEN slots[i] ELSE -1
  <2> DEFINE one == <<x>>
  <2>1. IsSeq(one) /\ Len(one) = 1 /\ IsSeq(slots) /\ n \in Nat
    BY <1>2, <1>3
  <2> HIDE DEF one
  <2>2. /\ IsSeq(Put(slots, n, one)) /\ Len(Put(slots, n, one)) = Larger(n + Len(one), Len(slots))
        /\ \A i \in 1..Larger(n + Len(one), Len(slots)) :
             Put(slots, n, one)[i] = IF i > n /\ i <= n + Len(one) THEN one[i - n] ELSE IF i <= Len(slots) THEN slots[i] ELSE -1
    BY ONLY <2>1, PutIs, ZenonT(60)
  <2>3. n + Len(one) = n + 1
    BY <2>1
  <2> QED BY <2>2, <2>3 DEF one
<1>5. Larger(n + 1, Len(slots)) <= vals[q].room[1] /\ n <= Larger(n + 1, Len(slots))
  BY ONLY <1>0, <1>2 DEF Larger
<1>6. ASSUME NEW i \in 1..Len(put) PROVE IsEntry(put[i], Len(vals))
  <2>1. i \in 1..Larger(n + 1, Len(slots))
    BY <1>4, <1>6
  <2>2. CASE i = n + 1
    <3>0. i > n /\ i <= n + 1 /\ i - n = 1
      BY <1>2, <2>2
    <3>1. put[i] = <<x>>[1]
      BY <1>4, <2>1, <3>0
    <3> QED BY <1>3, <3>1
  <2>3. CASE i # n + 1
    <3>1. ~(i > n /\ i <= n + 1) /\ i \in 1..Len(slots) /\ i <= Len(slots)
      BY ONLY <1>0, <1>2, <2>1, <2>3 DEF Larger
    <3>2. put[i] = slots[i]
      BY <1>4, <2>1, <3>1
    <3> QED BY <1>1, <3>1, <3>2 DEF IsValue
  <2> QED BY <2>2, <2>3
<1> HIDE DEF put
<1>7. /\ IsRecord(r) /\ r.slots = put /\ r.length = n
      /\ r.type = vals[q].type /\ r.parent = vals[q].parent /\ r.names = vals[q].names
      /\ r.reserved = m /\ r.room = vals[q].room /\ r.bytes = vals[q].bytes
  BY <1>1 DEF IsValue, IsRecord
<1>8. to = [vals EXCEPT ![q] = r]
  BY DEF put, Naming
<1> HIDE DEF r, to
<1>9. IsValue(r, q, Len(vals))
  BY <1>1, <1>4, <1>5, <1>6, <1>7 DEF IsValue
<1>10. AreValues(to) /\ Others(vals, to, q) /\ to[q] = r
  BY <1>8, <1>9, Changed
<1> QED BY <1>4, <1>5, <1>7, <1>10 DEF to

\* The same in the first pass, where the bytes of the names are counted.
LEMMA NameCounts ==
  ASSUME NEW vals, AreValues(vals), NEW q \in 1..Len(vals), NEW n \in Nat
  PROVE  LET to == [vals EXCEPT ![q].names = n] IN
         /\ AreValues(to) /\ Others(vals, to, q) /\ to[q].names = n
         /\ to[q].type = vals[q].type /\ to[q].parent = vals[q].parent /\ to[q].length = vals[q].length
         /\ to[q].reserved = vals[q].reserved /\ to[q].room = vals[q].room /\ to[q].slots = vals[q].slots
         /\ to[q].bytes = vals[q].bytes
<1> DEFINE r == [vals[q] EXCEPT !.names = n]
           to == [vals EXCEPT ![q].names = n]
<1>1. IsValue(vals[q], q, Len(vals))
  BY DEF AreValues
<1>2. /\ IsRecord(r) /\ r.names = n /\ r.type = vals[q].type /\ r.parent = vals[q].parent /\ r.length = vals[q].length
      /\ r.reserved = vals[q].reserved /\ r.room = vals[q].room /\ r.slots = vals[q].slots /\ r.bytes = vals[q].bytes
  BY <1>1 DEF IsValue, IsRecord
<1>3. to = [vals EXCEPT ![q] = r]
  OBVIOUS
<1> HIDE DEF r, to
<1>4. IsValue(r, q, Len(vals))
  BY <1>1, <1>2 DEF IsValue
<1>5. AreValues(to) /\ Others(vals, to, q) /\ to[q] = r
  BY <1>3, <1>4, Changed
<1> QED BY <1>2, <1>5 DEF to

\* The values when a name has ended.
Named(to, r) ==
  /\ AreValues(to) /\ Others(values, to, top)
  /\ to[top].type = r.type /\ to[top].parent = r.parent /\ to[top].length = r.length /\ to[top].room = r.room
  /\ first_pass => to[top].names = r.names + (string_length + 1) /\ to[top].reserved = r.reserved
                   /\ to[top].slots = r.slots /\ to[top].bytes = r.bytes
  /\ ~first_pass => to[top].reserved = r.reserved + (string_length + 1) /\ to[top].length <= Len(to[top].slots)
                    /\ r.length + 1 <= r.room[1] /\ r.room[1] \in Nat /\ r.length \in Nat

LEMMA NameIsWritten ==
  ASSUME NEW s, NEW t, NEW z, Turn(s, t, z), CloseName
  PROVE  Named(values', values[top])
<1>0. ReadingOK(End, s) /\ Sound /\ Settled(s, z) /\ End \in Nat /\ Has("string") /\ "string" \in s.flags
  BY TurnIs DEF Turn, ReaderFlags, CloseName, Closes, InString
<1>1. AreValues(values) /\ Stand(values, s, first_pass, z) /\ s.top = top /\ string_length \in Nat /\ s.size = string_length
  BY <1>0 DEF Sound, Settled
<1>2. /\ top \in 1..Len(values) /\ Len(values) \in Nat /\ Begun(values[top], s, top, first_pass, z)
      /\ IsValue(values[top], top, Len(values)) /\ s.kind[top] = Kind(T.type)
  <2>1. s.begun # 0
    BY <1>0, InText
  <2> QED BY <2>1, TopIs
<1>3. T.type = "object" /\ s.kind[top] = "object"
  BY <1>2 DEF CloseName, Kind
<1>4. CASE first_pass
  <2> DEFINE n == values[top].names + (string_length + 1)
             to == [values EXCEPT ![top].names = n]
  <2>1. values' = to
    BY <1>4 DEF CloseName, NameSize
  <2>2. n \in Nat
    BY <1>1, <1>2 DEF IsValue
  <2> HIDE DEF n
  <2>3. /\ AreValues(to) /\ Others(values, to, top) /\ to[top].names = n
        /\ to[top].type = values[top].type /\ to[top].parent = values[top].parent /\ to[top].length = values[top].length
        /\ to[top].reserved = values[top].reserved /\ to[top].room = values[top].room /\ to[top].slots = values[top].slots
        /\ to[top].bytes = values[top].bytes
    BY <1>1, <1>2, <2>2, NameCounts
  <2> HIDE DEF to
  <2> QED BY <1>4, <2>1, <2>3 DEF Named, n
<1>5. CASE ~first_pass
  <2> DEFINE r == values[top]
             w == Written(<<0>>)
             m == r.reserved + (string_length + 1)
             x == [name |-> T.reserved, name_length |-> string_length, value |-> 0]
  <2>1. ReadingOK(End, z) /\ Paid(s, z.length, z.names)
    BY <1>5, NextIs
  <2>2. Stand(values, s, FALSE, z)
    BY <1>0, <1>1, <1>5 DEF Sound
  <2>3. r.reserved \in Nat /\ r.room[1] \in Nat /\ r.length + 1 <= r.room[1]
    <3>1. r.type = "object"
      BY <1>3 DEF T
    <3> QED BY <1>0, <1>1, <2>1, <2>2, <3>1, TextFits
  <2>4. r.length \in Nat /\ r.length <= Len(r.slots)
    BY <1>2, <1>3, <1>5 DEF IsValue, Begun, Nested
  <2>5. WrittenEnd(w, r)
    BY <1>0, EndIsWritten
  <2>6. values' = [w EXCEPT ![top].slots = Put(@, T.length, <<x>>), ![top].reserved = @ + NameSize]
    BY <1>5 DEF CloseName
  <2>7. IsEntry(x, Len(w)) /\ Len(w) = Len(values) /\ m \in Nat
    <3>1. Len(w) = Len(values)
      BY <2>5 DEF WrittenEnd, Others
    <3>2. 0 \in 0..Len(w)
      BY <1>2, <3>1
    <3> QED BY <1>1, <2>3, <3>1, <3>2 DEF IsEntry
  <2> HIDE DEF x, w, r
  <2>8. values' = Naming(w, top, x, m)
    <3>1. T.length = w[top].length /\ w[top].reserved + NameSize = m
      BY <2>5 DEF WrittenEnd, T, r, NameSize
    <3> QED BY <2>6, <3>1 DEF Naming
  <2>9. /\ w[top].length <= Len(w[top].slots) /\ w[top].length + 1 <= w[top].room[1] /\ top \in 1..Len(w)
    BY <1>2, <2>3, <2>4, <2>5, <2>7 DEF WrittenEnd
  <2>10. AreValues(w)
    BY <2>5 DEF WrittenEnd
  <2> HIDE DEF m
  <2>11. /\ AreValues(values') /\ Others(w, values', top) /\ values'[top].length = w[top].length
         /\ values'[top].length <= Len(values'[top].slots)
         /\ values'[top].type = w[top].type /\ values'[top].parent = w[top].parent
         /\ values'[top].reserved = m /\ values'[top].room = w[top].room
    BY <2>7, <2>8, <2>9, <2>10, NameIsIn
  <2>12. Others(values, values', top)
    BY <2>5, <2>11 DEF WrittenEnd, Others
  <2> QED BY <1>5, <2>3, <2>4, <2>5, <2>11, <2>12 DEF Named, WrittenEnd, m, r
<1> QED BY <1>4, <1>5

LEMMA NameGoesOn ==
  ASSUME NEW s, NEW t, NEW z, Turn(s, t, z), CloseName
  PROVE  Continues(t, z)
<1> DEFINE f == (s.flags \ {"string"}) \cup {"seek_value", "need_colon"}
           m == [s.names EXCEPT ![s.top] = s.names[s.top] + (s.size + 1)]
           r == values[top]
<1>1. /\ Has("string") /\ ~Has("escaped") /\ b = "\"" /\ b # NUL /\ T.type = "object" /\ pc = "parse"
      /\ ptr' = ptr + 1 /\ flags' = (flags \ {"string"}) \cup {"seek_value", "need_colon"}
      /\ UNCHANGED <<input, first_pass, string_length, digits, top, root, alloc, pc, at, live, failure>>
  BY DEF CloseName, Closes, InString, Go
<1>2. string_length <= Most
  BY DEF CloseName, Closes, InString
<1>3. /\ ReadingOK(End, s) /\ s.place = ptr /\ ptr \in Nat /\ End \in Nat /\ Look(Mem, End, ptr) = b /\ s.flags = flags \ NumberFlags
      /\ "string" \in s.flags /\ "escaped" \notin s.flags /\ t = ReadString(Mem, End, s)
  <2>1. /\ "string" \in s.flags <=> Has("string")
        /\ "escaped" \in s.flags <=> Has("escaped")
        /\ t = IF Has("string") THEN ReadString(Mem, End, s)
               ELSE IF Has("done") THEN ReadDone(Mem, End, s)
               ELSE IF Has("seek_value") THEN ReadSeeking(Mem, End, s)
               ELSE ReadObject(Mem, End, s)
    BY TurnIs DEF ReaderFlags
  <2> QED BY <1>1, <2>1, TurnIs
<1>4. s.size = string_length /\ string_length \in Nat /\ ~(s.size > Most)
  <2>1. s.size = string_length /\ string_length \in Nat /\ Most \in Nat
    BY TextIs DEF Turn, Settled, Sound
  <2> QED BY ONLY <1>2, <2>1
<1>5. s.top \in 1..s.begun /\ s.begun \in Nat /\ s.top \in s.open /\ s.begun # 0
  <2>1. s.top \in 1..s.begun /\ s.begun \in Nat /\ s.top \in s.open
    BY <1>3, InText
  <2>2. s.begun # 0
    BY ONLY <2>1
  <2> QED BY <2>1, <2>2
<1>6. /\ s.top = top /\ top \in 1..Len(values) /\ top <= s.begun /\ Len(values) \in Nat /\ top \in Nat
      /\ Begun(r, s, top, first_pass, z) /\ s.kind[top] = "object" /\ r.type = "object" /\ IsValue(r, top, Len(values))
  <2>1. /\ s.top = top /\ top \in 1..Len(values) /\ top <= s.begun /\ Len(values) \in Nat /\ IsValue(values[top], top, Len(values))
        /\ Begun(values[top], s, top, first_pass, z) /\ s.kind[top] = Kind(T.type)
    BY <1>5, TopIs
  <2>2. top \in Nat
    BY ONLY <2>1
  <2> QED BY <1>1, <2>1, <2>2 DEF Kind, T
<1>7. t = [s EXCEPT !.place = s.place + 1, !.flags = f, !.names = m]
  <2>1. t = EndOfString(s)
    BY <1>1, <1>3, <1>4 DEF ReadString
  <2> QED BY <1>6, <2>1 DEF EndOfString
<1>8. /\ t.place = ptr + 1 /\ t.flags = f /\ t.size = s.size /\ t.top = top /\ t.begun = s.begun /\ t.names = m
      /\ t.length = s.length /\ t.kind = s.kind /\ t.parent = s.parent
  BY <1>3, <1>6, <1>7 DEF ReadingOK, ReadingType
<1>9. t.names[top] = s.names[top] + (string_length + 1) /\ \A v \in Nat : v # top => t.names[v] = s.names[v]
  <2>1. s.names \in [Nat -> Nat] /\ t.names = [s.names EXCEPT ![top] = s.names[top] + (string_length + 1)] /\ top \in Nat
    BY <1>3, <1>4, <1>6, <1>8 DEF ReadingOK, ReadingType
  <2> QED BY ONLY <2>1
<1>10. f = flags' \ NumberFlags
  BY <1>1, <1>3 DEF NumberFlags
<1> HIDE DEF f, m, r
<1>11. Named(values', r)
  BY NameIsWritten DEF r
<1>12. Begun(values'[top], t, top, first_pass, z)
  <2>1. /\ t.length[top] = values'[top].length /\ t.parent[top] = values'[top].parent /\ t.kind[top] = Kind(values'[top].type)
    BY <1>6, <1>8, <1>11 DEF Begun, Named
  <2>2. t.names[top] = NamesOf(values'[top], first_pass)
    <3>1. CASE first_pass
      BY <1>6, <1>9, <1>11, <3>1 DEF Begun, Named, NamesOf
    <3>2. CASE ~first_pass
      <4>1. r.room # <<0, 0>> /\ values'[top].room = r.room /\ values'[top].type = "object"
        <5>1. r.room[1] # 0
          <6>1. r.length + 1 <= r.room[1] /\ r.room[1] \in Nat /\ r.length \in Nat
            BY <1>11, <3>2 DEF Named
          <6> QED BY ONLY <6>1
        <5>2. r.room = <<0, 0>> => r.room[1] = 0
          OBVIOUS
        <5> QED BY <1>6, <1>11, <5>1, <5>2 DEF Named
      <4>2. s.names[top] = r.reserved
        BY <1>6, <3>2, <4>1 DEF Begun, NamesOf
      <4> QED BY <1>9, <1>11, <3>2, <4>1, <4>2 DEF Named, NamesOf
    <3> QED BY <3>1, <3>2
  <2>3. first_pass => Blank(values'[top])
    BY <1>6, <1>11 DEF Begun, Blank, Named
  <2>4. ~first_pass => /\ values'[top].room = RoomOf(t.kind[top], z.length[top], z.names[top])
                       /\ values'[top].length <= Len(values'[top].slots)
    BY <1>6, <1>8, <1>11 DEF Begun, Named
  <2> QED BY <2>1, <2>2, <2>3, <2>4 DEF Begun
<1>13. Stand(values', t, first_pass, z)
  <2>1. Stand(values, s, first_pass, z)
    BY DEF Turn, Settled
  <2>2. Others(values, values', top)
    BY <1>11 DEF Named
  <2>3. \A v \in 1..Len(values) : v # top => t.length[v] = s.length[v] /\ t.names[v] = s.names[v]
    <3>1. \A v \in 1..Len(values) : v \in Nat
      BY ONLY <1>6
    <3> QED BY <1>8, <1>9, <3>1
  <2> QED BY <1>6, <1>8, <1>12, <2>1, <2>2, <2>3, StandChanged
<1>14. Settled(t, z)'
  <2>1. Settled(s, z)
    BY DEF Turn
  <2> QED BY <1>1, <1>4, <1>8, <1>10, <1>13, <2>1 DEF Settled
<1>15. Chain'
  <2>1. Sound /\ Len(values') = Len(values) /\ UNCHANGED <<first_pass, alloc>>
    BY <1>1, <1>11 DEF Turn, Named, Others
  <2>2. ASSUME NEW v \in 1..Len(values), first_pass \/ (alloc # 0 /\ v >= alloc) PROVE values'[v].reserved = values[v].reserved
    <3>1. CASE v # top
      BY <1>11, <3>1 DEF Named, Others
    <3>2. CASE v = top /\ first_pass
      BY <1>11, <3>2 DEF Named, r
    <3>3. CASE v = top /\ ~first_pass
      <4>1. alloc = IF s.begun < z.begun THEN s.begun + 1 ELSE 0
        BY <3>3 DEF Turn, Settled
      <4>2. alloc # 0 /\ v >= alloc /\ v = top
        BY <2>2, <3>3
      <4> QED BY ONLY <1>5, <1>6, <4>1, <4>2
    <3> QED BY <3>1, <3>2, <3>3
  <2> QED BY <2>1, <2>2, ChainKept
<1>16. t.place # 0
  BY <1>3, <1>8
<1> QED BY <1>11, <1>14, <1>15, <1>16 DEF Continues, Named

\* A value has begun: u is what the reader knows, vals are the values then.
Fresh(u, vals, z) ==
  /\ AreValues(vals) /\ Stand(vals, u, first_pass, z) /\ Len(vals) \in Nat
  /\ New = u.begun /\ u.begun \in 1..Len(vals) /\ (~first_pass => Len(vals) = z.begun)
  /\ alloc' = (IF first_pass THEN u.begun ELSE IF u.begun < z.begun THEN u.begun + 1 ELSE 0) /\ root' = 1
  /\ live' \subseteq (1..Len(vals)) \X {"itself", "contents"}
  /\ \A v \in 1..Len(vals) : first_pass \/ (alloc' # 0 /\ v >= alloc') => vals[v].reserved = IF v < Len(vals) THEN v + 1 ELSE 0

\* A value begins where the reader is between two of them.
Beginning(s, z, u, type) ==
  /\ JsonAssumption /\ Sound /\ Settled(s, z) /\ ReadingOK(End, s) /\ Seeks(s) /\ NewValue
  /\ End \in Nat /\ type \in Types
  /\ ReadingType(End, u) /\ TreeOK(u) /\ OpenOK(u)
  /\ u.top = s.begun + 1 /\ u.begun = s.begun + 1 /\ u.top \in u.open /\ u.length = s.length /\ u.names = s.names
  /\ u.parent[s.begun + 1] = s.top /\ u.kind[s.begun + 1] = Kind(type)
  /\ \A v \in 1..s.begun : u.parent[v] = s.parent[v] /\ u.kind[v] = s.kind[v]
  /\ ~first_pass => ReadingOK(End, z) /\ Rigid(u, z)

LEMMA ValueGrows ==
  ASSUME NEW r, NEW v, NEW n \in Nat, IsValue(r, v, n) PROVE IsValue(r, v, n + 1)
<1>1. \A i \in 1..Len(r.slots) : IsEntry(r.slots[i], n + 1)
  <2>1. ASSUME NEW i \in 1..Len(r.slots) PROVE IsEntry(r.slots[i], n + 1)
    <3>1. IsEntry(r.slots[i], n)
      BY DEF IsValue
    <3>2. r.slots[i].value \in 0..n => r.slots[i].value \in 0..(n + 1)
      OBVIOUS
    <3> QED BY <3>1, <3>2 DEF IsEntry
  <2> QED BY <2>1
<1> QED BY <1>1 DEF IsValue

\* The value that next_alloc of the one before leads to.
LEMMA ChainedIs ==
  ASSUME AreValues(values), first_pass, alloc = Len(values)
  PROVE  /\ IsSeq(Chained) /\ Len(Chained) = Len(values)
         /\ \A v \in 1..Len(values) :
              /\ IsValue(Chained[v], v, Len(values) + 1)
              /\ Chained[v].reserved = (IF v = alloc THEN alloc + 1 ELSE values[v].reserved)
              /\ Chained[v].type = values[v].type /\ Chained[v].parent = values[v].parent
              /\ Chained[v].length = values[v].length /\ Chained[v].names = values[v].names
              /\ Chained[v].room = values[v].room /\ Chained[v].slots = values[v].slots /\ Chained[v].bytes = values[v].bytes
<1> DEFINE n == Len(values)
           c == Chained
<1>1. n \in Nat /\ DOMAIN values = 1..n /\ \A v \in 1..n : IsValue(values[v], v, n)
  BY SeqFacts DEF AreValues
<1>2. c = [v \in 1..n |-> IF v = alloc THEN [values[v] EXCEPT !.reserved = n + 1] ELSE values[v]]
  BY <1>1 DEF Chained, Ids, New
<1> HIDE DEF n, c
<1>3. c = [v \in 1..n |-> c[v]]
  BY <1>2
<1>4. IsSeq(c) /\ Len(c) = n
  BY <1>1, <1>3, CellsAre
<1>5. ASSUME NEW v \in 1..n
      PROVE  /\ IsValue(c[v], v, n + 1)
             /\ c[v].reserved = (IF v = alloc THEN alloc + 1 ELSE values[v].reserved)
             /\ c[v].type = values[v].type /\ c[v].parent = values[v].parent
             /\ c[v].length = values[v].length /\ c[v].names = values[v].names
             /\ c[v].room = values[v].room /\ c[v].slots = values[v].slots /\ c[v].bytes = values[v].bytes
  <2>1. IsValue(values[v], v, n + 1)
    BY <1>1, ValueGrows
  <2>2. CASE v = alloc
    <3> DEFINE r == [values[v] EXCEPT !.reserved = n + 1]
    <3>1. c[v] = r
      BY <1>2, <2>2
    <3>2. /\ IsRecord(r) /\ r.reserved = n + 1 /\ r.type = values[v].type /\ r.parent = values[v].parent
          /\ r.length = values[v].length /\ r.names = values[v].names
          /\ r.room = values[v].room /\ r.slots = values[v].slots /\ r.bytes = values[v].bytes
      BY <2>1 DEF IsValue, IsRecord
    <3>3. n + 1 \in Nat /\ n + 1 = alloc + 1
      BY <1>1, <2>2 DEF n
    <3> HIDE DEF r
    <3>4. IsValue(r, v, n + 1)
      BY <2>1, <3>2, <3>3 DEF IsValue
    <3> QED BY <2>2, <3>1, <3>2, <3>3, <3>4
  <2>3. CASE v # alloc
    <3>1. c[v] = values[v]
      BY <1>2, <2>3
    <3> QED BY <2>1, <2>3, <3>1
  <2> QED BY <2>2, <2>3
<1> QED BY <1>4, <1>5 DEF n, c

LEMMA NewIs ==
  ASSUME NEW type \in Types, NEW n \in Nat, NEW p \in 0..n
  PROVE  LET r == NewOf(type, p) IN
         /\ IsValue(r, n + 1, n + 1) /\ Blank(r)
         /\ r.type = type /\ r.parent = p /\ r.length = 0 /\ r.names = 0 /\ r.reserved = 0
<1> DEFINE r == NewOf(type, p)
<1>1. /\ IsRecord(r) /\ r.room = <<0, 0>> /\ r.slots = <<>> /\ r.bytes = <<>>
      /\ r.type = type /\ r.parent = p /\ r.length = 0 /\ r.names = 0 /\ r.reserved = 0
  BY DEF NewOf, IsRecord
<1>2. p \in 0..((n + 1) - 1) /\ <<0, 0>> \in Nat \X Nat
  OBVIOUS
<1>3. IsSeq(<<>>) /\ Len(<<>>) = 0
  <2>1. <<>> \in Seq({})
    OBVIOUS
  <2> QED BY <2>1 DEF IsSeq
<1>4. IsValue(r, n + 1, n + 1)
  <2>1. r.room[1] = 0 /\ r.room[2] = 0 /\ Len(r.slots) = 0 /\ Len(r.bytes) = 0 /\ IsSeq(r.slots) /\ IsSeq(r.bytes)
    BY <1>1, <1>3
  <2>2. r.room \in Nat \X Nat
    BY <1>1, <1>2
  <2> HIDE DEF r
  <2> QED BY <1>1, <1>2, <2>1, <2>2 DEF IsValue
<1> QED BY <1>1, <1>4 DEF Blank

LEMMA FirstIsMade ==
  ASSUME NEW s, NEW z, NEW u, NEW type, Beginning(s, z, u, type), first_pass
  PROVE  Fresh(u, Made(type), z)
<1> DEFINE n == Len(values)
           vals == Made(type)
           c == Chained
           r == NewOf(type, top)
<1>1. /\ Sound /\ Settled(s, z) /\ AreValues(values) /\ Stand(values, s, TRUE, z) /\ s.top = top
      /\ alloc = s.begun /\ root = (IF s.begun = 0 THEN 0 ELSE 1) /\ type \in Types
      /\ live \subseteq (1..n) \X {"itself", "contents"} /\ Chain
  BY DEF Beginning, Sound, Settled
<1>2. n \in Nat /\ s.begun = n
  BY <1>1, SeqFacts DEF AreValues, Stand
<1>3. top \in 0..n
  BY <1>1 DEF Sound
<1>4. /\ IsValue(r, n + 1, n + 1) /\ Blank(r)
      /\ r.type = type /\ r.parent = top /\ r.length = 0 /\ r.names = 0 /\ r.reserved = 0
  BY <1>1, <1>2, <1>3, NewIs
<1>5. /\ IsSeq(c) /\ Len(c) = n
      /\ \A v \in 1..n :
           /\ IsValue(c[v], v, n + 1)
           /\ c[v].reserved = (IF v = alloc THEN alloc + 1 ELSE values[v].reserved)
           /\ c[v].type = values[v].type /\ c[v].parent = values[v].parent
           /\ c[v].length = values[v].length /\ c[v].names = values[v].names
           /\ c[v].room = values[v].room /\ c[v].slots = values[v].slots /\ c[v].bytes = values[v].bytes
  BY <1>1, <1>2, ChainedIs
<1> HIDE DEF c, r
<1>6. IsLonger(vals, c, r)
  BY DEF Made, c, r, IsLonger
<1> HIDE DEF vals
<1>7. IsSeq(vals) /\ Len(vals) = n + 1 /\ vals[n + 1] = r /\ \A v \in 1..n : vals[v] = c[v]
  <2>1. /\ IsSeq(vals) /\ Len(vals) = Len(c) + 1 /\ vals[Len(c) + 1] = r
        /\ \A i \in 1..Len(c) : vals[i] = c[i]
    <3>1. IsSeq(c)
      BY <1>5
    <3> QED BY ONLY <3>1, <1>6, AppendIs
  <2> QED BY <1>5, <2>1
<1> HIDE DEF n
<1>8. \A v \in 1..(n + 1) : v \in 1..n \/ v = n + 1
  BY <1>2
<1>9. AreValues(vals)
  BY <1>4, <1>5, <1>7, <1>8 DEF AreValues
<1>10. /\ u.begun = n + 1 /\ u.length = s.length /\ u.names = s.names
       /\ u.parent[n + 1] = top /\ u.kind[n + 1] = Kind(type)
       /\ \A v \in 1..n : u.parent[v] = s.parent[v] /\ u.kind[v] = s.kind[v]
  BY <1>1, <1>2 DEF Beginning
<1>11. Stand(vals, u, TRUE, z)
  <2>1. ASSUME NEW v \in 1..n PROVE Begun(vals[v], u, v, TRUE, z)
    <3>1. Begun(values[v], s, v, TRUE, z)
      <4>1. v <= s.begun
        BY <1>2
      <4>2. v \in 1..Len(values)
        BY DEF n
      <4> QED BY <1>1, <4>1, <4>2 DEF Stand
    <3> QED BY <1>5, <1>7, <1>10, <3>1 DEF Begun, NamesOf, Blank
  <2>2. Begun(vals[n + 1], u, n + 1, TRUE, z)
    <3>1. s.length[n + 1] = 0 /\ s.names[n + 1] = 0
      <4>1. n + 1 \in Nat /\ n + 1 > s.begun
        BY <1>2
      <4> QED BY <4>1 DEF Beginning, ReadingOK, TreeOK
    <3> QED BY <1>4, <1>7, <1>10, <3>1 DEF Begun, NamesOf
  <2>3. u.begun <= Len(vals) /\ Len(vals) = u.begun /\ \A v \in 1..Len(vals) : v <= u.begun
    BY <1>2, <1>7, <1>10
  <2> QED BY <1>7, <1>8, <2>1, <2>2, <2>3 DEF Stand
<1>12. New = n + 1 /\ alloc' = n + 1 /\ root' = 1
  <2>1. New = n + 1 /\ alloc' = n + 1 /\ root' = IF root = 0 THEN New ELSE root
    BY DEF Beginning, NewValue, New, n
  <2>2. (root = 0 /\ n + 1 = 1) \/ root = 1
    BY <1>1, <1>2
  <2> QED BY <2>1, <2>2
<1>13. live' \subseteq (1..(n + 1)) \X {"itself", "contents"}
  <2>1. live' = live \cup {<<New, "itself">>}
    BY DEF Beginning, NewValue, Blocks
  <2>2. (1..n) \X {"itself", "contents"} \subseteq (1..(n + 1)) \X {"itself", "contents"}
    BY <1>2
  <2>3. <<n + 1, "itself">> \in (1..(n + 1)) \X {"itself", "contents"}
    BY <1>2
  <2> QED BY <1>1, <1>12, <2>1, <2>2, <2>3 DEF n
<1>14. ASSUME NEW v \in 1..(n + 1) PROVE vals[v].reserved = IF v < n + 1 THEN v + 1 ELSE 0
  <2>1. CASE v = n + 1
    BY <1>2, <1>4, <1>7, <2>1
  <2>2. CASE v \in 1..n /\ v = alloc
    <3>1. vals[v].reserved = v + 1 /\ v < n + 1
      BY <1>2, <1>5, <1>7, <2>2
    <3> QED BY <3>1
  <2>3. CASE v \in 1..n /\ v # alloc
    <3>1. values[v].reserved = v + 1
      <4>1. v < n
        BY ONLY <1>1, <1>2, <2>3
      <4> QED BY <1>1, <2>3, <4>1 DEF Chain, n
    <3>2. vals[v].reserved = values[v].reserved /\ v < n + 1
      BY <1>2, <1>5, <1>7, <2>3
    <3> QED BY <3>1, <3>2
  <2> QED BY <1>8, <2>1, <2>2, <2>3
<1>15. n + 1 \in 1..(n + 1) /\ n + 1 \in Nat
  BY <1>2
<1>16. first_pass = TRUE
  BY <1>1 DEF Sound
<1> QED BY <1>7, <1>9, <1>10, <1>11, <1>12, <1>13, <1>14, <1>15, <1>16 DEF Fresh, vals

\* A value gets the room for what was counted.
LEMMA RoomIs ==
  ASSUME NEW r, NEW v, NEW n, IsValue(r, v, n), Blank(r)
  PROVE  LET w == WithRoom(r) IN
         /\ IsValue(w, v, n) /\ w.type = r.type /\ w.parent = r.parent /\ NamesOf(w, FALSE) = 0
         /\ w.room = RoomOf(Kind(r.type), r.length, r.names)
         /\ w.length = (IF Kind(r.type) = "other" THEN r.length ELSE 0)
<1> DEFINE room == Room(r)
           w == WithRoom(r)
<1>1. /\ IsRecord(r) /\ r.type \in Types /\ r.length \in Nat /\ r.names \in Nat /\ r.room = <<0, 0>>
      /\ r.slots = <<>> /\ r.bytes = <<>>
  BY DEF IsValue, Blank
<1>2. /\ room = RoomOf(Kind(r.type), r.length, r.names) /\ room \in Nat \X Nat
      /\ (room = <<0, 0>> /\ Kind(r.type) # "other") => r.length = 0
      /\ room # <<0, 0>> => Kind(r.type) # "other"
  <2>1. CASE r.type \in {"array", "object"}
    <3>1. Kind(r.type) = r.type /\ Kind(r.type) \in Nested /\ Kind(r.type) # "other"
      BY <2>1 DEF Kind, Nested
    <3>2. CASE r.length > 0
      <4>1. room = <<r.length, r.names>> /\ RoomOf(Kind(r.type), r.length, r.names) = <<r.length, r.names>>
        BY <2>1, <3>1, <3>2 DEF Room, RoomOf
      <4>2. room # <<0, 0>>
        <5>1. room[1] > 0
          BY <3>2, <4>1
        <5> QED BY <5>1
      <4> QED BY <1>1, <3>1, <4>1, <4>2
    <3>3. CASE ~(r.length > 0)
      <4>1. room = <<0, 0>> /\ RoomOf(Kind(r.type), r.length, r.names) = <<0, 0>>
        BY <2>1, <3>1, <3>3 DEF Room, RoomOf, Nested
      <4>2. r.length = 0
        BY <1>1, <3>3
      <4> QED BY <3>1, <4>1, <4>2
    <3> QED BY <3>2, <3>3
  <2>2. CASE r.type = "string"
    <3>1. Kind(r.type) = "string" /\ room = <<0, r.length + 1>> /\ RoomOf("string", r.length, r.names) = <<0, r.length + 1>>
      BY <2>2 DEF Kind, Room, RoomOf, Nested
    <3>2. room # <<0, 0>>
      <4>1. room[2] > 0
        BY <1>1, <3>1
      <4> QED BY <4>1
    <3> QED BY <1>1, <3>1, <3>2
  <2>3. CASE r.type \notin {"array", "object", "string"}
    <3>1. Kind(r.type) = "other" /\ room = <<0, 0>> /\ RoomOf("other", r.length, r.names) = <<0, 0>>
      BY <2>3 DEF Kind, Room, RoomOf, Nested
    <3> QED BY <3>1
  <2> QED BY <2>1, <2>2, <2>3
<1> HIDE DEF room
<1>3. CASE room = <<0, 0>>
  <2>1. w = r
    BY <1>3 DEF WithRoom, room
  <2>2. NamesOf(r, FALSE) = 0
    BY <1>1 DEF NamesOf
  <2> QED BY <1>1, <1>2, <1>3, <2>1, <2>2
<1>4. CASE room # <<0, 0>>
  <2> DEFINE m == IF r.type = "object" THEN 0 ELSE r.reserved
             x == [r EXCEPT !.room = room, !.length = 0, !.reserved = m]
  <2>1. w = x
    BY <1>4 DEF WithRoom, room
  <2>2. /\ IsRecord(x) /\ x.room = room /\ x.length = 0 /\ x.reserved = m
        /\ x.type = r.type /\ x.parent = r.parent /\ x.names = r.names /\ x.slots = r.slots /\ x.bytes = r.bytes
    BY <1>1 DEF IsRecord
  <2>3. m \in Nat
    BY DEF IsValue
  <2>4. r.type = "object" => m = 0
    OBVIOUS
  <2> HIDE DEF x, m
  <2>5. Len(x.slots) <= x.room[1] /\ Len(x.bytes) <= x.room[2]
    <3>1. Len(<<>>) = 0 /\ room[1] \in Nat /\ room[2] \in Nat
      BY <1>2
    <3>2. Len(<<>>) <= room[1] /\ Len(<<>>) <= room[2]
      BY ONLY <3>1
    <3> QED BY <1>1, <2>2, <3>2
  <2>6. 0 \in Nat
    OBVIOUS
  <2>7. IsValue(x, v, n)
    <3>1. x.type \in Types /\ x.parent \in 0..(v - 1) /\ x.length \in Nat /\ x.names \in Nat /\ x.reserved \in Nat
      BY <2>2, <2>3, <2>6 DEF IsValue
    <3>2. IsSeq(x.slots) /\ IsSeq(x.bytes) /\ \A i \in 1..Len(x.slots) : IsEntry(x.slots[i], n)
      BY <2>2 DEF IsValue
    <3> QED BY <1>2, <2>2, <2>5, <3>1, <3>2 DEF IsValue
  <2>8. NamesOf(x, FALSE) = 0
    BY <2>2, <2>4 DEF NamesOf
  <2> QED BY <1>2, <1>4, <2>1, <2>2, <2>7, <2>8
<1> QED BY <1>3, <1>4

LEMMA SecondIsMade ==
  ASSUME NEW s, NEW z, NEW u, NEW type, Beginning(s, z, u, type), ~first_pass, Kind(type) = z.kind[u.begun]
  PROVE  Fresh(u, Made(type), z)
<1> DEFINE n == Len(values)
           r == values[alloc]
           w == WithRoom(r)
           vals == Made(type)
<1>1. /\ Sound /\ Settled(s, z) /\ AreValues(values) /\ Stand(values, s, FALSE, z) /\ s.top = top
      /\ alloc = (IF s.begun < z.begun THEN s.begun + 1 ELSE 0) /\ root = (IF s.begun = 0 THEN 0 ELSE 1)
      /\ live \subseteq (1..n) \X {"itself", "contents"} /\ Chain
  BY DEF Beginning, Sound, Settled
<1>2. n \in Nat /\ n = z.begun /\ s.begun \in Nat /\ s.begun + 1 <= z.begun /\ u.begun = s.begun + 1
  <2>1. n \in Nat /\ n = z.begun
    BY <1>1, SeqFacts DEF AreValues, Stand
  <2>2. s.begun \in Nat /\ u.begun = s.begun + 1 /\ u.begun <= z.begun
    BY DEF Beginning, ReadingOK, ReadingType, Rigid
  <2> QED BY <2>1, <2>2
<1>3. alloc = s.begun + 1 /\ alloc \in 1..n /\ New = alloc
  <2>1. alloc = s.begun + 1
    BY ONLY <1>1, <1>2
  <2>2. alloc \in 1..n
    BY ONLY <1>2, <2>1
  <2> QED BY <2>1, <2>2 DEF New
<1>4. Waiting(r, alloc, z) /\ IsValue(r, alloc, n)
  <2>1. ~(alloc <= s.begun)
    BY ONLY <1>2, <1>3
  <2> QED BY <1>1, <1>3, <2>1 DEF Stand, AreValues
<1>5. Blank(r) /\ z.length[alloc] = r.length /\ z.names[alloc] = r.names /\ z.parent[alloc] = r.parent /\ z.kind[alloc] = Kind(r.type)
  BY <1>4 DEF Waiting
<1>6. /\ IsValue(w, alloc, n) /\ w.type = r.type /\ w.parent = r.parent /\ NamesOf(w, FALSE) = 0
      /\ w.room = RoomOf(Kind(r.type), r.length, r.names)
      /\ w.length = (IF Kind(r.type) = "other" THEN r.length ELSE 0)
  BY <1>4, <1>5, RoomIs
<1>7. Kind(r.type) = "other" => r.length = 0
  <2>1. alloc \in 1..z.begun
    BY <1>2, <1>3
  <2> QED BY <1>5, <2>1 DEF Beginning, ReadingOK, TreeOK
<1>8. vals = [values EXCEPT ![alloc] = w]
  BY DEF Made
<1> HIDE DEF vals, w
<1>9. AreValues(vals) /\ Others(values, vals, alloc) /\ vals[alloc] = w
  <2>1. AreValues(values) /\ alloc \in 1..Len(values) /\ IsValue(w, alloc, Len(values))
    BY <1>1, <1>3, <1>6
  <2> QED BY ONLY <1>8, <2>1, Changed
<1> HIDE DEF n, r
<1>10. /\ u.length = s.length /\ u.names = s.names /\ u.parent[alloc] = top /\ u.kind[alloc] = Kind(type)
       /\ \A v \in 1..s.begun : u.parent[v] = s.parent[v] /\ u.kind[v] = s.kind[v]
  BY <1>1, <1>3 DEF Beginning
<1>11. z.kind[alloc] = u.kind[alloc] /\ z.parent[alloc] = u.parent[alloc]
  <2>1. alloc \in 1..u.begun
    BY <1>2, <1>3
  <2> QED BY <2>1 DEF Beginning, Rigid
<1>12. s.length[alloc] = 0 /\ s.names[alloc] = 0
  <2>1. alloc \in Nat /\ alloc > s.begun
    BY <1>2, <1>3
  <2> QED BY <2>1 DEF Beginning, ReadingOK, TreeOK
<1>13. Begun(vals[alloc], u, alloc, FALSE, z)
  <2>1. w.length = 0
    BY <1>6, <1>7
  <2>2. 0 <= Len(w.slots)
    BY <1>6, SeqFacts DEF IsValue
  <2>3. w.room = RoomOf(u.kind[alloc], z.length[alloc], z.names[alloc])
    BY <1>5, <1>6, <1>11
  <2> QED BY <1>5, <1>6, <1>9, <1>10, <1>11, <1>12, <2>1, <2>2, <2>3 DEF Begun
<1>14. Stand(vals, u, FALSE, z)
  <2>1. Len(vals) = n
    BY <1>9 DEF Others, n
  <2>2. ASSUME NEW v \in 1..n PROVE IF v <= u.begun THEN Begun(vals[v], u, v, FALSE, z) ELSE Waiting(vals[v], v, z)
    <3>1. CASE v = alloc
      <4>1. v <= u.begun
        BY ONLY <1>2, <1>3, <3>1
      <4> QED BY <1>13, <3>1, <4>1
    <3>2. CASE v # alloc
      <4>1. vals[v] = values[v]
        BY <1>9, <3>2 DEF Others, n
      <4>2. IF v <= s.begun THEN Begun(values[v], s, v, FALSE, z) ELSE Waiting(values[v], v, z)
        BY <1>1 DEF Stand, n
      <4>3. v <= u.begun <=> v <= s.begun
        BY ONLY <1>2, <1>3, <3>2, v \in 1..n
      <4>4. v <= s.begun => v \in 1..s.begun
        BY <1>2
      <4> QED BY <1>10, <4>1, <4>2, <4>3, <4>4 DEF Begun
    <3> QED BY <3>1, <3>2
  <2>3. u.begun <= n
    BY ONLY <1>2
  <2> QED BY <1>2, <2>1, <2>2, <2>3 DEF Stand
<1>15. alloc' = (IF u.begun < z.begun THEN u.begun + 1 ELSE 0) /\ root' = 1
  <2>1. alloc' = r.reserved /\ root' = IF root = 0 THEN New ELSE root
    BY DEF Beginning, NewValue, r
  <2>2. r.reserved = IF alloc < n THEN alloc + 1 ELSE 0
    <3>1. alloc # 0 /\ alloc >= alloc
      BY <1>3
    <3> QED BY <1>1, <1>3, <3>1 DEF Chain, n, r
  <2>3. alloc' = (IF u.begun < z.begun THEN u.begun + 1 ELSE 0)
    BY <1>2, <1>3, <2>1, <2>2
  <2>4. root' = 1
    BY ONLY <1>1, <1>2, <1>3, <2>1
  <2> QED BY <2>3, <2>4
<1>16. live' \subseteq (1..n) \X {"itself", "contents"}
  <2>1. live' \subseteq live \cup {<<New, "contents">>}
    BY DEF Beginning, NewValue, Blocks
  <2>2. <<New, "contents">> \in (1..n) \X {"itself", "contents"}
    BY <1>3
  <2> QED BY <1>1, <2>1, <2>2 DEF n
<1>17. ASSUME NEW v \in 1..n, alloc' # 0, v >= alloc' PROVE vals[v].reserved = IF v < n THEN v + 1 ELSE 0
  <2>1. v > alloc /\ v >= alloc /\ alloc # 0 /\ v # alloc
    BY ONLY <1>2, <1>3, <1>15, <1>17
  <2>2. vals[v] = values[v]
    BY <1>9, <2>1 DEF Others, n
  <2> QED BY <1>1, <2>1, <2>2 DEF Chain, n
<1>18. first_pass = FALSE
  BY <1>1 DEF Sound
<1>19. Len(vals) = n /\ u.begun \in 1..n /\ New = u.begun
  BY <1>2, <1>3, <1>9 DEF Others, n
<1> QED BY <1>2, <1>9, <1>14, <1>15, <1>16, <1>17, <1>18, <1>19 DEF Fresh, vals

LEMMA ValueIsMade ==
  ASSUME NEW s, NEW z, NEW u, NEW type, Beginning(s, z, u, type)
  PROVE  Fresh(u, Made(type), z)
<1>1. CASE ~first_pass
  <2>1. u.begun \in 1..u.begun /\ u.begun = s.begun + 1
    <3>1. s.begun \in Nat /\ u.begun = s.begun + 1
      BY DEF Beginning, ReadingOK, ReadingType
    <3> QED BY ONLY <3>1
  <2>2. Kind(type) = z.kind[u.begun]
    BY <1>1, <2>1 DEF Beginning, Rigid
  <2> QED BY <1>1, <2>2, SecondIsMade
<1> QED BY <1>1, FirstIsMade

LEMMA StartsIs ==
  ASSUME NEW s, NEW t, NEW z, Turn(s, t, z), Starts
  PROVE  /\ Seeks(s) /\ s.flags \cap {"string", "done", "need_comma", "need_colon"} = {} /\ t = ReadValue(Mem, End, s)
         /\ ReadingOK(End, s) /\ s.place = ptr /\ ptr \in 1..(End + 1) /\ End \in Nat /\ Look(Mem, End, ptr) = b
         /\ s.flags = flags \ NumberFlags /\ s.size = string_length /\ s.top = top /\ pc = "parse"
         /\ s.flags \in SUBSET ReaderFlags
<1>1. /\ flags \cap {"string", "done"} = {} /\ "seek_value" \in flags /\ flags \cap {"need_comma", "need_colon"} = {}
      /\ b \notin Whitespace /\ b # "]" /\ pc = "parse"
  BY DEF Starts, Seeking, Has
<1>2. /\ ReadingOK(End, s) /\ s.place = ptr /\ ptr # 0 /\ End \in Nat /\ Look(Mem, End, ptr) = b /\ s.flags = flags \ NumberFlags
      /\ s.size = string_length /\ s.top = top /\ s.flags \in SUBSET ReaderFlags
  <2>1. ReadingOK(End, s) /\ s.place = ptr /\ ptr # 0 /\ End \in Nat /\ Look(Mem, End, ptr) = b /\ s.flags = flags \ NumberFlags
    BY TurnIs
  <2>2. s.size = string_length /\ s.top = top
    BY DEF Turn, Settled
  <2>3. s.flags \in SUBSET ReaderFlags
    BY <2>1 DEF ReadingOK, ReadingType
  <2> QED BY <2>1, <2>2, <2>3
<1>3. ptr \in 1..(End + 1)
  BY TextIs DEF Turn, Sound
<1>4. Seeks(s) /\ s.flags \cap {"string", "done", "need_comma", "need_colon"} = {}
  BY <1>1, <1>2 DEF Seeks, NumberFlags
<1>5. t = ReadSeeking(Mem, End, s)
  <2>1. ~Has("string") /\ ~Has("done") /\ Has("seek_value")
    BY <1>1 DEF Has
  <2> QED BY <2>1, TurnIs
<1>6. t = ReadValue(Mem, End, s)
  <2>1. Look(Mem, End, s.place) \notin Whitespace /\ Look(Mem, End, s.place) # "]"
    BY <1>1, <1>2
  <2>2. "need_comma" \notin s.flags /\ "need_colon" \notin s.flags
    BY <1>4
  <2> QED BY <1>5, <2>1, <2>2 DEF ReadSeeking
<1> QED BY <1>1, <1>2, <1>3, <1>4, <1>6

\* What a turn knows of a value that begins in it.
LEMMA BeginningIs ==
  ASSUME NEW s, NEW t, NEW z, Turn(s, t, z), Starts, NewValue, NEW type \in Types, NEW p \in 0..(End + 1),
         NEW f \in SUBSET ReaderFlags, NEW u, u = Started(s, Kind(type), p, f),
         t.begun = u.begun, t.kind = u.kind, t.parent = u.parent
  PROVE  Beginning(s, z, u, type) /\ u.place = p /\ u.flags = f /\ u.size = s.size
<1>1. Seeks(s) /\ ReadingOK(End, s) /\ End \in Nat
  BY StartsIs
<1>2. s.begun > 0 => s.top \in s.open /\ s.kind[s.top] \in Nested
  BY <1>1, SeeksIn
<1>3. Kind(type) \in Kinds \ {"none"}
  BY DEF Kind, Kinds
<1>4. /\ ReadingType(End, u) /\ TreeOK(u) /\ OpenOK(u)
      /\ u.place = p /\ u.flags = f /\ u.size = s.size /\ u.top = s.begun + 1 /\ u.begun = s.begun + 1
      /\ u.open = s.open \cup {s.begun + 1} /\ u.length = s.length /\ u.names = s.names
      /\ u.parent[s.begun + 1] = s.top /\ u.kind[s.begun + 1] = Kind(type)
      /\ \A v \in 1..s.begun : u.parent[v] = s.parent[v] /\ u.kind[v] = s.kind[v]
  <2> DEFINE kind == Kind(type)
  <2>1. u = Started(s, kind, p, f) /\ kind \in Kinds \ {"none"}
    BY <1>3
  <2>2. u.kind[s.begun + 1] = kind => u.kind[s.begun + 1] = Kind(type)
    OBVIOUS
  <2> HIDE DEF kind
  <2> QED BY <1>1, <1>2, <2>1, <2>2, StartedIs
<1>5. u.top \in u.open
  BY <1>4
<1>6. ~first_pass => ReadingOK(End, z) /\ Rigid(u, z)
  <2>1. SUFFICES ASSUME ~first_pass PROVE ReadingOK(End, z) /\ Rigid(u, z)
    OBVIOUS
  <2>2. ReadingOK(End, z) /\ Rigid(t, z)
    BY <2>1, NextIs
  <2> QED BY <2>2 DEF Rigid
<1>7. JsonAssumption /\ Sound /\ Settled(s, z)
  BY Zenon DEF Turn
<1> QED BY <1>1, <1>4, <1>5, <1>6, <1>7 DEF Beginning

\* A list or a string begins.
LEMMA Opens ==
  ASSUME NEW s, NEW t, NEW z, Turn(s, t, z), NEW type, NEW u, Beginning(s, z, u, type), NEW p \in Nat \ {0}, NEW new,
         Open(type, p, new), t.place = p, t.flags = new \ NumberFlags, t.size = string_length', t.top = u.top, t.begun = u.begun,
         t.length = u.length, t.names = u.names, t.kind = u.kind, t.parent = u.parent
  PROVE  Continues(t, z)
<1>1. Fresh(u, values', z)
  BY ValueIsMade DEF Open
<1>2. /\ top' = New /\ ptr' = p /\ flags' = new /\ first_pass' = first_pass /\ pc' = pc
      /\ UNCHANGED <<input, first_pass, pc, at, failure>>
  BY DEF Open, Go
<1>3. /\ AreValues(values') /\ Stand(values', u, first_pass, z) /\ New = u.begun /\ u.begun \in 1..Len(values')
      /\ alloc' = (IF first_pass THEN u.begun ELSE IF u.begun < z.begun THEN u.begun + 1 ELSE 0) /\ root' = 1
  BY <1>1 DEF Fresh
<1>4. Stand(values', t, first_pass, z)
  BY <1>3, StandSame
<1>5. u.begun # 0 /\ u.top = u.begun /\ pc = "parse"
  BY <1>3 DEF Beginning, Settled
<1>6. Settled(t, z)'
  BY <1>2, <1>3, <1>4, <1>5 DEF Settled
<1>7. Chain'
  BY <1>1, <1>2 DEF Fresh, Chain
<1> QED BY <1>3, <1>6, <1>7 DEF Continues

LEMMA ListsOpen ==
  ASSUME NEW s, NEW t, NEW z, Turn(s, t, z), OpenObject \/ OpenArray \/ OpenString
  PROVE  Continues(t, z)
<1>1. Starts /\ NewValue /\ b # NUL
  BY DEF OpenObject, OpenArray, OpenString, Open, NUL
<1>2. /\ t = ReadValue(Mem, End, s) /\ ReadingOK(End, s) /\ s.place = ptr /\ End \in Nat /\ Look(Mem, End, ptr) = b
      /\ s.flags = flags \ NumberFlags /\ s.size = string_length /\ s.flags \in SUBSET ReaderFlags /\ "seek_value" \in s.flags
  BY <1>1, StartsIs DEF Seeks
<1>3. ptr + 1 \in 1..(End + 1) /\ ptr + 1 \in 0..(End + 1) /\ ptr + 1 \in Nat \ {0}
  <2>1. ptr + 1 \in 1..(End + 1)
    BY <1>1, NextPlace
  <2> QED BY ONLY <2>1, <1>2
<1> DEFINE f == s.flags \ {"seek_value"}
<1>4. f \in SUBSET ReaderFlags /\ f \cup {"string"} \in SUBSET ReaderFlags
  BY <1>2 DEF ReaderFlags
<1>5. CASE OpenObject
  <2> DEFINE u == Started(s, "object", ptr + 1, f)
  <2>1. t = u
    BY <1>2, <1>5 DEF OpenObject, ReadValue
  <2>2. Kind("object") = "object" /\ "object" \in Types
    BY DEF Kind, Types
  <2> HIDE DEF f, u
  <2>3. u = Started(s, Kind("object"), ptr + 1, f)
    BY <2>2 DEF u
  <2>4. Beginning(s, z, u, "object") /\ u.place = ptr + 1 /\ u.flags = f /\ u.size = s.size
    BY <1>1, <1>3, <1>4, <2>1, <2>2, <2>3, BeginningIs
  <2>5. Open("object", ptr + 1, Sought) /\ string_length' = string_length
    BY <1>5 DEF OpenObject
  <2>6. f = Sought \ NumberFlags
    BY <1>2 DEF f, Sought, NumberFlags
  <2> QED BY <1>2, <1>3, <2>1, <2>4, <2>5, <2>6, Opens
<1>6. CASE OpenArray
  <2> DEFINE u == Started(s, "array", ptr + 1, s.flags)
  <2>1. t = u
    BY <1>2, <1>6 DEF OpenArray, ReadValue
  <2>2. Kind("array") = "array" /\ "array" \in Types
    BY DEF Kind, Types
  <2> HIDE DEF f, u
  <2>3. u = Started(s, Kind("array"), ptr + 1, s.flags)
    BY <2>2 DEF u
  <2>4. Beginning(s, z, u, "array") /\ u.place = ptr + 1 /\ u.flags = s.flags /\ u.size = s.size
    BY <1>1, <1>2, <1>3, <2>1, <2>2, <2>3, BeginningIs
  <2>5. Open("array", ptr + 1, flags) /\ string_length' = string_length
    BY <1>6 DEF OpenArray
  <2> QED BY <1>2, <1>3, <2>1, <2>4, <2>5, Opens
<1>7. CASE OpenString
  <2> DEFINE g == f \cup {"string"}
             u == Started(s, "string", ptr + 1, g)
  <2>1. t = [u EXCEPT !.size = 0]
    BY <1>2, <1>7 DEF OpenString, ReadValue
  <2>2. Kind("string") = "string" /\ "string" \in Types
    BY DEF Kind, Types
  <2>3. /\ t.begun = u.begun /\ t.kind = u.kind /\ t.parent = u.parent /\ t.top = u.top /\ t.length = u.length /\ t.names = u.names
        /\ t.place = u.place /\ t.flags = u.flags /\ t.size = 0
    BY <1>2, <2>1 DEF Started, ReadingOK, ReadingType
  <2>4. g \in SUBSET ReaderFlags
    BY <1>4
  <2> HIDE DEF f, g, u
  <2>5. u = Started(s, Kind("string"), ptr + 1, g)
    BY <2>2 DEF u
  <2>6. Beginning(s, z, u, "string") /\ u.place = ptr + 1 /\ u.flags = g /\ u.size = s.size
    BY <1>1, <1>3, <2>2, <2>3, <2>4, <2>5, BeginningIs
  <2>7. Open("string", ptr + 1, Sought \cup {"string"}) /\ string_length' = 0
    BY <1>7 DEF OpenString
  <2>8. g = (Sought \cup {"string"}) \ NumberFlags
    BY <1>2 DEF f, g, Sought, NumberFlags
  <2> QED BY <1>2, <1>3, <2>3, <2>6, <2>7, <2>8, Opens
<1> QED BY <1>5, <1>6, <1>7

\* Where a number ends.
EndsAt(m, e, p, q) == q \in p..e /\ (q = e \/ m[q] \notin NumberChars) /\ \A k \in p..(q - 1) : m[k] \in NumberChars

LEMMA BehindIs ==
  ASSUME NEW m, NEW e \in Nat, NEW p \in 1..e
  PROVE  /\ EndsAt(m, e, p, BehindNumber(m, e, p))
         /\ \A q : EndsAt(m, e, p, q) => q = BehindNumber(m, e, p)
<1> DEFINE U == {q \in p..e : q = e \/ m[q] \notin NumberChars}
           last == BehindNumber(m, e, p)
<1>1. e \in U /\ U \in SUBSET Nat
  OBVIOUS
<1>2. PICK q \in U : \A x \in U : q <= x
  <2>1. U # {}
    BY <1>1
  <2> HIDE DEF U
  <2> QED BY <1>1, <2>1, LeastElement
<1>3. \A k \in p..(q - 1) : m[k] \in NumberChars
  <2>1. SUFFICES ASSUME NEW k \in p..(q - 1), m[k] \notin NumberChars PROVE FALSE
    OBVIOUS
  <2>2. k \in U
    BY <2>1
  <2> QED BY <1>2, <2>2
<1>4. \E x \in p..e : (x = e \/ m[x] \notin NumberChars) /\ \A k \in p..(x - 1) : m[k] \in NumberChars
  BY <1>2, <1>3
<1>5. EndsAt(m, e, p, last)
  BY <1>4 DEF BehindNumber, EndsAt
<1> HIDE DEF last
<1>6. ASSUME NEW x, EndsAt(m, e, p, x) PROVE x = last
  <2>1. x \in Int /\ last \in Int /\ x \in p..e /\ last \in p..e
    BY <1>5, <1>6 DEF EndsAt
  <2>2. CASE x < last
    <3>1. x \in p..(last - 1) /\ x # e
      BY <2>1, <2>2
    <3> QED BY <1>5, <1>6, <3>1 DEF EndsAt
  <2>3. CASE last < x
    <3>1. last \in p..(x - 1) /\ last # e
      BY <2>1, <2>3
    <3> QED BY <1>5, <1>6, <3>1 DEF EndsAt
  <2> QED BY <2>1, <2>2, <2>3
<1> QED BY <1>5, <1>6 DEF last

\* The second pass finds the end the reader finds.
LEMMA NumberEndIs ==
  ASSUME Sound, End \in Nat, ptr \in 1..End
  PROVE  NumberEnd = BehindNumber(Mem, End, ptr)
<1> DEFINE q == BehindNumber(Mem, End, ptr)
           C == Digits \cup {"+", "-", "e", "E", "."}
           Fits(p) == (p = End \/ json[p] \notin C) /\ \A k \in ptr..(p - 1) : json[k] \in C
<1>1. EndsAt(Mem, End, ptr, q) /\ \A x : EndsAt(Mem, End, ptr, x) => x = q
  BY BehindIs
<1>2. ASSUME NEW p \in Nat, p < End PROVE Mem[p] = json[p]
  BY <1>2 DEF Mem, At
<1>3. ASSUME NEW p \in ptr..End PROVE Fits(p) <=> EndsAt(Mem, End, ptr, p)
  <2>1. \A k \in ptr..(p - 1) : k \in Nat /\ k < End
    OBVIOUS
  <2>2. p # End => p \in Nat /\ p < End
    OBVIOUS
  <2>3. C = NumberChars
    BY DEF NumberChars
  <2> HIDE DEF C
  <2> QED BY <1>2, <2>1, <2>2, <2>3 DEF EndsAt
<1>4. q \in ptr..End /\ Fits(q)
  <2>1. q \in ptr..End
    BY <1>1 DEF EndsAt
  <2> HIDE DEF q, Fits
  <2> QED BY <1>1, <1>3, <2>1
<1>5. NumberEnd = CHOOSE p \in ptr..End : Fits(p)
  BY DEF NumberEnd
<1> HIDE DEF q, Fits
<1>6. NumberEnd \in ptr..End /\ Fits(NumberEnd)
  BY <1>4, <1>5
<1>7. NumberEnd = q
  BY <1>1, <1>3, <1>6
<1> QED BY <1>7 DEF q

\* A word that is there is the only one.
LEMMA WordIs ==
  ASSUME Sound, End \in Nat, ptr \in Nat, Look(Mem, End, ptr) = b, NEW w \in Words, Here(w)
  PROVE  /\ WordAt(Mem, End, ptr, w) /\ w = CHOOSE x \in Words : WordAt(Mem, End, ptr, x)
         /\ b \notin Digits \cup {"{", "[", "\"", "-", NUL} /\ b = w[1] /\ Len(w) \in {4, 5}
<1>1. ASSUME NEW x \in Words PROVE /\ Len(x) \in {4, 5} /\ x[1] \in {"t", "f", "n"}
                                   /\ \A y \in Words : x[1] = y[1] => x = y
  BY DEF Words
<1>2. b = w[1] /\ End - ptr >= Len(w) - 1 /\ \A k \in 2..Len(w) : At(ptr + k - 1) = w[k]
  BY DEF Here
<1>3. WordAt(Mem, End, ptr, w)
  <2>1. ASSUME NEW k \in 2..Len(w) PROVE Mem[ptr + k - 1] = w[k]
    <3>1. k \in Nat /\ k >= 1
      BY <1>1
    <3>2. ptr + k - 1 \in Nat
      BY ONLY <3>1, ptr \in Nat
    <3> QED BY <1>2, <3>2 DEF Mem
  <2> QED BY <1>2, <2>1 DEF WordAt
<1>4. \A x \in Words : WordAt(Mem, End, ptr, x) => x = w
  BY <1>1, <1>2 DEF WordAt
<1>5. w = CHOOSE x \in Words : WordAt(Mem, End, ptr, x)
  BY <1>3, <1>4
<1>6. b \notin Digits \cup {"{", "[", "\"", "-", NUL}
  BY <1>1, <1>2 DEF Digits, NUL
<1> QED BY <1>1, <1>2, <1>3, <1>5, <1>6

\* What a value is as a number does not matter.
LEMMA NumberSet ==
  ASSUME NEW vals, AreValues(vals), NEW q \in 1..Len(vals), NEW n
  PROVE  LET to == [vals EXCEPT ![q].number = n] IN
         /\ AreValues(to) /\ Others(vals, to, q)
         /\ to[q].type = vals[q].type /\ to[q].parent = vals[q].parent /\ to[q].length = vals[q].length
         /\ to[q].names = vals[q].names /\ to[q].reserved = vals[q].reserved /\ to[q].room = vals[q].room
         /\ to[q].slots = vals[q].slots /\ to[q].bytes = vals[q].bytes
<1> DEFINE r == [vals[q] EXCEPT !.number = n]
           to == [vals EXCEPT ![q].number = n]
<1>1. IsValue(vals[q], q, Len(vals))
  BY DEF AreValues
<1>2. /\ IsRecord(r) /\ r.names = vals[q].names /\ r.type = vals[q].type /\ r.parent = vals[q].parent /\ r.length = vals[q].length
      /\ r.reserved = vals[q].reserved /\ r.room = vals[q].room /\ r.slots = vals[q].slots /\ r.bytes = vals[q].bytes
  BY <1>1 DEF IsValue, IsRecord
<1>3. to = [vals EXCEPT ![q] = r]
  OBVIOUS
<1> HIDE DEF r, to
<1>4. IsValue(r, q, Len(vals))
  BY <1>1, <1>2 DEF IsValue
<1>5. AreValues(to) /\ Others(vals, to, q) /\ to[q] = r
  BY <1>3, <1>4, Changed
<1> QED BY <1>2, <1>5 DEF to

\* The values are the same but for a number, and for integer or double.
Alike(vals, to) ==
  /\ AreValues(to) /\ Len(to) = Len(vals)
  /\ \A v \in 1..Len(vals) :
       /\ Kind(to[v].type) = Kind(vals[v].type) /\ (vals[v].type = "object" <=> to[v].type = "object")
       /\ to[v].parent = vals[v].parent /\ to[v].length = vals[v].length
       /\ to[v].names = vals[v].names /\ to[v].reserved = vals[v].reserved /\ to[v].room = vals[v].room
       /\ to[v].slots = vals[v].slots /\ to[v].bytes = vals[v].bytes

LEMMA AlikeStands ==
  ASSUME NEW vals, NEW to, Alike(vals, to), NEW s, NEW fp, NEW z, Stand(vals, s, fp, z)
  PROVE  Stand(to, s, fp, z)
  BY DEF Alike, Stand, Begun, Waiting, Blank, NamesOf

LEMMA NumberAlike ==
  ASSUME NEW vals, AreValues(vals), NEW q \in 1..Len(vals), NEW n PROVE Alike(vals, [vals EXCEPT ![q].number = n])
<1> DEFINE to == [vals EXCEPT ![q].number = n]
<1>1. /\ AreValues(to) /\ Others(vals, to, q)
      /\ to[q].type = vals[q].type /\ to[q].parent = vals[q].parent /\ to[q].length = vals[q].length
      /\ to[q].names = vals[q].names /\ to[q].reserved = vals[q].reserved /\ to[q].room = vals[q].room
      /\ to[q].slots = vals[q].slots /\ to[q].bytes = vals[q].bytes
  BY NumberSet
<1> HIDE DEF to
<1> QED BY <1>1 DEF Alike, Others, to

\* What ends is of the same values.
LEMMA EndedKeeps ==
  ASSUME NEW e \in Nat, NEW u, ReadingType(e, u), NEW p, NEW f, NEW t, t = Ended(u, p, f)
  PROVE  t.begun = u.begun /\ t.kind = u.kind /\ t.parent = u.parent
<1>1. CASE t = [u EXCEPT !.place = p, !.open = u.open \ {u.top}, !.flags = f \cup {"need_comma", "done"}]
  BY <1>1 DEF ReadingType
<1>2. CASE t = Refused(u)
  BY <1>2 DEF ReadingType, Refused
<1>3. CASE t = EndedIn(u, u.parent[u.top], p, f)
  BY <1>3 DEF ReadingType, EndedIn
<1> QED BY <1>1, <1>2, <1>3 DEF Ended

\* A value of one turn begins.
LEMMA LeafBegins ==
  ASSUME NEW s, NEW t, NEW z, Turn(s, t, z), Starts, NewValue, NEW type \in Types, Kind(type) = "other",
         NEW f, f = s.flags \ {"seek_value"}, NEW u, u = Started(s, "other", ptr, f), NEW p, t = Ended(u, p, f)
  PROVE  Beginning(s, z, u, type) /\ u.size = s.size /\ Fresh(u, Made(type), z)
<1>1. ReadingOK(End, s) /\ Seeks(s) /\ End \in Nat /\ ptr \in 1..(End + 1) /\ s.flags \in SUBSET ReaderFlags
  BY StartsIs
<1>2. f \in SUBSET ReaderFlags /\ ptr \in 0..(End + 1) /\ u = Started(s, Kind(type), ptr, f)
  BY <1>1
<1>3. ReadingType(End, u)
  <2>1. s.begun > 0 => s.top \in s.open /\ s.kind[s.top] \in Nested
    BY <1>1, SeeksIn
  <2>2. "other" \in Kinds \ {"none"}
    BY DEF Kinds
  <2> QED BY <1>1, <1>2, <2>1, <2>2, StartedIs
<1>4. t.begun = u.begun /\ t.kind = u.kind /\ t.parent = u.parent
  BY <1>1, <1>3, EndedKeeps
<1>5. Beginning(s, z, u, type) /\ u.size = s.size
  BY <1>2, <1>4, BeginningIs
<1> QED BY <1>5, ValueIsMade

\* A value of one turn begins and ends.
LEMMA LeafGoesOn ==
  ASSUME NEW s, NEW t, NEW z, Turn(s, t, z), Starts, NewValue, NEW type \in Types, Kind(type) = "other",
         NEW p \in 1..(End + 1), t = Ended(Started(s, "other", ptr, s.flags \ {"seek_value"}), p, s.flags \ {"seek_value"}),
         NEW vals, Alike(Made(type), vals), Finish(New, vals, p, Sought),
         UNCHANGED <<input, first_pass, string_length, digits, at>>
  PROVE  Continues(t, z) \/ Fails
<1> DEFINE f == s.flags \ {"seek_value"}
           u == Started(s, "other", ptr, f)
           new == Sought
<1>1. /\ Seeks(s) /\ ReadingOK(End, s) /\ End \in Nat /\ ptr \in 1..(End + 1) /\ s.flags = flags \ NumberFlags
      /\ s.size = string_length /\ s.flags \cap {"string", "done", "need_comma", "need_colon"} = {} /\ s.flags \in SUBSET ReaderFlags
  BY StartsIs
<1>2. f \in SUBSET ReaderFlags /\ f \cap {"string", "done", "seek_value"} = {} /\ f = new \ NumberFlags
      /\ new \subseteq ReaderFlags \cup NumberFlags
  <2>1. flags \subseteq ReaderFlags \cup NumberFlags
    BY DEF Turn, Sound
  <2> QED BY <1>1, <2>1 DEF Sought, NumberFlags
<1>3. t = Ended(u, p, f)
  OBVIOUS
<1> HIDE DEF u, new
<1>4. Beginning(s, z, u, type) /\ u.size = s.size /\ Fresh(u, Made(type), z)
  <2>1. f = s.flags \ {"seek_value"} /\ u = Started(s, "other", ptr, f)
    BY DEF u
  <2> HIDE DEF f
  <2> QED BY <1>3, <2>1, LeafBegins
<1> HIDE DEF f
<1>5. /\ ReadingType(End, u) /\ TreeOK(u) /\ OpenOK(u) /\ u.top \in u.open /\ u.top = u.begun /\ JsonAssumption
  BY <1>4 DEF Beginning
<1> DEFINE grown == Made(type)
<1>6. /\ Stand(grown, u, first_pass, z) /\ New = u.begun /\ u.begun \in 1..Len(grown) /\ Len(grown) \in Nat
       /\ (~first_pass => Len(grown) = z.begun)
       /\ alloc' = (IF first_pass THEN u.begun ELSE IF u.begun < z.begun THEN u.begun + 1 ELSE 0) /\ root' = 1
       /\ live' \subseteq (1..Len(grown)) \X {"itself", "contents"}
       /\ \A v \in 1..Len(grown) : first_pass \/ (alloc' # 0 /\ v >= alloc') => grown[v].reserved = IF v < Len(grown) THEN v + 1 ELSE 0
  BY <1>4 DEF Fresh
<1> HIDE DEF grown
<1>7. AreValues(vals) /\ Len(vals) = Len(grown) /\ Stand(vals, u, first_pass, z)
       /\ \A v \in 1..Len(grown) : vals[v].reserved = grown[v].reserved
  <2>1. Alike(grown, vals)
    BY DEF grown
  <2> QED BY <1>6, <2>1, AlikeStands DEF Alike
<1>8. first_pass \in BOOLEAN
  BY DEF Turn, Sound
<1>9. ~first_pass => t.place # 0 /\ PaidCounts(t, z.length, z.names) /\ ReadingOK(End, z)
  BY NextIs DEF Paid
<1>10. Finish(u.top, vals, p, new)
  BY <1>5, <1>6 DEF new
<1>11. Finished(u, t, z, vals, p)
  BY <1>1, <1>2, <1>3, <1>5, <1>7, <1>8, <1>9, <1>10, Finishes
<1>12. u.top \in 1..u.begun /\ u.begun \in Nat /\ u.begun <= Len(vals)
  <2>1. u.begun \in 1..Len(grown) /\ Len(vals) = Len(grown) /\ u.top = u.begun /\ Len(grown) \in Nat
    BY <1>5, <1>6, <1>7
  <2> QED BY ONLY <2>1
<1>13. string_length' = u.size /\ u.size \in Nat
  BY <1>1, <1>4, <1>5 DEF ReadingType
<1>14. Sound /\ pc = "parse"
  BY DEF Turn, Settled
<1> QED BY <1>5, <1>6, <1>7, <1>11, <1>12, <1>13, <1>14, FinishGoesOn

LEMMA WordsGoOn ==
  ASSUME NEW s, NEW t, NEW z, Turn(s, t, z), NEW w \in Words, Literal(w)
  PROVE  Continues(t, z) \/ Fails
<1> DEFINE type == IF w[1] = "n" THEN "null" ELSE "boolean"
           grown == Made(type)
           vals == IF w[1] = "t" THEN [grown EXCEPT ![New].number = <<1, 0>>] ELSE grown
           p == ptr + Len(w)
<1>1. Starts /\ Here(w) /\ NewValue /\ Finish(New, vals, p, Sought) /\ UNCHANGED <<input, first_pass, string_length, digits, at>>
  BY DEF Literal
<1>2. /\ ReadingOK(End, s) /\ s.place = ptr /\ ptr \in 1..(End + 1) /\ End \in Nat /\ Look(Mem, End, ptr) = b
      /\ t = ReadValue(Mem, End, s) /\ s.flags \in SUBSET ReaderFlags /\ Sound
  BY <1>1, StartsIs DEF Turn
<1>3. /\ WordAt(Mem, End, ptr, w) /\ w = CHOOSE x \in Words : WordAt(Mem, End, ptr, x)
      /\ b \notin Digits \cup {"{", "[", "\"", "-", NUL} /\ b = w[1]
  <2>1. ptr \in Nat
    BY <1>2
  <2> QED BY <1>1, <1>2, <2>1, WordIs
<1>4. p \in 1..(End + 1)
  <2>1. ptr + Len(CHOOSE x \in Words : WordAt(Mem, End, ptr, x)) \in 1..(End + 1)
    BY <1>2, <1>3, WordFits
  <2> QED BY <1>3, <2>1
<1>5. t = Ended(Started(s, "other", ptr, s.flags \ {"seek_value"}), p, s.flags \ {"seek_value"})
  BY <1>2, <1>3 DEF ReadValue
<1>6. type \in Types /\ Kind(type) = "other"
  BY DEF Types, Kind
<1> HIDE DEF type, p
<1>7. Alike(grown, vals)
  <2>1. Fresh(Started(s, "other", ptr, s.flags \ {"seek_value"}), grown, z)
    <3> DEFINE f == s.flags \ {"seek_value"}
               u == Started(s, "other", ptr, f)
    <3>1. t = Ended(u, p, f)
      BY <1>5
    <3>2. f = s.flags \ {"seek_value"} /\ u = Started(s, "other", ptr, f)
      OBVIOUS
    <3> HIDE DEF f, u
    <3>3. Fresh(u, grown, z)
      BY <1>1, <1>6, <3>1, <3>2, LeafBegins
    <3> QED BY <3>3 DEF u, f
  <2>2. AreValues(grown) /\ New \in 1..Len(grown)
    BY <2>1 DEF Fresh
  <2> HIDE DEF grown
  <2>3. CASE w[1] = "t"
    <3> DEFINE n == <<1, 0>>
    <3>1. vals = [grown EXCEPT ![New].number = n]
      BY <2>3
    <3> HIDE DEF n, vals
    <3>2. Alike(grown, [grown EXCEPT ![New].number = n])
      BY <2>2, NumberAlike
    <3> QED BY <3>1, <3>2
  <2>4. CASE w[1] # "t"
    BY <2>2, <2>4 DEF Alike
  <2> QED BY <2>3, <2>4
<1> HIDE DEF vals
<1> QED BY <1>1, <1>4, <1>5, <1>6, <1>7, LeafGoesOn

LEMMA StepGoesOn ==
  ASSUME NEW s, NEW t, NEW z, Turn(s, t, z), StepOverNumber
  PROVE  Continues(t, z) \/ Fails
<1> DEFINE type == "integer"
           grown == Made(type)
           p == NumberEnd
           f == s.flags \ {"seek_value"}
           u == Started(s, "other", ptr, f)
<1>1. Starts /\ b \in Digits \cup {"-"} /\ NewValue /\ Finish(New, grown, p, Sought) /\ UNCHANGED <<input, first_pass, string_length, digits, at>>
  BY DEF StepOverNumber
<1>2. /\ ReadingOK(End, s) /\ s.place = ptr /\ ptr \in 1..(End + 1) /\ End \in Nat /\ Look(Mem, End, ptr) = b
      /\ t = ReadValue(Mem, End, s) /\ s.flags \in SUBSET ReaderFlags /\ Sound
  BY <1>1, StartsIs DEF Turn
<1>3. b \notin {"{", "[", "\"", NUL}
  BY <1>1 DEF Digits, NUL
<1>4. ptr \in 1..End
  <2>1. ptr < End
    BY <1>3, NextPlace
  <2> QED BY ONLY <1>2, <2>1
<1>5. p = BehindNumber(Mem, End, ptr) /\ p \in 1..(End + 1)
  <2>1. p = BehindNumber(Mem, End, ptr)
    BY <1>2, <1>4, NumberEndIs
  <2>2. BehindNumber(Mem, End, ptr) \in ptr..End
    BY <1>2, <1>4, NumberEnds
  <2>3. p \in ptr..End
    BY <2>1, <2>2
  <2> HIDE DEF p
  <2>4. p \in 1..(End + 1)
    BY ONLY <1>2, <1>4, <2>3
  <2> QED BY <2>1, <2>4
<1>6. t = Ended(u, p, f)
  BY <1>1, <1>2, <1>3, <1>5 DEF ReadValue
<1>7. type \in Types /\ Kind(type) = "other"
  BY DEF Types, Kind
<1> HIDE DEF type, p
<1>8. Alike(grown, grown)
  <2>1. f = s.flags \ {"seek_value"} /\ u = Started(s, "other", ptr, f)
    OBVIOUS
  <2> HIDE DEF f, u
  <2>2. AreValues(grown)
    BY <1>1, <1>6, <1>7, <2>1, LeafBegins DEF Fresh
  <2> QED BY <2>2 DEF Alike
<1> HIDE DEF grown
<1>9. t = Ended(Started(s, "other", ptr, s.flags \ {"seek_value"}), p, s.flags \ {"seek_value"})
  BY <1>6
<1> HIDE DEF u, f
<1>10. Alike(Made(type), grown)
  BY <1>8 DEF grown
<1> QED BY <1>1, <1>5, <1>7, <1>9, <1>10, LeafGoesOn

-----------------------------------------------------------------------------
(* Numbers, which the first pass takes character by character. *)

LEMMA MemSame == ASSUME UNCHANGED input PROVE Mem' = Mem /\ End' = End
<1>1. json' = json /\ behind' = behind
  BY DEF input
<1>2. End' = End
  BY <1>1 DEF End
<1>3. \A p : At(p)' = At(p)
  BY <1>1, <1>2 DEF At
<1> QED BY <1>2, <1>3 DEF Mem

LEMMA WayStays ==
  ASSUME NEW s, NEW z, Way(s, z), UNCHANGED <<input, first_pass>> PROVE Way(s, z)'
  BY MemSame DEF Way

\* The reader in front of a number, with the value the number is to be.
NumberOf(s) == Started(s, "other", s.place, s.flags \ {"seek_value"})

\* The first pass is in the number that the reader takes next.
Numbering(s, z) ==
  /\ pc = "parse" /\ first_pass /\ Seeks(s) /\ s.flags \cap {"need_comma", "need_colon"} = {}
  /\ Look(Mem, End, s.place) \in Digits \cup {"-"}
  /\ s.place <= ptr /\ ptr <= End /\ \A k \in s.place..(ptr - 1) : Mem[k] \in NumberChars
  /\ NumberOf(s).flags = flags \ NumberFlags /\ NumberOf(s).size = string_length /\ NumberOf(s).top = top
  /\ Stand(values, NumberOf(s), TRUE, z) /\ alloc = NumberOf(s).begun /\ root = 1

\* The first pass is behind a number, at a character of numbers: it is going to fail.
Dead ==
  /\ pc = "parse" /\ first_pass /\ ~Has("string") /\ Has("need_comma") /\ b \in NumberChars \ Digits
  /\ ~Has("done") /\ ~Has("seek_value") => T.type \in Nested

LEMMA NumbersOpen ==
  ASSUME NEW s, NEW t, NEW z, Turn(s, t, z), OpenNumber
  PROVE  Numbering(s, z)' /\ AreValues(values)' /\ Chain'
<1> DEFINE f == s.flags \ {"seek_value"}
           u == Started(s, "other", ptr, f)
           p == BehindNumber(Mem, End, ptr)
           fresh == Sought \ {"num_negative", "num_e", "num_e_got_sign", "num_e_negative", "num_zero"}
<1>1. /\ Starts /\ b \in Digits \cup {"-"} /\ first_pass /\ NewValue /\ values' = Made("integer") /\ top' = New
      /\ (ptr' = ptr + 1 /\ b = "-" /\ flags' = fresh \cup {"num_negative"}) \/ (ptr' = ptr /\ flags' = fresh)
      /\ UNCHANGED <<input, first_pass, pc, at, failure, string_length>>
  BY DEF OpenNumber, Open, Go
<1>2. /\ ReadingOK(End, s) /\ s.place = ptr /\ ptr \in 1..(End + 1) /\ End \in Nat /\ Look(Mem, End, ptr) = b
      /\ t = ReadValue(Mem, End, s) /\ Seeks(s) /\ s.flags \cap {"string", "done", "need_comma", "need_colon"} = {}
      /\ s.flags = flags \ NumberFlags /\ s.size = string_length /\ pc = "parse"
  BY <1>1, StartsIs
<1>4. ptr < End /\ Mem[ptr] = b
  <2>1. ptr < End
    <3>1. b # NUL
      BY <1>1 DEF Digits, NUL
    <3> QED BY <3>1, NextPlace
  <2>2. ptr # End
    BY ONLY <1>2, <2>1
  <2> QED BY <1>2, <2>1, <2>2 DEF Look
<1>5. t = Ended(u, p, f)
  <2>1. b \notin {"{", "[", "\""}
    BY <1>1 DEF Digits
  <2> QED BY <1>1, <1>2, <2>1 DEF ReadValue
<1>6. "integer" \in Types /\ Kind("integer") = "other"
  BY DEF Types, Kind
<1>7. u = NumberOf(s) /\ f = s.flags \ {"seek_value"}
  BY <1>2 DEF NumberOf
<1>8. fresh \ NumberFlags = f /\ (fresh \cup {"num_negative"}) \ NumberFlags = f
  BY <1>2 DEF Sought, NumberFlags
<1>13. u.flags = f
  BY <1>2 DEF ReadingOK, ReadingType, Started
<1>14. u = Started(s, "other", ptr, f)
  OBVIOUS
<1> HIDE DEF f, u, p, fresh
<1>9. Beginning(s, z, u, "integer") /\ u.size = s.size /\ Fresh(u, Made("integer"), z)
  BY <1>1, <1>5, <1>6, <1>7, <1>14, LeafBegins
<1>10. /\ AreValues(values') /\ Stand(values', u, TRUE, z) /\ New = u.begun /\ alloc' = u.begun /\ root' = 1 /\ u.top = u.begun
       /\ \A v \in 1..Len(values') : values'[v].reserved = IF v < Len(values') THEN v + 1 ELSE 0
  <2>1. first_pass = TRUE
    BY <1>1 DEF Turn, Sound
  <2> QED BY <1>1, <1>9, <2>1 DEF Fresh, Beginning
<1>11. s.place <= ptr' /\ ptr' <= End /\ \A k \in s.place..(ptr' - 1) : Mem[k] \in NumberChars
  <2>1. CASE ptr' = ptr
    <3>1. \A k \in s.place..(ptr' - 1) : FALSE
      BY <1>2, <2>1
    <3> QED BY <1>2, <1>4, <2>1, <3>1
  <2>2. CASE ptr' = ptr + 1 /\ b = "-"
    <3>1. \A k \in s.place..(ptr' - 1) : k = ptr
      BY <1>2, <2>2
    <3>2. Mem[ptr] \in NumberChars
      BY <1>4, <2>2 DEF NumberChars
    <3> QED BY <1>2, <1>4, <2>2, <3>1, <3>2
  <2> QED BY <1>1, <2>1, <2>2
<1>12. Numbering(s, z)'
  <2>1. Mem' = Mem /\ End' = End
    BY <1>1, MemSame
  <2>2. u.flags = flags' \ NumberFlags /\ u.size = string_length' /\ u.top = top' /\ first_pass'
    BY <1>1, <1>2, <1>8, <1>9, <1>10, <1>13
  <2>3. s.flags \cap {"need_comma", "need_colon"} = {}
    BY <1>2
  <2> QED BY <1>1, <1>2, <1>7, <1>10, <1>11, <2>1, <2>2, <2>3 DEF Numbering
<1> QED BY <1>10, <1>12 DEF Chain

\* In a number: the reading in front of it, and the next one.
NumberTurn(s, t, z) == JsonAssumption /\ Sound /\ Way(s, z) /\ Numbering(s, z) /\ t = Read(Mem, End, s)

LEMMA NumberTurnIs ==
  ASSUME NEW s, NEW t, NEW z, NumberTurn(s, t, z), NEW u, u = NumberOf(s), NEW f, f = s.flags \ {"seek_value"}
  PROVE  /\ ReadingOK(End, s) /\ End \in Nat /\ End = Len(json) + 1 /\ s.place \in 1..End /\ ptr \in 1..End /\ Look(Mem, End, ptr) = b
         /\ ReadingType(End, u) /\ TreeOK(u) /\ OpenOK(u) /\ u.top \in u.open /\ u.top = u.begun /\ u.top = top
         /\ Len(values) \in Nat /\ u.begun = Len(values) /\ top \in 1..Len(values) /\ Kind(T.type) = "other"
         /\ u.flags = f /\ f \in SUBSET ReaderFlags /\ flags \cap {"string", "done", "seek_value", "need_comma", "need_colon"} = {}
         /\ t = Ended(u, BehindNumber(Mem, End, s.place), f)
<1>1. JsonAssumption
  BY Zenon DEF NumberTurn
<1>2. Sound /\ Way(s, z) /\ Numbering(s, z) /\ t = Read(Mem, End, s)
  BY Zenon DEF NumberTurn
<1>3. /\ Seeks(s) /\ s.flags \cap {"need_comma", "need_colon"} = {} /\ Look(Mem, End, s.place) \in Digits \cup {"-"} /\ s.place <= ptr /\ ptr <= End
      /\ u.flags = flags \ NumberFlags /\ u.top = top /\ Stand(values, u, TRUE, z) /\ first_pass
  BY <1>2 DEF Numbering
<1>4. ReadingOK(End, s) /\ s.place # 0
  BY <1>1, <1>2, WayIs
<1>5. End \in Nat /\ End = Len(json) + 1 /\ Look(Mem, End, ptr) = b
  BY <1>1, <1>2, TextIs
<1>6. s.place \in 0..(End + 1) /\ s.flags \in SUBSET ReaderFlags /\ s.begun \in Nat
  BY <1>4 DEF ReadingOK, ReadingType
<1>7. s.place \in 1..End /\ ptr \in 1..End
  <2>1. ptr \in Nat
    BY <1>2 DEF Sound
  <2> QED BY ONLY <1>3, <1>4, <1>5, <1>6, <2>1
<1>8. /\ ReadingType(End, u) /\ TreeOK(u) /\ OpenOK(u) /\ u.flags = f
      /\ u.top = s.begun + 1 /\ u.begun = s.begun + 1 /\ u.open = s.open \cup {s.begun + 1} /\ u.kind[s.begun + 1] = "other"
  <2>1. s.begun > 0 => s.top \in s.open /\ s.kind[s.top] \in Nested
    BY <1>3, <1>4, <1>5, SeeksIn
  <2>2. "other" \in Kinds \ {"none"} /\ f \in SUBSET ReaderFlags /\ u = Started(s, "other", s.place, f)
    BY <1>6 DEF Kinds, NumberOf
  <2> QED BY <1>4, <1>5, <1>6, <2>1, <2>2, StartedIs
<1>9. Len(values) \in Nat /\ u.begun = Len(values)
  <2>1. Len(values) \in Nat
    BY <1>2, SeqFacts DEF Sound, AreValues
  <2> QED BY <1>3, <2>1 DEF Stand
<1>10. top \in 1..Len(values) /\ u.top = u.begun
  BY <1>3, <1>6, <1>8, <1>9
<1>11. Kind(T.type) = "other"
  <2>1. Begun(values[top], u, top, TRUE, z)
    <3> QED BY <1>3, <1>9, <1>10 DEF Stand
  <2> QED BY <1>3, <1>8, <2>1 DEF Begun, T
<1>12. flags \cap {"string", "done", "seek_value", "need_comma", "need_colon"} = {}
  <2>1. f \cap {"string", "done", "seek_value", "need_comma", "need_colon"} = {}
    BY <1>3 DEF Seeks
  <2>2. f = flags \ NumberFlags
    BY <1>3, <1>8
  <2> QED BY <2>1, <2>2 DEF NumberFlags
<1>13. t = Ended(u, BehindNumber(Mem, End, s.place), f)
  <2>1. Look(Mem, End, s.place) \notin Whitespace \cup {"]", "{", "[", "\""}
    BY <1>3 DEF Digits, Whitespace
  <2>2. t = ReadSeeking(Mem, End, s)
    BY <1>2, <1>3, <1>4 DEF Read, Seeks
  <2>3. t = ReadValue(Mem, End, s)
    BY <1>3, <2>1, <2>2 DEF ReadSeeking
  <2> QED BY <1>3, <2>1, <2>3 DEF ReadValue, NumberOf
<1>14. u.top \in u.open
  BY <1>8
<1>15. f \in SUBSET ReaderFlags
  BY <1>6
<1> QED BY <1>15, <1>3, <1>4, <1>5, <1>6, <1>7, <1>8, <1>9, <1>10, <1>11, <1>12, <1>13, <1>14

\* One more character of the number.
LEMMA NumberStays ==
  ASSUME NEW s, NEW t, NEW z, NumberTurn(s, t, z), b \in NumberChars, NEW new, new \ NumberFlags = flags \ NumberFlags,
         NumberGoes(new, ptr + 1), Alike(values, values')
  PROVE  Numbering(s, z)' /\ AreValues(values)' /\ Chain'
<1> DEFINE u == NumberOf(s)
<1>1. /\ ptr' = ptr + 1 /\ flags' = new /\ UNCHANGED <<input, first_pass, string_length, top, root, alloc, pc, at, live, failure>>
  BY DEF NumberGoes, Go
<1>2. /\ End \in Nat /\ s.place \in 1..End /\ ptr \in 1..End /\ Look(Mem, End, ptr) = b
  <2>1. PICK x : x = NumberOf(s)
    OBVIOUS
  <2>2. PICK f : f = s.flags \ {"seek_value"}
    OBVIOUS
  <2> QED BY <2>1, <2>2, NumberTurnIs
<1>3. Numbering(s, z) /\ Sound
  BY DEF NumberTurn
<1>4. ptr # End
  BY <1>2 DEF Look, NumberChars, Digits, NUL
<1>5. Mem[ptr] = b
  BY <1>2, <1>4 DEF Look
<1>6. s.place <= ptr' /\ ptr' <= End /\ \A k \in s.place..(ptr' - 1) : Mem[k] \in NumberChars
  <2>1. s.place <= ptr' /\ ptr' <= End
    <3>1. ptr' = ptr + 1 /\ s.place <= ptr
      BY <1>1, <1>3 DEF Numbering
    <3> QED BY ONLY <1>2, <1>4, <3>1
  <2>2. ASSUME NEW k \in s.place..(ptr' - 1) PROVE Mem[k] \in NumberChars
    <3>1. k = ptr \/ k \in s.place..(ptr - 1)
      <4>1. ptr' = ptr + 1
        BY <1>1
      <4> QED BY ONLY <1>2, <2>2, <4>1
    <3> QED BY <1>3, <1>5, <3>1 DEF Numbering
  <2> QED BY <2>1, <2>2
<1>7. Mem' = Mem /\ End' = End
  BY <1>1, MemSame
<1>8. Stand(values', u, TRUE, z)
  <2>1. Stand(values, u, TRUE, z)
    BY <1>3 DEF Numbering
  <2> HIDE DEF u
  <2> QED BY <2>1, AlikeStands
<1>9. Numbering(s, z)'
  BY <1>1, <1>3, <1>6, <1>7, <1>8 DEF Numbering
<1>10. Chain'
  <2>1. /\ Len(values') = Len(values) /\ UNCHANGED <<first_pass, alloc>>
        /\ \A v \in 1..Len(values) : values'[v].reserved = values[v].reserved
    BY <1>1 DEF Alike
  <2> QED BY <1>3, <2>1, ChainKept
<1> QED BY <1>9, <1>10 DEF Alike

\* The same values with an integer or a double in them.
LEMMA TypeAlike ==
  ASSUME NEW vals, AreValues(vals), NEW q \in 1..Len(vals), Kind(vals[q].type) = "other"
  PROVE  Alike(vals, [vals EXCEPT ![q].type = "double"])
<1> DEFINE r == [vals[q] EXCEPT !.type = "double"]
           to == [vals EXCEPT ![q].type = "double"]
<1>1. IsValue(vals[q], q, Len(vals))
  BY DEF AreValues
<1>2. /\ IsRecord(r) /\ r.type = "double" /\ r.names = vals[q].names /\ r.parent = vals[q].parent /\ r.length = vals[q].length
      /\ r.reserved = vals[q].reserved /\ r.room = vals[q].room /\ r.slots = vals[q].slots /\ r.bytes = vals[q].bytes
  BY <1>1 DEF IsValue, IsRecord
<1>3. to = [vals EXCEPT ![q] = r]
  OBVIOUS
<1> HIDE DEF r, to
<1>4. IsValue(r, q, Len(vals))
  <2>1. r.type \in Types
    BY <1>2 DEF Types
  <2> QED BY <1>1, <1>2, <2>1 DEF IsValue
<1>5. AreValues(to) /\ Others(vals, to, q) /\ to[q] = r
  BY <1>3, <1>4, Changed
<1>6. Kind(r.type) = Kind(vals[q].type) /\ r.type # "object" /\ vals[q].type # "object"
  BY <1>2 DEF Kind
<1> QED BY <1>2, <1>5, <1>6 DEF to, Alike, Others

LEMMA AlikeTwice ==
  ASSUME NEW a, NEW c, NEW d, Alike(a, c), Alike(c, d) PROVE Alike(a, d)
  BY DEF Alike

\* Digits are numbers.
LEMMA DigitIs == ASSUME NEW c \in Digits PROVE Digit(c) \in Nat
<1> DEFINE place(d) == CHOOSE i \in DOMAIN Ascii : Ascii[i] = d
<1>1. /\ DOMAIN Ascii = 1..95
      /\ Ascii[17] = "0" /\ Ascii[18] = "1" /\ Ascii[19] = "2" /\ Ascii[20] = "3" /\ Ascii[21] = "4"
      /\ Ascii[22] = "5" /\ Ascii[23] = "6" /\ Ascii[24] = "7" /\ Ascii[25] = "8" /\ Ascii[26] = "9"
  BY DEF Ascii
<1>2. /\ Ascii[1] \notin Digits /\ Ascii[2] \notin Digits /\ Ascii[3] \notin Digits /\ Ascii[4] \notin Digits
      /\ Ascii[5] \notin Digits /\ Ascii[6] \notin Digits /\ Ascii[7] \notin Digits /\ Ascii[8] \notin Digits
      /\ Ascii[9] \notin Digits /\ Ascii[10] \notin Digits /\ Ascii[11] \notin Digits /\ Ascii[12] \notin Digits
      /\ Ascii[13] \notin Digits /\ Ascii[14] \notin Digits /\ Ascii[15] \notin Digits /\ Ascii[16] \notin Digits
  BY DEF Ascii, Digits
<1>3. /\ Ascii[18] # "0" /\ Ascii[19] # "0" /\ Ascii[20] # "0" /\ Ascii[21] # "0" /\ Ascii[22] # "0"
      /\ Ascii[23] # "0" /\ Ascii[24] # "0" /\ Ascii[25] # "0" /\ Ascii[26] # "0" /\ Ascii[27] # "0"
      /\ Ascii[28] # "0" /\ Ascii[29] # "0" /\ Ascii[30] # "0" /\ Ascii[31] # "0" /\ Ascii[32] # "0"
      /\ Ascii[33] # "0" /\ Ascii[34] # "0" /\ Ascii[35] # "0" /\ Ascii[36] # "0" /\ Ascii[37] # "0"
      /\ Ascii[38] # "0" /\ Ascii[39] # "0" /\ Ascii[40] # "0" /\ Ascii[41] # "0" /\ Ascii[42] # "0"
      /\ Ascii[43] # "0" /\ Ascii[44] # "0" /\ Ascii[45] # "0" /\ Ascii[46] # "0" /\ Ascii[47] # "0"
      /\ Ascii[48] # "0" /\ Ascii[49] # "0" /\ Ascii[50] # "0" /\ Ascii[51] # "0" /\ Ascii[52] # "0"
      /\ Ascii[53] # "0" /\ Ascii[54] # "0" /\ Ascii[55] # "0" /\ Ascii[56] # "0" /\ Ascii[57] # "0"
      /\ Ascii[58] # "0" /\ Ascii[59] # "0" /\ Ascii[60] # "0" /\ Ascii[61] # "0" /\ Ascii[62] # "0"
      /\ Ascii[63] # "0" /\ Ascii[64] # "0" /\ Ascii[65] # "0" /\ Ascii[66] # "0" /\ Ascii[67] # "0"
      /\ Ascii[68] # "0" /\ Ascii[69] # "0" /\ Ascii[70] # "0" /\ Ascii[71] # "0" /\ Ascii[72] # "0"
      /\ Ascii[73] # "0" /\ Ascii[74] # "0" /\ Ascii[75] # "0" /\ Ascii[76] # "0" /\ Ascii[77] # "0"
      /\ Ascii[78] # "0" /\ Ascii[79] # "0" /\ Ascii[80] # "0" /\ Ascii[81] # "0" /\ Ascii[82] # "0"
      /\ Ascii[83] # "0" /\ Ascii[84] # "0" /\ Ascii[85] # "0" /\ Ascii[86] # "0" /\ Ascii[87] # "0"
      /\ Ascii[88] # "0" /\ Ascii[89] # "0" /\ Ascii[90] # "0" /\ Ascii[91] # "0" /\ Ascii[92] # "0"
      /\ Ascii[93] # "0" /\ Ascii[94] # "0" /\ Ascii[95] # "0"
  BY DEF Ascii
<1>4. ASSUME NEW d \in Digits PROVE place(d) \in 1..95 /\ Ascii[place(d)] = d /\ Code[d] = 31 + place(d)
  <2>1. \E i \in DOMAIN Ascii : Ascii[i] = d
    <3>1. 17 \in 1..95 /\ 18 \in 1..95 /\ 19 \in 1..95 /\ 20 \in 1..95 /\ 21 \in 1..95
          /\ 22 \in 1..95 /\ 23 \in 1..95 /\ 24 \in 1..95 /\ 25 \in 1..95 /\ 26 \in 1..95
      OBVIOUS
    <3>2. d = "0" \/ d = "1" \/ d = "2" \/ d = "3" \/ d = "4" \/ d = "5" \/ d = "6" \/ d = "7" \/ d = "8" \/ d = "9"
      BY DEF Digits
    <3> QED BY ONLY <1>1, <3>1, <3>2
  <2>2. place(d) \in DOMAIN Ascii /\ Ascii[place(d)] = d
    BY <2>1
  <2>3. d \in Printable /\ d # "\n" /\ d # "\t" /\ d # "\r"
    BY <2>1 DEF Printable, Digits
  <2>4. Code[d] = 31 + place(d)
    BY <2>3 DEF Code
  <2> QED BY <1>1, <2>2, <2>4
<1> HIDE DEF place
<1>5. place("0") = 17
  <2>1. "0" \in Digits
    BY DEF Digits
  <2>2. place("0") \in 1..95 /\ Ascii[place("0")] = "0"
    BY <1>4, <2>1
  <2> DEFINE k == place("0")
  <2>3. \A i \in 1..16 : Ascii[i] # "0"
    BY <1>2, <2>1
  <2>4. \A i \in 18..95 : Ascii[i] # "0"
    BY <1>3
  <2> QED BY <2>2, <2>3, <2>4
<1>6. place(c) \in 17..95
  <2>1. \A i \in 1..16 : Ascii[i] \notin Digits
    BY <1>2
  <2> QED BY <1>4, <2>1
<1>7. Code["0"] = 48 /\ Code[c] \in Nat /\ Code[c] >= 48
  <2>1. "0" \in Digits
    BY DEF Digits
  <2> QED BY <1>4, <1>5, <1>6, <2>1
<1> QED BY <1>7 DEF Digit

Numbers == num_digits \in Nat /\ num_fraction \in Nat /\ num_e \in Nat

LEMMA NumbersGoOn ==
  ASSUME NEW s, NEW t, NEW z, NumberTurn(s, t, z), NumberDigit \/ Sign \/ Point \/ Exponent
  PROVE  Numbering(s, z)' /\ AreValues(values)' /\ Chain' /\ Numbers' /\ UNCHANGED <<input, first_pass, live, failure>>
<1>1. /\ top \in 1..Len(values) /\ Kind(T.type) = "other" /\ AreValues(values) /\ Numbers
  <2>1. PICK x : x = NumberOf(s)
    OBVIOUS
  <2>2. PICK f : f = s.flags \ {"seek_value"}
    OBVIOUS
  <2>3. top \in 1..Len(values) /\ Kind(T.type) = "other"
    BY <2>1, <2>2, NumberTurnIs
  <2> QED BY <2>3 DEF NumberTurn, Sound, Numbers
<1>2. Alike(values, values)
  BY <1>1 DEF Alike
<1>3. ASSUME NEW new, NumberGoes(new, ptr + 1), new \ NumberFlags = flags \ NumberFlags, b \in NumberChars,
             Alike(values, values'), Numbers'
      PROVE  Numbering(s, z)' /\ AreValues(values)' /\ Chain' /\ Numbers' /\ UNCHANGED <<input, first_pass, live, failure>>
  <2>1. Numbering(s, z)' /\ AreValues(values)' /\ Chain'
    BY <1>3, NumberStays
  <2> QED BY <1>3, <2>1 DEF NumberGoes
<1>4. CASE NumberDigit
  <2>1. b \in Digits /\ b \in NumberChars /\ Digit(b) \in Nat
    BY <1>4, DigitIs DEF NumberDigit, NumberChars
  <2>2. num_digits' = num_digits + 1 /\ num_digits' \in Nat
    BY <1>1, <1>4 DEF NumberDigit, Numbers
  <2>3. CASE /\ num_e' = 10 * num_e + Digit(b) /\ NumberGoes(flags \cup {"num_e_got_sign"}, ptr + 1)
             /\ UNCHANGED <<values, num_fraction>>
    <3> DEFINE new == flags \cup {"num_e_got_sign"}
    <3>1. new \ NumberFlags = flags \ NumberFlags /\ NumberGoes(new, ptr + 1)
      BY <2>3 DEF NumberFlags
    <3>2. Numbers' /\ values' = values
      BY <1>1, <2>1, <2>2, <2>3 DEF Numbers
    <3> HIDE DEF new
    <3> QED BY <1>2, <1>3, <2>1, <3>1, <3>2
  <2>4. CASE /\ values' = [values EXCEPT ![top].number[1] = 10 * @ + Digit(b)]
             /\ NumberGoes(IF num_digits = 0 /\ b = "0" THEN flags \cup {"num_zero"} ELSE flags, ptr + 1)
             /\ UNCHANGED <<num_fraction, num_e>>
    <3> DEFINE new == IF num_digits = 0 /\ b = "0" THEN flags \cup {"num_zero"} ELSE flags
               n == [values[top].number EXCEPT ![1] = 10 * @ + Digit(b)]
    <3>1. new \ NumberFlags = flags \ NumberFlags /\ NumberGoes(new, ptr + 1)
      BY <2>4 DEF NumberFlags
    <3>2. Numbers'
      BY <1>1, <2>2, <2>4 DEF Numbers
    <3>3. values' = [values EXCEPT ![top].number = n]
      BY <2>4
    <3> HIDE DEF new, n
    <3>4. Alike(values, values')
      BY <1>1, <3>3, NumberAlike
    <3> QED BY <1>3, <2>1, <3>1, <3>2, <3>4
  <2>5. CASE /\ num_fraction' = 10 * num_fraction + Digit(b) /\ NumberGoes(flags, ptr + 1) /\ UNCHANGED <<values, num_e>>
    <3>1. Numbers' /\ values' = values
      BY <1>1, <2>1, <2>2, <2>5 DEF Numbers
    <3> QED BY <1>2, <1>3, <2>1, <2>5, <3>1
  <2> QED BY <1>4, <2>3, <2>4, <2>5 DEF NumberDigit
<1>5. CASE Sign
  <2> DEFINE new == flags \cup {"num_e_got_sign"} \cup (IF b = "-" THEN {"num_e_negative"} ELSE {})
  <2>1. b \in NumberChars
    BY <1>5 DEF Sign, IsSign, NumberChars
  <2>2. new \ NumberFlags = flags \ NumberFlags /\ NumberGoes(new, ptr + 1)
    BY <1>5 DEF NumberFlags, Sign
  <2>3. Numbers' /\ values' = values
    BY <1>1, <1>5 DEF Numbers, Sign, digits
  <2> HIDE DEF new
  <2> QED BY <1>2, <1>3, <2>1, <2>2, <2>3
<1>6. CASE Point
  <2>1. b \in NumberChars /\ NumberGoes(flags, ptr + 1) /\ values' = [values EXCEPT ![top].type = "double"]
    BY <1>6 DEF Point, IsPoint, NumberChars
  <2>2. Numbers'
    BY <1>1, <1>6 DEF Numbers, Point
  <2>3. Alike(values, values')
    BY <1>1, <2>1, TypeAlike DEF T
  <2> QED BY <1>3, <2>1, <2>2, <2>3
<1>7. CASE Exponent
  <2> DEFINE new == (flags \cup {"num_e"}) \ {"num_zero"}
             typed == [values EXCEPT ![top].type = "double"]
             n == WithFraction
  <2>1. b \in NumberChars
    BY <1>7 DEF Exponent, IsExponent, NumberChars
  <2>2. new \ NumberFlags = flags \ NumberFlags /\ NumberGoes(new, ptr + 1)
    BY <1>7 DEF NumberFlags, Exponent
  <2>3. Numbers'
    BY <1>1, <1>7 DEF Numbers, Exponent
  <2>4. Alike(values, typed)
    BY <1>1, TypeAlike DEF T
  <2>5. AreValues(typed) /\ top \in 1..Len(typed)
    <3> HIDE DEF typed
    <3> QED BY <1>1, <2>4 DEF Alike
  <2> HIDE DEF n
  <2>6. values' = [typed EXCEPT ![top].number = n]
    <3>1. values' = [values EXCEPT ![top].type = "double", ![top].number = n]
      BY <1>7 DEF Exponent, n
    <3> QED BY <3>1
  <2> HIDE DEF new, typed
  <2>7. Alike(typed, values')
    BY <2>5, <2>6, NumberAlike
  <2>8. Alike(values, values')
    BY <2>4, <2>7, AlikeTwice
  <2> QED BY <1>3, <2>1, <2>2, <2>3, <2>8
<1> QED BY <1>4, <1>5, <1>6, <1>7

\* The number ends where the reader says, or what follows is no text.
LEMMA NumberEndsOn ==
  ASSUME NEW s, NEW t, NEW z, NumberTurn(s, t, z), EndNumber
  PROVE  Fails \/ \E x : Continues(x, z) /\ ReadingOK(End, x) /\ (x = t \/ Dead')
<1> DEFINE n == Exact
           vals == [values EXCEPT ![top].number = n]
           new == flags
<1>1. PICK u : u = NumberOf(s)
  OBVIOUS
<1>2. PICK f : f = s.flags \ {"seek_value"}
  OBVIOUS
<1>3. /\ ReadingOK(End, s) /\ End \in Nat /\ s.place \in 1..End /\ ptr \in 1..End /\ Look(Mem, End, ptr) = b
      /\ ReadingType(End, u) /\ TreeOK(u) /\ OpenOK(u) /\ u.top \in u.open /\ u.top = u.begun /\ u.top = top
      /\ Len(values) \in Nat /\ u.begun = Len(values) /\ top \in 1..Len(values)
      /\ u.flags = f /\ f \in SUBSET ReaderFlags /\ flags \cap {"string", "done", "seek_value", "need_comma", "need_colon"} = {}
      /\ t = Ended(u, BehindNumber(Mem, End, s.place), f)
  BY <1>1, <1>2, NumberTurnIs
<1>4. /\ JsonAssumption
  BY Zenon DEF NumberTurn
<1>5. Sound /\ Numbering(s, z)
  BY DEF NumberTurn
<1>6. /\ Stand(values, u, TRUE, z) /\ u.flags = flags \ NumberFlags /\ u.size = string_length /\ alloc = u.begun /\ root = 1
      /\ s.place <= ptr /\ (\A k \in s.place..(ptr - 1) : Mem[k] \in NumberChars) /\ pc = "parse" /\ first_pass = TRUE
  BY <1>1, <1>5 DEF Numbering, Sound
<1>7. /\ Other /\ ~IsExponent /\ Finish(top, vals, ptr, new)
      /\ UNCHANGED <<input, first_pass, string_length, digits, root, alloc, at, live>>
  BY DEF EndNumber
<1>8. AreValues(values) /\ Chain /\ live \subseteq (1..Len(values)) \X {"itself", "contents"}
  BY <1>5 DEF Sound
<1> HIDE DEF n
<1>9. Alike(values, vals)
  BY <1>3, <1>8, NumberAlike
<1> HIDE DEF vals
<1>10. AreValues(vals) /\ Len(vals) = Len(values) /\ Stand(vals, u, TRUE, z)
       /\ \A v \in 1..Len(vals) : vals[v].reserved = values[v].reserved
  <2>1. Stand(vals, u, TRUE, z)
    BY <1>6, <1>9, AlikeStands
  <2> QED BY <1>9, <2>1 DEF Alike
<1>11. PICK x : x = Ended(u, ptr, f)
  OBVIOUS
<1>12. ptr \in 1..(End + 1) /\ f = new \ NumberFlags /\ new \subseteq ReaderFlags \cup NumberFlags
  BY <1>3, <1>5, <1>6 DEF Sound
<1>13. f \cap {"string", "done", "seek_value"} = {}
  BY <1>3, <1>12
<1> HIDE DEF new
<1>14. Finished(u, x, z, vals, ptr)
  <2>1. Finish(u.top, vals, ptr, new) /\ first_pass \in BOOLEAN /\ (~first_pass => FALSE)
    BY <1>3, <1>6, <1>7
  <2>2. Stand(vals, u, first_pass, z) /\ AreValues(vals)
    BY <1>6, <1>10
  <2>3. ReadingType(End, u) /\ TreeOK(u) /\ OpenOK(u) /\ u.top \in u.open /\ End \in Nat
    BY <1>3
  <2> QED BY ONLY <1>4, <1>11, <1>12, <1>13, <2>1, <2>2, <2>3, Finishes
<1>15. Continues(x, z) \/ Fails
  <2>1. u.top \in 1..u.begun /\ u.begun \in Nat /\ Len(vals) \in Nat /\ u.begun <= Len(vals) /\ first_pass
    <3>1. first_pass
      BY <1>6
    <3>2. Len(vals) = Len(values) /\ Len(values) \in Nat /\ u.begun = Len(values) /\ u.top = u.begun /\ top \in 1..Len(values) /\ u.top = top
      BY <1>3, <1>10
    <3> QED BY ONLY <3>1, <3>2
  <2>2. alloc' = (IF first_pass THEN u.begun ELSE IF u.begun < z.begun THEN u.begun + 1 ELSE 0) /\ root' = 1
    BY <1>6, <1>7
  <2>3. string_length' = u.size /\ u.size \in Nat
    BY <1>3, <1>6, <1>7 DEF ReadingType
  <2>4. /\ live' \subseteq (1..Len(vals)) \X {"itself", "contents"}
        /\ \A v \in 1..Len(vals) : first_pass \/ (alloc' # 0 /\ v >= alloc') =>
             vals[v].reserved = IF v < Len(vals) THEN v + 1 ELSE 0
    BY <1>6, <1>7, <1>8, <1>10 DEF Chain
  <2>5. UNCHANGED <<input, first_pass, digits, at>>
    BY <1>7
  <2> QED BY <1>4, <1>5, <1>6, <1>12, <1>14, <2>1, <2>2, <2>3, <2>4, <2>5, FinishGoesOn
<1>16. SUFFICES ASSUME Continues(x, z) PROVE ReadingOK(End, x) /\ (x = t \/ Dead')
  BY <1>15
<1>17. ReadingOK(End, x) /\ Ends1(u, x, u.parent[u.top], ptr, f)
  <2>1. x.place # 0
    BY <1>16 DEF Continues
  <2> QED BY <1>3, <1>4, <1>11, <1>12, <1>13, <2>1, EndedIs
<1>18. CASE ptr = End \/ b \notin NumberChars
  <2>1. EndsAt(Mem, End, s.place, ptr)
    <3>1. ptr \in s.place..End
      BY ONLY <1>3, <1>6
    <3>2. ptr = End \/ Mem[ptr] \notin NumberChars
      BY <1>3, <1>18 DEF Look
    <3> QED BY <1>6, <3>1, <3>2 DEF EndsAt
  <2>2. ptr = BehindNumber(Mem, End, s.place)
    BY <1>3, <2>1, BehindIs
  <2> QED BY <1>3, <1>11, <1>17, <2>2
<1>19. CASE ptr # End /\ b \in NumberChars
  <2>1. b \in NumberChars \ Digits
    BY <1>7, <1>19 DEF Other
  <2>2. ptr' = ptr /\ UNCHANGED <<input, first_pass>>
    BY <1>7 DEF Finish
  <2>3. b' = b
    BY <2>2 DEF b, At, End, input
  <2>4. Settled(x, z)'
    BY <1>16 DEF Continues
  <2>5. pc' = "parse" /\ first_pass' /\ x.flags = flags' \ NumberFlags /\ x.top = top' /\ Stand(values', x, TRUE, z)
    BY <1>6, <2>2, <2>4 DEF Settled
  <2>6. "need_comma" \in x.flags /\ "string" \notin x.flags
    BY <1>13, <1>17 DEF Ends1
  <2>7. ~Has("string")' /\ Has("need_comma")'
    BY <2>5, <2>6 DEF Has, NumberFlags
  <2>8. ASSUME ~Has("done")', ~Has("seek_value")' PROVE T.type' \in Nested
    <3>1. x.flags \cap {"string", "done"} = {}
      BY <2>5, <2>6, <2>8 DEF Has
    <3>2. x.begun = u.begun /\ u.begun = Len(values) /\ Len(values) > 0 /\ x.begun \in Nat
      <4>1. x.begun = u.begun
        BY <1>17 DEF Ends1
      <4>2. u.begun = Len(values) /\ Len(values) \in Nat /\ top \in 1..Len(values)
        BY <1>3
      <4> QED BY ONLY <4>1, <4>2
    <3>3. x.kind[x.top] \in Nested /\ x.top \in 1..x.begun
      <4>1. x.kind[x.top] \in Nested
        BY <1>17, <3>1, <3>2 DEF ReadingOK, FlagsOK
      <4>2. x.top \in x.open /\ x.open \subseteq 1..x.begun
        BY <1>17, <3>1, <3>2 DEF ReadingOK, FlagsOK, OpenOK
      <4> QED BY <4>1, <4>2
    <3>4. Begun(values'[x.top], x, x.top, TRUE, z)
      <4>1. x.top <= x.begun /\ x.top \in 1..Len(values')
        <5>1. x.begun <= Len(values') /\ Len(values') = x.begun
          BY <2>5 DEF Stand
        <5> QED BY ONLY <3>2, <3>3, <5>1
      <4> QED BY <2>5, <4>1 DEF Stand
    <3>5. Kind(values'[top'].type) \in Nested
      BY <2>5, <3>3, <3>4 DEF Begun
    <3> QED BY <3>5 DEF T, Kind, Nested
  <2> QED BY <1>17, <2>1, <2>3, <2>5, <2>7, <2>8 DEF Dead
<1> QED BY <1>18, <1>19

-----------------------------------------------------------------------------
(* What every step keeps. *)

\* A turn in which a value begins is a turn in which one value begins.
LEMMA BeginsOne ==
  ASSUME NEW m, NEW e \in Nat, NEW s, ReadingOK(e, s), Seeks(s), NEW t, t = ReadValue(m, e, s), t.place # 0
  PROVE  t.begun = s.begun + 1
<1> DEFINE f == s.flags \ {"seek_value"}
           p == s.place
<1>0. s.begun > 0 => s.top \in s.open /\ s.kind[s.top] \in Nested
  BY SeeksIn
<1>1. s.flags \in SUBSET ReaderFlags /\ p \in 0..(e + 1) /\ ReadingType(e, s)
  BY DEF ReadingOK, ReadingType
<1>2. f \in SUBSET ReaderFlags
  BY <1>1
<1> HIDE DEF f, p
<1>3. ASSUME NEW kind, NEW q, NEW g PROVE Started(s, kind, q, g).begun = s.begun + 1
  BY <1>1 DEF Started, ReadingType
<1>4. "other" \in Kinds \ {"none"}
  BY DEF Kinds
<1>5. ASSUME NEW u, u = Started(s, "other", p, f), NEW q, t = Ended(u, q, f) PROVE t.begun = s.begun + 1
  <2>1. ReadingType(e, u)
    BY <1>0, <1>1, <1>2, <1>4, <1>5, StartedIs
  <2>2. t.begun = u.begun
    BY <1>5, <2>1, EndedKeeps
  <2> QED BY <1>3, <1>5, <2>2
<1>6. CASE t = Started(s, "object", p + 1, f) \/ t = Started(s, "array", p + 1, s.flags)
  BY <1>3, <1>6
<1>7. CASE t = [Started(s, "string", p + 1, f \cup {"string"}) EXCEPT !.size = 0]
  BY <1>1, <1>7 DEF Started, ReadingType
<1>8. CASE t = Refused(s)
  BY <1>1, <1>8, RefusedIs
<1>9. CASE \E q : t = Ended(Started(s, "other", p, f), q, f)
  <2>1. PICK u : u = Started(s, "other", p, f)
    OBVIOUS
  <2>2. PICK q : t = Ended(u, q, f)
    BY <1>9, <2>1
  <2> QED BY <1>5, <2>1, <2>2
<1> QED BY <1>6, <1>7, <1>8, <1>9 DEF ReadValue, f, p

\* The turn of a reading is a reading.
LEMMA TurnGood ==
  ASSUME NEW s, NEW t, NEW z, JsonAssumption, Sound, Way(s, z), t = Read(Mem, End, s), t.place # 0
  PROVE  ReadingOK(End, t)
<1>1. ReadingOK(End, s) /\ s.place # 0 /\ End \in Nat /\ Memory(Mem, End)
  BY WayIs, TextIs
<1>2. GoodTurn(End, s, t)
  BY <1>1, ReadTurn
<1> QED BY <1>2 DEF GoodTurn

\* How many values there are.
LEMMA LengthIs ==
  ASSUME NEW t, NEW z, Stand(values, t, first_pass, z), AreValues(values), first_pass \in BOOLEAN
  PROVE  Len(values) \in Nat /\ t.begun <= Len(values) /\ Len(values) = (IF first_pass THEN t.begun ELSE z.begun)
<1>1. Len(values) \in Nat
  BY SeqFacts DEF AreValues
<1> QED BY <1>1 DEF Stand

LEMMA LengthWillBe ==
  ASSUME NEW t, NEW z, Continues(t, z), first_pass' \in BOOLEAN
  PROVE  Len(values') \in Nat /\ t.begun <= Len(values') /\ Len(values') = (IF first_pass' THEN t.begun ELSE z.begun)
<1>1. Stand(values', t, first_pass', z) /\ AreValues(values')
  BY DEF Continues, Settled
<1>2. Len(values') \in Nat
  BY <1>1, SeqFacts DEF AreValues
<1> QED BY <1>1, <1>2 DEF Stand

\* What is allocated is of the values.
LEMMA LiveStays ==
  ASSUME NEW s, NEW t, NEW z, Turn(s, t, z), Continues(t, z), UNCHANGED <<first_pass, alloc, live>>
  PROVE  live' \subseteq (1..Len(values')) \X {"itself", "contents"}
<1>1. first_pass \in BOOLEAN /\ first_pass' = first_pass /\ alloc' = alloc /\ live' = live
      /\ live \subseteq (1..Len(values)) \X {"itself", "contents"}
  BY DEF Turn, Sound
<1>2. Stand(values, s, first_pass, z) /\ AreValues(values)
  BY DEF Turn, Sound, Settled
<1>3. Len(values) \in Nat /\ Len(values) = (IF first_pass THEN s.begun ELSE z.begun)
  BY <1>1, <1>2, LengthIs
<1>4. Len(values') = (IF first_pass THEN t.begun ELSE z.begun)
  BY <1>1, LengthWillBe
<1>5. first_pass => s.begun = t.begun
  BY <1>1 DEF Turn, Continues, Settled
<1> QED BY <1>1, <1>3, <1>4, <1>5

LEMMA LiveGrows ==
  ASSUME NEW s, NEW t, NEW z, Turn(s, t, z), Starts, Continues(t, z), NewValue, UNCHANGED first_pass
  PROVE  live' \subseteq (1..Len(values')) \X {"itself", "contents"}
<1>1. first_pass \in BOOLEAN /\ first_pass' = first_pass /\ live \subseteq (1..Len(values)) \X {"itself", "contents"}
  BY DEF Turn, Sound
<1>2. Stand(values, s, first_pass, z) /\ AreValues(values)
  BY DEF Turn, Sound, Settled
<1>3. Len(values) \in Nat /\ Len(values) = (IF first_pass THEN s.begun ELSE z.begun) /\ s.begun <= Len(values)
  BY <1>1, <1>2, LengthIs
<1>4. Len(values') = (IF first_pass THEN t.begun ELSE z.begun) /\ Len(values') \in Nat /\ t.begun <= Len(values')
  BY <1>1, LengthWillBe
<1>5. t.begun = s.begun + 1 /\ s.begun \in Nat
  <2>1. ReadingOK(End, s) /\ Seeks(s) /\ t = ReadValue(Mem, End, s) /\ End \in Nat /\ t.place # 0
    BY StartsIs DEF Continues
  <2> QED BY <2>1, BeginsOne, SeeksIn
<1>6. New \in 1..Len(values') /\ Len(values) <= Len(values')
  <2>1. CASE first_pass
    <3>1. New = Len(values) + 1
      BY <2>1 DEF New
    <3> QED BY <1>3, <1>4, <1>5, <2>1, <3>1
  <2>2. CASE ~first_pass
    <3>1. alloc = IF s.begun < z.begun THEN s.begun + 1 ELSE 0
      BY <2>2 DEF Turn, Settled
    <3>2. New = alloc
      BY <2>2 DEF New
    <3> QED BY <1>3, <1>4, <1>5, <2>2, <3>1, <3>2
  <2> QED BY <2>1, <2>2
<1>7. Blocks \subseteq {<<New, "itself">>, <<New, "contents">>}
  BY DEF Blocks
<1>8. live' = live \cup Blocks
  BY DEF NewValue
<1>9. 1..Len(values) \subseteq 1..Len(values')
  BY <1>3, <1>4, <1>6
<1> QED BY <1>1, <1>6, <1>7, <1>8, <1>9

\* After a step that goes on everything is as it should be.
LEMMA SettledSound ==
  ASSUME Sound, JsonAssumption, NEW t, NEW z, Continues(t, z), ReadingOK(End, t), first_pass' \in BOOLEAN,
         live' \subseteq (1..Len(values')) \X {"itself", "contents"}, Numbers', UNCHANGED <<input, at, failure>>, pc = "parse"
  PROVE  Sound'
<1>1. Len(values') \in Nat /\ t.begun <= Len(values') /\ Len(values') = (IF first_pass' THEN t.begun ELSE z.begun)
  BY LengthWillBe
<1>2. /\ t.place \in 0..(End + 1) /\ t.size \in Nat /\ t.top \in Nat /\ t.begun \in Nat /\ t.flags \subseteq ReaderFlags /\ t.top <= t.begun
  BY DEF ReadingOK, ReadingType, TreeOK
<1>3. /\ t.place # 0 /\ t.place = ptr' /\ t.flags = flags' \ NumberFlags /\ t.size = string_length' /\ t.top = top' /\ pc' = "parse"
      /\ alloc' = (IF first_pass' THEN t.begun ELSE IF t.begun < z.begun THEN t.begun + 1 ELSE 0)
      /\ root' = (IF t.begun = 0 THEN 0 ELSE 1) /\ AreValues(values') /\ Chain'
  BY DEF Continues, Settled
<1>4. json' = json /\ behind' = behind /\ at' = at /\ failure' = failure
  BY DEF input
<1>5. ptr' \in 1..(Len(json') + 2)
  <2>1. End = Len(json) + 1 /\ Len(json) \in Nat
    BY TextIs
  <2>2. ptr' \in 1..(Len(json) + 2)
    BY ONLY <1>2, <1>3, <2>1
  <2> QED BY <1>4, <2>2
<1>6. {top', root', alloc', at'} \subseteq 0..Len(values')
  <2>1. top' \in 0..Len(values')
    BY <1>1, <1>2, <1>3
  <2>2. root' \in 0..Len(values')
    BY <1>1, <1>2, <1>3
  <2>3. alloc' \in 0..Len(values')
    BY <1>1, <1>2, <1>3
  <2>4. at' = 0 /\ 0 \in 0..Len(values')
    BY <1>1, <1>4 DEF Sound
  <2> QED BY <2>1, <2>2, <2>3, <2>4
<1>7. flags' \subseteq ReaderFlags \cup NumberFlags
  BY <1>2, <1>3
<1>8. json' \in Texts /\ behind' \in Behind /\ failure' \in {"none", "text", "long", "memory"} /\ at' = 0
  BY <1>4 DEF Sound
<1>9. string_length' \in Nat
  BY <1>2, <1>3
<1> QED BY <1>3, <1>5, <1>6, <1>7, <1>8, <1>9 DEF Sound, Numbers

LEMMA FailsSound ==
  ASSUME Sound, NEW cause \in {"text", "long"}, Fail(cause), pc = "parse"
  PROVE  Fails
<1>1. /\ pc' = "e_failed" /\ failure' = cause /\ json' = json /\ behind' = behind /\ UNCHANGED <<first_pass, ptr, flags, string_length>>
      /\ UNCHANGED <<num_digits, num_fraction, num_e, top, root, alloc, values, at, live>>
  BY DEF Fail, input, digits, tree
<1>2. Chain'
  BY <1>1 DEF Sound, Chain
<1> QED BY <1>1, <1>2 DEF Sound, Fails

-----------------------------------------------------------------------------
(* Every step. *)

\* While it parses, the parser is where a reading is, in the number behind it, or it is
\* going to fail.
Knows == pc = "parse" => Dead \/ \E s, z : Way(s, z) /\ (Settled(s, z) \/ Numbering(s, z))

IInv == Sound /\ Knows

LEMMA FailsKnows == ASSUME Fails PROVE IInv'
  BY DEF Fails, IInv, Knows

LEMMA GivesUp ==
  ASSUME Sound, pc = "parse", StringFails \/ TrailingGarbage \/ SeekFails \/ ObjectFails \/ NumberFails
  PROVE  IInv'
<1>1. Fail("text") \/ Fail("long")
  BY DEF StringFails, TrailingGarbage, SeekFails, ObjectFails, NumberFails
<1>2. "text" \in {"text", "long"} /\ "long" \in {"text", "long"}
  OBVIOUS
<1>3. Fails
  BY <1>1, <1>2, FailsSound
<1> QED BY <1>3, FailsKnows

\* A step on which finishing a value does not fail keeps the cause of failure.
LEMMA FinishCalm ==
  ASSUME NEW v, NEW vals, NEW p, NEW new, Finish(v, vals, p, new), pc' = "parse" PROVE failure' = failure
  BY DEF Finish

\* The steps that follow the reader and do not begin a value.
LEMMA KeepsOn ==
  ASSUME NEW s, NEW t, NEW z, Turn(s, t, z), Continues(t, z),
         UNCHANGED <<input, first_pass, digits, alloc, at, live, failure>>
  PROVE  IInv'
<1>1. JsonAssumption
  BY Zenon DEF Turn
<1>2. Sound /\ Way(s, z) /\ t = Read(Mem, End, s) /\ pc = "parse" /\ t.place # 0
  BY DEF Turn, Settled, Continues
<1>3. ReadingOK(End, t)
  BY <1>1, <1>2, TurnGood
<1>4. UNCHANGED <<first_pass, alloc, live>> /\ UNCHANGED <<input, at, failure>> /\ UNCHANGED <<input, first_pass>>
  OBVIOUS
<1>5. live' \subseteq (1..Len(values')) \X {"itself", "contents"}
  BY <1>4, LiveStays
<1>6. Numbers' /\ first_pass' \in BOOLEAN
  <2>1. num_digits' = num_digits /\ num_fraction' = num_fraction /\ num_e' = num_e /\ first_pass' = first_pass
    BY DEF digits
  <2> QED BY <1>2, <2>1 DEF Sound, Numbers
<1>7. Sound'
  BY <1>1, <1>2, <1>3, <1>4, <1>5, <1>6, SettledSound
<1>8. Way(t, z)'
  BY <1>1, <1>2, <1>4, WayGoesOn
<1>9. Settled(t, z)'
  BY DEF Continues
<1> QED BY <1>7, <1>8, <1>9 DEF IInv, Knows

\* The steps in which a value begins.
LEMMA GrowsOn ==
  ASSUME NEW s, NEW t, NEW z, Turn(s, t, z), Continues(t, z), Starts, NewValue,
         UNCHANGED <<input, first_pass, digits, at, failure>>
  PROVE  IInv'
<1>1. JsonAssumption
  BY Zenon DEF Turn
<1>2. Sound /\ Way(s, z) /\ t = Read(Mem, End, s) /\ pc = "parse" /\ t.place # 0
  BY DEF Turn, Settled, Continues
<1>3. ReadingOK(End, t)
  BY <1>1, <1>2, TurnGood
<1>4. UNCHANGED first_pass /\ UNCHANGED <<input, at, failure>> /\ UNCHANGED <<input, first_pass>>
  OBVIOUS
<1>5. live' \subseteq (1..Len(values')) \X {"itself", "contents"}
  BY <1>4, LiveGrows
<1>6. Numbers' /\ first_pass' \in BOOLEAN
  <2>1. num_digits' = num_digits /\ num_fraction' = num_fraction /\ num_e' = num_e /\ first_pass' = first_pass
    BY DEF digits
  <2> QED BY <1>2, <2>1 DEF Sound, Numbers
<1>7. Sound'
  BY <1>1, <1>2, <1>3, <1>4, <1>5, <1>6, SettledSound
<1>8. Way(t, z)'
  BY <1>1, <1>2, <1>4, WayGoesOn
<1>9. Settled(t, z)'
  BY DEF Continues
<1> QED BY <1>7, <1>8, <1>9 DEF IInv, Knows

\* The steps in and between values, those of numbers and the last one of a pass left out.
LEMMA TextStep ==
  ASSUME NEW s, NEW t, NEW z, Turn(s, t, z),
         \/ Character \/ Backslash \/ Escape \/ UnicodeEscape \/ CloseString \/ CloseName
         \/ SkipSpace \/ CloseArray \/ Separator \/ OpenName \/ EntryComma \/ CloseObject
  PROVE  IInv'
<1>0. Sound /\ pc = "parse"
  BY DEF Turn, Settled
<1>1. CASE Backslash \/ SkipSpace \/ Separator \/ OpenName \/ EntryComma
  <2>1. Continues(t, z)
    BY <1>1, MovesOn
  <2>2. UNCHANGED <<input, first_pass, digits, alloc, at, live, failure>>
    BY <1>1 DEF Backslash, SkipSpace, Separator, OpenName, EntryComma, tree
  <2> QED BY <2>1, <2>2, KeepsOn
<1>2. CASE Character \/ Escape \/ (UnicodeEscape /\ pc' = "parse")
  <2>1. Continues(t, z)
    BY <1>2, CharactersGoOn
  <2>2. \E new, p : StringAdd(new, p)
    BY <1>2 DEF Character, Escape, UnicodeEscape, Fail
  <2>3. UNCHANGED <<input, first_pass, digits, alloc, at, live, failure>>
    BY <2>2 DEF StringAdd
  <2> QED BY <2>1, <2>3, KeepsOn
<1>3. CASE UnicodeEscape /\ pc' # "parse"
  <2>1. Fail("text")
    BY <1>0, <1>3 DEF UnicodeEscape, StringAdd
  <2>2. "text" \in {"text", "long"}
    OBVIOUS
  <2> QED BY <1>0, <2>1, <2>2, FailsSound, FailsKnows
<1>4. CASE CloseName
  <2>1. Continues(t, z)
    BY <1>4, NameGoesOn
  <2>2. UNCHANGED <<input, first_pass, digits, alloc, at, live, failure>>
    BY <1>4 DEF CloseName
  <2> QED BY <2>1, <2>2, KeepsOn
<1>5. CASE CloseString \/ CloseArray \/ CloseObject
  <2>1. Continues(t, z) \/ Fails
    BY <1>5, StringGoesOn, ListsGoOn
  <2>2. CASE Fails
    BY <2>2, FailsKnows
  <2>3. CASE Continues(t, z)
    <3>1. pc' = "parse"
      BY <2>3 DEF Continues, Settled
    <3>2. \E v, vals, p, new : Finish(v, vals, p, new)
      BY <1>5 DEF CloseString, CloseArray, CloseObject
    <3>3. failure' = failure
      BY <3>1, <3>2, FinishCalm
    <3>4. UNCHANGED <<input, first_pass, digits, alloc, at, live>>
      BY <1>5 DEF CloseString, CloseArray, CloseObject
    <3> QED BY <2>3, <3>3, <3>4, KeepsOn
  <2> QED BY <2>1, <2>2, <2>3
<1> QED BY <1>1, <1>2, <1>3, <1>4, <1>5

LEMMA ValueStep ==
  ASSUME NEW s, NEW t, NEW z, Turn(s, t, z),
         OpenObject \/ OpenArray \/ OpenString \/ (\E w \in Words : Literal(w)) \/ StepOverNumber
  PROVE  IInv'
<1>1. CASE OpenObject \/ OpenArray \/ OpenString
  <2>1. Continues(t, z)
    BY <1>1, ListsOpen
  <2>2. Starts /\ NewValue /\ UNCHANGED <<input, first_pass, digits, at, failure>>
    BY <1>1 DEF OpenObject, OpenArray, OpenString, Open
  <2> QED BY <2>1, <2>2, GrowsOn
<1>2. CASE (\E w \in Words : Literal(w)) \/ StepOverNumber
  <2>1. Continues(t, z) \/ Fails
    BY <1>2, WordsGoOn, StepGoesOn
  <2>2. CASE Fails
    BY <2>2, FailsKnows
  <2>3. CASE Continues(t, z)
    <3>1. pc' = "parse"
      BY <2>3 DEF Continues, Settled
    <3>2. /\ \E v, vals, p, new : Finish(v, vals, p, new)
          /\ Starts /\ NewValue /\ UNCHANGED <<input, first_pass, digits, at>>
      BY <1>2 DEF Literal, StepOverNumber
    <3>3. failure' = failure
      BY <3>1, <3>2, FinishCalm
    <3>4. UNCHANGED <<input, first_pass, digits, at, failure>>
      BY <3>2, <3>3
    <3> QED BY <2>3, <3>2, <3>4, GrowsOn
  <2> QED BY <2>1, <2>2, <2>3
<1> QED BY <1>1, <1>2

\* A value finds no memory.
LEMMA MemoryStep ==
  ASSUME NEW s, NEW t, NEW z, Turn(s, t, z), AllocFails
  PROVE  IInv'
<1>1. /\ Sound /\ pc = "parse" /\ pc' = "e_failed" /\ failure' = "memory" /\ json' = json /\ behind' = behind
      /\ UNCHANGED <<first_pass, ptr, flags, string_length>> /\ UNCHANGED <<num_digits, num_fraction, num_e, values, at, live>>
  BY DEF Turn, Settled, AllocFails, input, digits
<1>2. ASSUME {top', root', alloc'} \subseteq 0..Len(values), Chain' PROVE IInv'
  <2>1. Sound'
    <3>1. {top', root', alloc', at'} \subseteq 0..Len(values')
      BY <1>1, <1>2 DEF Sound
    <3> QED BY <1>1, <1>2, <3>1 DEF Sound
  <2> QED BY <1>1, <2>1, FailsKnows DEF Fails
<1>3. CASE first_pass
  <2>1. UNCHANGED <<top, root, alloc>>
    BY <1>3 DEF AllocFails
  <2>2. Chain'
    BY <1>1, <2>1 DEF Sound, Chain
  <2> QED BY <1>1, <1>2, <2>1, <2>2 DEF Sound
<1>4. CASE ~first_pass
  <2>1. first_pass = FALSE /\ Stand(values, s, first_pass, z) /\ AreValues(values)
    BY <1>1, <1>4 DEF Sound, Turn, Settled
  <2>2. Len(values) \in Nat /\ Len(values) = z.begun
    BY <2>1, LengthIs
  <2>3. t.begun = s.begun + 1 /\ s.begun \in Nat /\ t.begun <= z.begun
    <3>1. Starts
      BY DEF AllocFails
    <3>2. ReadingOK(End, s) /\ Seeks(s) /\ t = ReadValue(Mem, End, s) /\ End \in Nat
      BY <3>1, StartsIs
    <3>3. t.place # 0 /\ t.begun <= z.begun
      BY <1>4, NextIs DEF Rigid
    <3> QED BY <3>2, <3>3, BeginsOne, SeeksIn
  <2>4. alloc = s.begun + 1 /\ alloc \in 1..Len(values)
    <3>1. alloc = IF s.begun < z.begun THEN s.begun + 1 ELSE 0
      BY <1>4 DEF Turn, Settled
    <3> QED BY ONLY <2>2, <2>3, <3>1
  <2>5. values[alloc].reserved = IF alloc < Len(values) THEN alloc + 1 ELSE 0
    BY <1>1, <2>4 DEF Sound, Chain
  <2>6. top' = alloc /\ alloc' = values[alloc].reserved /\ root' = (IF root = 0 THEN alloc ELSE root)
    BY <1>4 DEF AllocFails, New
  <2>7. alloc' \in 0..Len(values) /\ top' \in 0..Len(values) /\ (alloc' # 0 => alloc' = alloc + 1)
    BY <2>2, <2>4, <2>5, <2>6
  <2>8. root' \in 0..Len(values)
    BY <1>1, <2>6, <2>7 DEF Sound
  <2>9. Chain'
    <3>1. SUFFICES ASSUME NEW v \in 1..Len(values), alloc' # 0, v >= alloc'
                   PROVE  values[v].reserved = IF v < Len(values) THEN v + 1 ELSE 0
      BY <1>1, <2>1 DEF Chain
    <3>2. alloc # 0 /\ v >= alloc
      BY <2>2, <2>4, <2>7, <3>1
    <3> QED BY <1>1, <3>2 DEF Sound, Chain
  <2> QED BY <1>2, <2>7, <2>8, <2>9
<1> QED BY <1>3, <1>4

\* In a number everything is as it should be.
LEMMA NumberingSound ==
  ASSUME Sound, pc = "parse", JsonAssumption, NEW s, NEW z, Way(s, z), Numbering(s, z)', AreValues(values)', Chain', Numbers',
         UNCHANGED <<input, first_pass, at, failure>>, ptr' \in Nat, live' \subseteq (1..Len(values')) \X {"itself", "contents"}
  PROVE  IInv'
<1>1. json' = json /\ behind' = behind /\ first_pass' = first_pass /\ at' = at /\ failure' = failure
      /\ UNCHANGED input /\ UNCHANGED <<input, first_pass>>
  BY DEF input
<1>2. Mem' = Mem /\ End' = End
  BY <1>1, MemSame
<1>3. ReadingOK(End, s) /\ s.place # 0 /\ End \in Nat /\ End = Len(json) + 1 /\ Len(json) \in Nat
  BY WayIs, TextIs
<1>4. PICK u : u = NumberOf(s)
  OBVIOUS
<1>5. /\ pc' = "parse" /\ Seeks(s) /\ s.place <= ptr' /\ ptr' <= End
      /\ u.flags = flags' \ NumberFlags /\ u.size = string_length' /\ u.top = top'
      /\ Stand(values', u, TRUE, z) /\ alloc' = u.begun /\ root' = 1
  BY <1>2, <1>4 DEF Numbering
<1>6. ReadingType(End, u) /\ u.top = s.begun + 1 /\ u.begun = s.begun + 1 /\ s.begun \in Nat /\ s.place \in Nat
  <2>1. s.begun > 0 => s.top \in s.open /\ s.kind[s.top] \in Nested
    BY <1>3, <1>5, SeeksIn
  <2>2. s.flags \ {"seek_value"} \in SUBSET ReaderFlags /\ s.place \in 0..(End + 1) /\ s.begun \in Nat
    BY <1>3 DEF ReadingOK, ReadingType
  <2>3. "other" \in Kinds \ {"none"}
    BY DEF Kinds
  <2>4. PICK f : f = s.flags \ {"seek_value"}
    OBVIOUS
  <2>5. u = Started(s, "other", s.place, f) /\ f \in SUBSET ReaderFlags
    BY <1>4, <2>2, <2>4 DEF NumberOf
  <2>6. ReadingType(End, u) /\ u.top = s.begun + 1 /\ u.begun = s.begun + 1
    BY <1>3, <2>1, <2>2, <2>3, <2>5, StartedIs
  <2>7. s.place \in Nat
    BY <1>3, <2>2
  <2> QED BY <2>2, <2>6, <2>7
<1>7. Len(values') \in Nat /\ Len(values') = u.begun
  <2>1. Len(values') \in Nat
    BY SeqFacts DEF AreValues
  <2> QED BY <1>5, <2>1 DEF Stand
<1>8. ptr' \in 1..(Len(json') + 2)
  <2>1. ptr' \in 1..(Len(json) + 2)
    BY ONLY <1>3, <1>5, <1>6, ptr' \in Nat
  <2> QED BY <1>1, <2>1
<1>13. at' = 0
  BY <1>1 DEF Sound
<1>9. {top', root', alloc', at'} \subseteq 0..Len(values')
  BY <1>5, <1>6, <1>7, <1>13
<1>10. flags' \subseteq ReaderFlags \cup NumberFlags /\ string_length' \in Nat
  BY <1>5, <1>6 DEF ReadingType
<1>11. Sound'
  BY <1>1, <1>5, <1>8, <1>9, <1>10, <1>13 DEF Sound, Numbers
<1>12. Way(s, z)'
  BY <1>1, WayStays
<1> QED BY <1>11, <1>12 DEF IInv, Knows

\* The first pass takes a number character by character.
LEMMA OpenNumberStep ==
  ASSUME NEW s, NEW t, NEW z, Turn(s, t, z), OpenNumber
  PROVE  IInv'
<1>1. JsonAssumption
  BY Zenon DEF Turn
<1>2. Sound /\ Way(s, z) /\ pc = "parse"
  BY DEF Turn, Settled
<1>3. Numbering(s, z)' /\ AreValues(values)' /\ Chain'
  BY NumbersOpen
<1>4. UNCHANGED <<input, first_pass, at, failure>> /\ Starts /\ NewValue /\ first_pass
  BY DEF OpenNumber, Open
<1>5. Numbers'
  BY DEF OpenNumber, Numbers
<1>6. ptr' \in Nat
  <2>1. ptr \in Nat
    BY TurnIs
  <2>2. ptr' = ptr + 1 \/ ptr' = ptr
    BY DEF OpenNumber, Open, Go
  <2> QED BY <2>1, <2>2
<1>7. live' \subseteq (1..Len(values')) \X {"itself", "contents"}
  <2>1. Stand(values', NumberOf(s), TRUE, z) /\ alloc' = NumberOf(s).begun
    BY <1>3 DEF Numbering
  <2>2. Len(values') \in Nat
    BY <1>3, SeqFacts DEF AreValues
  <2>3. Len(values') = alloc'
    BY <2>1 DEF Stand
  <2>4. alloc' = Len(values) + 1 /\ New = Len(values) + 1
    BY <1>4 DEF NewValue, New
  <2>5. Len(values) \in Nat
    BY <1>2, SeqFacts DEF Sound, AreValues
  <2>6. live' = live \cup {<<New, "itself">>}
    BY <1>4 DEF NewValue, Blocks
  <2>7. live \subseteq (1..Len(values)) \X {"itself", "contents"}
    BY <1>2 DEF Sound
  <2>8. 1..Len(values) \subseteq 1..Len(values') /\ New \in 1..Len(values')
    BY <2>2, <2>3, <2>4, <2>5
  <2> QED BY <2>6, <2>7, <2>8
<1> QED BY <1>1, <1>2, <1>3, <1>4, <1>5, <1>6, <1>7, NumberingSound

LEMMA NumberStep ==
  ASSUME NEW s, NEW t, NEW z, NumberTurn(s, t, z), NumberDigit \/ Sign \/ Point \/ Exponent
  PROVE  IInv'
<1>1. JsonAssumption
  BY Zenon DEF NumberTurn
<1>2. Sound /\ Way(s, z) /\ pc = "parse"
  BY DEF NumberTurn, Numbering
<1>3. Numbering(s, z)' /\ AreValues(values)' /\ Chain' /\ Numbers' /\ UNCHANGED <<input, first_pass, live, failure>>
  BY NumbersGoOn
<1>4. \E new : NumberGoes(new, ptr + 1)
  BY DEF NumberDigit, Sign, Point, Exponent
<1>5. UNCHANGED <<input, first_pass, at, failure>> /\ ptr' = ptr + 1 /\ alloc' = alloc /\ live' = live
  BY <1>4 DEF NumberGoes, Go
<1>6. ptr' \in Nat
  BY <1>2, <1>5, TextIs, <1>1 DEF Sound
<1>7. live' \subseteq (1..Len(values')) \X {"itself", "contents"}
  <2>1. Stand(values', NumberOf(s), TRUE, z) /\ alloc' = NumberOf(s).begun
    BY <1>3 DEF Numbering
  <2>2. Stand(values, NumberOf(s), TRUE, z) /\ alloc = NumberOf(s).begun
    BY DEF NumberTurn, Numbering
  <2>3. Len(values') = Len(values)
    BY <1>5, <2>1, <2>2 DEF Stand
  <2> QED BY <1>2, <1>5, <2>3 DEF Sound
<1> QED BY <1>1, <1>2, <1>3, <1>5, <1>6, <1>7, NumberingSound

LEMMA EndNumberStep ==
  ASSUME NEW s, NEW t, NEW z, NumberTurn(s, t, z), EndNumber
  PROVE  IInv'
<1>1. JsonAssumption
  BY Zenon DEF NumberTurn
<1>2. Sound /\ Way(s, z) /\ pc = "parse" /\ t = Read(Mem, End, s) /\ first_pass
  BY DEF NumberTurn, Numbering
<1>3. Fails \/ \E x : Continues(x, z) /\ ReadingOK(End, x) /\ (x = t \/ Dead')
  BY NumberEndsOn
<1>4. CASE Fails
  BY <1>4, FailsKnows
<1>5. ASSUME NEW x, Continues(x, z), ReadingOK(End, x), x = t \/ Dead' PROVE IInv'
  <2>1. pc' = "parse" /\ Settled(x, z)' /\ x.place # 0
    BY <1>5 DEF Continues, Settled
  <2>2. /\ \E v, vals, p, new : Finish(v, vals, p, new)
        /\ UNCHANGED <<input, first_pass, digits, alloc, at, live>>
    BY DEF EndNumber
  <2>3. failure' = failure
    BY <2>1, <2>2, FinishCalm
  <2>4. UNCHANGED <<input, at, failure>> /\ UNCHANGED <<input, first_pass>> /\ first_pass' \in BOOLEAN
    BY <1>2, <2>2, <2>3 DEF Sound
  <2>5. Numbers'
    <3>1. num_digits' = num_digits /\ num_fraction' = num_fraction /\ num_e' = num_e
      BY <2>2 DEF digits
    <3> QED BY <1>2, <3>1 DEF Sound, Numbers
  <2>6. live' \subseteq (1..Len(values')) \X {"itself", "contents"}
    <3>1. Len(values') = x.begun
      <4>1. Len(values') = (IF first_pass' THEN x.begun ELSE z.begun)
        BY <1>5, <2>4, LengthWillBe
      <4> QED BY <1>2, <2>2, <4>1
    <3>2. alloc' = x.begun
      BY <1>2, <2>1, <2>2 DEF Settled
    <3>3. Stand(values, NumberOf(s), TRUE, z) /\ alloc = NumberOf(s).begun
      BY DEF NumberTurn, Numbering
    <3>4. Len(values') = Len(values)
      BY <2>2, <3>1, <3>2, <3>3 DEF Stand
    <3> QED BY <1>2, <2>2, <3>4 DEF Sound
  <2>7. Sound'
    BY <1>1, <1>2, <1>5, <2>4, <2>5, <2>6, SettledSound
  <2>8. CASE Dead'
    BY <2>7, <2>8 DEF IInv, Knows
  <2>9. CASE x = t
    <3>1. Way(x, z)'
      BY <1>1, <1>2, <2>1, <2>4, <2>9, WayGoesOn
    <3> QED BY <2>1, <2>7, <3>1 DEF IInv, Knows
  <2> QED BY <1>5, <2>8, <2>9
<1> QED BY <1>3, <1>4, <1>5

\* The text is at its end: what the first pass has read is what the second one goes to.
LEMMA PassStep ==
  ASSUME NEW s, NEW t, NEW z, Turn(s, t, z), EndPass
  PROVE  IInv'
<1>1. JsonAssumption
  BY Zenon DEF Turn
<1>2. Sound /\ Way(s, z) /\ Settled(s, z) /\ pc = "parse"
  BY DEF Turn, Settled
<1>3. /\ ReadingOK(End, s) /\ s.place # 0 /\ s.place = ptr /\ Look(Mem, End, ptr) = b /\ End \in Nat
      /\ "done" \in s.flags /\ b = NUL
  <2>1. ReadingOK(End, s) /\ s.place = ptr /\ ptr # 0 /\ Look(Mem, End, ptr) = b /\ End \in Nat
    BY TurnIs
  <2>2. Has("done") /\ b = NUL
    BY DEF EndPass, AfterRoot
  <2>3. "done" \in s.flags
    BY <2>2, TurnIs DEF ReaderFlags
  <2> QED BY <2>1, <2>2, <2>3
<1>4. UNCHANGED <<input, values, at, live, failure>> /\ json' = json /\ behind' = behind
      /\ num_digits' = num_digits /\ num_fraction' = num_fraction /\ num_e' = num_e
  BY DEF EndPass, input, digits
<1>5. CASE first_pass
  <2>1. /\ first_pass' = FALSE /\ alloc' = root /\ top' = 0 /\ root' = 0 /\ ptr' = 1 /\ flags' = {"seek_value"}
        /\ string_length' = 0 /\ pc' = pc
    BY <1>5 DEF EndPass, Go
  <2>2. first_pass = TRUE
    BY <1>2, <1>5 DEF Sound
  <2>3. Reached(Mem, End, s) /\ Complete(Mem, End, s)
    BY <1>2, <1>3, <1>5 DEF Way, Complete
  <2>4. s.begun > 0 /\ s.begun \in Nat
    BY <1>3 DEF ReadingOK, FlagsOK, ReadingType
  <2>5. Stand(values, s, TRUE, z) /\ root = 1
    <3>1. Stand(values, s, first_pass, z)
      BY <1>2 DEF Settled
    <3>2. Stand(values, s, TRUE, z)
      BY ONLY <2>2, <3>1
    <3>3. root = 1
      BY <1>2, <2>4 DEF Settled
    <3> QED BY <3>2, <3>3
  <2>6. /\ Begin.place = 1 /\ Begin.flags = {"seek_value"} /\ Begin.size = 0 /\ Begin.top = 0 /\ Begin.begun = 0
    BY DEF Begin
  <2>7. Len(values) \in Nat /\ Len(values) = s.begun
    <3>1. Len(values) \in Nat
      BY <1>2, SeqFacts DEF Sound, AreValues
    <3> QED BY <2>5, <3>1 DEF Stand
  <2>8. Stand(values, Begin, FALSE, s)
    <3>1. ASSUME NEW v \in 1..Len(values) PROVE Waiting(values[v], v, s) /\ ~(v <= 0)
      <4>1. v <= s.begun /\ ~(v <= 0)
        BY ONLY <2>7, v \in 1..Len(values)
      <4>2. Begun(values[v], s, v, TRUE, z)
        BY <2>5, <4>1 DEF Stand
      <4> QED BY <4>1, <4>2 DEF Begun, Waiting, NamesOf
    <3>2. PICK g : g = Begin
      OBVIOUS
    <3>3. g.begun = 0
      BY <2>6, <3>2
    <3>4. g.begun <= Len(values)
      BY ONLY <2>7, <3>3
    <3>5. Stand(values, g, FALSE, s)
      BY ONLY <2>7, <3>1, <3>3, <3>4 DEF Stand
    <3> QED BY <3>2, <3>5
  <2>9. Settled(Begin, s)'
    <3>1. flags' \ NumberFlags = {"seek_value"}
      BY <2>1 DEF NumberFlags
    <3>2. Stand(values', Begin, first_pass', s)
      BY ONLY <1>4, <2>1, <2>8
    <3>3. pc' = "parse" /\ Begin.place = ptr' /\ Begin.flags = flags' \ NumberFlags /\ Begin.size = string_length' /\ Begin.top = top'
      BY <1>2, <2>1, <2>6, <3>1
    <3>4. alloc' = (IF first_pass' THEN Begin.begun ELSE IF Begin.begun < s.begun THEN Begin.begun + 1 ELSE 0)
      BY <2>1, <2>4, <2>5, <2>6
    <3>5. root' = IF Begin.begun = 0 THEN 0 ELSE 1
      BY <2>1, <2>6
    <3> QED BY <3>2, <3>3, <3>4, <3>5 DEF Settled
  <2>10. Chain'
    BY <1>2, <1>4, <2>2 DEF Sound, Chain
  <2>11. Continues(Begin, s)
    BY <1>2, <1>4, <2>6, <2>9, <2>10 DEF Continues, Sound
  <2>12. ReadingOK(End, Begin)
    BY <1>3, BeginOK
  <2>13. Sound'
    <3>1. live' \subseteq (1..Len(values')) \X {"itself", "contents"}
      BY <1>2, <1>4 DEF Sound
    <3>2. Numbers' /\ first_pass' \in BOOLEAN /\ UNCHANGED <<input, at, failure>>
      BY <1>2, <1>4, <2>1 DEF Sound, Numbers
    <3> QED BY <1>1, <1>2, <2>11, <2>12, <3>1, <3>2, SettledSound
  <2>14. Way(Begin, s)'
    <3>1. Mem' = Mem /\ End' = End
      BY <1>4, MemSame
    <3>2. Ahead(Mem, End, Begin, s)
      BY <2>3, AheadBegins
    <3> QED BY <2>1, <3>1, <3>2 DEF Way
  <2> QED BY <2>9, <2>13, <2>14 DEF IInv, Knows
<1>6. CASE ~first_pass
  <2>1. pc' = "done" /\ UNCHANGED <<first_pass, alloc, top, root, ptr, flags, string_length>>
    BY <1>6 DEF EndPass
  <2>2. Sound'
    <3>1. Chain'
      BY <1>2, <1>4, <2>1 DEF Sound, Chain
    <3> QED BY <1>2, <1>4, <2>1, <3>1 DEF Sound
  <2> QED BY <2>1, <2>2 DEF IInv, Knows
<1> QED BY <1>5, <1>6

\* After a failure.
LEMMA FreeStep ==
  ASSUME Sound, StartFreeing \/ FreeChain \/ FreeTree
  PROVE  IInv'
<1>1. /\ json' = json /\ behind' = behind /\ UNCHANGED <<first_pass, ptr, flags, string_length>>
      /\ UNCHANGED <<num_digits, num_fraction, num_e, top, root, failure>>
  BY DEF StartFreeing, FreeChain, FreeTree, input, digits
<1>2. Len(values) \in Nat /\ AreValues(values)
  BY SeqFacts DEF Sound, AreValues
<1>3. ASSUME AreValues(values'), Len(values') = Len(values), Chain', {alloc', at'} \subseteq 0..Len(values'), live' \subseteq live,
             pc' \in {"e_failed", "chain", "tree", "failed", "crashed"}
      PROVE  IInv'
  <2>1. {top', root', alloc', at'} \subseteq 0..Len(values')
    BY <1>1, <1>3 DEF Sound
  <2>2. live' \subseteq (1..Len(values')) \X {"itself", "contents"}
    BY <1>3 DEF Sound
  <2>3. Sound' /\ pc' # "parse"
    BY <1>1, <1>3, <2>1, <2>2 DEF Sound
  <2> QED BY <2>3 DEF IInv, Knows
<1>4. CASE StartFreeing
  <2>1. pc' = "chain" /\ alloc' = (IF first_pass THEN root ELSE alloc) /\ values' = values /\ at' = at /\ live' = live
    BY <1>4 DEF StartFreeing, EFailed
  <2>2. Chain'
    BY <1>1, <2>1 DEF Sound, Chain
  <2>3. {alloc', at'} \subseteq 0..Len(values')
    BY <2>1 DEF Sound
  <2> QED BY <1>2, <1>3, <2>1, <2>2, <2>3
<1>5. CASE FreeChain
  <2>1. values' = values
    BY <1>5 DEF FreeChain
  <2>2. CASE alloc # 0
    <3>1. alloc' = values[alloc].reserved /\ at' = at /\ live' \subseteq live /\ pc' \in {"chain", "crashed"}
      BY <1>5, <2>2 DEF FreeChain, Free
    <3>2. alloc \in 1..Len(values)
      BY <1>2, <2>2 DEF Sound
    <3>3. alloc' = IF alloc < Len(values) THEN alloc + 1 ELSE 0
      BY <1>2, <2>2, <3>1, <3>2 DEF Sound, Chain
    <3>4. {alloc', at'} \subseteq 0..Len(values')
      <4>1. alloc' \in 0..Len(values)
        BY ONLY <1>2, <3>2, <3>3
      <4> QED BY <2>1, <3>1, <4>1 DEF Sound
    <3>5. Chain'
      <4>1. SUFFICES ASSUME NEW v \in 1..Len(values), first_pass \/ (alloc' # 0 /\ v >= alloc')
                     PROVE  values[v].reserved = IF v < Len(values) THEN v + 1 ELSE 0
        BY <1>1, <2>1 DEF Chain
      <4>2. first_pass \/ (alloc # 0 /\ v >= alloc)
        BY <1>2, <2>2, <3>2, <3>3, <4>1
      <4> QED BY <4>2 DEF Sound, Chain
    <3> QED BY <1>2, <1>3, <2>1, <3>1, <3>4, <3>5
  <2>3. CASE alloc = 0
    <3>1. pc' \in {"failed", "tree"} /\ at' \in {0, root} /\ live' = live /\ alloc' = alloc
      BY <1>5, <2>3 DEF FreeChain
    <3>2. Chain'
      BY <1>1, <2>1, <3>1 DEF Sound, Chain
    <3>3. {alloc', at'} \subseteq 0..Len(values')
      BY <1>2, <2>1, <3>1 DEF Sound
    <3> QED BY <1>2, <1>3, <2>1, <3>1, <3>2, <3>3
  <2> QED BY <2>2, <2>3
<1>6. CASE FreeTree
  <2>0. alloc' = alloc
    BY <1>6 DEF FreeTree
  <2>1. CASE at = 0
    <3>1. pc' = "failed" /\ UNCHANGED <<at, live, values>>
      BY <1>6, <2>1 DEF FreeTree
    <3>2. Chain'
      BY <1>1, <2>0, <3>1 DEF Sound, Chain
    <3>3. {alloc', at'} \subseteq 0..Len(values')
      BY <2>0, <3>1 DEF Sound
    <3> QED BY <1>2, <1>3, <3>1, <3>2, <3>3
  <2>2. CASE at # 0
    <3>1. at \in 1..Len(values) /\ at \in 0..Len(values)
      BY <1>2, <2>2 DEF Sound
    <3>2. IsValue(values[at], at, Len(values))
      BY <1>2, <3>1 DEF AreValues
    <3>3. CASE HasChildren(at)
      <4> DEFINE n == values[at].length - 1
                 r == [values[at] EXCEPT !.length = n]
      <4>1. /\ values' = [values EXCEPT ![at].length = n] /\ live' = live /\ pc' \in {pc, "crashed"} /\ pc = "tree"
            /\ at' = at \/ (values[at].length <= Len(values[at].slots) /\ at' = values[at].slots[values[at].length].value)
        BY <1>6, <2>2, <3>3 DEF FreeTree
      <4>2. n \in Nat /\ values[at].length \in Nat /\ values[at].length > 0
        BY <3>2, <3>3 DEF HasChildren, IsValue
      <4>3. values' = [values EXCEPT ![at] = r]
        BY <4>1
      <4> HIDE DEF n
      <4>4. IsRecord(r) /\ r.length = n /\ r.reserved = values[at].reserved /\ r.type = values[at].type /\ r.parent = values[at].parent
            /\ r.names = values[at].names /\ r.room = values[at].room /\ r.slots = values[at].slots /\ r.bytes = values[at].bytes
        BY <3>2 DEF IsValue, IsRecord
      <4> HIDE DEF r
      <4>5. IsValue(r, at, Len(values))
        BY <3>2, <4>2, <4>4 DEF IsValue
      <4>6. AreValues(values') /\ Others(values, values', at) /\ values'[at] = r
        <5> DEFINE new == [values EXCEPT ![at] = r]
        <5>1. AreValues(new) /\ Others(values, new, at) /\ new[at] = r
          BY <1>2, <3>1, <4>5, Changed
        <5>2. values' = new
          BY <4>3
        <5> HIDE DEF new
        <5> QED BY <5>1, <5>2
      <4>7. Len(values') = Len(values) /\ \A v \in 1..Len(values) : values'[v].reserved = values[v].reserved
        BY <4>4, <4>6 DEF Others
      <4>8. Chain'
        <5>1. UNCHANGED <<first_pass, alloc>>
          BY <1>1, <2>0
        <5> QED BY <4>7, <5>1, ChainKept
      <4>9. at' \in 0..Len(values)
        <5>1. CASE at' = at
          BY <3>1, <5>1
        <5>2. CASE values[at].length <= Len(values[at].slots) /\ at' = values[at].slots[values[at].length].value
          <6>1. IsSeq(values[at].slots) /\ \A i \in 1..Len(values[at].slots) : IsEntry(values[at].slots[i], Len(values))
            BY <3>2 DEF IsValue
          <6>2. Len(values[at].slots) \in Nat
            BY <6>1, SeqFacts
          <6>3. values[at].length \in 1..Len(values[at].slots)
            BY <4>2, <5>2, <6>2
          <6> QED BY <5>2, <6>1, <6>3 DEF IsEntry
        <5> QED BY <4>1, <5>1, <5>2
      <4>10. alloc' \in 0..Len(values)
        BY <2>0 DEF Sound
      <4>11. {alloc', at'} \subseteq 0..Len(values') /\ pc' \in {"e_failed", "chain", "tree", "failed", "crashed"} /\ live' \subseteq live
        BY <4>1, <4>7, <4>9, <4>10
      <4> QED BY <1>3, <4>6, <4>7, <4>8, <4>11
    <3>4. CASE ~HasChildren(at)
      <4>1. values' = values /\ at' = values[at].parent /\ live' \subseteq live /\ pc' \in {"tree", "crashed"}
        BY <1>6, <2>2, <3>4 DEF FreeTree, Free
      <4>2. Chain'
        BY <1>1, <2>0, <4>1 DEF Sound, Chain
      <4>3. at' \in 0..Len(values)
        <5>1. at' \in 0..(at - 1)
          BY <3>2, <4>1 DEF IsValue
        <5> QED BY ONLY <1>2, <3>1, <5>1
      <4>4. {alloc', at'} \subseteq 0..Len(values')
        BY <2>0, <4>1, <4>3 DEF Sound
      <4> QED BY <1>2, <1>3, <4>1, <4>2, <4>4
    <3> QED BY <3>3, <3>4
  <2> QED BY <2>1, <2>2
<1> QED BY <1>4, <1>5, <1>6

\* Behind a number, at a character of numbers.
LEMMA DeadStep ==
  ASSUME Sound, pc = "parse", Dead, Next
  PROVE  IInv'
<1>1. /\ first_pass /\ ~Has("string") /\ Has("need_comma") /\ b \in {"+", "-", "e", "E", "."}
      /\ ~Has("done") /\ ~Has("seek_value") => T.type \in Nested
  BY DEF Dead, NumberChars
<1>2. b # NUL /\ b \notin Whitespace /\ b \notin {"\"", ",", "}", "]"} /\ flags \cap {"need_comma", "need_colon"} # {}
  BY <1>1 DEF NUL, Whitespace, Has
<1>3. ~Starts /\ ~InString /\ ~Closes /\ ~InNumber
  BY <1>1, <1>2 DEF Starts, InString, Closes, InNumber, In, Has, Nested
<1>4. ~(Separates /\ b = Due)
  BY <1>1, <1>2 DEF Due
<1>5. StringFails \/ TrailingGarbage \/ SeekFails \/ ObjectFails \/ NumberFails
  <2>1. ~(Character \/ Backslash \/ Escape \/ UnicodeEscape \/ CloseString \/ CloseName)
    BY <1>3 DEF Character, Backslash, Escape, UnicodeEscape, CloseString, CloseName
  <2>2. ~(SkipSpace \/ EndPass \/ CloseArray \/ Separator \/ OpenName \/ EntryComma \/ CloseObject)
    BY <1>2, <1>4 DEF SkipSpace, EndPass, CloseArray, Separator, OpenName, EntryComma, CloseObject
  <2>3. ~(OpenObject \/ OpenArray \/ OpenString \/ (\E w \in Words : Literal(w)) \/ OpenNumber \/ StepOverNumber \/ AllocFails)
    BY <1>3 DEF OpenObject, OpenArray, OpenString, Literal, OpenNumber, StepOverNumber, AllocFails
  <2>4. ~(NumberDigit \/ Sign \/ Point \/ Exponent \/ EndNumber)
    BY <1>3 DEF NumberDigit, Sign, Point, Exponent, EndNumber, Other
  <2>5. ~(StartFreeing \/ FreeChain \/ FreeTree)
    BY DEF StartFreeing, EFailed, FreeChain, FreeTree
  <2> QED BY <2>1, <2>2, <2>3, <2>4, <2>5 DEF Next
<1> QED BY <1>5, GivesUp

\* In a number.
LEMMA InNumberStep ==
  ASSUME NEW s, NEW t, NEW z, NumberTurn(s, t, z), Next
  PROVE  IInv'
<1>1. flags \cap {"string", "done", "seek_value"} = {} /\ Kind(T.type) = "other"
  <2>1. PICK u : u = NumberOf(s)
    OBVIOUS
  <2>2. PICK f : f = s.flags \ {"seek_value"}
    OBVIOUS
  <2> QED BY <2>1, <2>2, NumberTurnIs
<1>2. ~Has("string") /\ ~Has("done") /\ ~Has("seek_value") /\ T.type # "object"
  BY <1>1 DEF Has, Kind
<1>3. Sound /\ pc = "parse"
  BY DEF NumberTurn, Numbering
<1>4. ~InString /\ ~Closes /\ ~AfterRoot /\ ~Seeking /\ ~Starts /\ ~Separates /\ ~In({"object"})
  BY <1>2 DEF InString, Closes, AfterRoot, Seeking, Starts, Separates, In
<1>5. \/ StringFails \/ TrailingGarbage \/ SeekFails \/ ObjectFails \/ NumberFails
      \/ NumberDigit \/ Sign \/ Point \/ Exponent \/ EndNumber
  <2>1. ~(Character \/ Backslash \/ Escape \/ UnicodeEscape \/ CloseString \/ CloseName)
    BY <1>4 DEF Character, Backslash, Escape, UnicodeEscape, CloseString, CloseName
  <2>2. ~(SkipSpace \/ EndPass \/ CloseArray \/ Separator \/ OpenName \/ EntryComma \/ CloseObject)
    BY <1>4 DEF SkipSpace, EndPass, CloseArray, Separator, OpenName, EntryComma, CloseObject
  <2>3. ~(OpenObject \/ OpenArray \/ OpenString \/ (\E w \in Words : Literal(w)) \/ OpenNumber \/ StepOverNumber \/ AllocFails)
    BY <1>4 DEF OpenObject, OpenArray, OpenString, Literal, OpenNumber, StepOverNumber, AllocFails
  <2>4. ~(StartFreeing \/ FreeChain \/ FreeTree)
    BY <1>3 DEF StartFreeing, EFailed, FreeChain, FreeTree
  <2> QED BY <2>1, <2>2, <2>3, <2>4 DEF Next
<1> QED BY <1>3, <1>5, GivesUp, NumberStep, EndNumberStep

\* Where a reading is.
LEMMA SettledStep ==
  ASSUME NEW s, NEW t, NEW z, Turn(s, t, z), Next
  PROVE  IInv'
<1>1. Sound /\ pc = "parse" /\ s.flags = flags \ NumberFlags
  BY DEF Turn, Settled
<1>2. ~InNumber
  <2>1. SUFFICES ASSUME ~Has("string"), ~Has("done"), ~Has("seek_value") PROVE T.type \notin {"integer", "double"}
    BY DEF InNumber, In, Has
  <2>2. ReadingOK(End, s) /\ s.flags \cap {"string", "done", "seek_value"} = {}
    BY <1>1, <2>1, TurnIs DEF Has
  <2>3. s.begun # 0 /\ s.begun \in Nat
    BY <2>2 DEF ReadingOK, ReadingType, FlagsOK
  <2>4. s.kind[s.top] \in Nested
    BY <2>2, <2>3 DEF ReadingOK, FlagsOK
  <2>5. s.kind[top] = Kind(T.type) /\ s.top = top
    BY <2>3, TopIs
  <2> QED BY <2>4, <2>5 DEF Kind, Nested
<1>3. ~(NumberDigit \/ Sign \/ Point \/ Exponent \/ EndNumber)
  BY <1>2 DEF NumberDigit, Sign, Point, Exponent, EndNumber, Other
<1>4. ~(StartFreeing \/ FreeChain \/ FreeTree)
  BY <1>1 DEF StartFreeing, EFailed, FreeChain, FreeTree
<1>5. CASE StringFails \/ TrailingGarbage \/ SeekFails \/ ObjectFails \/ NumberFails
  BY <1>1, <1>5, GivesUp
<1>6. CASE \/ Character \/ Backslash \/ Escape \/ UnicodeEscape \/ CloseString \/ CloseName
           \/ SkipSpace \/ CloseArray \/ Separator \/ OpenName \/ EntryComma \/ CloseObject
  BY <1>6, TextStep
<1>7. CASE OpenObject \/ OpenArray \/ OpenString \/ (\E w \in Words : Literal(w)) \/ StepOverNumber
  BY <1>7, ValueStep
<1>8. CASE EndPass
  BY <1>8, PassStep
<1>9. CASE OpenNumber
  BY <1>9, OpenNumberStep
<1>10. CASE AllocFails
  BY <1>10, MemoryStep
<1> QED BY <1>3, <1>4, <1>5, <1>6, <1>7, <1>8, <1>9, <1>10 DEF Next

LEMMA NextKeeps ==
  ASSUME JsonAssumption, IInv, Next PROVE IInv'
<1>1. Sound /\ Knows
  BY DEF IInv
<1>2. CASE pc = "parse"
  <2>1. CASE Dead
    BY <1>1, <1>2, <2>1, DeadStep
  <2>2. ASSUME NEW s, NEW z, Way(s, z), Settled(s, z) PROVE IInv'
    <3>1. PICK t : t = Read(Mem, End, s)
      OBVIOUS
    <3>2. Turn(s, t, z)
      BY <1>1, <2>2, <3>1, Zenon DEF Turn
    <3> QED BY <3>2, SettledStep
  <2>3. ASSUME NEW s, NEW z, Way(s, z), Numbering(s, z) PROVE IInv'
    <3>1. PICK t : t = Read(Mem, End, s)
      OBVIOUS
    <3>2. NumberTurn(s, t, z)
      BY <1>1, <2>3, <3>1, Zenon DEF NumberTurn
    <3> QED BY <3>2, InNumberStep
  <2> QED BY <1>1, <1>2, <2>1, <2>2, <2>3 DEF Knows
<1>3. CASE pc # "parse"
  <2>1. ~Starts /\ ~InString /\ ~Closes /\ ~InNumber /\ ~AfterRoot /\ ~Seeking /\ ~Separates /\ ~In({"object"})
    BY <1>3 DEF Starts, InString, Closes, InNumber, AfterRoot, Seeking, Separates, In
  <2>2. ~(Character \/ Backslash \/ Escape \/ UnicodeEscape \/ CloseString \/ CloseName)
    BY <2>1 DEF Character, Backslash, Escape, UnicodeEscape, CloseString, CloseName
  <2>3. ~(SkipSpace \/ EndPass \/ CloseArray \/ Separator \/ OpenName \/ EntryComma \/ CloseObject)
    BY <2>1 DEF SkipSpace, EndPass, CloseArray, Separator, OpenName, EntryComma, CloseObject
  <2>4. ~(OpenObject \/ OpenArray \/ OpenString \/ (\E w \in Words : Literal(w)) \/ OpenNumber \/ StepOverNumber \/ AllocFails)
    BY <2>1 DEF OpenObject, OpenArray, OpenString, Literal, OpenNumber, StepOverNumber, AllocFails
  <2>5. ~(NumberDigit \/ Sign \/ Point \/ Exponent \/ EndNumber)
    BY <2>1 DEF NumberDigit, Sign, Point, Exponent, EndNumber, Other
  <2>6. ~(StringFails \/ TrailingGarbage \/ SeekFails \/ ObjectFails \/ NumberFails)
    BY <1>3, <2>1 DEF StringFails, TrailingGarbage, SeekFails, ObjectFails, NumberFails, Other
  <2>7. StartFreeing \/ FreeChain \/ FreeTree
    BY <2>2, <2>3, <2>4, <2>5, <2>6 DEF Next
  <2> QED BY <1>1, <2>7, FreeStep
<1> QED BY <1>2, <1>3

LEMMA InitKnows == ASSUME JsonAssumption, Init PROVE IInv
<1>1. /\ json \in Texts /\ behind \in Behind /\ first_pass = TRUE /\ ptr = 1 /\ flags = {"seek_value"} /\ string_length = 0
      /\ num_digits = 0 /\ num_fraction = 0 /\ num_e = 0 /\ top = 0 /\ root = 0 /\ alloc = 0 /\ values = <<>>
      /\ pc = "parse" /\ at = 0 /\ live = {} /\ failure = "none"
  BY DEF Init
<1>2. Len(values) = 0 /\ IsSeq(values)
  <2>1. <<>> \in Seq({}) /\ Len(<<>>) = 0
    OBVIOUS
  <2> QED BY <1>1, <2>1 DEF IsSeq
<1>3. AreValues(values) /\ Chain
  <2>1. \A v \in 1..Len(values) : FALSE
    BY <1>2
  <2> QED BY <1>2, <2>1 DEF AreValues, Chain
<1>4. Len(json) \in Nat
  <2>1. json \in Seq(Printable \cup Whitespace)
    BY <1>1 DEF JsonAssumption
  <2> HIDE DEF Printable, Whitespace
  <2> QED BY <2>1
<1>5. ptr \in 1..(Len(json) + 2)
  BY <1>1, <1>4
<1>6. Sound
  BY <1>1, <1>2, <1>3, <1>5 DEF Sound, ReaderFlags
<1>7. Way(Begin, Begin)
  BY <1>1, ReachedBegins DEF Way
<1>8. Settled(Begin, Begin)
  <2>1. Begin.place = 1 /\ Begin.flags = {"seek_value"} /\ Begin.size = 0 /\ Begin.top = 0 /\ Begin.begun = 0
    BY DEF Begin
  <2>2. flags \ NumberFlags = {"seek_value"}
    BY <1>1 DEF NumberFlags
  <2>3. Stand(values, Begin, first_pass, Begin)
    <3>1. PICK g : g = Begin
      OBVIOUS
    <3>2. g.begun = 0
      BY <2>1, <3>1
    <3>3. g.begun <= Len(values) /\ \A v \in 1..Len(values) : FALSE
      BY <1>2, <3>2
    <3>4. Stand(values, g, first_pass, g)
      BY <1>1, <1>2, <3>2, <3>3 DEF Stand
    <3> QED BY <3>1, <3>4
  <2> QED BY <1>1, <2>1, <2>2, <2>3 DEF Settled
<1> QED BY <1>6, <1>7, <1>8 DEF IInv, Knows

LEMMA StutterKnows == ASSUME IInv, UNCHANGED vars PROVE IInv'
<1>1. /\ json' = json /\ behind' = behind /\ UNCHANGED <<first_pass, ptr, flags, string_length, num_digits, num_fraction, num_e>>
      /\ UNCHANGED <<top, root, alloc, values, pc, at, live, failure>> /\ UNCHANGED input
  BY DEF vars, input, digits, tree
<1>2. Mem' = Mem /\ End' = End
  BY <1>1, MemSame
<1>3. Sound'
  BY <1>1 DEF IInv, Sound, Chain
<1>4. \A s, z : (Way(s, z)' <=> Way(s, z)) /\ (Settled(s, z)' <=> Settled(s, z)) /\ (Numbering(s, z)' <=> Numbering(s, z))
  BY <1>1, <1>2 DEF Way, Settled, Numbering
<1>5. Dead' <=> Dead
  BY <1>1, <1>2 DEF Dead, Has, T, b, At
<1> QED BY <1>1, <1>3, <1>4, <1>5 DEF IInv, Knows

LEMMA SoundIs == ASSUME JsonAssumption, IInv PROVE TypeOK /\ WritesFit
<1>1. Sound /\ Len(json) \in Nat
  BY TextIs DEF IInv
<1>2. AreValues(values) /\ Len(values) \in Nat /\ IsSeq(values)
  BY <1>1, SeqFacts DEF Sound, AreValues
<1>3. DOMAIN values = 1..Len(values)
  BY <1>2, SeqFacts
<1>4. \A v \in Ids : IsValue(values[v], v, Len(values))
  BY <1>2, <1>3 DEF Ids, AreValues
<1>5. WritesFit
  BY <1>4 DEF WritesFit, IsValue
<1>6. TypeOK
  <2>1. flags \subseteq {"need_comma", "seek_value", "escaped", "string", "need_colon", "done",
                         "num_negative", "num_zero", "num_e", "num_e_got_sign", "num_e_negative"}
    BY <1>1 DEF Sound, ReaderFlags, NumberFlags
  <2>2. {top, root, alloc, at} \subseteq Ids \cup {0}
    <3>1. 0..Len(values) \subseteq Ids \cup {0}
      BY <1>2, <1>3 DEF Ids
    <3> QED BY <1>1, <3>1 DEF Sound
  <2>3. live \subseteq Ids \X {"itself", "contents"}
    BY <1>1, <1>3 DEF Sound, Ids
  <2>4. \A v \in Ids : /\ values[v].type \in Types /\ values[v].parent \in 0..(v - 1)
                       /\ values[v].length \in Nat /\ values[v].names \in Nat /\ values[v].reserved \in Nat
    BY <1>4 DEF IsValue
  <2> QED BY <1>1, <2>1, <2>2, <2>3, <2>4 DEF TypeOK, Sound
<1> QED BY <1>5, <1>6

-----------------------------------------------------------------------------
(* What holds of every run. *)

\* Every step of json_parse_ex, or of the walks that free, keeps what is known of it (IInv):
\* it is at a reading, and in the second pass that reading goes on to the first pass's last.
THEOREM ParserInductive == Spec => []IInv
<1>1. JsonAssumption /\ Init => IInv
  BY Zenon, InitKnows
<1>2. JsonAssumption /\ IInv /\ [Next]_vars => IInv'
  BY Zenon, NextKeeps, StutterKnows
<1>3. JsonAssumption
  BY Zenon, JsonAssumption
<1> QED BY <1>1, <1>2, <1>3, PTL DEF Spec

\* Every variable keeps its type (TypeOK).
THEOREM ParserTypeCorrect == Spec => []TypeOK
<1>1. IInv => TypeOK
  BY Zenon, SoundIs, JsonAssumption
<1> QED BY <1>1, ParserInductive, PTL

\* The second pass never writes behind what new_value has allocated for a value (json.c:119-160):
\* elements, entries, names and strings fit into what the first pass counted (WritesFit).
THEOREM WritesFitHolds == Spec => []WritesFit
<1>1. IInv => WritesFit
  BY Zenon, SoundIs, JsonAssumption
<1> QED BY <1>1, ParserInductive, PTL

-----------------------------------------------------------------------------
(* The command file. *)

FileIInv ==
  /\ IInv /\ process \in {"starts", "runs", "exited", "crashed"}
  /\ asked \in {<<>>, <<1>>} \cup ({0} \X RequestIds \X RequestIds)
  /\ answer = {} \/ \E text : answer = {text}

LEMMA FileKeeps == ASSUME JsonAssumption, FileIInv, [FileNext]_fileVars PROVE FileIInv'
<1>1. IInv
  BY DEF FileIInv
<1>2. CASE Parse
  <2>1. Next /\ process' = process /\ asked' = asked /\ answer' = answer
    BY <1>2 DEF Parse, handler
  <2>2. IInv'
    BY <1>1, <2>1, NextKeeps
  <2> QED BY <2>1, <2>2 DEF FileIInv
<1>3. CASE Validate
  <2>1. UNCHANGED vars /\ asked' = asked /\ answer' = answer /\ process' \in {"starts", "runs", "exited", "crashed"}
    <3>1. UNCHANGED vars /\ asked' = asked /\ answer' = answer
      BY <1>3 DEF Validate
    <3>2. process' \in {"crashed"} \/ process' \in {"exited"} \/ process' \in {"crashed", "exited"} \/ process' \in {"runs"}
      BY <1>3 DEF Validate
    <3> QED BY <3>1, <3>2
  <2>2. IInv'
    BY <1>1, <2>1, StutterKnows
  <2> QED BY <2>1, <2>2 DEF FileIInv
<1>4. CASE handle_cmd1
  <2>1. UNCHANGED vars /\ asked' = <<1>> /\ process' = process /\ \E text : answer' = {text}
    BY <1>4 DEF handle_cmd1
  <2>2. IInv'
    BY <1>1, <2>1, StutterKnows
  <2> QED BY <2>1, <2>2 DEF FileIInv
<1>5. ASSUME NEW primary \in RequestIds, NEW secondary \in RequestIds, handle_cmd0(primary, secondary) PROVE FileIInv'
  <2>1. /\ UNCHANGED vars /\ asked' = <<0, primary, secondary>> /\ process' \in {"runs", "exited"}
        /\ answer' = {} \/ \E text : answer' = {text}
    BY <1>5 DEF handle_cmd0
  <2>2. IInv'
    BY <1>1, <2>1, StutterKnows
  <2>3. asked' \in {0} \X RequestIds \X RequestIds
    BY <2>1
  <2> QED BY <2>1, <2>2, <2>3 DEF FileIInv
<1>6. CASE UNCHANGED fileVars
  <2>1. UNCHANGED vars /\ process' = process /\ asked' = asked /\ answer' = answer
    BY <1>6 DEF fileVars, handler
  <2>2. IInv'
    BY <1>1, <2>1, StutterKnows
  <2> QED BY <2>1, <2>2 DEF FileIInv
<1> QED BY <1>2, <1>3, <1>4, <1>5, <1>6 DEF FileNext

\* The same of the parser under the constructor and the requests of the command handler, with
\* the types of the handler (FileIInv).
THEOREM FileInductive == FileSpec => []FileIInv
<1>1. JsonAssumption
  BY Zenon, JsonAssumption
<1>2. FileInit => FileIInv
  <2>1. SUFFICES ASSUME FileInit PROVE FileIInv
    OBVIOUS
  <2>2. IInv
    BY Zenon, <1>1, <2>1, InitKnows DEF FileInit
  <2> QED BY <2>1, <2>2 DEF FileInit, FileIInv
<1>3. FileIInv /\ [FileNext]_fileVars => FileIInv'
  BY Zenon, <1>1, FileKeeps
<1> QED BY <1>2, <1>3, PTL DEF FileSpec

\* Every variable of the parser and the handler keeps its type, and a request has one answer
\* at most (FileTypeOK).
THEOREM FileTypeCorrect == FileSpec => []FileTypeOK
<1>1. FileIInv => FileTypeOK
  <2>1. SUFFICES ASSUME FileIInv PROVE FileTypeOK
    OBVIOUS
  <2>2. TypeOK
    BY Zenon, <2>1, SoundIs, JsonAssumption DEF FileIInv
  <2>3. Cardinality(answer) <= 1
    <3>1. CASE answer = {}
      BY <3>1, FS_EmptySet
    <3>2. ASSUME NEW text, answer = {text} PROVE Cardinality(answer) <= 1
      <4>1. Cardinality({text}) = 1
        BY FS_Singleton
      <4> QED BY <3>2, <4>1
    <3> QED BY <2>1, <3>1, <3>2 DEF FileIInv
  <2> QED BY <2>1, <2>2, <2>3 DEF FileIInv, FileTypeOK
<1> QED BY <1>1, FileInductive, PTL

\* What the handler makes the parser write fits as well (WritesFit).
THEOREM FileWritesFit == FileSpec => []WritesFit
<1>1. FileIInv => WritesFit
  BY Zenon, SoundIs, JsonAssumption DEF FileIInv
<1> QED BY <1>1, FileInductive, PTL

=============================================================================
