---------------------------- MODULE ClientRegistry ----------------------------
(***************************************************************************)
(* The client registry of the relay: Server::client_sockets and the two    *)
(* threads that use it without a lock (src/src/Server.cpp).                *)
(*                                                                         *)
(*   - The SERVER thread (Server::run) registers and refreshes clients and *)
(*     looks for command clients that stopped pinging.                     *)
(*   - The GAMEPAD thread broadcasts video, audio and commands: it walks   *)
(*     the vector by index, holds a C++ reference into it while it sends,  *)
(*     and removes a client whose sends keep failing.                      *)
(*                                                                         *)
(* One action is one step between two accesses to shared state, so the     *)
(* threads interleave between the size test and the send, between two      *)
(* sends of one packet, between the search of remove_client_socket and its *)
(* close, and between its close and its erase.  One vector operation       *)
(* (push_back, erase, one search) is one step.                             *)
(*                                                                         *)
(* The vector is its memory: slots, a size and a capacity.  erase moves    *)
(* the later slots down and leaves the last one's bytes behind; push_back  *)
(* at full capacity moves the vector, and a reference held across it reads *)
(* freed memory from then on and loses what is written through it.         *)
(***************************************************************************)
EXTENDS Integers, FiniteSets

CONSTANTS
  Fds,          \* descriptor numbers accept() can return
  NoFd,         \* -1, what a failed accept() returns
  StaleFd,      \* what freed memory reads as, once the allocator reuses it
  UninitFds,    \* what the fd a COMMAND client never gets can read as
  Peers,        \* addresses (addr and port) of command clients
  NoPeer,       \* addr = 0 and port = 0, the address of a media client
  MaxClients,   \* bound on the size of the registry
  PingTimeout,  \* seconds without a ping before a client is stale (5)
  TriesAllowed, \* failed sends to an entry that are only counted (3)
  CommandTries, \* tries a command client starts with (2)
  PacketLen,    \* bytes of a media packet, delimiter included
  CmdSendFails, \* whether sendto() on the command socket may fail
  MayStall      \* descriptors whose peer may stop reading

ASSUME RegistryAssumption ==
  /\ NoFd \notin Fds /\ StaleFd \notin Fds /\ StaleFd # NoFd
  /\ NoPeer \notin Peers
  /\ MaxClients \in Nat \ {0} /\ PingTimeout \in Nat \ {0}
  /\ CommandTries \in Nat /\ TriesAllowed \in Nat /\ CommandTries < TriesAllowed
  /\ PacketLen \in Nat \ {0} /\ CmdSendFails \in BOOLEAN
  /\ Fds \cap Peers = {}

VARIABLES
  mem, size, capacity,                          \* the vector
  open, dead, slow,                             \* descriptors, and their peers
  gpc, gtype, gidx, gdangling, gcopy, gremaining, gvictim,   \* gamepad thread
  spc, sidx, scopy, svictim,                    \* server thread
  alive,                                        \* the process runs
  fails,     \* history: failed sends to a descriptor since its accept, or to a peer
  clash,     \* history: an uninitialised fd had the value of a descriptor
  dangled,   \* history: a reference was held across a move of the vector
  reached,   \* history: clients this broadcast has sent to, or tried to
  removed,   \* history: this broadcast has erased a client
  gtarget    \* whom this packet is for: sendto's address, or (history) the descriptor

vector  == <<mem, size, capacity>>
system  == <<open, dead, slow>>
gamepad == <<gpc, gtype, gidx, gdangling, gcopy, gremaining, gvictim>>
server  == <<spc, sidx, scopy, svictim>>
history == <<fails, clash, dangled, reached, removed, gtarget>>
vars    == <<vector, system, gamepad, server, alive, history>>

VIDEO   == 0
AUDIO   == 1
COMMAND == 2
Media   == {VIDEO, AUDIO}

AnyFd  == Fds \cup UninitFds \cup {NoFd, StaleFd}
Client == [type : {VIDEO, AUDIO, COMMAND}, fd : AnyFd, peer : Peers \cup {NoPeer},
           age : 0..PingTimeout, tries : 0..TriesAllowed]
Blank  == [type |-> VIDEO, fd |-> NoFd, peer |-> NoPeer, age |-> 0, tries |-> 0]

\* Freed memory after reuse: no descriptor and no address, any try count.
Garbage == [type : {VIDEO}, fd : {StaleFd}, peer : {NoPeer}, age : {0},
            tries : 0..TriesAllowed]

Index == 1..MaxClients

\* What a client is known by: its address, or its connection.
Key(client) == IF client.type = COMMAND THEN client.peer ELSE client.fd

VectorTypes ==
  /\ mem \in [Index -> Client] /\ size \in 0..MaxClients /\ capacity \in Nat

SystemTypes ==
  open \subseteq Fds /\ dead \subseteq Fds /\ slow \subseteq Fds

GamepadTypes ==
  /\ gpc \in {"idle", "next", "send", "remove", "close", "erase"}
  /\ gtype \in {VIDEO, AUDIO, COMMAND}
  /\ gidx \in 1..(MaxClients + 1)
  /\ gcopy \in Client
  /\ gremaining \in 0..PacketLen
  /\ gvictim \in 0..MaxClients

ServerTypes ==
  /\ spc \in {"command", "video", "audio", "check", "remove", "close", "erase"}
  /\ sidx \in 1..(MaxClients + 1)
  /\ scopy \in Client
  /\ svictim \in 0..MaxClients

HistoryTypes ==
  /\ fails \in [Fds \cup Peers -> 0..(TriesAllowed + 1)]
  /\ reached \subseteq AnyFd \cup Peers \cup {NoPeer}
  /\ gtarget \in AnyFd \cup Peers \cup {NoPeer}

Flags ==
  /\ alive \in BOOLEAN /\ gdangling \in BOOLEAN
  /\ clash \in BOOLEAN /\ dangled \in BOOLEAN /\ removed \in BOOLEAN

TypeOK == VectorTypes /\ SystemTypes /\ GamepadTypes /\ ServerTypes /\ HistoryTypes /\ Flags

Init ==
  /\ mem = [i \in Index |-> Blank] /\ size = 0 /\ capacity = 0
  /\ open = {} /\ dead = {} /\ slow = {}
  /\ gpc = "idle" /\ gtype = VIDEO /\ gidx = 1
  /\ gdangling = FALSE /\ gcopy = Blank /\ gremaining = 0 /\ gvictim = 0
  /\ spc = "command" /\ sidx = 1 /\ scopy = Blank /\ svictim = 0
  /\ alive = TRUE
  /\ fails = [x \in Fds \cup Peers |-> 0]
  /\ clash = FALSE /\ dangled = FALSE /\ reached = {} /\ removed = FALSE
  /\ gtarget = NoFd

-----------------------------------------------------------------------------
(* The vector. *)

\* The gamepad thread holds a reference into the vector and will use it again.
Holding == gpc \in {"send", "remove", "close"}

\* What the reference client_socket of a broadcast denotes now.
Ref == IF gdangling THEN gcopy ELSE mem[gidx]

Grown == IF size < capacity THEN capacity ELSE IF capacity = 0 THEN 1 ELSE 2 * capacity

PushBack(client) ==
  /\ size < MaxClients
  /\ mem' = [mem EXCEPT ![size + 1] = client]
  /\ size' = size + 1
  /\ capacity' = Grown
  /\ IF size = capacity /\ Holding /\ ~gdangling
       THEN /\ gdangling' = TRUE
            /\ gcopy' \in {mem[gidx]} \cup Garbage
            /\ dangled' = TRUE
       ELSE UNCHANGED <<gdangling, gcopy, dangled>>
  /\ UNCHANGED <<gpc, gtype, gidx, gremaining, gvictim>>

\* vector::erase moves the later slots down; the bytes of the slot
\* that was last stay where they are, past the new end, where only a reference
\* held across the erase can still see them (they are forgotten otherwise).
EraseSlot(i) ==
  /\ mem' = [j \in Index |-> IF i <= j /\ j < size THEN mem[j + 1]
                            ELSE IF j = size /\ ~Holding THEN Blank ELSE mem[j]]
  /\ size' = size - 1
  /\ UNCHANGED capacity

\* The search of remove_client_socket: by address where there is one, or by fd.
Matches_AddrUnchecked(entry, client) ==
  entry.peer = client.peer \/ entry.fd = client.fd

Matches(entry, client) ==
  \/ entry.peer # NoPeer /\ entry.peer = client.peer
  \/ entry.fd = client.fd

HasMatch(client) == \E i \in 1..size : Matches(mem[i], client)

FirstMatch(client) ==
  CHOOSE i \in 1..size :
    /\ Matches(mem[i], client)
    /\ \A j \in 1..(i - 1) : ~Matches(mem[j], client)

\* A removal first counts tries, and goes through once they are used up.
OutOfTries_Late(client)  == client.tries > TriesAllowed
OutOfTries_Early(client) == client.tries >= TriesAllowed - 1
OutOfTries(client)       == client.tries >= TriesAllowed

-----------------------------------------------------------------------------
(* Server thread: one pass of update_sockets and check_socket_time. *)

ServerStep(from, to) == spc = from /\ spc' = to /\ UNCHANGED alive

\* The pass looks at the command, video and audio sockets in this order, and
\* passes over the ones select() does not report.
Ready(stage) ==
  spc \in (CASE stage = "command" -> {"command"}
              [] stage = "video"   -> {"command", "video"}
              [] stage = "audio"   -> {"command", "video", "audio"})

ServeStep(stage, to) == Ready(stage) /\ spc' = to /\ UNCHANGED alive

\* register_client_socket(port, addr, type): fd is never assigned.
CommandEntry_Spent(p, fd) ==
  [type |-> COMMAND, fd |-> fd, peer |-> p, age |-> 0, tries |-> TriesAllowed]

CommandEntry(p, fd) ==
  [type |-> COMMAND, fd |-> fd, peer |-> p, age |-> 0, tries |-> CommandTries]

Register(p) ==
  /\ ServerStep("command", "video")
  /\ \E garbage \in UninitFds :
       /\ PushBack(CommandEntry(p, garbage))
       /\ clash' = (clash \/ garbage \in Fds \cup {NoFd, StaleFd})
  /\ UNCHANGED <<system, sidx, scopy, svictim, fails, reached, removed, gtarget>>

\* Only the first entry with this address is refreshed.
UpdateSocketTime(p) ==
  LET mine == {i \in 1..size : mem[i].peer = p}
  IN mem' = [i \in Index |->
              IF i \in mine /\ \A j \in mine : i <= j
                THEN [mem[i] EXCEPT !.age = 0] ELSE mem[i]]

\* pong.  A failed answer ends the process (Logger::error exits).
Ping(p) ==
  /\ UpdateSocketTime(p)
  /\ \/ ServerStep("command", "video")
     \/ CmdSendFails /\ spc = "command" /\ alive' = FALSE /\ UNCHANGED spc
  /\ UNCHANGED <<size, capacity, system, gamepad, sidx, scopy, svictim, history>>

\* register_client_socket(fd, type) on a connection, or on accept's -1.
MediaEntry(type, fd) ==
  [type |-> type, fd |-> fd, peer |-> NoPeer, age |-> 0, tries |-> 0]

Accept(type, fd) ==
  /\ IF type = VIDEO THEN ServeStep("video", "audio") ELSE ServeStep("audio", "check")
  /\ fd \notin open
  /\ PushBack(MediaEntry(type, fd))
  /\ IF fd = NoFd
       THEN UNCHANGED <<system, fails>>
       ELSE /\ open' = open \cup {fd} /\ UNCHANGED <<dead, slow>>
            /\ fails' = [fails EXCEPT ![fd] = 0]
  /\ UNCHANGED <<sidx, scopy, svictim, clash, reached, removed, gtarget>>

\* check_socket_time, one turn of its loop.  It works on a copy of the entry.
CheckStarts ==
  /\ ServeStep("audio", "check")
  /\ UNCHANGED <<vector, system, gamepad, sidx, scopy, svictim, history>>

CheckDone ==
  /\ ServerStep("check", "command") /\ sidx > size /\ sidx' = 1
  /\ UNCHANGED <<vector, system, gamepad, scopy, svictim, history>>

Stale(client) == client.type = COMMAND /\ client.age >= PingTimeout

CheckFresh ==
  /\ ServerStep("check", "check") /\ sidx <= size /\ ~Stale(mem[sidx])
  /\ sidx' = sidx + 1
  /\ UNCHANGED <<vector, system, gamepad, scopy, svictim, history>>

CheckStale ==
  /\ ServerStep("check", "remove") /\ sidx <= size /\ Stale(mem[sidx])
  /\ scopy' = mem[sidx]
  /\ UNCHANGED <<vector, system, gamepad, sidx, svictim, history>>

\* remove_client_socket(&s): the counted try goes into the copy and is lost.
ServerGivesUp ==
  /\ ServerStep("remove", "check")
  /\ ~OutOfTries(scopy) \/ ~HasMatch(scopy)
  /\ sidx' = sidx + 1 /\ scopy' = Blank
  /\ UNCHANGED <<vector, system, gamepad, svictim, history>>

ServerFinds ==
  /\ ServerStep("remove", "close")
  /\ OutOfTries(scopy) /\ HasMatch(scopy)
  /\ svictim' = FirstMatch(scopy)
  /\ UNCHANGED <<vector, system, gamepad, sidx, scopy, history>>

CloseFd_Forgotten(fd) == UNCHANGED system
CloseFd(fd) ==
  open' = open \ {fd} /\ dead' = dead \ {fd} /\ slow' = slow \ {fd}

ServerCloses ==
  /\ ServerStep("close", "erase")
  /\ CloseFd(scopy.fd)
  /\ UNCHANGED <<vector, gamepad, sidx, scopy, svictim, history>>

ServerErases ==
  /\ ServerStep("erase", "check") /\ size > 0
  /\ EraseSlot(svictim)
  /\ sidx' = sidx + 1 /\ scopy' = Blank /\ svictim' = 0
  /\ UNCHANGED <<system, gamepad, history>>

\* Erasing past the end is undefined: it drops the last entry (above), or moves
\* a negative number of slots and the process crashes.
ServerErasesPastEnd ==
  /\ spc = "erase" /\ svictim > size /\ alive' = FALSE
  /\ UNCHANGED <<vector, system, gamepad, server, history>>

-----------------------------------------------------------------------------
(* Gamepad thread: broadcast_media and broadcast_command. *)

GamepadStep(from, to) == gpc = from /\ gpc' = to

\* The index after one client is dealt with, whatever became of it.
NextIndex_Twice == gidx + 2
NextIndex       == gidx + 1

NextClient ==
  /\ gidx' = NextIndex
  /\ gdangling' = FALSE /\ gcopy' = Blank /\ gremaining' = 0 /\ gvictim' = 0
  /\ gtarget' = NoFd
  /\ UNCHANGED gtype

StartBroadcast(type) ==
  /\ GamepadStep("idle", "next")
  /\ gtype' = type
  /\ UNCHANGED <<vector, system, server, alive, history, gidx, gdangling, gcopy, gremaining,
                 gvictim>>

EndBroadcast ==
  /\ GamepadStep("next", "idle") /\ gidx > size /\ gidx' = 1
  /\ reached' = {} /\ removed' = FALSE
  /\ UNCHANGED <<vector, system, server, alive, gtype, gdangling, gcopy, gremaining, gvictim,
                 fails, clash, dangled, gtarget>>

OtherType ==
  /\ GamepadStep("next", "next") /\ gidx <= size /\ mem[gidx].type # gtype
  /\ NextClient
  /\ UNCHANGED <<vector, system, server, alive, fails, clash, dangled, reached, removed>>

TakeReference ==
  /\ GamepadStep("next", "send") /\ gidx <= size /\ mem[gidx].type = gtype
  /\ gremaining' = IF gtype = COMMAND THEN 1 ELSE PacketLen
  /\ gtarget' = Key(mem[gidx]) /\ reached' = reached \cup {Key(mem[gidx])}
  /\ UNCHANGED <<vector, system, server, alive, gtype, gidx, gdangling, gcopy, gvictim,
                 fails, clash, dangled, removed>>

\* send() takes n bytes of what remains; a peer that stops reading blocks it.
SendSome(n) ==
  /\ gpc = "send" /\ gtype \in Media /\ n <= gremaining
  /\ Ref.fd \in open /\ Ref.fd \notin dead \cup slow
  /\ IF n = gremaining
       THEN GamepadStep("send", "next") /\ NextClient
       ELSE /\ gremaining' = gremaining - n
            /\ UNCHANGED <<gpc, gtype, gidx, gdangling, gcopy, gvictim, gtarget>>
  /\ UNCHANGED <<vector, system, server, alive, fails, clash, dangled, reached, removed>>

Count(x) == fails' = [fails EXCEPT ![x] = IF @ <= TriesAllowed THEN @ + 1 ELSE @]

SendFails ==
  /\ GamepadStep("send", "remove") /\ gtype \in Media
  /\ Ref.fd \notin open \/ Ref.fd \in dead
  /\ IF Ref.fd \in Fds THEN Count(Ref.fd) ELSE UNCHANGED fails
  /\ UNCHANGED <<vector, system, server, alive, gtype, gidx, gdangling, gcopy, gremaining,
                 gvictim, clash, dangled, reached, removed, gtarget>>

\* sendto() on the one UDP socket; the address was copied before the loop.
CommandSent ==
  /\ GamepadStep("send", "next") /\ gtype = COMMAND
  /\ NextClient
  /\ UNCHANGED <<vector, system, server, alive, fails, clash, dangled, reached, removed>>

CommandSendFails ==
  /\ CmdSendFails
  /\ GamepadStep("send", "remove") /\ gtype = COMMAND
  /\ IF gtarget \in Peers THEN Count(gtarget) ELSE UNCHANGED fails
  /\ UNCHANGED <<vector, system, server, alive, gtype, gidx, gdangling, gcopy, gremaining,
                 gvictim, clash, dangled, reached, removed, gtarget>>

\* tries++ through the reference: into the entry, or into freed memory.
Strike_Lost == UNCHANGED mem
Strike ==
  IF gdangling THEN UNCHANGED mem ELSE mem' = [mem EXCEPT ![gidx].tries = @ + 1]

GamepadStrikes ==
  /\ GamepadStep("remove", "next")
  /\ ~OutOfTries(Ref)
  /\ Strike /\ NextClient
  /\ UNCHANGED <<size, capacity, system, server, alive, fails, clash, dangled, reached, removed>>

GamepadMisses ==
  /\ GamepadStep("remove", "next")
  /\ OutOfTries(Ref) /\ ~HasMatch(Ref)
  /\ NextClient
  /\ UNCHANGED <<vector, system, server, alive, fails, clash, dangled, reached, removed>>

GamepadFinds ==
  /\ GamepadStep("remove", "close")
  /\ OutOfTries(Ref) /\ HasMatch(Ref)
  /\ gvictim' = FirstMatch(Ref)
  /\ UNCHANGED <<vector, system, server, alive, history, gtype, gidx, gdangling, gcopy,
                 gremaining>>

GamepadCloses ==
  /\ GamepadStep("close", "erase")
  /\ CloseFd(Ref.fd)
  /\ UNCHANGED <<vector, server, alive, history, gtype, gidx, gdangling, gcopy, gremaining,
                 gvictim>>

GamepadErases ==
  /\ GamepadStep("erase", "next") /\ size > 0
  /\ EraseSlot(gvictim) /\ NextClient
  /\ removed' = TRUE
  /\ UNCHANGED <<system, server, alive, fails, clash, dangled, reached>>

GamepadErasesPastEnd ==
  /\ gpc = "erase" /\ gvictim > size /\ alive' = FALSE
  /\ UNCHANGED <<vector, system, gamepad, server, history>>

-----------------------------------------------------------------------------
(* The environment. *)

\* A second passes: every entry's ping gets older.
Tick ==
  /\ mem' = [i \in Index |->
              IF i <= size /\ mem[i].type = COMMAND /\ mem[i].age < PingTimeout
                THEN [mem[i] EXCEPT !.age = @ + 1] ELSE mem[i]]
  /\ UNCHANGED <<size, capacity, system, gamepad, server, alive, history>>

PeerDies(fd) ==
  /\ fd \in open \ dead /\ dead' = dead \cup {fd} /\ slow' = slow \ {fd}
  /\ UNCHANGED <<vector, open, gamepad, server, alive, history>>

PeerStalls(fd) ==
  /\ fd \in open \ (dead \cup slow) /\ fd \in MayStall /\ slow' = slow \cup {fd}
  /\ UNCHANGED <<vector, open, dead, gamepad, server, alive, history>>

PeerResumes(fd) ==
  /\ fd \in slow /\ slow' = slow \ {fd}
  /\ UNCHANGED <<vector, open, dead, gamepad, server, alive, history>>

ServerNext ==
  \/ \E p \in Peers : Register(p) \/ Ping(p)
  \/ \E type \in Media, fd \in Fds \cup {NoFd} : Accept(type, fd)
  \/ CheckStarts \/ CheckDone \/ CheckFresh \/ CheckStale
  \/ ServerGivesUp \/ ServerFinds \/ ServerCloses \/ ServerErases \/ ServerErasesPastEnd

GamepadNext ==
  \/ EndBroadcast \/ OtherType \/ TakeReference
  \/ \E n \in 1..PacketLen : SendSome(n)
  \/ SendFails \/ CommandSent \/ CommandSendFails
  \/ GamepadStrikes \/ GamepadMisses \/ GamepadFinds \/ GamepadCloses
  \/ GamepadErases \/ GamepadErasesPastEnd

Environment ==
  \/ Tick
  \/ \E fd \in Fds : PeerDies(fd) \/ PeerStalls(fd) \/ PeerResumes(fd)

Next ==
  /\ alive
  /\ \/ ServerNext \/ GamepadNext \/ Environment
     \/ \E type \in {VIDEO, AUDIO, COMMAND} : StartBroadcast(type)

Spec == Init /\ [][Next]_vars

-----------------------------------------------------------------------------
(* Properties. *)

\* No undefined value has struck yet: no uninitialised fd had the value of a
\* descriptor, and no send to a command client has failed.
Quiet == ~clash /\ \A p \in Peers : fails[p] = 0

IsMedia(i) == mem[i].type \in Media /\ mem[i].fd \in Fds

\* The gamepad thread has closed this entry's descriptor and not erased it yet.
Leaving(i) == gpc = "erase" /\ gvictim = i

\* Every media entry holds a descriptor that is open and that no other entry
\* holds, except the one entry between close() and erase() of its removal, whose
\* number accept() may already have handed out again.
FdOwnership ==
  Quiet => \A i \in 1..size : IsMedia(i) /\ ~Leaving(i) =>
             /\ mem[i].fd \in open
             /\ \A j \in 1..size : IsMedia(j) /\ mem[j].fd = mem[i].fd => i = j \/ Leaving(j)

\* Every accepted descriptor stays registered until it is closed: nothing is
\* leaked while no reference has been held across a move of the vector.
NoDescriptorLeak ==
  Quiet /\ ~dangled =>
    \A fd \in open : \E i \in 1..size : IsMedia(i) /\ ~Leaving(i) /\ mem[i].fd = fd

\* All sends of one packet go to the client the reference was taken to, in
\* spite of what the server thread does to the vector between them: at worst the
\* reference reads freed memory and the send fails.
PacketToOneClient ==
  Quiet /\ gpc = "send" /\ gtype \in Media =>
    /\ Ref.fd \in {gtarget, StaleFd}
    /\ mem[gidx].type = gtype /\ mem[gidx].fd = gtarget

\* A broadcast passes over no client of its type: those before the index have
\* been sent to or tried, unless this broadcast has erased an entry (the index
\* then steps over the one that moved into its place).
NobodyPassedOver ==
  Quiet /\ ~removed =>
    \A i \in 1..size : i < gidx /\ mem[i].type = gtype => Key(mem[i]) \in reached

\* The two threads never remove at the same time, and an erase is in range.
RemovalsDoNotMeet ==
  Quiet => spc \notin {"close", "erase"} /\ (gpc = "erase" => gvictim \in 1..size)

Registered(fd) == \E i \in 1..size : IsMedia(i) /\ mem[i].fd = fd

\* A media client is closed, and leaves the registry, only after one more send
\* to this very connection than TriesAllowed has failed (four).
DropNeedsFailures ==
  [][Quiet' => \A fd \in Fds :
       \/ fd \in open /\ fd \notin open'
       \/ Registered(fd) /\ ~Registered(fd)'
       => fails[fd] > TriesAllowed]_vars

Subscribed(p) == \E i \in 1..size : mem[i].type = COMMAND /\ mem[i].peer = p

\* A command client is never dropped while its sends succeed, however long it
\* has not pinged: the time check counts its try in a copy of the entry.
CommandClientsStay == [][Quiet => \A p \in Peers : Subscribed(p) => Subscribed(p)']_vars

\* The console keeps both streams coming, and the gamepad thread runs.
Fairness ==
  /\ WF_vars(alive /\ GamepadNext)
  /\ \A type \in Media : SF_vars(alive /\ StartBroadcast(type))

FairSpec == Spec /\ Fairness

\* The gamepad thread is inside a send() to a client that does not read.
Blocked == gpc = "send" /\ gtype \in Media /\ Ref.fd \in slow

\* A client whose connection is dead leaves the registry in the end, unless a
\* client that stopped reading holds the gamepad thread for ever.
DeadClientsLeave ==
  \A fd \in Fds : <>[]Blocked \/ (fd \in dead ~> ~Registered(fd) \/ fd \notin dead)

=============================================================================
