-------------------------- MODULE ClientRegistryProofs --------------------------
(***************************************************************************)
(* Theorems about the client registry, for every set of descriptors and    *)
(* peers and every bound.                                                  *)
(*                                                                         *)
(* The argument has three layers, each inductive once the ones before it   *)
(* are known: the types and the ranges of the indices (TypeInv); what the  *)
(* entries, the reference and the server thread may hold as long as no     *)
(* undefined value has struck (QuietInv); and the bookkeeping between      *)
(* descriptors, failures, the broadcast in progress and the entries        *)
(* (BookInv).                                                              *)
(***************************************************************************)
EXTENDS ClientRegistry, NaturalsInduction, WellFoundedInduction, TLAPS

-----------------------------------------------------------------------------
(* The inductive invariant. *)

Ranges ==
  /\ gpc \notin {"idle", "next"} => gidx \in Index
  /\ gpc \in {"close", "erase"} => gvictim \in Index
  /\ spc \in {"remove", "close", "erase"} => sidx \in Index
  /\ spc \in {"close", "erase"} => svictim \in Index
  /\ gpc = "remove" /\ ~gdangling => gidx \in Index
  /\ gpc = "idle" => gidx = 1

TypeInv == TypeOK /\ Ranges

\* TypeOK without the flags, which the provers treat apart.
DataTypes == VectorTypes /\ SystemTypes /\ GamepadTypes /\ ServerTypes /\ HistoryTypes

\* A command entry keeps the tries it was born with and an fd that is nobody's;
\* a media entry holds a descriptor, or accept's -1, and no address.
EntriesKeep ==
  \A i \in 1..size :
    IF mem[i].type = COMMAND
      THEN /\ mem[i].peer \in Peers /\ mem[i].tries = CommandTries
           /\ mem[i].fd \notin Fds \cup {NoFd, StaleFd}
      ELSE mem[i].peer = NoPeer /\ mem[i].fd \in Fds \cup {NoFd}

\* The server thread never has a try count that lets a removal through.
ServerHarmless ==
  /\ spc \notin {"close", "erase"}
  /\ spc = "remove" => scopy.tries = CommandTries

\* The same client, whatever the age of its ping.
Same(a, b) == a.type = b.type /\ a.fd = b.fd /\ a.peer = b.peer /\ a.tries = b.tries

\* The reference denotes the entry it was taken to, or freed memory.
RefDenotes ==
  /\ gpc \in {"idle", "next"} => ~gdangling
  /\ Holding =>
       /\ gidx \in 1..size /\ mem[gidx].type = gtype /\ gtarget = Key(mem[gidx])
       /\ gdangling => gcopy \in Garbage \/ Same(gcopy, mem[gidx])
  /\ gpc \in {"remove", "close"} => gtype \in Media
  /\ gpc \in {"close", "erase"} =>
       gvictim \in 1..size /\ mem[gvictim].type \in Media
  /\ gpc = "close" => Ref.fd \in {mem[gvictim].fd, StaleFd}

Undisturbed == EntriesKeep /\ ServerHarmless /\ RefDenotes

QuietInv == Quiet => Undisturbed

\* Descriptors: open while their entry stays, and nobody else's.
Owned ==
  \A i \in 1..size : IsMedia(i) /\ ~Leaving(i) =>
    /\ mem[i].fd \in open
    /\ \A j \in 1..size : IsMedia(j) /\ mem[j].fd = mem[i].fd => i = j \/ Leaving(j)

\* Failures: an entry has no more tries than its connection has failures, and
\* the one being removed has used them all up or its number is someone else's.
Struck ==
  /\ \A i \in 1..size : IsMedia(i) /\ ~Leaving(i) => mem[i].tries <= fails[mem[i].fd]
  /\ gpc = "remove" /\ Ref.fd \in Fds => Ref.tries < fails[Ref.fd]
  /\ gpc = "close" /\ mem[gvictim].fd \in Fds => fails[mem[gvictim].fd] > TriesAllowed
  /\ gpc = "erase" /\ mem[gvictim].fd \in Fds =>
       \/ fails[mem[gvictim].fd] > TriesAllowed
       \/ \E j \in 1..size : j # gvictim /\ IsMedia(j) /\ mem[j].fd = mem[gvictim].fd

\* The broadcast: the clients before the index, and the one at it while the
\* reference is held, have been reached.
Passed ==
  ~removed =>
    /\ gidx <= size + 1
    /\ \A i \in 1..size :
         mem[i].type = gtype /\ (i < gidx \/ (i = gidx /\ Holding)) => Key(mem[i]) \in reached

Kept ==
  /\ gdangling => dangled
  /\ ~dangled => \A fd \in open : \E i \in 1..size : IsMedia(i) /\ ~Leaving(i) /\ mem[i].fd = fd

Booked == Owned /\ Struck /\ Passed /\ Kept

BookInv == Quiet => Booked

IInv == TypeInv /\ QuietInv /\ BookInv

-----------------------------------------------------------------------------
(* Lemmas about the operators. *)

\* A non-empty search finds the first entry that matches.
LEMMA FirstMatchFound ==
  ASSUME NEW client, size \in Nat, HasMatch(client)
  PROVE  FirstMatch(client) \in 1..size /\ Matches(mem[FirstMatch(client)], client)
<1> DEFINE T == {i \in 1..size : Matches(mem[i], client)}
<1>1. T \subseteq Nat /\ T # {}
  BY DEF HasMatch
<1>2. \E i \in T : \A j \in T : ~(<<j, i>> \in OpToRel(<, Nat))
  BY <1>1, NatLessThanWellFounded, WFMin
<1>3. \E i \in T : \A j \in T : ~(j < i)
  BY <1>1, <1>2 DEF OpToRel
<1>4. PICK i \in T : \A j \in T : ~(j < i)
  BY <1>3
<1>5. \A j \in 1..(i - 1) : ~Matches(mem[j], client)
  BY <1>1, <1>4
<1> QED
  BY <1>4, <1>5 DEF FirstMatch

LEMMA BlankIsClient == Blank \in Client
  BY RegistryAssumption DEF Blank, Client, AnyFd, VIDEO, AUDIO, COMMAND

LEMMA GarbageIsClient == Garbage \subseteq Client
  BY RegistryAssumption DEF Garbage, Blank, Client, AnyFd, VIDEO, AUDIO, COMMAND

LEMMA RefIsClient == TypeInv /\ gpc \notin {"idle", "next"} => Ref \in Client
  BY DEF TypeInv, TypeOK, VectorTypes, GamepadTypes, Ranges, Ref

LEMMA TypeOKSplit == TypeOK <=> DataTypes /\ Flags
  BY DEF TypeOK, DataTypes

-----------------------------------------------------------------------------
(* First layer: types and ranges. *)

LEMMA TypeInit == Init => TypeInv
<1> SUFFICES ASSUME Init PROVE TypeInv
  OBVIOUS
<1> USE DEF VIDEO, AUDIO, COMMAND
<1>1. VectorTypes /\ SystemTypes
  BY RegistryAssumption, BlankIsClient DEF Init, VectorTypes, SystemTypes
<1>2. GamepadTypes /\ ServerTypes
  BY RegistryAssumption, BlankIsClient DEF Init, GamepadTypes, ServerTypes
<1>3. HistoryTypes
  BY RegistryAssumption DEF Init, HistoryTypes, AnyFd
<1>4. Flags
  BY DEF Init, Flags
<1>5. Ranges
  BY RegistryAssumption DEF Init, Ranges, Index
<1> QED
  BY <1>1, <1>2, <1>3, <1>4, <1>5 DEF TypeInv, TypeOK

\* What the vector's operations do to the types.
LEMMA PushBackTypes ==
  ASSUME TypeInv, NEW client \in Client, PushBack(client)
  PROVE  VectorTypes' /\ GamepadTypes' /\ gdangling' \in BOOLEAN /\ dangled' \in BOOLEAN
<1> USE RegistryAssumption DEF TypeInv, TypeOK, VectorTypes, GamepadTypes, Ranges
<1>1. mem' \in [Index -> Client] /\ size' \in 0..MaxClients
  BY DEF PushBack, Index
<1>2. capacity' \in Nat
  BY DEF PushBack, Grown
<1>3. Holding => mem[gidx] \in Client
  BY DEF Holding
<1>4. gcopy' \in Client
  BY <1>3, GarbageIsClient DEF PushBack
<1>5. gdangling' \in BOOLEAN /\ dangled' \in BOOLEAN
  BY DEF PushBack, Flags
<1> QED
  BY <1>1, <1>2, <1>4, <1>5 DEF PushBack

LEMMA EraseSlotTypes ==
  ASSUME TypeInv, NEW i \in Index, size > 0, EraseSlot(i)
  PROVE  VectorTypes'
<1> USE RegistryAssumption DEF TypeInv, TypeOK, VectorTypes
<1>1. size' \in 0..MaxClients /\ capacity' \in Nat
  BY DEF EraseSlot
<1>2. ASSUME NEW j \in Index, i <= j, j < size PROVE mem[j + 1] \in Client
  BY <1>2 DEF Index
<1>3. mem' \in [Index -> Client]
  BY <1>2, BlankIsClient DEF EraseSlot
<1> QED
  BY <1>1, <1>3

\* The index moves on to the next client, or past the last.
LEMMA NextClientTypes ==
  ASSUME TypeInv, gidx \in Index, NextClient, gpc' \in {"next"}
  PROVE  GamepadTypes' /\ gtarget' = NoFd /\ gdangling' \in BOOLEAN
<1>1. GamepadTypes'
  BY RegistryAssumption, BlankIsClient
  DEF NextClient, NextIndex, Index, TypeInv, TypeOK, GamepadTypes
<1>2. gtarget' = NoFd /\ gdangling' \in BOOLEAN
  BY DEF NextClient
<1> QED
  BY <1>1, <1>2

LEMMA ServerTypeStep ==
  ASSUME TypeInv, ServerNext
  PROVE  TypeInv'
<1> USE RegistryAssumption DEF TypeInv, DataTypes
<1>. USE DEF VectorTypes, SystemTypes, GamepadTypes, ServerTypes, HistoryTypes
<1>0. DataTypes /\ Flags /\ Ranges
  BY TypeOKSplit
<1> SUFFICES DataTypes' /\ Flags' /\ Ranges'
  BY DEF TypeOK
<1>1. ASSUME NEW p \in Peers, Register(p) PROVE DataTypes' /\ Flags' /\ Ranges'
  <2>1. PICK garbage \in UninitFds : PushBack(CommandEntry(p, garbage))
    BY <1>1 DEF Register
  <2>2. CommandEntry(p, garbage) \in Client
    BY DEF CommandEntry, Client, AnyFd
  <2>3. DataTypes'
    BY <1>0, <1>1, <2>1, <2>2, PushBackTypes DEF Register, ServerStep, system
  <2>4. clash' \in BOOLEAN /\ alive' \in BOOLEAN /\ removed' \in BOOLEAN
    BY <1>0, <1>1 DEF Register, ServerStep, Flags
  <2>5. Flags'
    BY <2>1, <2>2, <2>4, PushBackTypes DEF Flags
  <2>6. Ranges'
    BY <1>0, <1>1, <2>1 DEF Register, PushBack, ServerStep, Ranges
  <2> QED
    BY <2>3, <2>5, <2>6
<1>2. ASSUME NEW p \in Peers, Ping(p) PROVE DataTypes' /\ Flags' /\ Ranges'
  <2>1. \A i \in Index : [mem[i] EXCEPT !.age = 0] \in Client
    BY <1>0 DEF Client
  <2>2. mem' \in [Index -> Client]
    BY <1>0, <1>2, <2>1 DEF Ping, UpdateSocketTime
  <2>3. spc' \in {"command", "video"}
    BY <1>2 DEF Ping, UpdateSocketTime, ServerStep
  <2>4. DataTypes'
    BY <1>0, <1>2, <2>2, <2>3 DEF Ping, UpdateSocketTime, system, gamepad, history
  <2>5. Flags'
    BY <1>0, <1>2 DEF Ping, UpdateSocketTime, ServerStep, Flags, gamepad, history
  <2>6. Ranges'
    BY <1>0, <1>2, <2>3 DEF Ping, UpdateSocketTime, Ranges, gamepad
  <2> QED
    BY <2>4, <2>5, <2>6
<1>3. ASSUME NEW type \in Media, NEW fd \in Fds \cup {NoFd}, Accept(type, fd)
      PROVE DataTypes' /\ Flags' /\ Ranges'
  <2>1. PushBack(MediaEntry(type, fd)) /\ spc' \in {"audio", "check"}
    BY <1>3 DEF Accept, ServeStep
  <2>2. MediaEntry(type, fd) \in Client
    BY DEF MediaEntry, Client, AnyFd, Media
  <2>3. SystemTypes' /\ HistoryTypes'
    BY <1>0, <1>3 DEF Accept, system
  <2>4. DataTypes'
    BY <1>0, <1>3, <2>1, <2>2, <2>3, PushBackTypes DEF Accept
  <2>5. clash' \in BOOLEAN /\ alive' \in BOOLEAN /\ removed' \in BOOLEAN
    BY <1>0, <1>3 DEF Accept, ServeStep, Flags
  <2>6. Flags'
    BY <2>1, <2>2, <2>5, PushBackTypes DEF Flags
  <2>7. Ranges'
    BY <1>0, <1>3, <2>1 DEF Accept, PushBack, Ranges
  <2> QED
    BY <2>4, <2>6, <2>7
<1>4. CASE CheckStarts
  <2>1. DataTypes' /\ Ranges'
    BY <1>0, <1>4 DEF CheckStarts, ServeStep, Ranges, vector, system, gamepad, history
  <2>2. Flags'
    BY <1>0, <1>4 DEF CheckStarts, ServeStep, Flags, gamepad, history
  <2> QED
    BY <2>1, <2>2
<1>5. CASE CheckDone
  <2>1. DataTypes' /\ Ranges'
    BY <1>0, <1>5 DEF CheckDone, ServerStep, Ranges, vector, system, gamepad, history
  <2>2. Flags'
    BY <1>0, <1>5 DEF CheckDone, ServerStep, Flags, gamepad, history
  <2> QED
    BY <2>1, <2>2
<1>6. CASE CheckFresh
  <2>1. DataTypes' /\ Ranges'
    BY <1>0, <1>6 DEF CheckFresh, ServerStep, Ranges, vector, system, gamepad, history
  <2>2. Flags'
    BY <1>0, <1>6 DEF CheckFresh, ServerStep, Flags, gamepad, history
  <2> QED
    BY <2>1, <2>2
<1>7. CASE CheckStale
  <2>1. sidx \in Index
    BY <1>0, <1>7 DEF CheckStale, Index
  <2>2. DataTypes' /\ Ranges'
    BY <1>0, <1>7, <2>1 DEF CheckStale, ServerStep, Ranges, vector, system, gamepad, history
  <2>3. Flags'
    BY <1>0, <1>7 DEF CheckStale, ServerStep, Flags, gamepad, history
  <2> QED
    BY <2>2, <2>3
<1>8. CASE ServerGivesUp
  <2>1. sidx + 1 \in 1..(MaxClients + 1)
    BY <1>0, <1>8 DEF ServerGivesUp, ServerStep, Ranges, Index
  <2>2. DataTypes' /\ Ranges'
    BY <1>0, <1>8, <2>1, BlankIsClient
    DEF ServerGivesUp, ServerStep, Ranges, vector, system, gamepad, history
  <2>3. Flags'
    BY <1>0, <1>8 DEF ServerGivesUp, ServerStep, Flags, gamepad, history
  <2> QED
    BY <2>2, <2>3
<1>9. CASE ServerFinds
  <2>1. svictim' \in Index
    BY <1>0, <1>9, FirstMatchFound DEF ServerFinds, Index
  <2>2. DataTypes' /\ Ranges'
    BY <1>0, <1>9, <2>1
    DEF ServerFinds, ServerStep, Ranges, Index, vector, system, gamepad, history
  <2>3. Flags'
    BY <1>0, <1>9 DEF ServerFinds, ServerStep, Flags, gamepad, history
  <2> QED
    BY <2>2, <2>3
<1>10. CASE ServerCloses
  <2>1. DataTypes' /\ Ranges'
    BY <1>0, <1>10 DEF ServerCloses, ServerStep, CloseFd, Ranges, vector, gamepad, history
  <2>2. Flags'
    BY <1>0, <1>10 DEF ServerCloses, ServerStep, Flags, gamepad, history
  <2> QED
    BY <2>1, <2>2
<1>11. CASE ServerErases
  <2>1. VectorTypes'
    BY <1>0, <1>11, EraseSlotTypes DEF ServerErases, ServerStep, Ranges
  <2>2. sidx + 1 \in 1..(MaxClients + 1)
    BY <1>0, <1>11 DEF ServerErases, ServerStep, Ranges, Index
  <2>3. DataTypes' /\ Ranges'
    BY <1>0, <1>11, <2>1, <2>2, BlankIsClient
    DEF ServerErases, ServerStep, Ranges, system, gamepad, history
  <2>4. Flags'
    BY <1>0, <1>11 DEF ServerErases, ServerStep, Flags, gamepad, history
  <2> QED
    BY <2>3, <2>4
<1>12. CASE ServerErasesPastEnd
  <2>1. DataTypes' /\ Ranges'
    BY <1>0, <1>12
    DEF ServerErasesPastEnd, Ranges, vector, system, gamepad, server, history
  <2>2. Flags'
    BY <1>0, <1>12 DEF ServerErasesPastEnd, Flags, gamepad, history
  <2> QED
    BY <2>1, <2>2
<1> QED
  BY <1>1, <1>2, <1>3, <1>4, <1>5, <1>6, <1>7, <1>8, <1>9, <1>10, <1>11, <1>12 DEF ServerNext

LEMMA GamepadTypeStep ==
  ASSUME TypeInv, GamepadNext \/ \E type \in {VIDEO, AUDIO, COMMAND} : StartBroadcast(type)
  PROVE  TypeInv'
<1> USE RegistryAssumption DEF TypeInv, DataTypes
<1>. USE DEF VectorTypes, SystemTypes, GamepadTypes, ServerTypes, HistoryTypes
<1>0. DataTypes /\ Flags /\ Ranges
  BY TypeOKSplit
<1> SUFFICES DataTypes' /\ Flags' /\ Ranges'
  BY DEF TypeOK
<1>1. ASSUME NEW type \in {VIDEO, AUDIO, COMMAND}, StartBroadcast(type)
      PROVE DataTypes' /\ Flags' /\ Ranges'
  <2>1. DataTypes' /\ Ranges'
    BY <1>0, <1>1 DEF StartBroadcast, GamepadStep, Ranges, vector, system, server, history
  <2>2. Flags'
    BY <1>0, <1>1 DEF StartBroadcast, Flags, history
  <2> QED
    BY <2>1, <2>2
<1>2. CASE EndBroadcast
  <2>1. DataTypes' /\ Ranges'
    BY <1>0, <1>2 DEF EndBroadcast, GamepadStep, Ranges, vector, system, server
  <2>2. Flags'
    BY <1>0, <1>2 DEF EndBroadcast, Flags
  <2> QED
    BY <2>1, <2>2
<1>3. CASE OtherType
  <2>1. gidx \in Index /\ gpc' = "next" /\ NextClient
    BY <1>0, <1>3 DEF OtherType, GamepadStep, Index
  <2>2. GamepadTypes' /\ gtarget' = NoFd /\ gdangling' \in BOOLEAN
    BY <2>1, NextClientTypes
  <2>3. DataTypes' /\ Ranges'
    BY <1>0, <1>3, <2>1, <2>2 DEF OtherType, Ranges, AnyFd, vector, system, server
  <2>4. Flags'
    BY <1>0, <1>3, <2>2 DEF OtherType, Flags
  <2> QED
    BY <2>3, <2>4
<1>4. CASE TakeReference
  <2>1. gidx \in Index /\ gpc' = "send"
    BY <1>0, <1>4 DEF TakeReference, GamepadStep, Index
  <2>2. Key(mem[gidx]) \in AnyFd \cup Peers \cup {NoPeer}
    BY <1>0, <2>1 DEF Key, Client
  <2>3. gremaining' \in 0..PacketLen
    BY <1>4 DEF TakeReference
  <2>4. DataTypes' /\ Ranges'
    BY <1>0, <1>4, <2>1, <2>2, <2>3 DEF TakeReference, Ranges, vector, system, server
  <2>5. Flags'
    BY <1>0, <1>4 DEF TakeReference, Flags
  <2> QED
    BY <2>4, <2>5
<1>5. ASSUME NEW n \in 1..PacketLen, SendSome(n) PROVE DataTypes' /\ Flags' /\ Ranges'
  <2>1. gidx \in Index
    BY <1>0, <1>5 DEF SendSome, Ranges
  <2>2. CASE n = gremaining
    <3>1. GamepadTypes' /\ gtarget' = NoFd /\ gdangling' \in BOOLEAN /\ gpc' = "next"
      BY <1>5, <2>1, <2>2, NextClientTypes DEF SendSome, GamepadStep
    <3>2. DataTypes' /\ Ranges'
      BY <1>0, <1>5, <3>1 DEF SendSome, Ranges, AnyFd, vector, system, server
    <3>3. Flags'
      BY <1>0, <1>5, <3>1 DEF SendSome, Flags
    <3> QED
      BY <3>2, <3>3
  <2>3. CASE n # gremaining
    <3>1. gremaining - n \in 0..PacketLen
      BY <1>0, <1>5 DEF SendSome
    <3>2. DataTypes' /\ Ranges'
      BY <1>0, <1>5, <2>3, <3>1 DEF SendSome, Ranges, vector, system, server
    <3>3. Flags'
      BY <1>0, <1>5, <2>3 DEF SendSome, Flags
    <3> QED
      BY <3>2, <3>3
  <2> QED
    BY <2>2, <2>3
<1>6. CASE SendFails
  <2>1. fails' \in [Fds \cup Peers -> 0..(TriesAllowed + 1)]
    BY <1>0, <1>6 DEF SendFails, Count
  <2>2. DataTypes' /\ Ranges'
    BY <1>0, <1>6, <2>1 DEF SendFails, GamepadStep, Ranges, vector, system, server
  <2>3. Flags'
    BY <1>0, <1>6 DEF SendFails, Flags
  <2> QED
    BY <2>2, <2>3
<1>7. CASE CommandSent
  <2>1. gidx \in Index /\ gpc' = "next" /\ NextClient
    BY <1>0, <1>7 DEF CommandSent, GamepadStep, Ranges
  <2>2. GamepadTypes' /\ gtarget' = NoFd /\ gdangling' \in BOOLEAN
    BY <2>1, NextClientTypes
  <2>3. DataTypes' /\ Ranges'
    BY <1>0, <1>7, <2>1, <2>2 DEF CommandSent, Ranges, AnyFd, vector, system, server
  <2>4. Flags'
    BY <1>0, <1>7, <2>2 DEF CommandSent, Flags
  <2> QED
    BY <2>3, <2>4
<1>8. CASE CommandSendFails
  <2>1. fails' \in [Fds \cup Peers -> 0..(TriesAllowed + 1)]
    BY <1>0, <1>8 DEF CommandSendFails, Count
  <2>2. DataTypes' /\ Ranges'
    BY <1>0, <1>8, <2>1 DEF CommandSendFails, GamepadStep, Ranges, vector, system, server
  <2>3. Flags'
    BY <1>0, <1>8 DEF CommandSendFails, Flags
  <2> QED
    BY <2>2, <2>3
<1>9. CASE GamepadStrikes
  <2>1. gidx \in Index /\ gpc' = "next" /\ NextClient
    BY <1>0, <1>9 DEF GamepadStrikes, GamepadStep, Ranges
  <2>2. ~gdangling => mem[gidx].tries + 1 \in 0..TriesAllowed
    BY <1>0, <1>9, <2>1 DEF GamepadStrikes, OutOfTries, Ref, Client
  <2>3. ~gdangling => [mem[gidx] EXCEPT !.tries = @ + 1] \in Client
    BY <1>0, <2>1, <2>2 DEF Client
  <2>4. mem' \in [Index -> Client]
    BY <1>0, <1>9, <2>1, <2>3 DEF GamepadStrikes, Strike
  <2>5. GamepadTypes' /\ gtarget' = NoFd /\ gdangling' \in BOOLEAN
    BY <2>1, NextClientTypes
  <2>6. DataTypes' /\ Ranges'
    BY <1>0, <1>9, <2>1, <2>4, <2>5 DEF GamepadStrikes, Ranges, AnyFd, system, server
  <2>7. Flags'
    BY <1>0, <1>9, <2>5 DEF GamepadStrikes, Flags
  <2> QED
    BY <2>6, <2>7
<1>10. CASE GamepadMisses
  <2>1. gidx \in Index /\ gpc' = "next" /\ NextClient
    BY <1>0, <1>10 DEF GamepadMisses, GamepadStep, Ranges
  <2>2. GamepadTypes' /\ gtarget' = NoFd /\ gdangling' \in BOOLEAN
    BY <2>1, NextClientTypes
  <2>3. DataTypes' /\ Ranges'
    BY <1>0, <1>10, <2>1, <2>2 DEF GamepadMisses, Ranges, AnyFd, vector, system, server
  <2>4. Flags'
    BY <1>0, <1>10, <2>2 DEF GamepadMisses, Flags
  <2> QED
    BY <2>3, <2>4
<1>11. CASE GamepadFinds
  <2>1. gvictim' \in Index
    BY <1>0, <1>11, FirstMatchFound DEF GamepadFinds, Index
  <2>2. gidx \in Index /\ gvictim' \in 0..MaxClients
    BY <1>0, <1>11, <2>1 DEF GamepadFinds, GamepadStep, Ranges, Index
  <2>3. DataTypes' /\ Ranges'
    BY <1>0, <1>11, <2>1, <2>2
    DEF GamepadFinds, GamepadStep, Ranges, vector, system, server, history
  <2>4. Flags'
    BY <1>0, <1>11 DEF GamepadFinds, Flags, history
  <2> QED
    BY <2>3, <2>4
<1>12. CASE GamepadCloses
  <2>1. DataTypes' /\ Ranges'
    BY <1>0, <1>12
    DEF GamepadCloses, GamepadStep, CloseFd, Ranges, vector, server, history
  <2>2. Flags'
    BY <1>0, <1>12 DEF GamepadCloses, Flags, history
  <2> QED
    BY <2>1, <2>2
<1>13. CASE GamepadErases
  <2>1. gidx \in Index /\ gvictim \in Index /\ gpc' = "next" /\ NextClient
    BY <1>0, <1>13 DEF GamepadErases, GamepadStep, Ranges
  <2>2. VectorTypes'
    BY <1>13, <2>1, EraseSlotTypes DEF GamepadErases
  <2>3. GamepadTypes' /\ gtarget' = NoFd /\ gdangling' \in BOOLEAN
    BY <2>1, NextClientTypes
  <2>4. DataTypes' /\ Ranges'
    BY <1>0, <1>13, <2>1, <2>2, <2>3 DEF GamepadErases, Ranges, AnyFd, system, server
  <2>5. Flags'
    BY <1>0, <1>13, <2>3 DEF GamepadErases, Flags
  <2> QED
    BY <2>4, <2>5
<1>14. CASE GamepadErasesPastEnd
  <2>1. DataTypes' /\ Ranges'
    BY <1>0, <1>14
    DEF GamepadErasesPastEnd, Ranges, vector, system, gamepad, server, history
  <2>2. Flags'
    BY <1>0, <1>14 DEF GamepadErasesPastEnd, Flags, gamepad, history
  <2> QED
    BY <2>1, <2>2
<1> QED
  BY <1>1, <1>2, <1>3, <1>4, <1>5, <1>6, <1>7, <1>8, <1>9, <1>10, <1>11, <1>12, <1>13, <1>14
  DEF GamepadNext

LEMMA EnvironmentTypeStep ==
  ASSUME TypeInv, Environment
  PROVE  TypeInv'
<1> USE RegistryAssumption DEF TypeInv, DataTypes
<1>. USE DEF VectorTypes, SystemTypes, GamepadTypes, ServerTypes, HistoryTypes
<1>0. DataTypes /\ Flags /\ Ranges
  BY TypeOKSplit
<1> SUFFICES DataTypes' /\ Flags' /\ Ranges'
  BY DEF TypeOK
<1>1. CASE Tick
  <2>1. \A i \in Index : mem[i].age < PingTimeout => [mem[i] EXCEPT !.age = @ + 1] \in Client
    BY <1>0 DEF Client
  <2>2. mem' \in [Index -> Client]
    BY <1>0, <1>1, <2>1 DEF Tick
  <2>3. DataTypes' /\ Ranges'
    BY <1>0, <1>1, <2>2 DEF Tick, Ranges, system, gamepad, server, history
  <2>4. Flags'
    BY <1>0, <1>1 DEF Tick, Flags, gamepad, history
  <2> QED
    BY <2>3, <2>4
<1>2. ASSUME NEW fd \in Fds, PeerDies(fd) \/ PeerStalls(fd) \/ PeerResumes(fd)
      PROVE DataTypes' /\ Flags' /\ Ranges'
  <2>1. DataTypes' /\ Ranges'
    BY <1>0, <1>2
    DEF PeerDies, PeerStalls, PeerResumes, Ranges, vector, gamepad, server, history
  <2>2. Flags'
    BY <1>0, <1>2 DEF PeerDies, PeerStalls, PeerResumes, Flags, gamepad, history
  <2> QED
    BY <2>1, <2>2
<1> QED
  BY <1>1, <1>2 DEF Environment

LEMMA TypeStep == TypeInv /\ [Next]_vars => TypeInv'
<1> SUFFICES ASSUME TypeInv, [Next]_vars PROVE TypeInv'
  OBVIOUS
<1>1. CASE UNCHANGED vars
  <2> USE DEF vars, vector, system, gamepad, server, history
  <2>1. TypeOK'
    BY <1>1 DEF TypeInv, TypeOK, VectorTypes, SystemTypes, GamepadTypes, ServerTypes,
                HistoryTypes, Flags
  <2>2. Ranges'
    BY <1>1 DEF TypeInv, Ranges
  <2> QED
    BY <2>1, <2>2 DEF TypeInv
<1> QED
  BY <1>1, ServerTypeStep, GamepadTypeStep, EnvironmentTypeStep DEF Next

\* Every reachable state is well-typed: no index leaves the vector's memory, no
\* try count exceeds what a removal takes, and nothing else is ever stored.
THEOREM TypeCorrect == Spec => []TypeOK
<1>1. Spec => []TypeInv
  BY TypeInit, TypeStep, PTL DEF Spec
<1> QED
  BY <1>1, PTL DEF TypeInv

-----------------------------------------------------------------------------
(* Second layer: entries, server thread and reference while all is quiet. *)

\* Quiet is never regained.
LEMMA QuietBefore ==
  ASSUME TypeInv, [Next]_vars, Quiet'
  PROVE  Quiet
<1> USE RegistryAssumption DEF TypeInv, TypeOK, HistoryTypes
<1>1. ~clash' /\ \A p \in Peers : fails'[p] = 0
  BY DEF Quiet
<1>2. ~clash
  <2>1. clash => clash'
    BY DEF vars, vector, system, gamepad, server, history, Next, ServerNext, GamepadNext,
           Environment, Register, Ping, UpdateSocketTime, Accept, CheckStarts, CheckDone, CheckFresh,
           CheckStale, ServerGivesUp, ServerFinds, ServerCloses, ServerErases,
           ServerErasesPastEnd, EndBroadcast, OtherType, TakeReference, SendSome, SendFails,
           CommandSent, CommandSendFails, GamepadStrikes, GamepadMisses, GamepadFinds,
           GamepadCloses, GamepadErases, GamepadErasesPastEnd, Tick, PeerDies, PeerStalls,
           PeerResumes, StartBroadcast
  <2> QED
    BY <1>1, <2>1
<1>3. ASSUME NEW p \in Peers PROVE fails'[p] = fails[p] \/ fails'[p] > 0
  <2>1. CASE UNCHANGED fails
    BY <2>1
  <2>2. ASSUME NEW type \in Media, NEW fd \in Fds \cup {NoFd}, Accept(type, fd)
        PROVE  fails'[p] = fails[p]
    BY <2>2 DEF Accept
  <2>3. CASE SendFails
    BY <2>3 DEF SendFails, Count
  <2>4. CASE CommandSendFails
    BY <2>4 DEF CommandSendFails, Count
  <2>5. CASE UNCHANGED vars
    BY <2>5 DEF vars, history
  <2>6. CASE Next
    <3>1. \/ UNCHANGED fails
          \/ \E type \in Media, fd \in Fds \cup {NoFd} : Accept(type, fd)
          \/ SendFails \/ CommandSendFails
      BY <2>6 DEF history, Next, ServerNext, GamepadNext,
           Environment, Register, Ping, UpdateSocketTime, CheckStarts, CheckDone, CheckFresh,
           CheckStale, ServerGivesUp, ServerFinds, ServerCloses, ServerErases,
           ServerErasesPastEnd, EndBroadcast, OtherType, TakeReference, SendSome,
           CommandSent, GamepadStrikes, GamepadMisses, GamepadFinds,
           GamepadCloses, GamepadErases, GamepadErasesPastEnd, Tick, PeerDies, PeerStalls,
           PeerResumes, StartBroadcast
    <3> QED
      BY <2>1, <2>2, <2>3, <2>4, <3>1
  <2> QED
    BY <2>5, <2>6
<1> QED
  BY <1>1, <1>2, <1>3 DEF Quiet

\* A step that leaves the gamepad thread alone, changes the ages of entries at
\* most and leaves the server thread harmless.
SameEntries == size' = size /\ \A i \in Index : Same(mem[i]', mem[i])

LEMMA AgesOnly ==
  ASSUME TypeInv, Undisturbed, SameEntries, UNCHANGED gamepad, ServerHarmless',
         gtarget' = gtarget
  PROVE  Undisturbed'
<1> USE DEF SameEntries, Same, TypeInv, TypeOK, VectorTypes, Index
<1>0. size \in 0..MaxClients /\ MaxClients \in Nat
  BY RegistryAssumption
<1>1. EntriesKeep'
  BY <1>0 DEF Undisturbed, EntriesKeep
<1>2. RefDenotes'
  <2>1. gtarget' = gtarget /\ gpc' = gpc /\ gidx' = gidx /\ gvictim' = gvictim
        /\ gtype' = gtype /\ gcopy' = gcopy /\ gdangling' = gdangling
    BY DEF gamepad
  <2>2. Holding' = Holding
    BY <2>1 DEF Holding
  <2>3. Holding' => /\ gidx' \in 1..size' /\ mem[gidx]'.type = gtype'
                    /\ gtarget' = Key(mem[gidx])'
                    /\ gdangling' => gcopy' \in Garbage' \/ Same(gcopy', mem[gidx]')
    BY <1>0, <2>1, <2>2 DEF Undisturbed, RefDenotes, Key, Garbage
  <2>4. Holding => (Ref.fd)' = Ref.fd
    BY <1>0, <2>1 DEF Undisturbed, RefDenotes, Ref
  <2>5. gpc' \in {"close", "erase"} =>
          gvictim' \in 1..size' /\ mem[gvictim]'.type \in Media
    BY <1>0, <2>1 DEF Undisturbed, RefDenotes
  <2>6. gpc' = "close" => (Ref.fd)' \in {mem[gvictim].fd, StaleFd}'
    BY <1>0, <2>1, <2>4, <2>5 DEF Undisturbed, RefDenotes, Holding
  <2> QED
    BY <2>1, <2>3, <2>5, <2>6 DEF Undisturbed, RefDenotes
<1> QED
  BY <1>1, <1>2 DEF Undisturbed

\* push_back neither touches an entry nor makes the reference denote another.
LEMMA PushBackKeeps ==
  ASSUME TypeInv, Undisturbed, NEW client \in Client, PushBack(client),
         ServerHarmless', gtarget' = gtarget,
         IF client.type = COMMAND
           THEN /\ client.peer \in Peers /\ client.tries = CommandTries
                /\ client.fd \notin Fds \cup {NoFd, StaleFd}
           ELSE client.peer = NoPeer /\ client.fd \in Fds \cup {NoFd}
  PROVE  Undisturbed'
<1> USE RegistryAssumption DEF TypeInv, TypeOK, VectorTypes, Index
<1>0. size < MaxClients /\ size \in Nat /\ size' = size + 1
  BY DEF PushBack
<1>1. mem'[size + 1] = client /\ \A i \in 1..size : mem'[i] = mem[i]
  BY <1>0 DEF PushBack
<1>2. EntriesKeep'
  BY <1>0, <1>1 DEF Undisturbed, EntriesKeep
<1>3. UNCHANGED <<gpc, gtype, gidx, gvictim>>
  BY DEF PushBack
<1>4. ASSUME Holding PROVE (gdangling' => gcopy' \in Garbage \/ Same(gcopy', mem[gidx]))
  BY <1>4 DEF PushBack, Undisturbed, RefDenotes, Same
<1>5. ASSUME gpc = "close" PROVE (Ref.fd)' \in {mem[gvictim].fd, StaleFd}
  <2>1. gidx \in 1..size /\ Ref.fd \in {mem[gvictim].fd, StaleFd}
    BY <1>5 DEF Undisturbed, RefDenotes, Holding
  <2>2. CASE gdangling' = gdangling /\ gcopy' = gcopy
    BY <1>1, <1>3, <2>1, <2>2 DEF Ref
  <2>3. CASE ~gdangling /\ gdangling' /\ gcopy' = mem[gidx]
    BY <2>1, <2>3 DEF Ref
  <2>4. CASE gdangling' /\ gcopy' \in Garbage
    BY <2>4 DEF Ref, Garbage
  <2> QED
    BY <2>2, <2>3, <2>4 DEF PushBack
<1>6. ASSUME gpc \in {"idle", "next"} PROVE ~gdangling'
  BY <1>6 DEF PushBack, Holding, Undisturbed, RefDenotes
<1>7. RefDenotes'
  BY <1>0, <1>1, <1>3, <1>4, <1>5, <1>6 DEF Undisturbed, RefDenotes, Holding, Key, Garbage
<1> QED
  BY <1>2, <1>7 DEF Undisturbed

LEMMA ServerUndisturbed ==
  ASSUME TypeInv, Undisturbed, Quiet', ServerNext
  PROVE  Undisturbed'
<1> USE RegistryAssumption DEF TypeInv, TypeOK, VectorTypes, Index
<1>0. spc \notin {"close", "erase"} /\ (spc = "remove" => scopy.tries = CommandTries)
  BY DEF Undisturbed, ServerHarmless
<1>1. ASSUME NEW p \in Peers, Register(p) PROVE Undisturbed'
  <2>1. PICK garbage \in UninitFds :
          /\ PushBack(CommandEntry(p, garbage))
          /\ clash' = (clash \/ garbage \in Fds \cup {NoFd, StaleFd})
    BY <1>1 DEF Register
  <2>2. CommandEntry(p, garbage) \in Client
    BY DEF CommandEntry, Client, AnyFd
  <2>3. garbage \notin Fds \cup {NoFd, StaleFd}
    BY <2>1 DEF Quiet
  <2>4. ServerHarmless' /\ gtarget' = gtarget
    BY <1>1 DEF Register, ServerStep, ServerHarmless
  <2> QED
    BY <2>1, <2>2, <2>3, <2>4, PushBackKeeps DEF CommandEntry
<1>2. ASSUME NEW p \in Peers, Ping(p) PROVE Undisturbed'
  <2>1. SameEntries
    BY <1>2 DEF Ping, UpdateSocketTime, SameEntries, Same, Client
  <2>2. ServerHarmless'
    BY <1>2 DEF Ping, UpdateSocketTime, ServerStep, ServerHarmless
  <2> QED
    BY <1>2, <2>1, <2>2, AgesOnly DEF Ping, UpdateSocketTime, history
<1>3. ASSUME NEW type \in Media, NEW fd \in Fds \cup {NoFd}, Accept(type, fd)
      PROVE  Undisturbed'
  <2>1. PushBack(MediaEntry(type, fd)) /\ gtarget' = gtarget
    BY <1>3 DEF Accept
  <2>2. MediaEntry(type, fd) \in Client
    BY DEF MediaEntry, Client, AnyFd, Media
  <2>3. ServerHarmless'
    BY <1>3 DEF Accept, ServeStep, ServerHarmless
  <2> QED
    BY <2>1, <2>2, <2>3, PushBackKeeps DEF MediaEntry, Media, VIDEO, AUDIO, COMMAND
<1>4. CASE CheckStarts \/ CheckDone \/ CheckFresh \/ CheckStale \/ ServerGivesUp
  <2>1. SameEntries /\ UNCHANGED gamepad /\ gtarget' = gtarget
    BY <1>4 DEF CheckStarts, CheckDone, CheckFresh, CheckStale, ServerGivesUp, vector,
                history, SameEntries, Same
  <2>2. spc' \notin {"close", "erase"}
    BY <1>4 DEF CheckStarts, CheckDone, CheckFresh, CheckStale, ServerGivesUp, ServerStep,
                ServeStep
  <2>3. spc' = "remove" => scopy'.tries = CommandTries
    <3>1. CASE CheckStale
      BY <3>1 DEF CheckStale, Stale, Undisturbed, EntriesKeep, ServerTypes
    <3>2. CASE CheckStarts \/ CheckDone \/ CheckFresh \/ ServerGivesUp
      BY <3>2 DEF CheckStarts, CheckDone, CheckFresh, ServerGivesUp, ServerStep, ServeStep
    <3> QED
      BY <1>4, <3>1, <3>2
  <2> QED
    BY <2>1, <2>2, <2>3, AgesOnly DEF ServerHarmless
<1>5. ~ServerFinds
  BY <1>0 DEF ServerFinds, ServerStep, OutOfTries
<1>6. ~ServerCloses /\ ~ServerErases /\ ~ServerErasesPastEnd
  BY <1>0 DEF ServerCloses, ServerErases, ServerErasesPastEnd, ServerStep
<1> QED
  BY <1>1, <1>2, <1>3, <1>4, <1>5, <1>6 DEF ServerNext

\* The vector and the server thread are left alone and no reference is held.
LEMMA BetweenClients ==
  ASSUME TypeInv, Undisturbed, UNCHANGED <<mem, size, server>>, gpc' \in {"idle", "next"},
         ~gdangling'
  PROVE  Undisturbed'
<1>1. EntriesKeep'
  BY DEF Undisturbed, EntriesKeep
<1>2. ServerHarmless'
  BY DEF Undisturbed, ServerHarmless, server
<1>3. RefDenotes'
  BY DEF RefDenotes, Holding
<1> QED
  BY <1>1, <1>2, <1>3 DEF Undisturbed

\* What a removal finds is the entry the reference is at, or one with its fd.
LEMMA FindsOwnFd ==
  ASSUME TypeInv, Undisturbed, gpc = "remove", HasMatch(Ref)
  PROVE  /\ FirstMatch(Ref) \in 1..size
         /\ mem[FirstMatch(Ref)].type \in Media
         /\ mem[FirstMatch(Ref)].fd = Ref.fd /\ Ref.fd = mem[gidx].fd
         /\ Ref.tries = mem[gidx].tries
<1> USE RegistryAssumption DEF TypeInv, TypeOK, VectorTypes, Index, Undisturbed, RefDenotes
<1>1. gtype \in Media /\ gidx \in 1..size /\ mem[gidx].type = gtype
  BY DEF Holding
<1>2. mem[gidx].peer = NoPeer /\ mem[gidx].fd \in Fds \cup {NoFd}
  BY <1>1 DEF EntriesKeep, Media, VIDEO, AUDIO, COMMAND
<1>3. \/ Ref.peer = NoPeer /\ Ref.fd = mem[gidx].fd /\ Ref.tries = mem[gidx].tries
      \/ Ref.peer = NoPeer /\ Ref.fd = StaleFd
  BY <1>1, <1>2 DEF Ref, Same, Garbage, Holding
<1>4. FirstMatch(Ref) \in 1..size /\ Matches(mem[FirstMatch(Ref)], Ref)
  BY FirstMatchFound
<1>5. mem[FirstMatch(Ref)].fd = Ref.fd
  BY <1>3, <1>4 DEF Matches
<1>6. mem[FirstMatch(Ref)].type \in Media /\ mem[FirstMatch(Ref)].fd # StaleFd
  <2>1. mem[FirstMatch(Ref)].fd \in Fds \cup {NoFd, StaleFd}
    BY <1>2, <1>3, <1>5
  <2>2. mem[FirstMatch(Ref)].type # COMMAND
    BY <1>4, <2>1 DEF EntriesKeep
  <2>3. mem[FirstMatch(Ref)] \in Client
    BY <1>4
  <2> QED
    BY <1>4, <2>2, <2>3 DEF EntriesKeep, Client, Media
<1> QED
  BY <1>3, <1>4, <1>5, <1>6

LEMMA GamepadUndisturbed ==
  ASSUME TypeInv, Undisturbed, Quiet',
         GamepadNext \/ \E type \in {VIDEO, AUDIO, COMMAND} : StartBroadcast(type)
  PROVE  Undisturbed'
<1> USE RegistryAssumption DEF TypeInv, TypeOK, VectorTypes, Index
<1>1. ASSUME NEW type \in {VIDEO, AUDIO, COMMAND}, StartBroadcast(type) PROVE Undisturbed'
  BY <1>1, BetweenClients
  DEF StartBroadcast, GamepadStep, vector, Undisturbed, RefDenotes
<1>2. CASE EndBroadcast \/ OtherType \/ CommandSent \/ GamepadMisses
  <2>1. ~gdangling'
    BY <1>2 DEF EndBroadcast, OtherType, CommandSent, GamepadMisses, NextClient, GamepadStep,
                Undisturbed, RefDenotes
  <2> QED
    BY <1>2, <2>1, BetweenClients
    DEF EndBroadcast, OtherType, CommandSent, GamepadMisses, GamepadStep, vector
<1>3. CASE TakeReference
  <2>1. gidx \in 1..size /\ mem[gidx].type = gtype /\ gpc' = "send"
    BY <1>3 DEF TakeReference, GamepadStep, GamepadTypes
  <2>2. EntriesKeep' /\ ServerHarmless'
    BY <1>3 DEF TakeReference, Undisturbed, EntriesKeep, ServerHarmless, vector, server
  <2>3. gdangling' = FALSE
    <3>1. ~Holding /\ gpc = "next"
      BY <1>3 DEF TakeReference, GamepadStep, Holding
    <3> QED
      BY <1>3, <3>1 DEF TakeReference, Undisturbed, RefDenotes
  <2>4. RefDenotes'
    BY <1>3, <2>1, <2>3 DEF TakeReference, RefDenotes, Holding, Key, vector
  <2> QED
    BY <2>2, <2>4 DEF Undisturbed
<1>4. ASSUME NEW n \in 1..PacketLen, SendSome(n) PROVE Undisturbed'
  <2>1. CASE n = gremaining
    BY <1>4, <2>1, BetweenClients DEF SendSome, NextClient, GamepadStep, vector
  <2>2. CASE n # gremaining
    BY <1>4, <2>2
    DEF SendSome, vector, server, Undisturbed, EntriesKeep, ServerHarmless, RefDenotes,
        Holding, Ref, Key, Garbage, Same
  <2> QED
    BY <2>1, <2>2
<1>5. CASE SendFails
  <2>1. gpc = "send" /\ gpc' = "remove" /\ gtype \in Media
    BY <1>5 DEF SendFails, GamepadStep
  <2> QED
    BY <1>5, <2>1
    DEF SendFails, vector, server, Undisturbed, EntriesKeep, ServerHarmless, RefDenotes,
        Holding, Ref, Key, Garbage, Same
<1>6. ~CommandSendFails
  <2> SUFFICES ASSUME CommandSendFails PROVE FALSE
    OBVIOUS
  <2>1. gidx \in 1..size /\ mem[gidx].type = COMMAND /\ gtarget = Key(mem[gidx])
    BY DEF CommandSendFails, GamepadStep, Undisturbed, RefDenotes, Holding
  <2>2. gtarget \in Peers
    BY <2>1 DEF Key, Undisturbed, EntriesKeep
  <2>3. fails'[gtarget] > 0
    BY <2>2 DEF CommandSendFails, Count, HistoryTypes
  <2> QED
    BY <2>2, <2>3 DEF Quiet
<1>7. CASE GamepadStrikes
  <2>1. gtype \in Media /\ gpc' = "next"
    BY <1>7 DEF GamepadStrikes, GamepadStep, Undisturbed, RefDenotes
  <2>2. size' = size /\ \A i \in 1..size :
          \/ mem'[i] = mem[i]
          \/ /\ mem[i].type \in Media /\ mem'[i].type = mem[i].type
             /\ mem'[i].peer = mem[i].peer /\ mem'[i].fd = mem[i].fd
    <3>1. gidx \in 1..size /\ mem[gidx].type = gtype
      BY <1>7 DEF GamepadStrikes, GamepadStep, Undisturbed, RefDenotes, Holding
    <3> QED
      BY <1>7, <2>1, <3>1 DEF GamepadStrikes, Strike, Client
  <2>3. EntriesKeep'
    BY <2>2 DEF Undisturbed, EntriesKeep, Media, VIDEO, AUDIO, COMMAND
  <2>4. ServerHarmless'
    BY <1>7 DEF GamepadStrikes, Undisturbed, ServerHarmless, server
  <2>5. RefDenotes'
    BY <1>7, <2>1 DEF GamepadStrikes, NextClient, RefDenotes, Holding
  <2> QED
    BY <2>3, <2>4, <2>5 DEF Undisturbed
<1>8. CASE GamepadFinds
  <2>1. gpc = "remove" /\ gpc' = "close" /\ HasMatch(Ref) /\ gvictim' = FirstMatch(Ref)
    BY <1>8 DEF GamepadFinds, GamepadStep
  <2>2. gvictim' \in 1..size /\ mem[gvictim'].type \in Media /\ mem[gvictim'].fd = Ref.fd
    BY <2>1, FindsOwnFd
  <2>3. EntriesKeep' /\ ServerHarmless'
    BY <1>8 DEF GamepadFinds, Undisturbed, EntriesKeep, ServerHarmless, vector, server
  <2>4. UNCHANGED <<mem, size, gidx, gtype, gtarget, gdangling, gcopy>>
    BY <1>8 DEF GamepadFinds, vector, history
  <2>5. RefDenotes'
    BY <2>1, <2>2, <2>4 DEF Undisturbed, RefDenotes, Holding, Ref, Key, Same, Garbage
  <2> QED
    BY <2>3, <2>5 DEF Undisturbed
<1>9. CASE GamepadCloses
  <2>1. gpc = "close" /\ gpc' = "erase" /\ UNCHANGED <<mem, size, gvictim>>
    BY <1>9 DEF GamepadCloses, GamepadStep, vector
  <2>2. EntriesKeep' /\ ServerHarmless'
    BY <1>9 DEF GamepadCloses, Undisturbed, EntriesKeep, ServerHarmless, vector, server
  <2>3. RefDenotes'
    BY <2>1 DEF Undisturbed, RefDenotes, Holding
  <2> QED
    BY <2>2, <2>3 DEF Undisturbed
<1>10. CASE GamepadErases
  <2>1. size' = size - 1 /\ gvictim \in Index /\ gpc' = "next"
    BY <1>10 DEF GamepadErases, EraseSlot, GamepadStep, Ranges
  <2>2. \A i \in 1..(size - 1) : mem'[i] \in {mem[i], mem[i + 1]}
    BY <1>10, <2>1 DEF GamepadErases, EraseSlot
  <2>3. EntriesKeep'
    BY <2>1, <2>2 DEF Undisturbed, EntriesKeep
  <2>4. ServerHarmless' /\ RefDenotes'
    BY <1>10, <2>1
    DEF GamepadErases, NextClient, Undisturbed, ServerHarmless, RefDenotes, Holding, server
  <2> QED
    BY <2>3, <2>4 DEF Undisturbed
<1>11. ~GamepadErasesPastEnd
  BY DEF GamepadErasesPastEnd, Undisturbed, RefDenotes
<1> QED
  BY <1>1, <1>2, <1>3, <1>4, <1>5, <1>6, <1>7, <1>8, <1>9, <1>10, <1>11 DEF GamepadNext

LEMMA EnvironmentUndisturbed ==
  ASSUME TypeInv, Undisturbed, Environment
  PROVE  Undisturbed'
<1>1. SameEntries
  BY DEF Environment, Tick, PeerDies, PeerStalls, PeerResumes, vector, SameEntries, Same,
         TypeInv, TypeOK, VectorTypes, Client
<1>2. UNCHANGED gamepad /\ gtarget' = gtarget /\ ServerHarmless'
  BY DEF Environment, Tick, PeerDies, PeerStalls, PeerResumes, history, server, Undisturbed,
         ServerHarmless
<1> QED
  BY <1>1, <1>2, AgesOnly

LEMMA QuietStep == TypeInv /\ QuietInv /\ [Next]_vars => QuietInv'
<1> SUFFICES ASSUME TypeInv, QuietInv, [Next]_vars, Quiet' PROVE Undisturbed'
  BY DEF QuietInv
<1>1. Undisturbed
  BY QuietBefore DEF QuietInv
<1>2. CASE UNCHANGED vars
  <2>1. SameEntries /\ UNCHANGED gamepad /\ gtarget' = gtarget /\ ServerHarmless'
    BY <1>1, <1>2 DEF vars, vector, server, history, SameEntries, Same, Undisturbed,
                      ServerHarmless
  <2> QED
    BY <1>1, <2>1, AgesOnly
<1> QED
  BY <1>1, <1>2, ServerUndisturbed, GamepadUndisturbed, EnvironmentUndisturbed DEF Next

LEMMA QuietInit == Init => QuietInv
<1> SUFFICES ASSUME Init PROVE Undisturbed
  BY DEF QuietInv
<1> USE DEF Init
<1>1. EntriesKeep
  BY DEF EntriesKeep
<1>2. ServerHarmless /\ RefDenotes
  BY DEF ServerHarmless, RefDenotes, Holding
<1> QED
  BY <1>1, <1>2 DEF Undisturbed

-----------------------------------------------------------------------------
(* What the second layer gives at once. *)

\* All bytes of a packet go to the client the broadcast took its reference to;
\* after push_back moved the vector (register_client_socket), the sends of
\* broadcast_media can only fail.
THEOREM PacketToOneClientHolds == Spec => []PacketToOneClient
<1>1. TypeInv /\ QuietInv => PacketToOneClient
  <2> SUFFICES ASSUME TypeInv, Undisturbed, gpc = "send", gtype \in Media
               PROVE  /\ Ref.fd \in {gtarget, StaleFd}
                      /\ mem[gidx].type = gtype /\ mem[gidx].fd = gtarget
    BY DEF PacketToOneClient, QuietInv
  <2>1. mem[gidx].type = gtype /\ gtarget = Key(mem[gidx])
        /\ (gdangling => gcopy \in Garbage \/ Same(gcopy, mem[gidx]))
    BY DEF Undisturbed, RefDenotes, Holding
  <2>2. gtarget = mem[gidx].fd
    BY <2>1 DEF Key, Media, VIDEO, AUDIO, COMMAND
  <2>3. Ref.fd \in {gtarget, StaleFd}
    BY <2>1, <2>2 DEF Ref, Garbage, Same
  <2> QED
    BY <2>1, <2>2, <2>3
<1>2. Spec => [](TypeInv /\ QuietInv)
  BY TypeInit, TypeStep, QuietInit, QuietStep, PTL DEF Spec
<1> QED
  BY <1>1, <1>2, PTL

\* The server thread and the gamepad thread never both remove a client: the time
\* check of check_socket_time never gets past the try count, so the position
\* remove_client_socket found is still in the vector when it erases there.
THEOREM RemovalsDoNotMeetHolds == Spec => []RemovalsDoNotMeet
<1>1. TypeInv /\ QuietInv => RemovalsDoNotMeet
  BY DEF RemovalsDoNotMeet, QuietInv, Undisturbed, ServerHarmless, RefDenotes
<1>2. Spec => [](TypeInv /\ QuietInv)
  BY TypeInit, TypeStep, QuietInit, QuietStep, PTL DEF Spec
<1> QED
  BY <1>1, <1>2, PTL

\* The steps of the registry, sorted by what they do to the entries.
Steady ==
  /\ UNCHANGED <<open, size>>
  /\ \A i \in Index : /\ mem'[i].type = mem[i].type /\ mem'[i].fd = mem[i].fd
                      /\ mem'[i].peer = mem[i].peer
  /\ gpc' = "erase" <=> gpc = "erase"
  /\ gpc = "erase" => gvictim' = gvictim

LEMMA StepKinds ==
  ASSUME TypeInv, Undisturbed, [Next]_vars
  PROVE  \/ Steady
         \/ \E p \in Peers : Register(p)
         \/ \E type \in Media, fd \in Fds \cup {NoFd} : Accept(type, fd)
         \/ GamepadCloses \/ GamepadErases
<1> USE DEF TypeInv, TypeOK, VectorTypes, Steady
<1>1. CASE UNCHANGED vars
  BY <1>1 DEF vars, vector, system, gamepad
<1>2. ASSUME NEW p \in Peers, Ping(p) PROVE Steady
  BY <1>2 DEF Ping, UpdateSocketTime, system, gamepad, Client
<1>3. ASSUME CheckStarts \/ CheckDone \/ CheckFresh \/ CheckStale \/ ServerGivesUp \/ ServerFinds
      PROVE  Steady
  BY <1>3 DEF CheckStarts, CheckDone, CheckFresh, CheckStale, ServerGivesUp, ServerFinds,
              vector, system, gamepad
<1>4. ~ServerCloses /\ ~ServerErases /\ ~ServerErasesPastEnd /\ ~GamepadErasesPastEnd
  BY DEF ServerCloses, ServerErases, ServerErasesPastEnd, ServerStep, Undisturbed,
         ServerHarmless, GamepadErasesPastEnd, RefDenotes
<1>5. ASSUME NEW type \in {VIDEO, AUDIO, COMMAND}, StartBroadcast(type) PROVE Steady
  BY <1>5 DEF StartBroadcast, GamepadStep, vector, system
<1>6. ASSUME EndBroadcast \/ OtherType \/ TakeReference \/ SendFails \/ CommandSent
               \/ CommandSendFails \/ GamepadMisses \/ GamepadFinds
      PROVE  Steady
  BY <1>6 DEF EndBroadcast, OtherType, TakeReference, SendFails, CommandSent,
              CommandSendFails, GamepadMisses, GamepadFinds, GamepadStep, vector, system
<1>7. ASSUME NEW n \in 1..PacketLen, SendSome(n) PROVE Steady
  BY <1>7 DEF SendSome, GamepadStep, vector, system
<1>8. CASE GamepadStrikes
  BY <1>8 DEF GamepadStrikes, GamepadStep, Strike, system, Client
<1>9. CASE Environment
  BY <1>9 DEF Environment, Tick, PeerDies, PeerStalls, PeerResumes, vector, system, gamepad,
              Client
<1> QED
  BY <1>1, <1>2, <1>3, <1>4, <1>5, <1>6, <1>7, <1>8, <1>9
  DEF Next, ServerNext, GamepadNext

\* No command client is dropped before a send to one has failed or an fd clashed:
\* check_socket_time counts the try in a copy, however old the last ping is.
THEOREM CommandClientsStayHolds == Spec => CommandClientsStay
<1>1. ASSUME TypeInv, QuietInv, [Next]_vars, Quiet, NEW p \in Peers, Subscribed(p)
      PROVE  Subscribed(p)'
  <2> USE RegistryAssumption DEF TypeInv, TypeOK, VectorTypes, Index
  <2>1. Undisturbed
    BY <1>1 DEF QuietInv
  <2>2. PICK i \in 1..size : mem[i].type = COMMAND /\ mem[i].peer = p
    BY <1>1 DEF Subscribed
  <2>3. CASE Steady
    BY <1>1, <2>2, <2>3 DEF Steady, Subscribed
  <2>4. ASSUME NEW client, PushBack(client) PROVE Subscribed(p)'
    <3>1. size' = size + 1 /\ mem'[i] = mem[i]
      BY <1>1, <2>2, <2>4 DEF PushBack
    <3> QED
      BY <1>1, <2>2, <3>1 DEF Subscribed
  <2>5. CASE GamepadCloses
    BY <1>1, <2>2, <2>5 DEF GamepadCloses, vector, Subscribed
  <2>6. CASE GamepadErases
    <3>1. i # gvictim /\ gvictim \in 1..size
      BY <2>1, <2>2, <2>6
      DEF GamepadErases, GamepadStep, Undisturbed, RefDenotes, Media, VIDEO, AUDIO, COMMAND
    <3>2. size' = size - 1
      BY <2>6 DEF GamepadErases, EraseSlot
    <3>3. CASE i < gvictim
      <4>1. i \in 1..size' /\ mem'[i] = mem[i]
        BY <1>1, <2>2, <2>6, <3>1, <3>2, <3>3 DEF GamepadErases, EraseSlot
      <4> QED
        BY <2>2, <4>1 DEF Subscribed
    <3>4. CASE i > gvictim
      <4>1. i - 1 \in 1..size' /\ mem'[i - 1] = mem[i]
        BY <1>1, <2>2, <2>6, <3>1, <3>2, <3>4 DEF GamepadErases, EraseSlot
      <4> QED
        BY <2>2, <4>1 DEF Subscribed
    <3> QED
      BY <2>2, <3>1, <3>3, <3>4
  <2> QED
    BY <1>1, <2>1, <2>3, <2>4, <2>5, <2>6, StepKinds DEF Register, Accept
<1>2. TypeInv /\ QuietInv /\ [Next]_vars
        => [Quiet => \A p \in Peers : Subscribed(p) => Subscribed(p)']_vars
  BY <1>1
<1>3. Spec => [](TypeInv /\ QuietInv)
  BY TypeInit, TypeStep, QuietInit, QuietStep, PTL DEF Spec
<1> QED
  BY <1>2, <1>3, PTL DEF Spec, CommandClientsStay

-----------------------------------------------------------------------------
(* Third layer: descriptors, failures and the broadcast in progress. *)

\* Where the entries are after the gamepad thread has erased one.
LEMMA EraseMoves ==
  ASSUME TypeInv, Undisturbed, GamepadErases
  PROVE  /\ size' = size - 1 /\ size \in Nat /\ gvictim \in 1..size
         /\ gpc = "erase" /\ gpc' = "next"
         /\ \A i \in 1..size' : mem'[i] = mem[IF i < gvictim THEN i ELSE i + 1]
         /\ \A i \in 1..size : i # gvictim =>
              /\ (IF i < gvictim THEN i ELSE i - 1) \in 1..size'
              /\ mem'[IF i < gvictim THEN i ELSE i - 1] = mem[i]
<1> USE RegistryAssumption DEF TypeInv, TypeOK, VectorTypes, Index
<1>1. size' = size - 1 /\ size \in Nat /\ gpc = "erase" /\ gpc' = "next"
  BY DEF GamepadErases, GamepadStep, EraseSlot
<1>2. gvictim \in 1..size
  BY <1>1 DEF Undisturbed, RefDenotes
<1>3. \A i \in 1..size' : mem'[i] = mem[IF i < gvictim THEN i ELSE i + 1]
  BY <1>1, <1>2 DEF GamepadErases, EraseSlot
<1>4. ASSUME NEW i \in 1..size, i # gvictim
      PROVE  /\ (IF i < gvictim THEN i ELSE i - 1) \in 1..size'
             /\ mem'[IF i < gvictim THEN i ELSE i - 1] = mem[i]
  BY <1>1, <1>2, <1>3, <1>4
<1> QED
  BY <1>1, <1>2, <1>3, <1>4

LEMMA PushBackMoves ==
  ASSUME TypeInv, NEW client, PushBack(client)
  PROVE  /\ size \in Nat /\ size' = size + 1 /\ mem'[size + 1] = client
         /\ \A i \in 1..size : mem'[i] = mem[i]
         /\ UNCHANGED <<gpc, gtype, gidx, gremaining, gvictim>>
  BY RegistryAssumption DEF PushBack, TypeInv, TypeOK, VectorTypes, Index

\* What close() closes belongs to the entry found, or is nobody's.
LEMMA ClosesFound ==
  ASSUME TypeInv, Undisturbed, GamepadCloses
  PROVE  /\ gpc = "close" /\ gpc' = "erase" /\ UNCHANGED <<mem, size, gvictim>>
         /\ gvictim \in 1..size /\ Ref.fd \in {mem[gvictim].fd, StaleFd}
         /\ open' = open \ {Ref.fd}
  BY DEF GamepadCloses, GamepadStep, CloseFd, vector, Undisturbed, RefDenotes

LEMMA OwnedStep ==
  ASSUME TypeInv, Undisturbed, Owned, [Next]_vars
  PROVE  Owned'
<1> USE RegistryAssumption DEF TypeInv, TypeOK, VectorTypes, SystemTypes, Index, Owned
<1>1. CASE Steady
  <2>1. \A i \in 1..size : (IsMedia(i)' <=> IsMedia(i)) /\ (Leaving(i)' <=> Leaving(i))
                           /\ mem'[i].fd = mem[i].fd
    BY <1>1 DEF Steady, IsMedia, Leaving
  <2> QED
    BY <1>1, <2>1 DEF Steady
<1>2. ASSUME NEW p \in Peers, Register(p) PROVE Owned'
  <2>1. PICK garbage \in UninitFds : PushBack(CommandEntry(p, garbage))
    BY <1>2 DEF Register
  <2>2. /\ size \in Nat /\ size' = size + 1 /\ mem'[size + 1] = CommandEntry(p, garbage)
        /\ \A i \in 1..size : mem'[i] = mem[i]
        /\ gpc' = gpc /\ gvictim' = gvictim
    BY <2>1, PushBackMoves
  <2>3. ~IsMedia(size)'
    BY <2>2 DEF IsMedia, CommandEntry, Media, VIDEO, AUDIO, COMMAND
  <2>4. \A i \in 1..size : (IsMedia(i)' <=> IsMedia(i)) /\ (Leaving(i)' <=> Leaving(i))
    BY <2>2 DEF IsMedia, Leaving
  <2>5. open' = open
    BY <1>2 DEF Register, system
  <2> QED
    BY <2>2, <2>3, <2>4, <2>5
<1>3. ASSUME NEW type \in Media, NEW fd \in Fds \cup {NoFd}, Accept(type, fd) PROVE Owned'
  <2>1. PushBack(MediaEntry(type, fd)) /\ fd \notin open
    BY <1>3 DEF Accept
  <2>2. /\ size \in Nat /\ size' = size + 1 /\ mem'[size + 1] = MediaEntry(type, fd)
        /\ \A i \in 1..size : mem'[i] = mem[i]
        /\ gpc' = gpc /\ gvictim' = gvictim
    BY <2>1, PushBackMoves
  <2>3. /\ IsMedia(size)' <=> fd \in Fds
        /\ mem'[size + 1].fd = fd
    BY <2>2 DEF IsMedia, MediaEntry
  <2>4. \A i \in 1..size : (IsMedia(i)' <=> IsMedia(i)) /\ (Leaving(i)' <=> Leaving(i))
    BY <2>2 DEF IsMedia, Leaving
  <2>5. open' = open \cup {fd} \/ (fd = NoFd /\ open' = open)
    BY <1>3 DEF Accept, system
  <2> QED
    BY <2>1, <2>2, <2>3, <2>4, <2>5
<1>4. CASE GamepadCloses
  <2>1. /\ gpc = "close" /\ gpc' = "erase" /\ UNCHANGED <<mem, size, gvictim>>
        /\ gvictim \in 1..size /\ Ref.fd \in {mem[gvictim].fd, StaleFd}
        /\ open' = open \ {Ref.fd}
    BY <1>4, ClosesFound
  <2>2. \A i \in 1..size : /\ IsMedia(i)' <=> IsMedia(i)
                           /\ ~Leaving(i) /\ (Leaving(i)' <=> i = gvictim)
    BY <2>1 DEF IsMedia, Leaving
  <2>3. ASSUME NEW i \in 1..size, IsMedia(i), i # gvictim PROVE mem[i].fd # Ref.fd
    BY <2>1, <2>2, <2>3 DEF IsMedia, Undisturbed, RefDenotes
  <2> QED
    BY <2>1, <2>2, <2>3
<1>5. CASE GamepadErases
  <2> DEFINE old(i) == IF i < gvictim THEN i ELSE i + 1
  <2>1. /\ size' = size - 1 /\ size \in Nat /\ gvictim \in 1..size
        /\ gpc = "erase" /\ gpc' = "next"
        /\ \A i \in 1..size' : mem'[i] = mem[old(i)]
    BY <1>5, EraseMoves
  <2>2. \A i \in 1..size' : old(i) \in 1..size /\ old(i) # gvictim
    BY <2>1
  <2>3. \A i, j \in 1..size' : old(i) = old(j) => i = j
    BY <2>1
  <2>4. \A i \in 1..size' : /\ IsMedia(i)' <=> IsMedia(old(i))
                            /\ ~Leaving(old(i)) /\ mem'[i].fd = mem[old(i)].fd
    BY <2>1, <2>2 DEF IsMedia, Leaving
  <2>5. open' = open
    BY <1>5 DEF GamepadErases, system
  <2> HIDE DEF old
  <2> QED
    BY <2>2, <2>3, <2>4, <2>5
<1> QED
  BY <1>1, <1>2, <1>3, <1>4, <1>5, StepKinds

LEMMA KeptStep ==
  ASSUME TypeInv, Undisturbed, Owned, Kept, [Next]_vars
  PROVE  Kept'
<1> USE RegistryAssumption DEF TypeInv, TypeOK, VectorTypes, SystemTypes, Index
<1>1. gdangling' => dangled'
  BY DEF Kept, vars, vector, system, gamepad, server, history, Next, ServerNext, GamepadNext,
         Environment, Register, Ping, UpdateSocketTime, Accept, PushBack, CheckStarts, CheckDone, CheckFresh,
         CheckStale, ServerGivesUp, ServerFinds, ServerCloses, ServerErases,
         ServerErasesPastEnd, EndBroadcast, OtherType, TakeReference, SendSome, SendFails,
         CommandSent, CommandSendFails, GamepadStrikes, GamepadMisses, GamepadFinds,
         GamepadCloses, GamepadErases, GamepadErasesPastEnd, Tick, PeerDies, PeerStalls,
         PeerResumes, StartBroadcast, NextClient
<1>2. dangled => dangled'
  BY DEF vars, vector, system, gamepad, server, history, Next, ServerNext, GamepadNext,
         Environment, Register, Ping, UpdateSocketTime, Accept, PushBack, CheckStarts, CheckDone, CheckFresh,
         CheckStale, ServerGivesUp, ServerFinds, ServerCloses, ServerErases,
         ServerErasesPastEnd, EndBroadcast, OtherType, TakeReference, SendSome, SendFails,
         CommandSent, CommandSendFails, GamepadStrikes, GamepadMisses, GamepadFinds,
         GamepadCloses, GamepadErases, GamepadErasesPastEnd, Tick, PeerDies, PeerStalls,
         PeerResumes, StartBroadcast
<1> SUFFICES ASSUME ~dangled, NEW fd \in open'
             PROVE  \E i \in 1..size' : IsMedia(i)' /\ ~Leaving(i)' /\ mem'[i].fd = fd
  BY <1>1, <1>2 DEF Kept
<1>0. fd \in open => \E i \in 1..size : IsMedia(i) /\ ~Leaving(i) /\ mem[i].fd = fd
  BY DEF Kept
<1>3. CASE Steady
  <2>1. \A i \in 1..size : (IsMedia(i)' <=> IsMedia(i)) /\ (Leaving(i)' <=> Leaving(i))
                           /\ mem'[i].fd = mem[i].fd
    BY <1>3 DEF Steady, IsMedia, Leaving
  <2> QED
    BY <1>0, <1>3, <2>1 DEF Steady
<1>4. ASSUME NEW client, PushBack(client), fd \in open
      PROVE  \E i \in 1..size' : IsMedia(i)' /\ ~Leaving(i)' /\ mem'[i].fd = fd
  <2>1. /\ size \in Nat /\ size' = size + 1 /\ \A i \in 1..size : mem'[i] = mem[i]
        /\ gpc' = gpc /\ gvictim' = gvictim
    BY <1>4, PushBackMoves
  <2>2. \A i \in 1..size : (IsMedia(i)' <=> IsMedia(i)) /\ (Leaving(i)' <=> Leaving(i))
    BY <2>1 DEF IsMedia, Leaving
  <2> QED
    BY <1>0, <1>4, <2>1, <2>2
<1>5. ASSUME NEW type \in Media, NEW new \in Fds \cup {NoFd}, Accept(type, new), fd \notin open
      PROVE  \E i \in 1..size' : IsMedia(i)' /\ ~Leaving(i)' /\ mem'[i].fd = fd
  <2>1. PushBack(MediaEntry(type, new)) /\ fd = new /\ fd \in Fds
    BY <1>5 DEF Accept, system
  <2>2. /\ size \in Nat /\ size' = size + 1 /\ mem'[size + 1] = MediaEntry(type, new)
        /\ gpc' = gpc /\ gvictim' = gvictim
    BY <2>1, PushBackMoves
  <2>3. IsMedia(size)' /\ mem'[size + 1].fd = fd
    BY <2>1, <2>2 DEF IsMedia, MediaEntry
  <2>4. ~Leaving(size)'
    BY <2>2 DEF Leaving, Undisturbed, RefDenotes
  <2> QED
    BY <2>2, <2>3, <2>4
<1>6. ASSUME NEW p \in Peers, Register(p) PROVE fd \in open
  BY <1>6 DEF Register, system
<1>7. CASE GamepadCloses
  <2>1. /\ gpc = "close" /\ gpc' = "erase" /\ UNCHANGED <<mem, size, gvictim>>
        /\ gvictim \in 1..size /\ Ref.fd \in {mem[gvictim].fd, StaleFd}
        /\ open' = open \ {Ref.fd}
    BY <1>7, ClosesFound
  <2>2. Ref.fd = mem[gvictim].fd
    <3>1. Ref = mem[gidx] /\ gidx \in 1..size /\ mem[gidx].type \in Media
      BY <2>1 DEF Kept, Ref, Undisturbed, RefDenotes, Holding
    <3>2. mem[gidx].fd # StaleFd
      BY <3>1 DEF Undisturbed, EntriesKeep, Media, VIDEO, AUDIO, COMMAND
    <3> QED
      BY <2>1, <3>1, <3>2
  <2>3. PICK i \in 1..size : IsMedia(i) /\ mem[i].fd = fd
    BY <1>0, <2>1
  <2>4. i # gvictim
    BY <2>1, <2>2, <2>3
  <2> QED
    BY <2>1, <2>3, <2>4 DEF IsMedia, Leaving
<1>8. CASE GamepadErases
  <2>1. fd \in open
    BY <1>8 DEF GamepadErases, system
  <2>2. PICK i \in 1..size : IsMedia(i) /\ ~Leaving(i) /\ mem[i].fd = fd
    BY <1>0, <2>1
  <2>3. gpc = "erase" /\ gpc' = "next" /\ i # gvictim
    BY <1>8, <2>2 DEF GamepadErases, GamepadStep, Leaving
  <2>4. PICK j \in 1..size' : mem'[j] = mem[i]
    BY <1>8, <2>3, EraseMoves
  <2> QED
    BY <2>2, <2>3, <2>4 DEF IsMedia, Leaving
<1> QED
  <2>1. ASSUME NEW p \in Peers, Register(p)
        PROVE  \E i \in 1..size' : IsMedia(i)' /\ ~Leaving(i)' /\ mem'[i].fd = fd
    BY <1>4, <1>6, <2>1 DEF Register
  <2>2. ASSUME NEW type \in Media, NEW new \in Fds \cup {NoFd}, Accept(type, new)
        PROVE  \E i \in 1..size' : IsMedia(i)' /\ ~Leaving(i)' /\ mem'[i].fd = fd
    BY <1>4, <1>5, <2>2 DEF Accept
  <2> QED
    BY <1>3, <1>7, <1>8, <2>1, <2>2, StepKinds

\* The reference itself: while one is held it denotes the entry at the index, or
\* freed memory that is nobody's.
LEMMA RefIs ==
  ASSUME TypeInv, Undisturbed, Holding
  PROVE  /\ gidx \in 1..size /\ mem[gidx].type = gtype
         /\ \/ Ref.fd = mem[gidx].fd /\ Ref.tries = mem[gidx].tries
            \/ Ref.fd = StaleFd
BY DEF Undisturbed, RefDenotes, Ref, Same, Garbage

\* Pings and seconds touch nothing but the age of an entry.
LEMMA PingsAndTicks ==
  ASSUME TypeInv, UNCHANGED mem \/ Tick \/ \E p \in Peers : Ping(p)
  PROVE  \A i \in Index : /\ mem'[i].type = mem[i].type /\ mem'[i].fd = mem[i].fd
                          /\ mem'[i].peer = mem[i].peer /\ mem'[i].tries = mem[i].tries
<1> USE DEF TypeInv, TypeOK, VectorTypes
<1>1. CASE UNCHANGED mem
  BY <1>1
<1>2. CASE Tick
  BY <1>2 DEF Tick, Client
<1>3. ASSUME NEW p \in Peers, Ping(p)
      PROVE  \A i \in Index : mem'[i] \in {mem[i], [mem[i] EXCEPT !.age = 0]}
  BY <1>3 DEF Ping, UpdateSocketTime
<1>4. CASE \E p \in Peers : Ping(p)
  BY <1>3, <1>4 DEF Client
<1> QED
  BY <1>1, <1>2, <1>4

LEMMA StruckWhenSteady ==
  ASSUME TypeInv, Undisturbed, Struck, Steady,
         UNCHANGED <<fails, gpc, gdangling, gcopy, gidx>>,
         gpc # "idle" => gvictim' = gvictim,
         \A i \in Index : mem'[i].tries = mem[i].tries
  PROVE  Struck'
<1> USE RegistryAssumption DEF TypeInv, TypeOK, VectorTypes, Index, Steady
<1>1. \A i \in 1..size : (IsMedia(i)' <=> IsMedia(i)) /\ (Leaving(i)' => Leaving(i))
    /\ (Leaving(i) => Leaving(i)')
  BY DEF IsMedia, Leaving
<1>2. gpc = "remove" => (Ref.fd)' = Ref.fd /\ (Ref.tries)' = Ref.tries
  BY DEF Ref, Undisturbed, RefDenotes, Holding
<1>3. gpc \in {"close", "erase"} => gvictim' = gvictim /\ gvictim \in 1..size
  BY DEF Undisturbed, RefDenotes
<1> QED
  BY <1>1, <1>2, <1>3 DEF Struck

LEMMA StruckStep ==
  ASSUME TypeInv, Undisturbed, Owned, Struck, [Next]_vars
  PROVE  Struck'
<1> USE RegistryAssumption DEF TypeInv, TypeOK, VectorTypes, Index
<1>0. \A i \in 1..size : IsMedia(i) /\ ~Leaving(i) => mem[i].tries <= fails[mem[i].fd]
  BY DEF Struck
<1>1. ASSUME UNCHANGED vars \/ Environment \/ (\E p \in Peers : Ping(p))
             \/ CheckStarts \/ CheckDone \/ CheckFresh \/ CheckStale \/ ServerGivesUp
             \/ ServerFinds
      PROVE  Struck'
  <2>1. UNCHANGED gamepad /\ UNCHANGED <<fails, size, open>>
    BY <1>1 DEF vars, vector, system, history, Environment, Tick, PeerDies, PeerStalls,
                PeerResumes, Ping, UpdateSocketTime, CheckStarts, CheckDone, CheckFresh, CheckStale,
                ServerGivesUp, ServerFinds
  <2>2. \A i \in Index : /\ mem'[i].type = mem[i].type /\ mem'[i].fd = mem[i].fd
                         /\ mem'[i].peer = mem[i].peer /\ mem'[i].tries = mem[i].tries
    <3>1. UNCHANGED mem \/ Tick \/ \E p \in Peers : Ping(p)
      BY <1>1 DEF vars, vector, Environment, PeerDies, PeerStalls, PeerResumes, CheckStarts,
                  CheckDone, CheckFresh, CheckStale, ServerGivesUp, ServerFinds
    <3> QED
      BY <3>1, PingsAndTicks
  <2> QED
    BY <2>1, <2>2, StruckWhenSteady DEF gamepad, Steady
<1>2. ASSUME NEW client, PushBack(client), client.type = COMMAND, UNCHANGED fails PROVE Struck'
  <2>1. /\ size \in Nat /\ size' = size + 1 /\ mem'[size + 1] = client
        /\ \A i \in 1..size : mem'[i] = mem[i]
        /\ UNCHANGED <<gpc, gidx, gvictim>>
    BY <1>2, PushBackMoves
  <2>2. ~IsMedia(size)'
    BY <1>2, <2>1 DEF IsMedia, Media, VIDEO, AUDIO, COMMAND
  <2>3. \A i \in 1..size : (IsMedia(i)' <=> IsMedia(i)) /\ (Leaving(i)' <=> Leaving(i))
    BY <2>1 DEF IsMedia, Leaving
  <2>4. gpc = "remove" => Ref' = Ref \/ (Ref.fd)' = StaleFd
    <3> SUFFICES ASSUME gpc = "remove" PROVE Ref' = Ref \/ (Ref.fd)' = StaleFd
      OBVIOUS
    <3>1. gidx \in 1..size
      BY DEF Undisturbed, RefDenotes, Holding
    <3> QED
      BY <1>2, <2>1, <3>1 DEF PushBack, Ref, Garbage
  <2>5. gpc \in {"close", "erase"} => gvictim \in 1..size
    BY DEF Undisturbed, RefDenotes
  <2> QED
    BY <1>2, <2>1, <2>2, <2>3, <2>4, <2>5 DEF Struck
<1>3. ASSUME NEW type \in Media, NEW fd \in Fds \cup {NoFd}, Accept(type, fd) PROVE Struck'
  <2>1. PushBack(MediaEntry(type, fd)) /\ fd \notin open
    BY <1>3 DEF Accept
  <2>2. /\ size \in Nat /\ size' = size + 1 /\ mem'[size + 1] = MediaEntry(type, fd)
        /\ \A i \in 1..size : mem'[i] = mem[i]
        /\ UNCHANGED <<gpc, gidx, gvictim>>
    BY <2>1, PushBackMoves
  <2>3. \A i \in 1..size : (IsMedia(i)' <=> IsMedia(i)) /\ (Leaving(i)' <=> Leaving(i))
    BY <2>2 DEF IsMedia, Leaving
  <2>4. /\ \A x \in Fds : x # fd => fails'[x] = fails[x]
        /\ fd \in Fds => fails'[fd] = 0
    BY <1>3 DEF Accept, HistoryTypes
  <2>5. (IsMedia(size)' => fd \in Fds) /\ mem'[size + 1].fd = fd /\ mem'[size + 1].tries = 0
    BY <2>2 DEF IsMedia, MediaEntry
  <2>6. \A i \in 1..size : IsMedia(i) /\ ~Leaving(i) => mem[i].fd # fd
    BY <2>1 DEF Owned
  <2>7. \A i \in 1..size' : IsMedia(i)' /\ ~Leaving(i)' => mem'[i].tries <= fails'[mem'[i].fd]
    <3>1. ASSUME NEW i \in 1..size, IsMedia(i), ~Leaving(i)
          PROVE  mem'[i].tries <= fails'[mem'[i].fd]
      BY <1>0, <2>2, <2>4, <2>6, <3>1 DEF IsMedia
    <3>2. ASSUME IsMedia(size)' PROVE mem'[size'].tries <= fails'[mem'[size'].fd]
      BY <2>2, <2>4, <2>5, <3>2
    <3> QED
      BY <2>2, <2>3, <3>1, <3>2
  <2>8. (gpc = "remove" /\ Ref.fd \in Fds => Ref.tries < fails[Ref.fd])'
    <3> SUFFICES ASSUME gpc = "remove", (Ref.fd)' \in Fds
                 PROVE  (Ref.tries < fails[Ref.fd])'
      BY <2>2
    <3>1. Holding
      BY DEF Holding
    <3>2. gidx \in 1..size /\ mem[gidx].type = gtype /\ gtype \in Media
          /\ (Ref.fd = mem[gidx].fd \/ Ref.fd = StaleFd)
      BY <3>1, RefIs DEF Undisturbed, RefDenotes
    <3>3. Ref' = Ref
      BY <2>1, <2>2, <3>2 DEF PushBack, Ref, Garbage
    <3>4. Ref.fd = mem[gidx].fd /\ IsMedia(gidx) /\ ~Leaving(gidx)
      BY <3>2, <3>3 DEF IsMedia, Leaving
    <3>5. Ref.fd # fd
      BY <2>6, <3>2, <3>4
    <3> QED
      BY <2>4, <3>3, <3>5 DEF Struck
  <2>9. (gpc = "close" /\ mem[gvictim].fd \in Fds => fails[mem[gvictim].fd] > TriesAllowed)'
    <3>1. gpc = "close" => gvictim \in 1..size /\ mem[gvictim].type \in Media
      BY DEF Undisturbed, RefDenotes
    <3>2. gpc = "close" /\ mem[gvictim].fd \in Fds => mem[gvictim].fd # fd
      BY <2>6, <3>1 DEF IsMedia, Leaving
    <3> QED
      BY <2>2, <2>4, <3>1, <3>2 DEF Struck
  <2>10. (gpc = "erase" /\ mem[gvictim].fd \in Fds =>
           \/ fails[mem[gvictim].fd] > TriesAllowed
           \/ \E j \in 1..size : j # gvictim /\ IsMedia(j) /\ mem[j].fd = mem[gvictim].fd)'
    <3> SUFFICES ASSUME gpc = "erase", mem[gvictim].fd \in Fds
                 PROVE  (\/ fails[mem[gvictim].fd] > TriesAllowed
                         \/ \E j \in 1..size : j # gvictim /\ IsMedia(j)
                                               /\ mem[j].fd = mem[gvictim].fd)'
      BY <2>2 DEF Undisturbed, RefDenotes
    <3>1. gvictim \in 1..size
      BY DEF Undisturbed, RefDenotes
    <3>2. CASE mem[gvictim].fd = fd
      <4>1. IsMedia(size)'
        BY <2>2, <3>2 DEF IsMedia, MediaEntry
      <4> QED
        BY <2>2, <2>5, <3>1, <3>2, <4>1
    <3>3. CASE mem[gvictim].fd # fd
      BY <2>2, <2>3, <2>4, <3>1, <3>3 DEF Struck
    <3> QED
      BY <3>2, <3>3
  <2> QED
    BY <2>7, <2>8, <2>9, <2>10 DEF Struck
<1>4. ASSUME (\E type \in {VIDEO, AUDIO, COMMAND} : StartBroadcast(type)) \/ EndBroadcast
             \/ OtherType \/ TakeReference \/ (\E n \in 1..PacketLen : SendSome(n))
             \/ CommandSent \/ GamepadMisses
      PROVE  Struck'
  <2>1. UNCHANGED <<mem, size, fails>> /\ gpc # "erase"
        /\ gpc' \in {"idle", "next", "send"}
    BY <1>4 DEF StartBroadcast, EndBroadcast, OtherType, TakeReference, SendSome, CommandSent,
                GamepadMisses, GamepadStep, vector, history
  <2>2. \A i \in 1..size : (IsMedia(i)' <=> IsMedia(i)) /\ ~Leaving(i) /\ ~Leaving(i)'
    BY <2>1 DEF IsMedia, Leaving
  <2> QED
    BY <2>1, <2>2 DEF Struck
<1>5. CASE SendFails \/ CommandSendFails
  <2>1. UNCHANGED <<mem, size, gidx, gdangling, gcopy>> /\ gpc = "send" /\ gpc' = "remove"
    BY <1>5 DEF SendFails, CommandSendFails, GamepadStep, vector
  <2>2. \A x \in Fds : fails'[x] >= fails[x] /\ fails[x] \in Nat /\ fails'[x] \in Nat
    BY <1>5 DEF SendFails, CommandSendFails, Count, HistoryTypes
  <2>3. \A i \in 1..size : (IsMedia(i)' <=> IsMedia(i)) /\ ~Leaving(i) /\ ~Leaving(i)'
    BY <2>1 DEF IsMedia, Leaving
  <2>4. \A i \in 1..size : IsMedia(i) => mem[i].fd \in Fds /\ mem[i].tries \in Nat
    BY DEF IsMedia, Client
  <2>5. \A i \in 1..size : IsMedia(i) => mem[i].tries <= fails'[mem[i].fd]
    <3> SUFFICES ASSUME NEW i \in 1..size, IsMedia(i) PROVE mem[i].tries <= fails'[mem[i].fd]
      OBVIOUS
    <3>1. mem[i].tries <= fails[mem[i].fd]
      BY <1>0, <2>3
    <3>2. mem[i].tries \in Nat /\ mem[i].fd \in Fds
      BY <2>4
    <3> QED
      BY <2>2, <3>1, <3>2
  <2>6. ASSUME Ref.fd \in Fds PROVE Ref.tries < fails'[Ref.fd]
    <3>1. Holding
      BY <2>1 DEF Holding
    <3>2. gidx \in 1..size /\ mem[gidx].type = gtype
          /\ Ref.fd = mem[gidx].fd /\ Ref.tries = mem[gidx].tries
      BY <2>6, <3>1, RefIs
    <3>3. gtype \in Media /\ IsMedia(gidx) /\ SendFails
      <4>1. mem[gidx].type # COMMAND
        BY <2>6, <3>2 DEF Undisturbed, EntriesKeep
      <4> QED
        BY <1>5, <2>6, <3>2, <4>1
        DEF CommandSendFails, SendFails, IsMedia, Media, VIDEO, AUDIO, COMMAND
    <3>4. Ref.tries <= fails[Ref.fd] /\ Ref.tries \in 0..TriesAllowed
      <4>1. mem[gidx] \in Client
        BY <3>2
      <4>2. mem[gidx].tries <= fails[mem[gidx].fd]
        BY <1>0, <2>3, <3>2, <3>3
      <4> QED
        BY <3>2, <4>1, <4>2 DEF Client
    <3>5. fails'[Ref.fd] = IF fails[Ref.fd] <= TriesAllowed THEN fails[Ref.fd] + 1
                           ELSE fails[Ref.fd]
      BY <2>6, <3>3 DEF SendFails, Count, HistoryTypes
    <3>6. fails[Ref.fd] \in Nat
      BY <2>2, <2>6
    <3> QED
      BY <3>4, <3>5, <3>6
  <2>7. Ref' = Ref
    BY <2>1 DEF Ref
  <2> QED
    BY <2>1, <2>3, <2>5, <2>6, <2>7 DEF Struck
<1>6. CASE GamepadStrikes
  <2>1. gpc = "remove" /\ gpc' = "next" /\ size' = size /\ fails' = fails
    BY <1>6 DEF GamepadStrikes, GamepadStep
  <2>2. gidx \in 1..size
    BY <2>1, RefIs DEF Holding
  <2>3. \A i \in 1..size : /\ mem'[i].type = mem[i].type /\ mem'[i].fd = mem[i].fd
                           /\ i # gidx \/ gdangling => mem'[i].tries = mem[i].tries
                           /\ i = gidx /\ ~gdangling => mem'[i].tries = mem[i].tries + 1
    <3>1. CASE gdangling
      BY <1>6, <3>1 DEF GamepadStrikes, Strike
    <3>2. CASE ~gdangling
      <4>1. mem' = [mem EXCEPT ![gidx].tries = @ + 1]
        BY <1>6, <3>2 DEF GamepadStrikes, Strike
      <4>2. \A i \in 1..size : i # gidx => mem'[i] = mem[i]
        BY <4>1
      <4>3. mem[gidx] \in Client /\ mem'[gidx] = [mem[gidx] EXCEPT !.tries = @ + 1]
        BY <2>2, <4>1
      <4>4. /\ mem'[gidx].type = mem[gidx].type /\ mem'[gidx].fd = mem[gidx].fd
            /\ mem'[gidx].tries = mem[gidx].tries + 1
        BY <4>3 DEF Client
      <4> QED
        BY <3>2, <4>2, <4>4
    <3> QED
      BY <3>1, <3>2
  <2>4. \A i \in 1..size : (IsMedia(i)' <=> IsMedia(i)) /\ ~Leaving(i) /\ ~Leaving(i)'
    BY <2>1, <2>3 DEF IsMedia, Leaving
  <2>5. IsMedia(gidx) /\ ~gdangling => mem[gidx].tries < fails[mem[gidx].fd]
    BY <2>1 DEF Struck, Ref, IsMedia
  <2>6. \A i \in 1..size : IsMedia(i) => mem[i].tries \in Nat /\ fails[mem[i].fd] \in Nat
    BY DEF IsMedia, Client, HistoryTypes
  <2>7. \A i \in 1..size : IsMedia(i) => mem'[i].tries <= fails[mem[i].fd]
    BY <1>0, <2>2, <2>3, <2>4, <2>5, <2>6
  <2> QED
    BY <2>1, <2>3, <2>4, <2>7 DEF Struck
<1>7. CASE GamepadFinds
  <2>1. gpc = "remove" /\ gpc' = "close" /\ HasMatch(Ref) /\ gvictim' = FirstMatch(Ref)
        /\ UNCHANGED <<mem, size, fails>> /\ OutOfTries(Ref)
    BY <1>7 DEF GamepadFinds, GamepadStep, vector, history
  <2>2. gvictim' \in 1..size /\ mem[gvictim'].fd = Ref.fd
    BY <2>1, FindsOwnFd
  <2>3. Ref.fd \in Fds => fails[Ref.fd] > TriesAllowed
    <3>1. Ref.tries \in Nat /\ (Ref.fd \in Fds => fails[Ref.fd] \in Nat)
      BY <2>1, RefIsClient DEF Client, HistoryTypes
    <3> QED
      BY <2>1, <3>1 DEF Struck, OutOfTries
  <2>4. \A i \in 1..size : (IsMedia(i)' <=> IsMedia(i)) /\ ~Leaving(i)
    BY <2>1 DEF IsMedia, Leaving
  <2> QED
    BY <2>1, <2>2, <2>3, <2>4 DEF Struck
<1>8. CASE GamepadCloses
  <2>1. /\ gpc = "close" /\ gpc' = "erase" /\ UNCHANGED <<mem, size, gvictim, fails>>
        /\ gvictim \in 1..size
    BY <1>8, ClosesFound DEF GamepadCloses, history
  <2>2. \A i \in 1..size : (IsMedia(i)' <=> IsMedia(i)) /\ ~Leaving(i)
    BY <2>1 DEF IsMedia, Leaving
  <2> QED
    BY <2>1, <2>2 DEF Struck
<1>9. CASE GamepadErases
  <2>1. /\ gpc = "erase" /\ gpc' = "next" /\ size' = size - 1 /\ size \in Nat
        /\ gvictim \in 1..size
        /\ \A i \in 1..size' : mem'[i] = mem[IF i < gvictim THEN i ELSE i + 1]
    BY <1>9, EraseMoves
  <2>2. fails' = fails
    BY <1>9 DEF GamepadErases
  <2>3. ASSUME NEW i \in 1..size' PROVE IsMedia(i)' => mem'[i].tries <= fails[mem'[i].fd]
    <3>1. PICK j \in 1..size : mem'[i] = mem[j] /\ j # gvictim
      BY <2>1
    <3>2. ~Leaving(j) /\ (IsMedia(i)' <=> IsMedia(j))
      BY <3>1 DEF Leaving, IsMedia
    <3> QED
      BY <1>0, <3>1, <3>2
  <2> QED
    BY <2>1, <2>2, <2>3 DEF Struck
<1>10. ~ServerCloses /\ ~ServerErases /\ ~ServerErasesPastEnd /\ ~GamepadErasesPastEnd
  BY DEF ServerCloses, ServerErases, ServerErasesPastEnd, ServerStep, Undisturbed,
         ServerHarmless, GamepadErasesPastEnd, RefDenotes
<1>11. ASSUME NEW p \in Peers, Register(p) PROVE Struck'
  BY <1>2, <1>11 DEF Register, CommandEntry
<1> QED
  BY <1>1, <1>3, <1>4, <1>5, <1>6, <1>7, <1>8, <1>9, <1>10, <1>11
  DEF Next, ServerNext, GamepadNext

\* The entries keep their keys and the broadcast stays where it is, or lets go
\* of its reference.
LEMMA PassedWhenStill ==
  ASSUME TypeInv, Passed, size' = size, UNCHANGED <<gidx, gtype, reached, removed>>,
         Holding' => Holding,
         \A i \in Index : /\ mem'[i].type = mem[i].type /\ mem'[i].fd = mem[i].fd
                          /\ mem'[i].peer = mem[i].peer
  PROVE  Passed'
<1> USE RegistryAssumption DEF TypeInv, TypeOK, VectorTypes, Index
<1>1. \A i \in 1..size : (Key(mem[i]))' = Key(mem[i])
  BY DEF Key
<1> QED
  BY <1>1 DEF Passed

\* The broadcast lets go of its reference and moves on.
LEMMA PassedWhenNext ==
  ASSUME TypeInv, Passed, UNCHANGED <<size, reached, removed>>, NextClient, gpc' = "next",
         gidx \in 1..size, Holding \/ mem[gidx].type # gtype,
         \A i \in Index : /\ mem'[i].type = mem[i].type /\ mem'[i].fd = mem[i].fd
                          /\ mem'[i].peer = mem[i].peer
  PROVE  Passed'
<1> USE RegistryAssumption DEF TypeInv, TypeOK, VectorTypes, Index
<1>1. \A i \in 1..size : (Key(mem[i]))' = Key(mem[i])
  BY DEF Key
<1>2. gidx' = gidx + 1 /\ gtype' = gtype /\ ~Holding'
  BY DEF NextClient, NextIndex, Holding
<1>3. \A i \in 1..size : i < gidx + 1 => i < gidx \/ i = gidx
  OBVIOUS
<1> QED
  BY <1>1, <1>2, <1>3 DEF Passed

LEMMA PassedStep ==
  ASSUME TypeInv, Undisturbed, Passed, [Next]_vars
  PROVE  Passed'
<1> USE RegistryAssumption DEF TypeInv, TypeOK, VectorTypes, Index
<1>1. ASSUME UNCHANGED vars \/ Environment \/ (\E p \in Peers : Ping(p))
             \/ CheckStarts \/ CheckDone \/ CheckFresh \/ CheckStale \/ ServerGivesUp
             \/ ServerFinds
      PROVE  Passed'
  <2>1. UNCHANGED <<size, gidx, gtype, reached, removed, gpc>>
    BY <1>1 DEF vars, vector, gamepad, history, Environment, Tick, PeerDies, PeerStalls,
                PeerResumes, Ping, UpdateSocketTime, CheckStarts, CheckDone, CheckFresh, CheckStale,
                ServerGivesUp, ServerFinds
  <2>2. \A i \in Index : /\ mem'[i].type = mem[i].type /\ mem'[i].fd = mem[i].fd
                         /\ mem'[i].peer = mem[i].peer
    <3>1. UNCHANGED mem \/ Tick \/ \E p \in Peers : Ping(p)
      BY <1>1 DEF vars, vector, Environment, PeerDies, PeerStalls, PeerResumes, CheckStarts,
                  CheckDone, CheckFresh, CheckStale, ServerGivesUp, ServerFinds
    <3> QED
      BY <3>1, PingsAndTicks
  <2> QED
    BY <2>1, <2>2, PassedWhenStill DEF Holding
<1>2. ASSUME SendFails \/ CommandSendFails \/ GamepadFinds \/ GamepadCloses
             \/ \E n \in 1..PacketLen : SendSome(n) /\ n # gremaining
      PROVE  Passed'
  <2>1. UNCHANGED <<mem, size, gidx, gtype, reached, removed>> /\ Holding
    BY <1>2 DEF SendFails, CommandSendFails, GamepadFinds, GamepadCloses, SendSome, vector,
                history, GamepadStep, Holding
  <2> QED
    BY <2>1, PassedWhenStill
<1>3. ASSUME NEW client, PushBack(client), UNCHANGED <<reached, removed>> PROVE Passed'
  <2>1. /\ size \in Nat /\ size' = size + 1 /\ \A i \in 1..size : mem'[i] = mem[i]
        /\ UNCHANGED <<gpc, gidx, gtype>>
    BY <1>3, PushBackMoves
  <2>2. \A i \in 1..size : (Key(mem[i]))' = Key(mem[i])
    BY <2>1 DEF Key
  <2>3. Holding' = Holding /\ (Holding => gidx \in 1..size)
    BY <2>1 DEF Undisturbed, RefDenotes, Holding
  <2>4. gidx \in Nat
    BY DEF GamepadTypes
  <2> QED
    BY <1>3, <2>1, <2>2, <2>3, <2>4 DEF Passed
<1>4. ASSUME NEW type \in {VIDEO, AUDIO, COMMAND}, StartBroadcast(type) PROVE Passed'
  <2>1. gidx' = 1 /\ size' = size /\ ~Holding'
    BY <1>4 DEF StartBroadcast, GamepadStep, Ranges, vector, Holding
  <2> QED
    BY <2>1 DEF Passed
<1>5. CASE EndBroadcast
  <2>1. gidx' = 1 /\ size' = size /\ ~Holding'
    BY <1>5 DEF EndBroadcast, GamepadStep, vector, Holding
  <2> QED
    BY <2>1 DEF Passed
<1>6. CASE OtherType
  <2>1. gidx \in 1..size /\ mem[gidx].type # gtype /\ NextClient /\ gpc' = "next"
        /\ UNCHANGED <<mem, size, reached, removed>>
    BY <1>6 DEF OtherType, GamepadStep, vector, GamepadTypes
  <2> QED
    BY <2>1, PassedWhenNext
<1>7. CASE TakeReference
  <2>1. /\ UNCHANGED <<mem, size, gidx, gtype, removed>> /\ gidx \in 1..size
        /\ reached' = reached \cup {Key(mem[gidx])}
    BY <1>7 DEF TakeReference, vector, GamepadTypes
  <2>2. \A i \in 1..size : (Key(mem[i]))' = Key(mem[i])
    BY <2>1 DEF Key
  <2> QED
    BY <2>1, <2>2 DEF Passed
<1>8. ASSUME CommandSent \/ GamepadMisses \/ GamepadStrikes
             \/ \E n \in 1..PacketLen : SendSome(n) /\ n = gremaining
      PROVE  Passed'
  <2>1. NextClient /\ gpc' = "next" /\ Holding /\ UNCHANGED <<size, reached, removed>>
    BY <1>8 DEF CommandSent, GamepadMisses, GamepadStrikes, SendSome, GamepadStep, Holding,
                vector
  <2>2. gidx \in 1..size
    BY <2>1, RefIs
  <2>3. \A i \in Index : /\ mem'[i].type = mem[i].type /\ mem'[i].fd = mem[i].fd
                         /\ mem'[i].peer = mem[i].peer
    <3>1. CASE UNCHANGED mem
      BY <3>1
    <3>2. CASE GamepadStrikes
      <4>1. CASE gdangling
        BY <3>2, <4>1 DEF GamepadStrikes, Strike
      <4>2. CASE ~gdangling
        <5>1. mem' = [mem EXCEPT ![gidx].tries = @ + 1]
          BY <3>2, <4>2 DEF GamepadStrikes, Strike
        <5>2. \A i \in Index : i # gidx => mem'[i] = mem[i]
          BY <5>1
        <5>3. mem[gidx] \in Client /\ mem'[gidx] = [mem[gidx] EXCEPT !.tries = @ + 1]
          BY <2>2, <5>1
        <5>4. /\ mem'[gidx].type = mem[gidx].type /\ mem'[gidx].fd = mem[gidx].fd
              /\ mem'[gidx].peer = mem[gidx].peer
          BY <5>3 DEF Client
        <5> QED
          BY <5>2, <5>4
      <4> QED
        BY <4>1, <4>2
    <3> QED
      BY <1>8, <3>1, <3>2 DEF CommandSent, GamepadMisses, SendSome, vector
  <2> QED
    BY <2>1, <2>2, <2>3, PassedWhenNext
<1>9. CASE GamepadErases
  BY <1>9 DEF GamepadErases, Passed
<1>10. ~ServerCloses /\ ~ServerErases /\ ~ServerErasesPastEnd /\ ~GamepadErasesPastEnd
  BY DEF ServerCloses, ServerErases, ServerErasesPastEnd, ServerStep, Undisturbed,
         ServerHarmless, GamepadErasesPastEnd, RefDenotes
<1>11. ASSUME NEW p \in Peers, Register(p) PROVE Passed'
  BY <1>3, <1>11 DEF Register
<1>12. ASSUME NEW type \in Media, NEW fd \in Fds \cup {NoFd}, Accept(type, fd) PROVE Passed'
  BY <1>3, <1>12 DEF Accept
<1> QED
  BY <1>1, <1>2, <1>4, <1>5, <1>6, <1>7, <1>8, <1>9, <1>10, <1>11, <1>12
  DEF Next, ServerNext, GamepadNext

LEMMA BookStep == TypeInv /\ QuietInv /\ BookInv /\ [Next]_vars => BookInv'
<1> SUFFICES ASSUME TypeInv, QuietInv, BookInv, [Next]_vars, Quiet' PROVE Booked'
  BY DEF BookInv
<1>1. Undisturbed /\ Booked
  BY QuietBefore DEF QuietInv, BookInv
<1> QED
  BY <1>1, OwnedStep, StruckStep, PassedStep, KeptStep DEF Booked

LEMMA BookInit == Init => BookInv
<1> SUFFICES ASSUME Init PROVE Booked
  BY DEF BookInv
<1>1. Owned /\ Struck /\ Kept
  BY DEF Init, Owned, Struck, Kept
<1>2. Passed
  BY DEF Init, Passed
<1> QED
  BY <1>1, <1>2 DEF Booked

LEMMA Inductive == Spec => []IInv
<1>1. Init => IInv
  BY TypeInit, QuietInit, BookInit DEF IInv
<1>2. IInv /\ [Next]_vars => IInv'
  BY TypeStep, QuietStep, BookStep DEF IInv
<1> QED
  BY <1>1, <1>2, PTL DEF Spec

\* A media client's descriptor is open and its own from accept() until the
\* close() of its removal, although close() comes before erase() and accept()
\* may hand the number out again in between.
THEOREM FdOwnershipHolds == Spec => []FdOwnership
<1>1. IInv => FdOwnership
  BY DEF IInv, BookInv, Booked, Owned, FdOwnership
<1> QED
  BY <1>1, Inductive, PTL

\* While no reference was held across a move of the vector, every descriptor
\* that accept() returned is registered or has been closed.
THEOREM NoDescriptorLeakHolds == Spec => []NoDescriptorLeak
<1>1. IInv => NoDescriptorLeak
  BY DEF IInv, BookInv, Booked, Kept, NoDescriptorLeak
<1> QED
  BY <1>1, Inductive, PTL

\* A broadcast that has erased nobody has reached every client before its index,
\* whatever register_client_socket appended meanwhile.
THEOREM NobodyPassedOverHolds == Spec => []NobodyPassedOver
<1>1. IInv => NobodyPassedOver
  BY DEF IInv, BookInv, Booked, Passed, NobodyPassedOver
<1> QED
  BY <1>1, Inductive, PTL

\* remove_client_socket closes and erases a media client only after one more
\* failed send to that connection than it lets pass, never for another's failures
\* and never for those of an earlier connection with the same descriptor.
THEOREM DropNeedsFailuresHolds == Spec => DropNeedsFailures
<1>1. ASSUME IInv, [Next]_vars, Quiet', NEW fd \in Fds,
             \/ fd \in open /\ fd \notin open'
             \/ Registered(fd) /\ ~Registered(fd)'
      PROVE  fails[fd] > TriesAllowed
  <2> USE RegistryAssumption DEF TypeInv, TypeOK, VectorTypes, Index
  <2>1. TypeInv /\ Undisturbed /\ Booked
    BY <1>1, QuietBefore DEF IInv, QuietInv, BookInv
  <2>2. CASE GamepadCloses
    <3>1. /\ gpc = "close" /\ UNCHANGED <<mem, size>>
          /\ Ref.fd \in {mem[gvictim].fd, StaleFd} /\ open' = open \ {Ref.fd}
      BY <2>1, <2>2, ClosesFound
    <3>2. Registered(fd) => Registered(fd)'
      BY <3>1 DEF Registered, IsMedia
    <3>3. mem[gvictim].fd = fd
      BY <1>1, <3>1, <3>2
    <3> QED
      BY <2>1, <3>1, <3>3 DEF Booked, Struck
  <2>3. CASE GamepadErases
    <3>1. gpc = "erase" /\ gvictim \in 1..size
          /\ \A i \in 1..size : i # gvictim => \E j \in 1..size' : mem'[j] = mem[i]
      BY <2>1, <2>3, EraseMoves
    <3>2. Registered(fd) /\ ~Registered(fd)'
      BY <1>1, <2>3 DEF GamepadErases, system
    <3>3. \A i \in 1..size : IsMedia(i) /\ mem[i].fd = fd => i = gvictim
      BY <3>1, <3>2 DEF Registered, IsMedia
    <3>4. mem[gvictim].fd = fd
      BY <3>2, <3>3 DEF Registered
    <3> QED
      BY <2>1, <3>1, <3>3, <3>4 DEF Booked, Struck
  <2>4. CASE Steady
    BY <1>1, <2>1, <2>4 DEF Steady, Registered, IsMedia
  <2>5. ASSUME NEW client, PushBack(client), open \subseteq open' PROVE FALSE
    <3>1. size \in Nat /\ size' = size + 1 /\ \A i \in 1..size : mem'[i] = mem[i]
      BY <2>1, <2>5, PushBackMoves
    <3> QED
      BY <1>1, <2>5, <3>1 DEF Registered, IsMedia
  <2>6. ASSUME NEW p \in Peers, Register(p) PROVE FALSE
    BY <2>5, <2>6 DEF Register, system
  <2>7. ASSUME NEW type \in Media, NEW new \in Fds \cup {NoFd}, Accept(type, new) PROVE FALSE
    BY <2>5, <2>7 DEF Accept, system
  <2> QED
    BY <1>1, <2>1, <2>2, <2>3, <2>4, <2>6, <2>7, StepKinds
<1>2. IInv /\ [Next]_vars =>
        [Quiet' => \A fd \in Fds :
           \/ fd \in open /\ fd \notin open'
           \/ Registered(fd) /\ ~Registered(fd)'
           => fails[fd] > TriesAllowed]_vars
  BY <1>1
<1> QED
  BY <1>2, Inductive, PTL DEF Spec, DropNeedsFailures

=============================================================================
