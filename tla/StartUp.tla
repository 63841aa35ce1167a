------------------------------- MODULE StartUp -------------------------------
(***************************************************************************)
(* The start of the program (run in src/src/main.cpp): three threads that  *)
(* set up what the others use, and nothing that makes one wait for another *)
(* but the flag Gamepad::running.                                          *)
(*                                                                         *)
(*   - The GAMEPAD thread reads the command responses from a file, creates *)
(*     the console's sockets and raises the flag.                          *)
(*   - The SERVER thread creates the clients' sockets and serves at once.  *)
(*   - The INPUT thread makes the objects that hold the clients' input,    *)
(*     waits for the flag and then reports.                                *)
(*                                                                         *)
(* Both select() calls watch the descriptors up to that of the socket      *)
(* created last. The kernel hands out the lowest free number, and the file *)
(* of the command responses is closed while the server thread creates its  *)
(* sockets.                                                                *)
(***************************************************************************)
EXTENDS Integers, Sequences, FiniteSets

CONSTANTS
  FirstFd,        \* the first free descriptor when the threads start
  LastFd,         \* the limit on descriptors
  MaxAccepts,     \* bound: clients that connect
  Regions,        \* files of command responses; one of them is "na"
  MissingExists   \* what OSUtil::exists, which ends without a return, says of no file

ASSUME StartUpAssumption ==
  /\ FirstFd \in Nat /\ LastFd \in Nat /\ MaxAccepts \in Nat
  /\ "na" \in Regions /\ "none" \notin Regions
  /\ MissingExists \subseteq BOOLEAN

VARIABLES
  open,                    \* descriptors in use
  gpc, file, gsockets, running, region, loaded, blank,   \* the gamepad thread
  spc, ssockets, accepted,                               \* the server thread
  ipc, made,                                             \* the input thread
  program,     \* "runs", "exited" or "crashed"
  straddled,   \* history: the file was closed between two sockets of the server
  reported     \* history: the console has got a report

gamepad == <<gpc, file, gsockets, running, region, loaded, blank>>
server  == <<spc, ssockets, accepted>>
inputs  == <<ipc, made>>
history == <<straddled, reported>>
startVars == <<open, gamepad, server, inputs, program, history>>

Fd == FirstFd..LastFd

GamepadSockets == <<"cmd", "aud", "vid", "msg", "hid">>
ServerSockets  == <<"vid", "aud", "cmd">>

\* The constructor of Input makes them in this order.
Objects_NoMic == <<"button", "extra", "joystick", "touch">>
Objects       == <<"button", "extra", "joystick", "touch", "mic">>

StartTypeOK ==
  /\ open \subseteq Fd
  /\ gpc \in {"load", "file", "socket", "bind", "start", "loop"}
  /\ file \in Fd \cup {-1} /\ gsockets \in Seq(Fd) /\ Len(gsockets) <= Len(GamepadSockets)
  /\ running \in BOOLEAN /\ blank \in BOOLEAN
  /\ region \in Regions \cup {"none"} /\ loaded \in Regions \cup {"none"}
  /\ spc \in {"socket", "bind", "loop"}
  /\ ssockets \in Seq(Fd) /\ Len(ssockets) <= Len(ServerSockets) /\ accepted \in 0..MaxAccepts
  /\ ipc \in {"make", "wait", "loop"} /\ made \in 0..5
  /\ program \in {"runs", "exited", "crashed"}
  /\ straddled \in BOOLEAN /\ reported \in BOOLEAN

StartInit ==
  /\ open = {}
  /\ gpc = "load" /\ file = -1 /\ gsockets = <<>> /\ running = FALSE
  /\ region \in Regions \cup {"none"} /\ loaded = "none" /\ blank = (region = "none")
  /\ spc = "socket" /\ ssockets = <<>> /\ accepted = 0
  /\ ipc = "make" /\ made = 0
  /\ program = "runs"
  /\ straddled = FALSE /\ reported = FALSE

\* The kernel's choice of a descriptor.
Lowest == {fd \in Fd \ open : \A other \in Fd \ open : fd <= other}

Exit  == program' = "exited"
Crash == program' = "crashed"

-----------------------------------------------------------------------------
(* The gamepad thread. *)

\* exists() of a file that is there, or not.
Exists(there) == IF there THEN {TRUE} ELSE MissingExists

\* Resource looks here first, then where the program is installed: whether
\* exists() finds the file where it settled, and whether fopen() will.
Lookups(name, local, global) ==
  UNION {LET there == IF here THEN name \in local ELSE name \in global
         IN {[found |-> found, opens |-> there] : found \in Exists(there)} :
           here \in Exists(name \in local)}

\* as_bytes opens the file, or the process ends.
ReadFile(name, opens) ==
  IF opens THEN /\ gpc' = "file" /\ file' \in Lowest /\ open' = open \cup {file'}
                /\ loaded' = name /\ UNCHANGED program
           ELSE Exit /\ UNCHANGED <<gpc, file, open, loaded>>

\* Without a region the default file is read and its answers are blanked. The
\* same goes for a region that has no file.
Wanted == IF region = "none" THEN "na" ELSE region

Fallback_Verbatim == UNCHANGED blank
Fallback          == blank' = TRUE

OpenFile(local, global) ==
  /\ gpc = "load"
  /\ \E own \in Lookups(Wanted, local, global), default \in Lookups("na", local, global) :
       IF own.found THEN ReadFile(Wanted, own.opens) /\ UNCHANGED blank
                    ELSE ReadFile("na", default.opens) /\ Fallback
  /\ UNCHANGED <<gsockets, running, region, server, inputs, history>>

CloseFile ==
  /\ gpc = "file" /\ gpc' = "socket"
  /\ open' = open \ {file} /\ file' = -1
  /\ straddled' = (Len(ssockets) \in 1..(Len(ServerSockets) - 1))
  /\ UNCHANGED <<gsockets, running, region, loaded, blank, server, inputs, program, reported>>

\* There are sockets left to create.
More_OneTooMany(sockets, names) == Len(sockets) <= Len(names)
More(sockets, names)            == Len(sockets) < Len(names)

GamepadSocket ==
  /\ gpc = "socket" /\ gpc' = "bind"
  /\ \E fd \in Lowest : gsockets' = Append(gsockets, fd) /\ open' = open \cup {fd}
  /\ UNCHANGED <<file, running, region, loaded, blank, server, inputs, program, history>>

GamepadBinds ==
  /\ gpc = "bind"
  /\ gpc' = IF More(gsockets, GamepadSockets) THEN "socket" ELSE "start"
  /\ UNCHANGED <<open, file, gsockets, running, region, loaded, blank, server, inputs, program, history>>

GamepadBindFails ==
  /\ gpc = "bind" /\ Exit
  /\ UNCHANGED <<open, gamepad, server, inputs, history>>

RaiseFlag ==
  /\ gpc = "start" /\ gpc' = "loop" /\ running' = TRUE
  /\ UNCHANGED <<open, file, gsockets, region, loaded, blank, server, inputs, program, history>>

Missing(object) == \A n \in 1..made : Objects[n] # object

\* A sound packet of the console makes it ask for the microphone.
AudioPacket ==
  /\ gpc = "loop" /\ Missing("mic") /\ Crash
  /\ UNCHANGED <<open, gamepad, server, inputs, history>>

\* The nfds of the two select() calls, less one.
GamepadHighest_Msg == gsockets[4]
GamepadHighest     == gsockets[5]
ServerHighest_Aud  == ssockets[2]
ServerHighest      == ssockets[3]

-----------------------------------------------------------------------------
(* The server thread. *)

ServerSocket ==
  /\ spc = "socket" /\ spc' = "bind"
  /\ \E fd \in Lowest : ssockets' = Append(ssockets, fd) /\ open' = open \cup {fd}
  /\ UNCHANGED <<gamepad, accepted, inputs, program, history>>

ServerBinds ==
  /\ spc = "bind" /\ spc' = IF More(ssockets, ServerSockets) THEN "socket" ELSE "loop"
  /\ UNCHANGED <<open, gamepad, ssockets, accepted, inputs, program, history>>

ServerBindFails ==
  /\ spc = "bind" /\ Exit
  /\ UNCHANGED <<open, gamepad, server, inputs, history>>

\* A client connects to the video or the audio socket, if select() watches it.
Accept(n) ==
  /\ spc = "loop" /\ accepted < MaxAccepts
  /\ ServerSockets[n] \in {"vid", "aud"} /\ ssockets[n] <= ServerHighest
  /\ accepted' = accepted + 1
  /\ \E fd \in Lowest : open' = open \cup {fd}
  /\ UNCHANGED <<gamepad, spc, ssockets, inputs, program, history>>

\* A client sends input before there is an object to hold it.
ClientInput(object) ==
  /\ spc = "loop" /\ Missing(object) /\ Crash
  /\ UNCHANGED <<open, gamepad, server, inputs, history>>

-----------------------------------------------------------------------------
(* The input thread. *)

MakeObject ==
  /\ ipc = "make" /\ made' = made + 1
  /\ ipc' = IF made' < Len(Objects) THEN "make" ELSE "wait"
  /\ UNCHANGED <<open, gamepad, server, program, history>>

SeesFlag_Ignored == TRUE
SeesFlag_Never   == FALSE
SeesFlag         == running

StopWaiting ==
  /\ ipc = "wait" /\ SeesFlag /\ ipc' = "loop"
  /\ UNCHANGED <<open, gamepad, server, made, program, history>>

\* A report goes to the hid socket; if that fails the process ends (sendwiiu).
Report ==
  /\ ipc = "loop"
  /\ \/ reported' = TRUE /\ UNCHANGED program
     \/ Exit /\ UNCHANGED reported
  /\ UNCHANGED <<open, gamepad, server, inputs, straddled>>

-----------------------------------------------------------------------------

GamepadNext ==
  \/ \E local, global \in SUBSET Regions : OpenFile(local, global)
  \/ CloseFile \/ GamepadSocket \/ GamepadBinds \/ GamepadBindFails \/ RaiseFlag \/ AudioPacket

ServerNext ==
  \/ ServerSocket \/ ServerBinds \/ ServerBindFails
  \/ \E n \in 1..Len(ServerSockets) : Accept(n)
  \/ \E n \in 1..Len(Objects) : ClientInput(Objects[n])

InputNext == MakeObject \/ StopWaiting \/ Report

StartNext == program = "runs" /\ (GamepadNext \/ ServerNext \/ InputNext)

StartSpec == StartInit /\ [][StartNext]_startVars

\* Every thread is scheduled; nothing sends packets of its own accord.
Fairness ==
  /\ WF_startVars(program = "runs" /\ GamepadNext)
  /\ WF_startVars(program = "runs" /\ (ServerSocket \/ ServerBinds))
  /\ WF_startVars(program = "runs" /\ InputNext)

FairStartSpec == StartSpec /\ Fairness

-----------------------------------------------------------------------------
(* Properties. *)

\* The gamepad thread watches all of the console's sockets: the one created last
\* has the highest number, whatever descriptors the server thread took in between.
WatchesConsole ==
  gpc = "loop" => \A n \in 1..Len(gsockets) : gsockets[n] <= GamepadHighest

\* The server thread watches all of the clients' sockets, unless the file of the
\* command responses was closed while it had created some but not all of them:
\* the last one may then get the number of the file, below the others, and no
\* client can connect to those.
WatchesClients ==
  spc = "loop" /\ ~straddled => \A n \in 1..Len(ssockets) : ssockets[n] <= ServerHighest

\* Once the console has had a report its sockets are all there, and no input and no
\* sound can meet an object that was not made any more.
ReportsLast == reported => gpc = "loop" /\ program # "crashed"

\* The answers are those of the region asked for, or blank ones.
AnswersOfRegion ==
  loaded # "none" => IF blank THEN loaded = "na" ELSE loaded = region

\* The program comes up: in the end the console gets a report and clients are
\* served, unless the process has ended.
ComesUp == <>(program # "runs" \/ (reported /\ spc = "loop"))
=============================================================================
