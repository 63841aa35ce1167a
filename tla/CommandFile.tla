------------------------------ MODULE CommandFile ------------------------------
(***************************************************************************)
(* The file of command responses, from its text to the text of an answer    *)
(* (CommandHandlerWiiU): the constructor parses it (JsonParser) and looks   *)
(* at the first two entries; command 0 looks an answer up by two numbers,   *)
(* and at the types of what it passes; command 1 takes the second entry.    *)
(* How a request gets here, and what goes back, is in ConsoleCommands.      *)
(***************************************************************************)
EXTENDS JsonParser

CONSTANTS RequestIds  \* what a request may ask for

ASSUME FileAssumption == RequestIds \subseteq 0..9

VARIABLES
  process,   \* "starts", "runs", "exited" or "crashed"
  asked,     \* the last request: <<command>> or <<0, primary, secondary>>
  answer     \* the string found for it, in a set; {} if there is none

handler  == <<process, asked, answer>>
fileVars == <<vars, handler>>

FileTypeOK ==
  /\ TypeOK /\ process \in {"starts", "runs", "exited", "crashed"}
  /\ asked \in {<<>>, <<1>>} \cup ({0} \X RequestIds \X RequestIds)
  /\ Cardinality(answer) <= 1

FileInit == Init /\ process = "starts" /\ asked = <<>> /\ answer = {}

Parse == process = "starts" /\ Next /\ UNCHANGED handler

-----------------------------------------------------------------------------
(* The constructor. *)

Entry(object, i) == values[object].slots[i]

\* A name as the handler compares it: up to its first zero.
NameOf(object, i) ==
  LET cells == values[object].bytes
      from  == Entry(object, i).name + 1
      end   == CHOOSE k \in from..Len(cells) : cells[k] = 0 /\ \A j \in from..(k - 1) : cells[j] # 0
  IN SubSeq(cells, from, end - 1)

NameFor(n) == <<Code["0"] + n>>

IsA(type, object, i) == values[Entry(object, i).value].type = type

\* No answer if parsing failed: the null pointer is read. Neither are entries counted
\* before they are read; behind the last are bytes of names, which make no pointer.
Validate ==
  /\ process = "starts" /\ pc \in {"done", "failed", "crashed"}
  /\ process' \in
       IF pc # "done" THEN {"crashed"}
       ELSE IF values[root].type # "object" THEN {"exited"}
       ELSE IF values[root].length = 0 THEN {"crashed"}
       ELSE IF NameOf(root, 1) # NameFor(0) THEN {"exited"}
       ELSE IF values[root].length = 1 THEN {"crashed", "exited"}
       ELSE IF NameOf(root, 2) # NameFor(1) THEN {"exited"}
       ELSE IF IsA("object", root, 1) /\ IsA("string", root, 2) THEN {"runs"} ELSE {"exited"}
  /\ UNCHANGED <<vars, asked, answer>>

-----------------------------------------------------------------------------
(* Requests. *)

Text(string) == SubSeq(values[string].bytes, 1, values[string].length)

\* The last entry with that name, 0 if there is none.
Lookup_First(object, n) ==
  IF \E i \in 1..values[object].length : NameOf(object, i) = NameFor(n)
    THEN Entry(object, CHOOSE i \in 1..values[object].length :
                         NameOf(object, i) = NameFor(n) /\ \A j \in 1..(i - 1) : NameOf(object, j) # NameFor(n)).value
    ELSE 0
Lookup(object, n) ==
  LET named == {i \in 1..values[object].length : NameOf(object, i) = NameFor(n)}
  IN IF named = {} THEN 0 ELSE Entry(object, CHOOSE i \in named : \A j \in named : j <= i).value

All(type, object) == \A i \in 1..values[object].length : IsA(type, object, i)

\* An entry of the wrong type ends the process, even if it is not the one asked for.
handle_cmd0(primary, secondary) ==
  LET cmd0 == Entry(root, 1).value
      obj  == Lookup(cmd0, primary)
      str  == IF obj = 0 THEN 0 ELSE Lookup(obj, secondary)
      fits == All("object", cmd0) /\ (obj # 0 => All("string", obj))
  IN
  /\ process = "runs" /\ asked' = <<0, primary, secondary>>
  /\ process' = IF fits THEN "runs" ELSE "exited"
  /\ answer' = IF fits /\ str # 0 THEN {Text(str)} ELSE {}
  /\ UNCHANGED vars

handle_cmd1 ==
  /\ process = "runs" /\ asked' = <<1>> /\ answer' = {Text(Entry(root, 2).value)}
  /\ UNCHANGED <<vars, process>>

FileNext ==
  \/ Parse \/ Validate \/ handle_cmd1
  \/ \E primary, secondary \in RequestIds : handle_cmd0(primary, secondary)

FileSpec == FileInit /\ [][FileNext]_fileVars

\* The thread that parses is scheduled.
FairFileSpec == FileSpec /\ WF_fileVars(Parse)
=============================================================================
