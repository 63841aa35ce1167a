------------------------------ MODULE JsonParser ------------------------------
(***************************************************************************)
(* The parser of the command file (json_parse, src/include/json.c).        *)
(*                                                                         *)
(* It reads the text twice. The first pass checks it, allocates one        *)
(* json_value for each value, in the order they begin, and counts: the     *)
(* elements of an array, the entries of an object and the bytes of their   *)
(* names, the bytes of a string. The second pass takes the values in the   *)
(* same order again, allocates exactly what was counted, and fills it      *)
(* without looking at sizes. A failure frees what there is by two walks,   *)
(* one along the values not yet taken, one over the tree.                  *)
(*                                                                         *)
(* One action is one turn of the loop over the characters, or the release  *)
(* of one value. Error messages are left out.                              *)
(***************************************************************************)
EXTENDS Integers, Sequences, FiniteSets

CONSTANTS
  Texts,     \* the texts to parse: sequences of characters
  Behind,    \* characters the memory behind a text may begin with
  Most,      \* uint_max - 8: more elements or bytes than this are refused
  MemoryEnds \* whether mem_alloc may fail

\* The printable characters of ASCII, from the space on.
Ascii == << " ", "!", "\"", "#", "$", "%", "&", "'", "(", ")", "*", "+", ",", "-", ".", "/",
            "0", "1", "2", "3", "4", "5", "6", "7", "8", "9", ":", ";", "<", "=", ">", "?",
            "@", "A", "B", "C", "D", "E", "F", "G", "H", "I", "J", "K", "L", "M", "N", "O",
            "P", "Q", "R", "S", "T", "U", "V", "W", "X", "Y", "Z", "[", "\\", "]", "^", "_",
            "grave", "a", "b", "c", "d", "e", "f", "g", "h", "i", "j", "k", "l", "m", "n", "o",
            "p", "q", "r", "s", "t", "u", "v", "w", "x", "y", "z", "{", "|", "}", "~" >>
Printable  == {Ascii[i] : i \in DOMAIN Ascii}
Whitespace == {" ", "\n", "\t", "\r"}

Code == [c \in Printable \cup Whitespace |->
           CASE c = "\n" -> 10 [] c = "\t" -> 9 [] c = "\r" -> 13
             [] OTHER -> 31 + CHOOSE i \in DOMAIN Ascii : Ascii[i] = c]

\* The character 0, which ends a string in C.
NUL == "NUL"

ASSUME JsonAssumption ==
  /\ \A text \in Texts : text \in Seq(Printable \cup Whitespace)
  /\ Behind \subseteq Printable \cup Whitespace \cup {NUL}
  /\ Most \in Nat /\ MemoryEnds \in BOOLEAN

VARIABLES
  json, behind,                       \* the text, the character behind it
  first_pass, ptr, flags, string_length,
  num_digits, num_fraction, num_e,
  top, root, alloc,                   \* indices into values, 0 for a null pointer
  values,                             \* the json_values, in the order they were allocated
  pc,
  at,         \* where json_value_free_ex is
  live,       \* allocated memory: <<value, "itself">> and <<value, "contents">>
  failure     \* why parsing failed

input    == <<json, behind>>
digits   == <<num_digits, num_fraction, num_e>>
tree     == <<top, root, alloc, values>>
vars     == <<input, first_pass, ptr, flags, string_length, digits, tree, pc, at, live, failure>>

-----------------------------------------------------------------------------
(* json_value. Arrays, objects and strings share length and a pointer to    *)
(* contents, which are written to as entries (slots) or bytes; room is what *)
(* was allocated for the two. names is how the first pass uses the pointer  *)
(* of an object: to count the bytes of the names. reserved is next_alloc,   *)
(* or the place of the next name. A double is an exact decimal: mantissa    *)
(* and exponent.                                                            *)

Types == {"object", "array", "integer", "double", "string", "boolean", "null"}

NewOf(type, parent) ==
  [type |-> type, parent |-> parent, length |-> 0, names |-> 0, reserved |-> 0,
   number |-> <<0, 0>>, room |-> <<0, 0>>, slots |-> <<>>, bytes |-> <<>>]

NoEntry == [name |-> 0, name_length |-> 0, value |-> 0]

Ids       == DOMAIN values
T         == values[top]
Has(flag) == flag \in flags

TypeOK ==
  /\ json \in Texts /\ behind \in Behind
  /\ first_pass \in BOOLEAN /\ ptr \in 1..(Len(json) + 2)
  /\ flags \subseteq {"need_comma", "seek_value", "escaped", "string", "need_colon", "done",
                      "num_negative", "num_zero", "num_e", "num_e_got_sign", "num_e_negative"}
  /\ string_length \in Nat /\ num_digits \in Nat /\ num_fraction \in Nat /\ num_e \in Nat
  /\ {top, root, alloc, at} \subseteq Ids \cup {0}
  /\ \A v \in Ids :
       /\ values[v].type \in Types /\ values[v].parent \in 0..(v - 1)
       /\ values[v].length \in Nat /\ values[v].names \in Nat /\ values[v].reserved \in Nat
  /\ pc \in {"parse", "e_failed", "chain", "tree", "done", "failed", "crashed"}
  /\ live \subseteq Ids \X {"itself", "contents"}
  /\ failure \in {"none", "text", "long", "memory"}

Init ==
  /\ json \in Texts /\ behind \in Behind
  /\ first_pass = TRUE /\ ptr = 1 /\ flags = {"seek_value"} /\ string_length = 0
  /\ num_digits = 0 /\ num_fraction = 0 /\ num_e = 0
  /\ top = 0 /\ root = 0 /\ alloc = 0 /\ values = <<>>
  /\ pc = "parse" /\ at = 0 /\ live = {} /\ failure = "none"

-----------------------------------------------------------------------------
(* Reading. *)

End == Len(json) + 1

\* What memory holds at a place, and what the loop takes for its character.
At(p) == IF p < End THEN json[p] ELSE IF p = End THEN behind ELSE NUL
b     == IF ptr = End THEN NUL ELSE At(ptr)

Digits == {"0", "1", "2", "3", "4", "5", "6", "7", "8", "9"}
Digit(c) == Code[c] - Code["0"]

hex_value(c) ==
  IF c \in Digits THEN Digit(c)
  ELSE IF c \in {"a", "b", "c", "d", "e", "f"} THEN 10 + Code[c] - Code["a"]
  ELSE IF c \in {"A", "B", "C", "D", "E", "F"} THEN 10 + Code[c] - Code["A"]
  ELSE 255

\* Four hexadecimal digits from p on.
IsHex4(p) == \A k \in 0..3 : hex_value(At(p + k)) # 255
Hex4(p)   == 4096 * hex_value(At(p)) + 256 * hex_value(At(p + 1))
               + 16 * hex_value(At(p + 2)) + hex_value(At(p + 3))

\* Where the loop is by its flags, and by the value it is in.
InString   == pc = "parse" /\ Has("string") /\ b # NUL /\ string_length <= Most
AfterRoot  == pc = "parse" /\ Has("done") /\ ~Has("string")
Seeking    == pc = "parse" /\ flags \cap {"string", "done"} = {} /\ Has("seek_value")
In(types)  == pc = "parse" /\ flags \cap {"string", "done", "seek_value"} = {} /\ T.type \in types

Go(p, new) == ptr' = p /\ flags' = new

Fail(cause) ==
  /\ pc' = "e_failed" /\ failure' = cause
  /\ UNCHANGED <<input, first_pass, ptr, flags, string_length, digits, tree, at, live>>

-----------------------------------------------------------------------------
(* Values. *)

\* Memory after a write of new behind the first base cells.
Put(cells, base, new) ==
  LET last == base + Len(new) IN
  [i \in 1..(IF last > Len(cells) THEN last ELSE Len(cells)) |->
     IF i > base /\ i <= last THEN new[i - base] ELSE IF i <= Len(cells) THEN cells[i] ELSE -1]

\* What the second pass allocates for a value: what the first one counted.
Room_NoNul(v) ==
  CASE v.type \in {"array", "object"} /\ v.length > 0 -> <<v.length, v.names>>
    [] v.type = "string" -> <<0, v.length>>
    [] OTHER -> <<0, 0>>
Room(v) ==
  CASE v.type \in {"array", "object"} /\ v.length > 0 -> <<v.length, v.names>>
    [] v.type = "string" -> <<0, v.length + 1>>
    [] OTHER -> <<0, 0>>

WithRoom(v) ==
  IF Room(v) = <<0, 0>> THEN v
  ELSE [v EXCEPT !.room = Room(v), !.length = 0, !.reserved = IF v.type = "object" THEN 0 ELSE @]

\* new_value: the value, the values with it, and what it allocates.
New == IF first_pass THEN Len(values) + 1 ELSE alloc

Chained == [v \in Ids |-> IF v = alloc THEN [values[v] EXCEPT !.reserved = New] ELSE values[v]]

Made_TopFirst(type) ==
  IF first_pass THEN Append(Chained, NewOf(type, New)) ELSE [values EXCEPT ![alloc] = WithRoom(@)]
Made(type) ==
  IF first_pass
    THEN Append(Chained, NewOf(type, top))
    ELSE [values EXCEPT ![alloc] = WithRoom(@)]

Blocks ==
  IF first_pass THEN {<<New, "itself">>}
  ELSE IF Room(values[alloc]) = <<0, 0>> THEN {} ELSE {<<New, "contents">>}

NewValue ==
  /\ root' = IF root = 0 THEN New ELSE root
  /\ alloc' = IF first_pass THEN New ELSE values[alloc].reserved
  /\ live' = live \cup Blocks

\* The value is complete: its parent takes it in, and parsing goes on there.
Finish(v, vals, p, new) ==
  LET q     == vals[v].parent
      n     == vals[q].length
      slots == vals[q].slots
      entry == [(IF n < Len(slots) THEN slots[n + 1] ELSE NoEntry) EXCEPT !.value = v]
      long  == n + 1 > Most
  IN
  /\ ptr' = p
  /\ IF q = 0
       THEN /\ flags' = new \cup {"need_comma", "done"}
            /\ top' = v /\ values' = vals /\ UNCHANGED <<pc, failure>>
       ELSE /\ flags' = new \cup {"need_comma"}
                            \cup (IF vals[q].type = "array" THEN {"seek_value"} ELSE {})
            /\ values' = [vals EXCEPT ![q].length = n + 1,
                                      ![q].slots = IF first_pass THEN @ ELSE Put(@, n, <<entry>>)]
            /\ top' = IF long THEN v ELSE q
            /\ IF long THEN pc' = "e_failed" /\ failure' = "long" ELSE UNCHANGED <<pc, failure>>

-----------------------------------------------------------------------------
(* In a string, which is a value or a name. *)

StringFails_NoEnd == pc = "parse" /\ Has("string") /\ string_length > Most /\ Fail("long")
StringFails ==
  /\ pc = "parse" /\ Has("string")
  /\ IF b = NUL THEN Fail("text") ELSE string_length > Most /\ Fail("long")

\* The bytes of a name go behind those of the names before.
Base == IF T.type = "object" THEN T.reserved ELSE 0

Written(new) ==
  IF first_pass THEN values ELSE [values EXCEPT ![top].bytes = Put(@, Base + string_length, new)]

StringAdd(new, p) ==
  /\ Go(p, flags \ {"escaped"}) /\ string_length' = string_length + Len(new)
  /\ values' = Written(new)
  /\ UNCHANGED <<input, first_pass, digits, top, root, alloc, pc, at, live, failure>>

Character ==
  InString /\ ~Has("escaped") /\ b \notin {"\\", "\""} /\ StringAdd(<<Code[b]>>, ptr + 1)

Backslash ==
  /\ InString /\ ~Has("escaped") /\ b = "\\" /\ Go(ptr + 1, flags \cup {"escaped"})
  /\ UNCHANGED <<input, first_pass, string_length, digits, tree, pc, at, live, failure>>

Escapes == [b |-> 8, f |-> 12, n |-> 10, r |-> 13, t |-> 9]

Escape ==
  /\ InString /\ Has("escaped") /\ b # "u"
  /\ StringAdd(<<IF b \in DOMAIN Escapes THEN Escapes[b] ELSE Code[b]>>, ptr + 1)

\* \uXXXX, or two of them for a character behind the first 65536.
IsPair   == Hex4(ptr + 1) \div 2048 = 27
UnitOk   == End - ptr >= 4 /\ IsHex4(ptr + 1)
SecondOk == End - (ptr + 4) >= 6 /\ At(ptr + 5) = "\\" /\ At(ptr + 6) = "u" /\ IsHex4(ptr + 7)

\* The bit 0x10000 is set, not added.
PairValue(high, low) ==
  LET bits == (high % 1024) * 1024 + (low % 1024)
  IN IF (bits \div 65536) % 2 = 1 THEN bits ELSE 65536 + bits

Utf8(c) ==
  LET tail(k) == 128 + ((c \div 64 ^ k) % 64) IN
  CASE c <= 127   -> <<c>>
    [] c \in 128..2047 -> <<192 + (c \div 64), tail(0)>>
    [] c \in 2048..65535 -> <<224 + (c \div 4096), tail(1), tail(0)>>
    [] OTHER -> <<240 + (c \div 262144), tail(2), tail(1), tail(0)>>

UnicodeEscape ==
  /\ InString /\ Has("escaped") /\ b = "u"
  /\ IF ~UnitOk \/ (IsPair /\ ~SecondOk) THEN Fail("text")
     ELSE IF IsPair THEN StringAdd(Utf8(PairValue(Hex4(ptr + 1), Hex4(ptr + 7))), ptr + 11)
     ELSE StringAdd(Utf8(Hex4(ptr + 1)), ptr + 5)

Closes == InString /\ ~Has("escaped") /\ b = "\""

CloseString ==
  /\ Closes /\ T.type = "string"
  /\ Finish(top, [Written(<<0>>) EXCEPT ![top].length = string_length], ptr + 1, flags \ {"string"})
  /\ UNCHANGED <<input, first_pass, string_length, digits, root, alloc, at, live>>

\* The bytes of a name are counted, or the name goes into the next entry.
NameSize == string_length + 1

CloseName ==
  /\ Closes /\ T.type = "object"
  /\ Go(ptr + 1, (flags \ {"string"}) \cup {"seek_value", "need_colon"})
  /\ values' = IF first_pass THEN [values EXCEPT ![top].names = @ + NameSize]
               ELSE [Written(<<0>>) EXCEPT
                       ![top].slots = Put(@, T.length, <<[name |-> T.reserved, name_length |-> string_length, value |-> 0]>>),
                       ![top].reserved = @ + NameSize]
  /\ UNCHANGED <<input, first_pass, string_length, digits, top, root, alloc, pc, at, live, failure>>

-----------------------------------------------------------------------------
(* Between values. *)

SkipSpace ==
  /\ AfterRoot \/ Seeking \/ In({"object"})
  /\ b \in Whitespace /\ Go(ptr + 1, flags)
  /\ UNCHANGED <<input, first_pass, string_length, digits, tree, pc, at, live, failure>>

\* The text is at its end: the second pass begins, or the answer is there.
EndPass ==
  /\ AfterRoot /\ b = NUL
  /\ IF first_pass
       THEN /\ first_pass' = FALSE /\ alloc' = root /\ top' = 0 /\ root' = 0
            /\ Go(1, {"seek_value"}) /\ string_length' = 0 /\ UNCHANGED pc
       ELSE pc' = "done" /\ UNCHANGED <<first_pass, alloc, top, root, ptr, flags, string_length>>
  /\ UNCHANGED <<input, digits, values, at, live, failure>>

TrailingGarbage == AfterRoot /\ b \notin Whitespace \cup {NUL} /\ Fail("text")

InArray == top # 0 /\ T.type = "array"

CloseArray ==
  /\ Seeking /\ b = "]" /\ InArray
  /\ Finish(top, values, ptr + 1, flags \ {"need_comma", "seek_value"})
  /\ UNCHANGED <<input, first_pass, string_length, digits, root, alloc, at, live>>

\* Where a comma or a colon is due, and where a value is.
Separates == Seeking /\ b \notin Whitespace \cup {"]"} /\ flags \cap {"need_comma", "need_colon"} # {}
Due       == IF Has("need_comma") THEN "," ELSE ":"
Starts    == Seeking /\ b \notin Whitespace \cup {"]"} /\ flags \cap {"need_comma", "need_colon"} = {}

Separator ==
  /\ Separates /\ b = Due
  /\ Go(ptr + 1, flags \ {IF Due = "," THEN "need_comma" ELSE "need_colon"})
  /\ UNCHANGED <<input, first_pass, string_length, digits, tree, pc, at, live, failure>>

Sought == flags \ {"seek_value"}

\* A value of this type begins, and the loop goes on inside it.
Open(type, p, new) ==
  /\ NewValue /\ values' = Made(type) /\ top' = New /\ Go(p, new)
  /\ UNCHANGED <<input, first_pass, pc, at, failure>>

OpenObject == Starts /\ b = "{" /\ Open("object", ptr + 1, Sought) /\ UNCHANGED <<string_length, digits>>
OpenArray  == Starts /\ b = "[" /\ Open("array", ptr + 1, flags) /\ UNCHANGED <<string_length, digits>>
OpenString ==
  /\ Starts /\ b = "\"" /\ Open("string", ptr + 1, Sought \cup {"string"})
  /\ string_length' = 0 /\ UNCHANGED digits

\* The letters of true, false and null are compared without looking at the text's end
\* for the last one.
Words   == {<<"t", "r", "u", "e">>, <<"f", "a", "l", "s", "e">>, <<"n", "u", "l", "l">>}
Here(w) == b = w[1] /\ End - ptr >= Len(w) - 1 /\ \A k \in 2..Len(w) : At(ptr + k - 1) = w[k]

Literal(w) ==
  /\ Starts /\ Here(w) /\ NewValue
  /\ LET vals == Made(IF w[1] = "n" THEN "null" ELSE "boolean")
     IN Finish(New, IF w[1] = "t" THEN [vals EXCEPT ![New].number = <<1, 0>>] ELSE vals,
               ptr + Len(w), Sought)
  /\ UNCHANGED <<input, first_pass, string_length, digits, at>>

\* The first pass works a number out; a first digit is looked at once more.
OpenNumber ==
  /\ Starts /\ b \in Digits \cup {"-"} /\ first_pass
  /\ LET fresh == Sought \ {"num_negative", "num_e", "num_e_got_sign", "num_e_negative", "num_zero"}
     IN IF b = "-" THEN Open("integer", ptr + 1, fresh \cup {"num_negative"})
                   ELSE Open("integer", ptr, fresh)
  /\ num_digits' = 0 /\ num_fraction' = 0 /\ num_e' = 0
  /\ UNCHANGED string_length

\* The second pass steps over it: the value is there already.
NumberEnd_NoSigns ==
  CHOOSE p \in ptr..End :
    /\ p = End \/ (p > ptr /\ json[p] \notin Digits \cup {"e", "E", "."})
    /\ \A k \in (ptr + 1)..(p - 1) : json[k] \in Digits \cup {"e", "E", "."}
NumberEnd ==
  CHOOSE p \in ptr..End :
    /\ p = End \/ json[p] \notin Digits \cup {"+", "-", "e", "E", "."}
    /\ \A k \in ptr..(p - 1) : json[k] \in Digits \cup {"+", "-", "e", "E", "."}

StepOverNumber ==
  /\ Starts /\ b \in Digits \cup {"-"} /\ ~first_pass
  /\ NewValue /\ Finish(New, Made("integer"), NumberEnd, Sought)
  /\ UNCHANGED <<input, first_pass, string_length, digits, at>>

ValueBegins == b \in Digits \cup {"{", "[", "\"", "-"} \/ \E w \in Words : Here(w)

\* new_value finds no memory. In the second pass it has taken the value by then.
AllocFails ==
  /\ MemoryEnds /\ Starts /\ ValueBegins /\ Blocks # {}
  /\ pc' = "e_failed" /\ failure' = "memory"
  /\ IF first_pass THEN UNCHANGED <<top, root, alloc>>
     ELSE /\ top' = New /\ alloc' = values[alloc].reserved
          /\ root' = IF root = 0 THEN New ELSE root
  /\ UNCHANGED <<input, first_pass, ptr, flags, string_length, digits, values, at, live>>

SeekFails ==
  /\ \/ Seeking /\ b = "]" /\ ~InArray
     \/ Separates /\ b # Due
     \/ Starts /\ ~ValueBegins
  /\ Fail("text")

-----------------------------------------------------------------------------
(* In an object. *)

OpenName ==
  /\ In({"object"}) /\ b = "\"" /\ ~Has("need_comma")
  /\ Go(ptr + 1, flags \cup {"string"}) /\ string_length' = 0
  /\ UNCHANGED <<input, first_pass, digits, tree, pc, at, live, failure>>

EntryComma ==
  /\ In({"object"}) /\ b = "," /\ Has("need_comma") /\ Go(ptr + 1, flags \ {"need_comma"})
  /\ UNCHANGED <<input, first_pass, string_length, digits, tree, pc, at, live, failure>>

CloseObject ==
  /\ In({"object"}) /\ b = "}" /\ Finish(top, values, ptr + 1, flags \ {"need_comma"})
  /\ UNCHANGED <<input, first_pass, string_length, digits, root, alloc, at, live>>

ObjectFails ==
  /\ In({"object"}) /\ b \notin Whitespace \cup {"}"}
  /\ b = "\"" => Has("need_comma")
  /\ b = "," => ~Has("need_comma")
  /\ Fail("text")

-----------------------------------------------------------------------------
(* In a number, in the first pass. *)

InNumber   == In({"integer", "double"})
IsInteger  == T.type = "integer"
TooMany    == IsInteger /\ Has("num_zero")  \* digits behind a leading zero

NumberGoes(new, p) ==
  /\ Go(p, new)
  /\ UNCHANGED <<input, first_pass, string_length, top, root, alloc, pc, at, live, failure>>

NumberDigit ==
  /\ InNumber /\ b \in Digits /\ num_digits' = num_digits + 1
  /\ \/ /\ Has("num_e") /\ num_e' = 10 * num_e + Digit(b)
        /\ NumberGoes(flags \cup {"num_e_got_sign"}, ptr + 1) /\ UNCHANGED <<values, num_fraction>>
     \/ /\ ~Has("num_e") /\ IsInteger /\ ~TooMany
        /\ values' = [values EXCEPT ![top].number[1] = 10 * @ + Digit(b)]
        /\ NumberGoes(IF num_digits = 0 /\ b = "0" THEN flags \cup {"num_zero"} ELSE flags, ptr + 1)
        /\ UNCHANGED <<num_fraction, num_e>>
     \/ /\ ~Has("num_e") /\ ~IsInteger /\ num_fraction' = 10 * num_fraction + Digit(b)
        /\ NumberGoes(flags, ptr + 1) /\ UNCHANGED <<values, num_e>>

IsSign  == b \in {"+", "-"} /\ Has("num_e") /\ ~Has("num_e_got_sign")
IsPoint == b = "." /\ IsInteger

Sign ==
  /\ InNumber /\ IsSign
  /\ NumberGoes(flags \cup {"num_e_got_sign"} \cup (IF b = "-" THEN {"num_e_negative"} ELSE {}), ptr + 1)
  /\ UNCHANGED <<values, digits>>

Point ==
  /\ InNumber /\ IsPoint /\ num_digits > 0 /\ num_digits' = 0
  /\ values' = [values EXCEPT ![top].type = "double"]
  /\ NumberGoes(flags, ptr + 1) /\ UNCHANGED <<num_fraction, num_e>>

\* Any other character ends the part of the number that was being read, which
\* needs a digit unless it is the first one.
Other      == InNumber /\ b \notin Digits /\ ~IsSign /\ ~IsPoint
NeedsDigit == (Has("num_e") \/ ~IsInteger) /\ num_digits = 0

WithFraction ==
  IF Has("num_e") \/ IsInteger THEN T.number
  ELSE <<T.number[1] * 10 ^ num_digits + num_fraction, -num_digits>>

IsExponent == b \in {"e", "E"} /\ ~Has("num_e")

Exponent ==
  /\ Other /\ ~NeedsDigit /\ IsExponent /\ num_digits' = 0
  /\ values' = [values EXCEPT ![top].type = "double", ![top].number = WithFraction]
  /\ NumberGoes((flags \cup {"num_e"}) \ {"num_zero"}, ptr + 1)
  /\ UNCHANGED <<num_fraction, num_e>>

Exact ==
  LET m == WithFraction[1]
      e == IF ~Has("num_e") THEN 0 ELSE IF Has("num_e_negative") THEN -num_e ELSE num_e
  IN <<IF Has("num_negative") THEN -m ELSE m, WithFraction[2] + e>>

\* The character behind the number is looked at once more.
EndNumber ==
  /\ Other /\ ~NeedsDigit /\ ~IsExponent
  /\ Finish(top, [values EXCEPT ![top].number = Exact], ptr, flags)
  /\ UNCHANGED <<input, first_pass, string_length, digits, root, alloc, at, live>>

NumberFails ==
  /\ \/ InNumber /\ b \in Digits /\ ~Has("num_e") /\ TooMany
     \/ InNumber /\ IsPoint /\ num_digits = 0
     \/ Other /\ NeedsDigit
  /\ Fail("text")

-----------------------------------------------------------------------------
(* Failure. *)

EFailed_FromAlloc == pc = "e_failed" /\ pc' = "chain" /\ UNCHANGED alloc
EFailed == pc = "e_failed" /\ pc' = "chain" /\ alloc' = IF first_pass THEN root ELSE alloc

StartFreeing ==
  EFailed /\ UNCHANGED <<input, first_pass, ptr, flags, string_length, digits, top, root, values, at, live, failure>>

\* mem_free of some blocks; freeing what is not allocated aborts.
Free(blocks, next) ==
  /\ live' = live \ blocks
  /\ pc' = IF blocks \subseteq live THEN next ELSE "crashed"

\* Along next_alloc; then over the tree, if the second pass had begun one.
FreeChain ==
  /\ pc = "chain"
  /\ IF alloc # 0
       THEN /\ Free({<<alloc, "itself">>}, "chain") /\ alloc' = values[alloc].reserved /\ UNCHANGED at
       ELSE /\ pc' = (IF first_pass THEN "failed" ELSE "tree")
            /\ at' = (IF first_pass THEN 0 ELSE root) /\ UNCHANGED <<live, alloc>>
  /\ UNCHANGED <<input, first_pass, ptr, flags, string_length, digits, top, root, values, failure>>

Contents(v) == IF values[v].room = <<0, 0>> THEN {} ELSE {<<v, "contents">>}
HasChildren(v) == values[v].type \in {"array", "object"} /\ values[v].length > 0

\* json_value_free_ex: down to the last child that is left, or up again. A pointer
\* that was never set leads nowhere.
FreeTree ==
  /\ pc = "tree"
  /\ IF at = 0 THEN pc' = "failed" /\ UNCHANGED <<at, live, values>>
     ELSE IF HasChildren(at)
       THEN LET n == values[at].length IN
            /\ IF n <= Len(values[at].slots)
                 THEN at' = values[at].slots[n].value /\ UNCHANGED pc
                 ELSE pc' = "crashed" /\ UNCHANGED at
            /\ values' = [values EXCEPT ![at].length = @ - 1] /\ UNCHANGED live
       ELSE /\ Free({<<at, "itself">>} \cup Contents(at), "tree")
            /\ at' = values[at].parent /\ UNCHANGED values
  /\ UNCHANGED <<input, first_pass, ptr, flags, string_length, digits, top, root, alloc, failure>>

Next ==
  \/ StringFails \/ Character \/ Backslash \/ Escape \/ UnicodeEscape \/ CloseString \/ CloseName
  \/ SkipSpace \/ EndPass \/ TrailingGarbage \/ CloseArray \/ Separator
  \/ OpenObject \/ OpenArray \/ OpenString \/ (\E w \in Words : Literal(w))
  \/ OpenNumber \/ StepOverNumber \/ AllocFails \/ SeekFails
  \/ OpenName \/ EntryComma \/ CloseObject \/ ObjectFails
  \/ NumberDigit \/ Sign \/ Point \/ Exponent \/ EndNumber \/ NumberFails
  \/ StartFreeing \/ FreeChain \/ FreeTree

Spec == Init /\ [][Next]_vars

\* The thread that parses is scheduled.
FairSpec == Spec /\ WF_vars(Next)

-----------------------------------------------------------------------------
(* Properties. *)

\* The second pass writes entries, names and characters without looking at sizes; all
\* of it lies in what the first pass counted (json.c:124, 140, 153; 390, 411, 879).
WritesFit == \A v \in Ids : Len(values[v].slots) <= values[v].room[1] /\ Len(values[v].bytes) <= values[v].room[2]

\* A value and the values it is in, except the root; and all that is in a value the
\* second pass has begun and not ended.
Above ==
  LET up[v \in 0..Len(values)] == IF v \in {0, root} THEN {} ELSE {v} \cup up[values[v].parent] IN up
Unfinished == {v \in Ids : Above[v] \cap Above[top] # {}}

\* After a failure nothing stays allocated and nothing is freed twice, whatever part of
\* the two passes had been done (json.c:933-1003); two cases are lost to a lack of
\* memory in the second pass: what it was inside of stays, and if the root itself
\* got no contents, json_value_free_ex follows a pointer nobody set.
FailureFreesAll ==
  LET halfway == failure = "memory" /\ ~first_pass IN
  /\ pc = "failed" => {block[1] : block \in live} \subseteq (IF halfway THEN Unfinished ELSE {})
  /\ pc = "crashed" => halfway /\ top = root
  /\ pc = "done" => live = {<<v, "itself">> : v \in Ids} \cup {<<v, "contents">> : v \in {w \in Ids : values[w].room # <<0, 0>>}}

\* Every text is answered: a character that is looked at once more (json.c:848-852) is
\* not looked at for ever, and both walks that free come to an end.
Ends == <>(pc \in {"done", "failed", "crashed"})
=============================================================================
