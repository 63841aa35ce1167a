-------------------------------- MODULE MCJson --------------------------------
(***************************************************************************)
(* CommandFile, and with it JsonParser, on every short text over a few     *)
(* alphabets, with a reference reading of a text by recursion on its       *)
(* grammar.                                                                *)
(***************************************************************************)
EXTENDS CommandFile

\* The characters of a string.
Chars(s) == [i \in 1..Len(s) |-> SubSeq(s, i, i)]

Upto(n, alphabet) == UNION {[1..k -> {SubSeq(alphabet, i, i) : i \in 1..Len(alphabet)}] : k \in 0..n}

Around(before, words, behind_them) == {Chars(before) \o w \o Chars(behind_them) : w \in words}

\* Arrays, objects, names and what separates them.
Structures ==
  Upto(4, "[]{},:\"1") \cup Around("[", Upto(3, "[]{},\"1 "), "]") \cup Around("{\"\":", Upto(3, "[]{},:\"1"), "}")
    \cup Around("{\"1\":1,", Upto(4, "{}:\"1"), "}") \cup Around("[{\"1\":[", Upto(2, "[]{},1"), "],\"\":\"1\"}]")

Numbers == Upto(4, "01-+.e") \cup Upto(5, "01-.e") \cup Around("[", Upto(4, "01-.e"), "]") \cup Around("{\"\":-", Upto(3, "01+.e"), "}")

Strings ==
  Around("\"", Upto(4, "\"\\u1n"), "\"") \cup Around("\"1\\u0", Upto(3, "80Ff"), "1\"")
    \cup Around("[\"\\ud83", Upto(2, "dC\\"), "ude00\"]") \cup Around("[\"\\uD83d\\u", Upto(4, "DC0"), "\"]")
    \cup {Chars("{\"\\uD83d\\uDe00\":\"\\n\\u00e4\"}"), Chars("[\"\\ufffd\"]")}

Literals ==
  {Chars(SubSeq(s, 1, k)) : s \in {"true", "false", "null"}, k \in 1..4} \cup Around("t", Upto(3, "rue"), "")
    \cup Around("[", {Chars("false"), Chars("true,null"), Chars("false,"), Chars("nul")}, "]") \cup Around("[", {Chars("tru")}, "")

\* At the largest length and behind it.
Long ==
  {Chars("[1,1,1,1]"), Chars("[1,1,1,1,1]"), Chars("\"1111\""), Chars("\"11111\""),
   Chars("{\"1111\":1,\"11\":[],\"\":{},\"1\":0}"), Chars("{\"\":1,\"\":1,\"\":1,\"\":1,\"\":1}"), Chars("{\"11111\":1}")}

\* Files of command responses and near misses of them.
Files ==
  LET zeros  == {"{}", "{\"1\":{}}", "{\"1\":{\"1\":\"0a\",\"0\":\"\"}}", "{\"1\":{\"1\":\"00\",\"1\":\"ff\"}}", "{\"1\":{\"1\":0}}",
                 "{\"0\":[],\"1\":{\"1\":\"00\"}}", "{\"1\":{\"1\":\"0\\u0000\"},\"1\":{}}", "[]", "\"0\""}
      names0 == {"\"0\":", "\"\\u0030\\u0000\":", "\"1\":"}
      rests  == {"", ",\"1\":\"ff\"", ",\"1\":{}", ",\"1\":\"\",\"2\":0", ",\"0\":\"\""}
  IN {Chars("{") \o Chars(name) \o Chars(zero) \o Chars(rest) \o Chars("}") : name \in names0, zero \in zeros, rest \in rests}

MCTexts == Files \cup Structures \cup Numbers \cup Strings \cup Literals \cup Long

-----------------------------------------------------------------------------
(* What a text means, by its grammar: the set of its meanings, empty for a  *)
(* text the parser is to refuse. Strings are sequences of code points.      *)

Meaning(type, number, points, items) == [type |-> type, number |-> number, points |-> points, items |-> items]

AllTexts      == Seq(Printable \cup Whitespace \cup {NUL})
First(t)      == IF t = <<>> THEN NUL ELSE t[1]
From(t, i)    == SubSeq(t, i, Len(t))
Within(t)     == SubSeq(t, 2, Len(t) - 1)
Between(t, opening, closing) == Len(t) >= 2 /\ t[1] = opening /\ t[Len(t)] = closing
Cuts(t, c)    == {<<SubSeq(t, 1, k - 1), From(t, k + 1)>> : k \in {i \in DOMAIN t : t[i] = c}}
Only(t, set)  == \A i \in DOMAIN t : t[i] \in set

\* A text without the white space around it.
Strip(t) ==
  LET solid == {i \in DOMAIN t : t[i] \notin Whitespace}
  IN IF solid = {} THEN <<>>
     ELSE SubSeq(t, CHOOSE i \in solid : \A k \in solid : i <= k, CHOOSE i \in solid : \A k \in solid : i >= k)

Decimal(t) == LET d[k \in 0..Len(t)] == IF k = 0 THEN 0 ELSE 10 * d[k - 1] + Digit(t[k]) IN d[Len(t)]

\* What comes in front of a number's digits: <<sign, the rest>>.
Signed(t, signs) == IF First(t) \in signs THEN <<IF t[1] = "-" THEN -1 ELSE 1, Tail(t)>> ELSE <<1, t>>

\* Digits without a leading zero, a point and digits, e and digits. Digits may be
\* missing only between a sign and the end, or a sign and e.
NumbersIn(t) ==
  LET body == Signed(t, {"-"})[2]
      cut(i, k) == <<SubSeq(body, 1, i), SubSeq(body, i + 1, k), From(body, k + 1)>>
      whole(p)  == Only(p, Digits) /\ (First(p) = "0" => Len(p) = 1) /\ (p = <<>> => First(t) = "-")
      places(p) == p = <<>> \/ (Len(p) > 1 /\ p[1] = "." /\ Only(Tail(p), Digits))
      power(p)  == p = <<>> \/ (p[1] \in {"e", "E"} /\ Len(Signed(Tail(p), {"+", "-"})[2]) > 0
                                  /\ Only(Signed(Tail(p), {"+", "-"})[2], Digits))
      parts == {p \in {cut(i, k) : i \in 0..Len(body), k \in 0..Len(body)} :
                  /\ p[1] \o p[2] \o p[3] = body /\ whole(p[1]) /\ places(p[2]) /\ power(p[3])
                  /\ p[1] = <<>> => p[2] = <<>>}
      exponent(p) == IF p = <<>> THEN 0 ELSE Signed(Tail(p), {"+", "-"})[1] * Decimal(Signed(Tail(p), {"+", "-"})[2])
      fraction(p) == From(p, 2)
  IN IF t = <<>> THEN {}
     ELSE {Meaning(IF p[2] = <<>> /\ p[3] = <<>> THEN "integer" ELSE "double",
                   <<Signed(t, {"-"})[1] * Decimal(p[1] \o fraction(p[2])), exponent(p[3]) - Len(fraction(p[2]))>>,
                   <<>>, <<>>) : p \in parts}

\* \uXXXX in front of a text, and the number it gives.
IsUnit(t)  == Len(t) >= 6 /\ t[1] = "\\" /\ t[2] = "u" /\ \A k \in 3..6 : hex_value(t[k]) # 255
Hex(t)     == LET h[k \in 2..6] == IF k = 2 THEN 0 ELSE 16 * h[k - 1] + hex_value(t[k]) IN h[6]
HalfPair   == 55296..57343
Unescaped(c) == CASE c = "n" -> 10 [] c = "t" -> 9 [] c = "r" -> 13 [] c = "b" -> 8 [] c = "f" -> 12 [] OTHER -> Code[c]

\* What a string may begin with: <<code point, how many characters it takes>>.
OneOf(t) ==
  LET given(holds, one) == IF holds THEN {one} ELSE {}
      escaped == Len(t) > 1 /\ t[1] = "\\"
      pair    == IsUnit(t) /\ Hex(t) \in HalfPair /\ IsUnit(From(t, 7))
  IN given(t[1] \notin {NUL, "\"", "\\"}, <<Code[t[1]], 1>>)
       \cup given(escaped /\ t[2] # "u", <<Unescaped(t[2]), 2>>)
       \cup given(IsUnit(t) /\ Hex(t) \notin HalfPair, <<Hex(t), 6>>)
       \cup given(pair, <<65536 + (Hex(t) % 1024) * 1024 + (Hex(From(t, 7)) % 1024), 12>>)

StringsIn[t \in AllTexts] ==
  IF t = <<>> THEN {<<>>}
  ELSE UNION {{<<s[1]>> \o rest : rest \in StringsIn[From(t, s[2] + 1)]} : s \in OneOf(t)}

Quoted(t) == IF Between(t, "\"", "\"") THEN StringsIn[Within(t)] ELSE {}

\* Values, and what is between brackets: elements, or names and elements, with a comma
\* behind each but the last, which may have one.
MeaningsIn[what \in {"value", "elements", "entries"}, t \in AllTexts] ==
  LET one(u) ==
        IF what = "elements" THEN {<<<<>>, m>> : m \in MeaningsIn["value", Strip(u)]}
        ELSE UNION {{<<name, m>> : name \in Quoted(Strip(c[1])), m \in MeaningsIn["value", Strip(c[2])]} : c \in Cuts(u, ":")}
      inside(type, kind, opening, closing) ==
        IF Between(t, opening, closing)
          THEN {Meaning(type, <<0, 0>>, <<>>, items) : items \in MeaningsIn[kind, Within(t)]} ELSE {}
  IN IF what = "value"
       THEN NumbersIn(t) \cup {Meaning("string", <<0, 0>>, s, <<>>) : s \in Quoted(t)}
              \cup {Meaning(IF w[1] = "n" THEN "null" ELSE "boolean", <<IF w[1] = "t" THEN 1 ELSE 0, 0>>, <<>>, <<>>) :
                      w \in Words \cap {t}}
              \cup inside("array", "elements", "[", "]") \cup inside("object", "entries", "{", "}")
     ELSE IF Strip(t) = <<>> THEN {<<>>}
     ELSE {<<item>> : item \in one(t)}
            \cup UNION {{<<item>> \o rest : item \in one(c[1]), rest \in MeaningsIn[what, c[2]]} : c \in Cuts(t, ",")}

\* The last letter of a word may be the character behind the text.
MeaningsOfText ==
  MeaningsIn["value", Strip(json)]
    \cup {m \in MeaningsIn["value", Strip(Append(json, behind))] : m.type \in {"boolean", "null"}}

-----------------------------------------------------------------------------
(* What the finished tree means. *)

\* UTF-8, read from its definition: the leading byte says how many follow.
Points(bytes) ==
  LET points[i \in 1..(Len(bytes) + 1)] ==
        IF i > Len(bytes) THEN <<>>
        ELSE LET c == bytes[i]
                 n == IF c < 128 THEN 0 ELSE IF c < 224 THEN 1 ELSE IF c < 240 THEN 2 ELSE 3
                 bits[k \in 0..n] ==
                   IF k > 0 THEN 64 * bits[k - 1] + (bytes[i + k] - 128) ELSE c % (IF n = 0 THEN 128 ELSE 64 \div 2 ^ n)
             IN <<bits[n]>> \o points[i + n + 1]
  IN points[1]

CString(v, from, length) == Points(SubSeq(v.bytes, from + 1, from + length))

MeaningOf[id \in Ids] ==
  LET v == values[id] IN
  Meaning(v.type, v.number, IF v.type = "string" THEN CString(v, 0, v.length) ELSE <<>>,
          IF v.type \in {"array", "object"}
            THEN [i \in 1..v.length |-> <<CString(v, v.slots[i].name, v.slots[i].name_length), MeaningOf[v.slots[i].value]>>]
            ELSE <<>>)

\* What was set aside is used up, and every string ends with a zero.
Filled(v) ==
  /\ Len(v.slots) = v.room[1] /\ Len(v.bytes) = v.room[2]
  /\ v.type = "string" => v.bytes[v.length + 1] = 0
  /\ v.type = "object" => \A i \in 1..v.length : v.bytes[v.slots[i].name + v.slots[i].name_length + 1] = 0

\* A text that is accepted becomes the tree it means, with nothing missing in it and no
\* memory unused, and only a text that means nothing is refused as malformed: the two
\* passes of json_parse_ex (json.c:248-904) agree about every text.
TreeOfText ==
  /\ pc = "done" => MeaningsOfText = {MeaningOf[root]} /\ \A v \in Ids : Filled(values[v])
  /\ pc = "e_failed" /\ failure = "text" => first_pass /\ MeaningsOfText = {}
  /\ failure = "long" => first_pass

-----------------------------------------------------------------------------
(* What a file of command responses means. *)

\* A name up to its first zero, and the entries with the name of a number.
CName(points) ==
  LET before == {k \in 0..Len(points) : \A i \in 1..k : points[i] # 0}
  IN SubSeq(points, 1, CHOOSE k \in before : \A j \in before : j <= k)
Named(m, n) == {i \in DOMAIN m.items : CName(m.items[i][1]) = <<48 + n>>}

\* The constructor accepts the file; all of command 0 has the types it needs.
Accepted(m) ==
  /\ m.type = "object" /\ Len(m.items) >= 2 /\ 1 \in Named(m, 0) /\ 2 \in Named(m, 1)
  /\ m.items[1][2].type = "object" /\ m.items[2][2].type = "string"
AllOf(m, type) == \A i \in DOMAIN m.items : m.items[i][2].type = type
Sound(m) ==
  Accepted(m) /\ AllOf(m.items[1][2], "object") /\ \A i \in DOMAIN m.items[1][2].items : AllOf(m.items[1][2].items[i][2], "string")

\* The entry that counts for a number is the last one with its name.
Counts(m, n) == {m.items[i][2] : i \in {k \in Named(m, n) : \A j \in Named(m, n) : j <= k}}

Expected(m, request) ==
  IF request = <<1>> THEN {m.items[2][2].points}
  ELSE {s.points : s \in UNION {Counts(one, request[3]) : one \in Counts(m.items[1][2], request[2])}}

\* A file the handler runs with is one it can answer from, and what it answers is what
\* the text of the file says; only a file that is not of the form it expects (or a lack
\* of memory) ends the process, at the start or at a request (CommandHandlerWiiU.cpp:34-45
\* and 84-111).
AnswersOfFile ==
  \A m \in IF process = "starts" THEN {} ELSE MeaningsOfText :
    /\ process = "runs" => Accepted(m) /\ (asked # <<>> => {Points(text) : text \in answer} = Expected(m, asked))
    /\ process \in {"exited", "crashed"} => failure # "none" \/ ~Sound(m)

=============================================================================
