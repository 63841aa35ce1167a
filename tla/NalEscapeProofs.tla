--------------------------- MODULE NalEscapeProofs ---------------------------
(***************************************************************************)
(* Proofs about NalEscape and PicturePath, for frames of every length and  *)
(* every number. The invariant of the wrapping (IInv) counts the escapes   *)
(* against the bytes behind them; what a decoder reads back is a recursion *)
(* over the buffer, which grows by one byte at a time (ReadLonger). The    *)
(* path of a picture takes steps of NalEscape or leaves its variables      *)
(* alone (PathWraps), so all that is proved of the buffer holds there.     *)
(* What a client finds its way in (Delimited) needs an invariant of its    *)
(* own, SendInv: where the packet on its way began, that the pieces of all *)
(* earlier ones end there, and which of them were lost.                    *)
(***************************************************************************)
EXTENDS PicturePath, DataLemmas

-----------------------------------------------------------------------------
(* The header, byte by byte. *)

LEMMA SliceHeaderBytes ==
  ASSUME NEW idr \in BOOLEAN, NEW num \in Nat
  PROVE  LET s == SliceHeader(idr, num)
         IN /\ s \in Seq(0..255) /\ Len(s) = 4
            /\ s[1] # 0 /\ s[2] # 0 /\ s[3] # 0 /\ s[4] = 255
<1>1. CASE idr
  BY <1>1 DEF SliceHeader
<1>2. CASE ~idr
  <2> DEFINE a == 224 + (num % 256) \div 8  b == 3 + 32 * (num % 8)
  <2>1. a \in 224..255 /\ b \in 3..227
    OBVIOUS
  <2>2. SliceHeader(idr, num) = <<33, a, b, 255>>
    BY <1>2 DEF SliceHeader
  <2> HIDE DEF a, b
  <2> QED BY <2>1, <2>2
<1> QED BY <1>1, <1>2

LEMMA ParamBytes ==
  /\ Params \in Seq(0..255) /\ Len(Params) = 24
  /\ \A j \in 1..24 : Params[j] = 0 => j \in {1, 2, 3, 7, 16, 17, 18}
<1>1. Params \in Seq(0..255) /\ Len(Params) = 24
  BY DEF Params
<1>2. ASSUME NEW j \in 1..24, j \notin {1, 2, 3, 7, 16, 17, 18} PROVE Params[j] # 0
  BY <1>2 DEF Params
<1> QED BY <1>1, <1>2

LEMMA Concatenated ==
  ASSUME NEW S, NEW s \in Seq(S), NEW t \in Seq(S), NEW m \in Nat, NEW n \in Nat,
         Len(s) = m, Len(t) = n
  PROVE  /\ s \o t \in Seq(S) /\ Len(s \o t) = m + n
         /\ \A j \in 1..m : (s \o t)[j] = s[j]
         /\ \A j \in 1..n : (s \o t)[m + j] = t[j]
<1>1. \A j \in 1..n : m + j \in 1..(m + n) /\ m + j > m /\ (m + j) - m = j
  OBVIOUS
<1>2. s \o t \in Seq(S) /\ Len(s \o t) = m + n
  OBVIOUS
<1>3. \A j \in 1..m : (s \o t)[j] = s[j]
  OBVIOUS
<1>4. \A j \in 1..n : (s \o t)[m + j] = t[j]
  BY <1>1
<1> QED BY <1>2, <1>3, <1>4

LEMMA TwoMore ==
  ASSUME NEW S, NEW s \in Seq(S), NEW a \in S, NEW b \in S, NEW n \in Nat, Len(s) = n
  PROVE  /\ s \o <<a, b>> \in Seq(S) /\ Len(s \o <<a, b>>) = n + 2
         /\ (s \o <<a, b>>)[n + 1] = a /\ (s \o <<a, b>>)[n + 2] = b
         /\ \A j \in 1..n : (s \o <<a, b>>)[j] = s[j]
<1> DEFINE t == <<a, b>>  k == 2
<1>1. t \in Seq(S) /\ Len(t) = k /\ k \in Nat /\ t[1] = a /\ t[2] = b /\ 1 \in 1..k /\ 2 \in 1..k
  OBVIOUS
<1> HIDE DEF t, k
<1>2. /\ s \o t \in Seq(S) /\ Len(s \o t) = n + k
      /\ \A j \in 1..n : (s \o t)[j] = s[j]
      /\ \A j \in 1..k : (s \o t)[n + j] = t[j]
  <2>1. t \in Seq(S) /\ Len(t) = k /\ k \in Nat
    BY <1>1
  <2> QED BY <2>1, Concatenated
<1>3. s \o t \in Seq(S) /\ Len(s \o t) = n + 2 /\ (\A j \in 1..n : (s \o t)[j] = s[j])
  BY <1>2 DEF k
<1>4. (s \o t)[n + 1] = a /\ (s \o t)[n + 2] = b
  BY <1>1, <1>2
<1> QED BY <1>3, <1>4 DEF t

\* Where a header may have a zero.
ZeroAt(idr) == IF idr THEN {1, 2, 3, 7, 16, 17, 18, 25, 26, 27} ELSE {1, 2, 3}

LEMMA HeaderBytes ==
  ASSUME NEW idr \in BOOLEAN, NEW num \in Nat
  PROVE  /\ Header(idr, num) \in Seq(0..255) /\ Len(Header(idr, num)) = HeaderLen(idr)
         /\ Header(idr, num)[HeaderLen(idr)] = 255
         /\ \A j \in 1..HeaderLen(idr) : Header(idr, num)[j] = 0 => j \in ZeroAt(idr)
<1> DEFINE s == SliceHeader(idr, num)  c == StartCode \o s
<1>1. s \in Seq(0..255) /\ Len(s) = 4 /\ s[1] # 0 /\ s[2] # 0 /\ s[3] # 0 /\ s[4] = 255
  BY SliceHeaderBytes
<1> HIDE DEF s
<1>2. /\ c \in Seq(0..255) /\ Len(c) = 8 /\ c[8] = 255
      /\ \A j \in 1..8 : c[j] = 0 => j \in {1, 2, 3}
  <2>1. StartCode \in Seq(0..255) /\ Len(StartCode) = 4
    BY DEF StartCode
  <2>2. /\ c \in Seq(0..255) /\ Len(c) = 8
        /\ \A j \in 1..4 : c[j] = StartCode[j]
        /\ \A j \in 1..4 : c[4 + j] = s[j]
    <3> DEFINE m == 4
    <3>1. m \in Nat /\ s \in Seq(0..255) /\ Len(s) = m /\ Len(StartCode) = m
      BY <1>1, <2>1
    <3> HIDE DEF m
    <3>2. /\ c \in Seq(0..255) /\ Len(c) = m + m
          /\ \A j \in 1..m : c[j] = StartCode[j]
          /\ \A j \in 1..m : c[m + j] = s[j]
      BY <2>1, <3>1, Concatenated
    <3> HIDE DEF c
    <3> QED BY <3>2 DEF m
  <2> HIDE DEF c
  <2>3. ASSUME NEW j \in 1..8, j \notin {1, 2, 3}, j # 4 PROVE c[j] # 0
    <3>1. j - 4 \in 1..4 /\ 4 + (j - 4) = j /\ c[j] = s[j - 4]
      BY <2>2, <2>3
    <3>2. j - 4 \in {1, 2, 3, 4}
      BY <3>1
    <3> QED BY <1>1, <3>1, <3>2
  <2>4. c[4] = 1 /\ c[8] = 255
    <3>1. c[4] = StartCode[4] /\ c[4 + 4] = s[4]
      BY <2>2
    <3> QED BY <1>1, <3>1 DEF StartCode
  <2> QED BY <2>2, <2>3, <2>4
<1> HIDE DEF c
<1>3. CASE idr
  <2> DEFINE h == Params \o c
  <2>1. Header(idr, num) = h
    BY <1>3 DEF Header, c, s
  <2>2. /\ h \in Seq(0..255) /\ Len(h) = 32
        /\ \A j \in 1..24 : h[j] = Params[j]
        /\ \A j \in 1..8 : h[24 + j] = c[j]
    <3> DEFINE m == 24  k == 8
    <3>1. m \in Nat /\ k \in Nat /\ c \in Seq(0..255) /\ Len(c) = k
      BY <1>2
    <3>2. Params \in Seq(0..255) /\ Len(Params) = m
      BY ParamBytes
    <3> HIDE DEF m, k
    <3>3. /\ h \in Seq(0..255) /\ Len(h) = m + k
          /\ \A j \in 1..m : h[j] = Params[j]
          /\ \A j \in 1..k : h[m + j] = c[j]
      BY <3>1, <3>2, Concatenated
    <3> HIDE DEF h
    <3> QED BY <3>3 DEF m, k
  <2> HIDE DEF h
  <2>3. ASSUME NEW j \in 1..32, h[j] = 0
        PROVE  j \in {1, 2, 3, 7, 16, 17, 18, 25, 26, 27}
    <3>1. CASE j \in 1..24
      BY <2>2, <2>3, <3>1, ParamBytes
    <3>2. CASE j \in 25..32
      <4>1. j - 24 \in 1..8 /\ 24 + (j - 24) = j
        BY <3>2
      <4>2. c[j - 24] = 0
        BY <2>2, <2>3, <4>1
      <4>3. j - 24 \in {1, 2, 3}
        BY <1>2, <4>1, <4>2
      <4> QED BY <4>3
    <3> QED BY <3>1, <3>2
  <2>4. h[32] = 255
    <3>1. h[24 + 8] = c[8]
      BY <2>2
    <3> QED BY <1>2, <3>1
  <2> QED BY <1>3, <2>1, <2>2, <2>3, <2>4 DEF HeaderLen, ZeroAt
<1>4. CASE ~idr
  <2>1. Header(idr, num) = c
    BY <1>2, <1>4 DEF Header, c, s
  <2> QED BY <1>2, <1>4, <2>1 DEF HeaderLen, ZeroAt
<1> QED BY <1>3, <1>4

-----------------------------------------------------------------------------
(* The inductive invariant. *)

\* Escape bytes so far. Each needs two zeros of the frame behind the one before,
\* and zeros at the end of the buffer are the start of the next such pair.
Escaped == Len(nals) - Offset - (byte - 1)

Filled ==
  IF pc = "escape"
    THEN /\ Len(nals) >= Offset + 2 /\ nals[Offset] = 255
         /\ 2 * Escaped <= byte - 1
         /\ nals[Len(nals)] = 0 => 2 * Escaped + 1 <= byte - 1
         /\ nals[Len(nals)] = 0 /\ nals[Len(nals) - 1] = 0 => 2 * Escaped + 2 <= byte - 1
    ELSE nals = <<>>

IInv == TypeOK /\ Filled /\ NoStartCode /\ EscapesMarked

LEMMA OffsetValue == Offset \in Nat /\ Offset = (IF is_idr THEN 32 ELSE 8)
  BY DEF Offset, HeaderLen

LEMMA InitInv == ASSUME Init PROVE IInv
<1> USE NalAssumption DEF Init
<1>1. TypeOK
  <2>1. <<>> \in Seq(Bytes) /\ <<>> \in Seq(0..255) /\ Len(<<>>) = 0
    OBVIOUS
  <2>2. frame \in Seq(Bytes) /\ Len(frame) <= MaxLen /\ nals \in Seq(0..255) /\ added \subseteq 1..Len(nals)
    BY <2>1
  <2>3. byte \in 3..(MaxLen + 3) /\ frame_decode_num \in 0..MaxFrames
    OBVIOUS
  <2> QED BY <2>2, <2>3 DEF TypeOK
<1>2. Filled /\ NoStartCode /\ EscapesMarked
  BY OffsetValue DEF Filled, NoStartCode, EscapesMarked
<1> QED BY <1>1, <1>2 DEF IInv

LEMMA EncapsulateKeeps ==
  ASSUME IInv, NEW idr \in BOOLEAN, NEW m \in 0..MaxLen, NEW f \in [1..m -> Bytes],
         Encapsulate(idr, f)
  PROVE  IInv'
<1> USE NalAssumption
<1> DEFINE h == Header(idr, frame_decode_num)  a == At(f, 1)  b == At(f, 2)  n == Offset'
<1>1. /\ pc' = "escape" /\ is_idr' = idr /\ frame' = f /\ byte' = 3 /\ added' = {}
      /\ nals' = h \o <<a, b>> /\ frame_decode_num' \in 0..MaxFrames
  BY DEF Encapsulate, IInv, TypeOK
<1>2. n \in Nat \ {0, 1, 2} /\ n = HeaderLen(idr)
  BY <1>1 DEF Offset, HeaderLen
<1>3. f \in Seq(Bytes) /\ Len(f) <= MaxLen /\ Len(f) = m
  OBVIOUS
<1>4. a \in 0..255 /\ b \in 0..255
  <2>1. \A k \in 1..Len(f) : f[k] \in Bytes
    BY <1>3
  <2>2. \A k \in {1, 2} : At(f, k) = 0 \/ At(f, k) \in Bytes
    BY <1>3, <2>1 DEF At
  <2>3. Bytes \cup {0} \subseteq 0..255
    BY NalAssumption
  <2>4. At(f, 1) \in Bytes \cup {0} /\ At(f, 2) \in Bytes \cup {0}
    BY <2>2
  <2> QED BY <2>3, <2>4
<1>5. /\ h \in Seq(0..255) /\ Len(h) = n /\ h[n] = 255
      /\ \A j \in 1..n : h[j] = 0 => j \in ZeroAt(idr)
  <2>1. frame_decode_num \in Nat
    BY DEF IInv, TypeOK
  <2> HIDE DEF n
  <2> QED BY <1>2, <2>1, HeaderBytes
<1> HIDE DEF a, b, h, n
<1>6. /\ nals' \in Seq(0..255) /\ Len(nals') = n + 2
      /\ \A j \in 1..n : nals'[j] = h[j]
      /\ nals'[n + 1] = a /\ nals'[n + 2] = b
  <2> DEFINE B == 0..255
  <2>1. n \in Nat /\ h \in Seq(B) /\ Len(h) = n /\ a \in B /\ b \in B
    BY <1>2, <1>4, <1>5
  <2> HIDE DEF B
  <2>2. /\ h \o <<a, b>> \in Seq(B) /\ Len(h \o <<a, b>>) = n + 2
        /\ (h \o <<a, b>>)[n + 1] = a /\ (h \o <<a, b>>)[n + 2] = b
        /\ \A j \in 1..n : (h \o <<a, b>>)[j] = h[j]
    BY <2>1, TwoMore
  <2> QED BY <1>1, <2>2 DEF B
<1>7. TypeOK'
  BY <1>1, <1>3, <1>6 DEF TypeOK
<1>8. nals'[n] = 255 /\ nals'[n - 1 + 1] = 255
  BY <1>2, <1>5, <1>6
<1>9. Filled'
  <2>1. Escaped' = 0 /\ n = Offset'
    BY <1>1, <1>2, <1>6 DEF Escaped, n
  <2> QED BY <1>1, <1>2, <1>6, <1>8, <2>1 DEF Filled
<1>10. NoStartCode'
  <2> SUFFICES ASSUME NEW j \in 1..(Len(nals') - 2), nals'[j] = 0, nals'[j + 1] = 0
               PROVE  j \in {1, 2} \/ (is_idr' /\ j \in {16, 17, 25, 26})
    BY DEF NoStartCode
  <2>1. j \in 1..n /\ j # n /\ j + 1 \in 1..n
    BY <1>2, <1>6, <1>8
  <2>2. h[j] = 0 /\ h[j + 1] = 0
    BY <1>6, <2>1
  <2>3. CASE idr
    <3>1. /\ j \in {1, 2, 3, 7, 16, 17, 18, 25, 26, 27}
          /\ j + 1 \in {1, 2, 3, 7, 16, 17, 18, 25, 26, 27}
      BY <1>5, <2>1, <2>2, <2>3 DEF ZeroAt
    <3> QED BY <1>1, <2>3, <3>1
  <2>4. CASE ~idr
    BY <1>1, <1>5, <2>1, <2>2, <2>4 DEF ZeroAt
  <2> QED BY <2>3, <2>4
<1>11. EscapesMarked'
  <2> SUFFICES ASSUME NEW p \in (n + 1)..Len(nals')
               PROVE  ~(nals'[p] = 3 /\ nals'[p - 1] = 0 /\ nals'[p - 2] = 0)
    BY <1>1 DEF EscapesMarked, n
  <2>1. p - 1 = n \/ p - 2 = n
    BY <1>2, <1>6
  <2> QED BY <1>8, <2>1
<1> QED BY <1>7, <1>9, <1>10, <1>11 DEF IInv

\* The buffer without the bytes the step writes is what it was.
LEMMA PlainByteKeeps ==
  ASSUME IInv, EscapeByte, ~Escapes PROVE IInv'
<1> USE NalAssumption
<1> DEFINE n == Len(nals)  x == frame[byte]
<1>1. /\ pc = "escape" /\ byte \in 1..Len(frame) /\ nals' = Append(nals, x) /\ added' = added
      /\ byte' = byte + 1 /\ UNCHANGED <<pc, is_idr, frame, frame_decode_num>>
  BY DEF EscapeByte, IInv, TypeOK
<1>2. x \in 0..255 /\ byte \in Nat /\ byte <= MaxLen
  <2>1. frame \in Seq(Bytes) /\ Len(frame) <= MaxLen /\ Len(frame) \in Nat
    BY DEF IInv, TypeOK
  <2>2. x \in Bytes
    BY <1>1, <2>1
  <2>3. byte \in 1..Len(frame)
    BY <1>1
  <2> HIDE DEF x
  <2> QED BY <2>1, <2>2, <2>3
<1>3. /\ n \in Nat /\ n >= Offset + 2 /\ Offset \in Nat /\ Offset' = Offset /\ Offset >= 8
      /\ nals[Offset] = 255
  BY <1>1, OffsetValue DEF IInv, TypeOK, Filled, Offset
<1>4. /\ nals' \in Seq(0..255) /\ Len(nals') = n + 1 /\ nals'[n + 1] = x
      /\ \A j \in 1..n : nals'[j] = nals[j]
  BY <1>1, <1>2 DEF IInv, TypeOK
<1>5. x > 3 \/ nals[n] # 0 \/ nals[n - 1] # 0
  <2>1. ~(x <= 3) \/ ~Zeros(2)
    BY DEF Escapes
  <2>2. Zeros(2) <=> nals[n] = 0 /\ nals[n - 1] = 0
    BY DEF Zeros
  <2> HIDE DEF x, n
  <2> QED BY <1>2, <2>1, <2>2
<1> HIDE DEF n, x
<1>6. TypeOK'
  <2>1. byte' \in 3..(MaxLen + 3)
    BY <1>1, <1>2 DEF IInv, TypeOK
  <2>2. added' \subseteq 1..Len(nals')
    BY <1>1, <1>3, <1>4 DEF IInv, TypeOK, n
  <2> QED BY <1>1, <1>4, <2>1, <2>2 DEF IInv, TypeOK
<1>7. Filled'
  <2>1. Escaped' = Escaped /\ Escaped \in Int
    BY <1>1, <1>2, <1>3, <1>4 DEF Escaped, n
  <2>2. 2 * Escaped <= byte - 1 /\ (nals[n] = 0 => 2 * Escaped + 1 <= byte - 1)
    BY <1>1 DEF IInv, Filled, n
  <2>3. nals'[Len(nals')] = x /\ nals'[Len(nals') - 1] = nals[n]
    BY <1>3, <1>4
  <2>4. Len(nals') >= Offset' + 2 /\ nals'[Offset'] = 255
    BY <1>3, <1>4
  <2> QED BY <1>1, <1>2, <2>1, <2>2, <2>3, <2>4 DEF Filled
<1>8. NoStartCode'
  <2> SUFFICES ASSUME NEW j \in 1..(Len(nals') - 2),
                      nals'[j] = 0, nals'[j + 1] = 0, nals'[j + 2] <= 2
               PROVE  j \in {1, 2} \/ (is_idr' /\ j \in {16, 17, 25, 26})
    BY DEF NoStartCode
  <2>1. CASE j + 2 <= n
    <3>1. j \in 1..n /\ j + 1 \in 1..n /\ j + 2 \in 1..n /\ j \in 1..(n - 2)
      BY <1>3, <2>1
    <3> QED BY <1>1, <1>4, <3>1 DEF IInv, NoStartCode, n
  <2>2. CASE j + 2 = n + 1
    <3>1. j = n - 1 /\ j + 1 = n /\ n - 1 \in 1..n /\ n \in 1..n
      BY <1>3, <2>2
    <3> QED BY <1>4, <1>5, <1>2, <2>2, <3>1
  <2> QED BY <1>3, <1>4, <2>1, <2>2
<1>9. EscapesMarked'
  <2> SUFFICES ASSUME NEW p \in (Offset + 1)..(n + 1)
               PROVE  p \in added' <=> nals'[p] = 3 /\ nals'[p - 1] = 0 /\ nals'[p - 2] = 0
    BY <1>3, <1>4 DEF EscapesMarked
  <2>1. CASE p <= n
    <3>1. p \in 1..n /\ p - 1 \in 1..n /\ p - 2 \in 1..n /\ p \in (Offset + 1)..n
      BY <1>3, <2>1
    <3> QED BY <1>1, <1>4, <3>1 DEF IInv, EscapesMarked, n
  <2>2. CASE p = n + 1
    <3>1. p - 1 = n /\ p - 2 = n - 1 /\ n \in 1..n /\ n - 1 \in 1..n /\ p \notin 1..n
      BY <1>3, <2>2
    <3>2. p \notin added'
      BY <1>1, <3>1 DEF IInv, TypeOK, n
    <3> QED BY <1>4, <1>5, <2>2, <3>1, <3>2
  <2> QED BY <1>3, <2>1, <2>2
<1> QED BY <1>6, <1>7, <1>8, <1>9 DEF IInv

LEMMA EscapedByteKeeps ==
  ASSUME IInv, EscapeByte, Escapes PROVE IInv'
<1> USE NalAssumption
<1> DEFINE n == Len(nals)  x == frame[byte]
<1>1. /\ pc = "escape" /\ byte \in 1..Len(frame) /\ nals' = nals \o <<3, x>>
      /\ added' = added \cup {n + 1}
      /\ byte' = byte + 1 /\ UNCHANGED <<pc, is_idr, frame, frame_decode_num>>
  BY DEF EscapeByte, IInv, TypeOK
<1>2. x \in 0..255 /\ byte \in Nat /\ byte <= MaxLen
  <2>1. frame \in Seq(Bytes) /\ Len(frame) <= MaxLen /\ Len(frame) \in Nat
    BY DEF IInv, TypeOK
  <2>2. x \in Bytes
    BY <1>1, <2>1
  <2>3. byte \in 1..Len(frame)
    BY <1>1
  <2> HIDE DEF x
  <2> QED BY <2>1, <2>2, <2>3
<1>3. /\ n \in Nat /\ n >= Offset + 2 /\ Offset \in Nat /\ Offset' = Offset /\ Offset >= 8
      /\ nals[Offset] = 255
  BY <1>1, OffsetValue DEF IInv, TypeOK, Filled, Offset
<1>4. /\ nals' \in Seq(0..255) /\ Len(nals') = n + 2 /\ nals'[n + 1] = 3 /\ nals'[n + 2] = x
      /\ \A j \in 1..n : nals'[j] = nals[j]
  <2> DEFINE B == 0..255
  <2> HIDE DEF x
  <2>1. nals \in Seq(B) /\ Len(nals) = n /\ n \in Nat /\ 3 \in B /\ x \in B
    BY <1>2, <1>3 DEF IInv, TypeOK
  <2> HIDE DEF B, n
  <2>2. /\ nals \o <<3, x>> \in Seq(B) /\ Len(nals \o <<3, x>>) = n + 2
        /\ (nals \o <<3, x>>)[n + 1] = 3 /\ (nals \o <<3, x>>)[n + 2] = x
        /\ \A j \in 1..n : (nals \o <<3, x>>)[j] = nals[j]
    BY <2>1, TwoMore
  <2> QED BY <1>1, <2>2 DEF B, x
<1>5. x <= 3 /\ nals[n] = 0 /\ nals[n - 1] = 0
  BY DEF Escapes, Zeros
<1> HIDE DEF n, x
<1>6. TypeOK'
  <2>1. byte' \in 3..(MaxLen + 3)
    BY <1>1, <1>2 DEF IInv, TypeOK
  <2>2. added' \subseteq 1..Len(nals')
    <3>1. added \subseteq 1..n /\ n + 1 \in 1..(n + 2)
      BY <1>3 DEF IInv, TypeOK, n
    <3>2. added \subseteq 1..(n + 2)
      BY <1>3, <3>1
    <3> QED BY <1>1, <1>4, <3>1, <3>2
  <2> QED BY <1>1, <1>4, <2>1, <2>2 DEF IInv, TypeOK
<1>7. Filled'
  <2>1. Escaped' = Escaped + 1 /\ Escaped \in Int
    BY <1>1, <1>2, <1>3, <1>4 DEF Escaped, n
  <2>2. 2 * Escaped + 2 <= byte - 1
    BY <1>1, <1>5 DEF IInv, Filled, n
  <2>3. nals'[Len(nals')] = x /\ nals'[Len(nals') - 1] = 3
    BY <1>3, <1>4
  <2>4. Len(nals') >= Offset' + 2 /\ nals'[Offset'] = 255
    BY <1>3, <1>4
  <2>5. 2 * Escaped' + 1 <= byte' - 1 /\ nals'[Len(nals') - 1] # 0
    BY <1>1, <1>2, <2>1, <2>2, <2>3
  <2>6. 2 * Escaped' <= byte' - 1
    BY <1>1, <1>2, <2>1, <2>5
  <2> QED BY <1>1, <2>4, <2>5, <2>6 DEF Filled
<1>8. NoStartCode'
  <2> SUFFICES ASSUME NEW j \in 1..(Len(nals') - 2),
                      nals'[j] = 0, nals'[j + 1] = 0, nals'[j + 2] <= 2
               PROVE  j \in {1, 2} \/ (is_idr' /\ j \in {16, 17, 25, 26})
    BY DEF NoStartCode
  <2>1. CASE j + 2 <= n
    <3>1. j \in 1..n /\ j + 1 \in 1..n /\ j + 2 \in 1..n /\ j \in 1..(n - 2)
      BY <1>3, <2>1
    <3> QED BY <1>1, <1>4, <3>1 DEF IInv, NoStartCode, n
  <2>2. CASE j + 2 = n + 1 \/ j + 1 = n + 1
    BY <1>4, <2>2
  <2> QED BY <1>3, <1>4, <2>1, <2>2
<1>9. EscapesMarked'
  <2> SUFFICES ASSUME NEW p \in (Offset + 1)..(n + 2)
               PROVE  p \in added' <=> nals'[p] = 3 /\ nals'[p - 1] = 0 /\ nals'[p - 2] = 0
    BY <1>3, <1>4 DEF EscapesMarked
  <2>1. CASE p <= n
    <3>1. /\ p \in 1..n /\ p - 1 \in 1..n /\ p - 2 \in 1..n /\ p \in (Offset + 1)..n
          /\ p # n + 1
      BY <1>3, <2>1
    <3> QED BY <1>1, <1>4, <3>1 DEF IInv, EscapesMarked, n
  <2>2. CASE p = n + 1
    <3>1. p - 1 = n /\ p - 2 = n - 1 /\ n \in 1..n /\ n - 1 \in 1..n
      BY <1>3, <2>2
    <3> QED BY <1>1, <1>4, <1>5, <2>2, <3>1
  <2>3. CASE p = n + 2
    <3>1. p - 1 = n + 1 /\ p \notin 1..n /\ p # n + 1
      BY <1>3, <2>3
    <3>2. p \notin added'
      BY <1>1, <3>1 DEF IInv, TypeOK, n
    <3> QED BY <1>4, <3>1, <3>2
  <2> QED BY <1>3, <2>1, <2>2, <2>3
<1> QED BY <1>6, <1>7, <1>8, <1>9 DEF IInv

LEMMA DoneKeeps == ASSUME IInv, Done PROVE IInv'
<1> USE NalAssumption DEF Done
<1>1. TypeOK'
  <2>1. <<>> \in Seq(Bytes) /\ <<>> \in Seq(0..255) /\ Len(<<>>) = 0
    OBVIOUS
  <2>2. /\ frame' \in Seq(Bytes) /\ Len(frame') <= MaxLen /\ nals' \in Seq(0..255)
        /\ added' \subseteq 1..Len(nals')
    BY <2>1
  <2>3. byte' \in 3..(MaxLen + 3) /\ frame_decode_num' \in 0..MaxFrames
    BY DEF IInv, TypeOK
  <2> QED BY <2>2, <2>3 DEF TypeOK
<1>2. Filled' /\ NoStartCode' /\ EscapesMarked'
  <2>1. nals' = <<>> /\ pc' = "idle" /\ Offset' \in Nat
    BY DEF Offset, HeaderLen
  <2>2. Len(nals') = 0
    BY <2>1
  <2>3. Filled'
    BY <2>1 DEF Filled
  <2>4. NoStartCode' /\ EscapesMarked'
    <3>1. 1..(Len(nals') - 2) = {} /\ (Offset' + 1)..Len(nals') = {}
      <4> DEFINE l == Len(nals')  o == Offset'
      <4>1. l = 0 /\ o \in Nat
        BY <2>1, <2>2
      <4> HIDE DEF l, o
      <4>2. 1..(l - 2) = {} /\ (o + 1)..l = {}
        BY <4>1
      <4> QED BY <4>2 DEF l, o
    <3> QED BY <3>1 DEF NoStartCode, EscapesMarked
  <2> QED BY <2>3, <2>4
<1> QED BY <1>1, <1>2 DEF IInv

LEMMA NextKeeps == ASSUME IInv, [Next]_vars PROVE IInv'
<1>1. ASSUME NEW idr \in BOOLEAN, NEW m \in 0..MaxLen, NEW f \in [1..m -> Bytes],
             Encapsulate(idr, f)
      PROVE  IInv'
  BY <1>1, EncapsulateKeeps
<1>2. CASE EscapeByte
  BY <1>2, PlainByteKeeps, EscapedByteKeeps
<1>3. CASE Done
  BY <1>3, DoneKeeps
<1>4. CASE UNCHANGED vars
  BY <1>4 DEF vars, IInv, TypeOK, Filled, Escaped, Offset, NoStartCode, EscapesMarked
<1> QED BY <1>1, <1>2, <1>3, <1>4 DEF Next

THEOREM Inductive == Spec => []IInv
<1>1. Init => IInv
  BY InitInv
<1>2. IInv /\ [Next]_vars => IInv'
  BY NextKeeps
<1> QED BY <1>1, <1>2, PTL DEF Spec

-----------------------------------------------------------------------------
(* The results. *)

\* The state of h264_nal_encapsulate keeps its types: what is in nals is bytes.
THEOREM TypeCorrect == Spec => []TypeOK
<1>1. IInv => TypeOK
  BY DEF IInv
<1> QED BY <1>1, Inductive, PTL

\* No start code in the output but those of the header, for every frame.
THEOREM NoStartCodeHolds == Spec => []NoStartCode
<1>1. IInv => NoStartCode
  BY DEF IInv
<1> QED BY <1>1, Inductive, PTL

\* A decoder takes out the bytes the loop put in and no other.
THEOREM EscapesMarkedHolds == Spec => []EscapesMarked
<1>1. IInv => EscapesMarked
  BY DEF IInv
<1> QED BY <1>1, Inductive, PTL

LEMMA SizeFromFilled == ASSUME IInv PROVE SizeBound
<1> SUFFICES ASSUME pc = "escape" PROVE 2 * Len(nals) <= 2 * Offset + 3 * (byte - 1)
  BY DEF SizeBound
<1> DEFINE n == Len(nals)
<1>1. n \in Nat /\ Offset \in Nat /\ byte \in Nat
  BY OffsetValue, NalAssumption DEF IInv, TypeOK
<1>2. 2 * (n - Offset - (byte - 1)) <= byte - 1
  BY DEF IInv, Filled, Escaped
<1> HIDE DEF n
<1>3. 2 * n <= 2 * Offset + 3 * (byte - 1)
  BY <1>1, <1>2
<1> QED BY <1>3 DEF n

\* At most every third byte of what follows the header is an escape.
THEOREM SizeBoundHolds == Spec => []SizeBound
<1> QED BY SizeFromFilled, Inductive, PTL

\* When the loop is done, nals fits what the handler allocates (twice the frame)
\* for every frame of 64 bytes and more.
BufferFits ==
  pc = "escape" /\ byte > Len(frame) /\ Len(frame) >= 64 => Len(nals) <= 2 * Len(frame)

\* byte never passes the frame by more than one, or the two bytes written first.
LEMMA ByteBound == Spec => [](pc = "escape" => byte = 3 \/ byte <= Len(frame) + 1)
<1> DEFINE J == pc = "escape" => byte = 3 \/ byte <= Len(frame) + 1
<1>1. Init => J
  BY DEF Init
<1>2. IInv /\ J /\ [Next]_vars => J'
  <2> SUFFICES ASSUME IInv, J, [Next]_vars PROVE J'
    OBVIOUS
  <2>1. ASSUME NEW idr \in BOOLEAN, NEW n \in 0..MaxLen, NEW f \in [1..n -> Bytes],
               Encapsulate(idr, f)
        PROVE  J'
    BY <2>1 DEF Encapsulate
  <2>2. CASE EscapeByte
    BY <2>2, NalAssumption DEF EscapeByte, IInv, TypeOK
  <2>3. CASE Done
    BY <2>3 DEF Done
  <2>4. CASE UNCHANGED vars
    BY <2>4 DEF vars
  <2> QED BY <2>1, <2>2, <2>3, <2>4 DEF Next
<1> QED BY <1>1, <1>2, Inductive, PTL DEF Spec

\* The buffer of twice the frame is never overrun by a frame of 64 bytes or more.
THEOREM BufferFitsHolds == Spec => []BufferFits
<1> DEFINE J == pc = "escape" => byte = 3 \/ byte <= Len(frame) + 1
<1>1. IInv /\ J => BufferFits
  <2> SUFFICES ASSUME IInv, J, pc = "escape", byte > Len(frame), Len(frame) >= 64
               PROVE  Len(nals) <= 2 * Len(frame)
    BY DEF BufferFits
  <2> DEFINE n == Len(nals)  l == Len(frame)
  <2>1. n \in Nat /\ l \in Nat /\ byte \in Nat /\ Offset \in Nat /\ Offset <= 32
    BY OffsetValue, NalAssumption DEF IInv, TypeOK
  <2>2. byte = l + 1
    <3>1. byte > l /\ l >= 64 /\ (byte = 3 \/ byte <= l + 1)
      OBVIOUS
    <3> HIDE DEF l
    <3> QED BY <2>1, <3>1
  <2>3. 2 * n <= 2 * Offset + 3 * (byte - 1) /\ l >= 64
    BY SizeFromFilled DEF SizeBound
  <2> HIDE DEF n, l
  <2>4. n <= 2 * l
    BY <2>1, <2>2, <2>3
  <2> QED BY <2>4 DEF n, l
<1> HIDE DEF J
<1>2. Spec => []J
  BY ByteBound DEF J
<1> QED BY <1>1, <1>2, Inductive, PTL

-----------------------------------------------------------------------------
(* What the decoder reads. *)

\* The byte at p of s is one the decoder leaves out.
LeftOut(s, p) == p > 2 /\ s[p] = 3 /\ s[p - 1] = 0 /\ s[p - 2] = 0

ReadSteps(s, c) ==
  /\ c[0] = <<>>
  /\ \A p \in 1..Len(s) : c[p] = IF LeftOut(s, p) THEN c[p - 1] ELSE Append(c[p - 1], s[p])

LEMMA ReadBy ==
  ASSUME NEW T, NEW s \in Seq(T)
  PROVE  \E c \in [0..Len(s) -> Seq(T)] : ReadSteps(s, c) /\ Unescaped(s) = c[Len(s)]
<1> DEFINE step == [p \in 1..Len(s) |-> [c \in Seq(T) |-> IF LeftOut(s, p) THEN c ELSE Append(c, s[p])]]
           F(c) == [p \in 0..Len(s) |-> IF p = 0 THEN <<>>
                                        ELSE IF p > 2 /\ s[p] = 3 /\ s[p - 1] = 0 /\ s[p - 2] = 0 THEN c[p - 1]
                                        ELSE Append(c[p - 1], s[p])]
           r == CHOOSE c : c = F(c)
<1>0. Len(s) \in Nat /\ \A p \in 1..Len(s) : p - 1 \in 0..Len(s) /\ p # 0 /\ s[p] \in T
  OBVIOUS
<1>1. step \in [1..Len(s) -> [Seq(T) -> Seq(T)]]
  <2> SUFFICES ASSUME NEW p \in 1..Len(s), NEW c \in Seq(T)
               PROVE  (IF LeftOut(s, p) THEN c ELSE Append(c, s[p])) \in Seq(T)
    OBVIOUS
  <2> QED BY <1>0
<1>2. PICK g \in [0..Len(s) -> Seq(T)] : Recurs(g, Len(s), <<>>, step)
  <2>1. <<>> \in Seq(T)
    OBVIOUS
  <2> HIDE DEF step
  <2> QED BY <1>0, <1>1, <2>1, RecursionOnNat
<1>3. g = F(g)
  <2>1. \A p \in 1..Len(s) : g[p] = IF LeftOut(s, p) THEN g[p - 1] ELSE Append(g[p - 1], s[p])
    <3> SUFFICES ASSUME NEW p \in 1..Len(s)
                 PROVE  g[p] = IF LeftOut(s, p) THEN g[p - 1] ELSE Append(g[p - 1], s[p])
      OBVIOUS
    <3>1. g[p] = step[p][g[p - 1]] /\ g[p - 1] \in Seq(T)
      BY <1>0, <1>2 DEF Recurs
    <3> QED BY <3>1
  <2>2. g[0] = <<>>
    BY <1>2 DEF Recurs
  <2>3. \A p \in 0..Len(s) : g[p] = IF p = 0 THEN <<>> ELSE IF LeftOut(s, p) THEN g[p - 1] ELSE Append(g[p - 1], s[p])
    <3> HIDE DEF step, r
    <3> SUFFICES ASSUME NEW p \in 0..Len(s), p # 0 PROVE p \in 1..Len(s)
      BY <2>1, <2>2
    <3> QED BY <1>0
  <2> HIDE DEF step, r
  <2> QED BY <2>3 DEF LeftOut
<1>4. r = F(r)
  BY <1>3
<1>5. Unescaped(s) = r[Len(s)]
  BY DEF Unescaped
<1> HIDE DEF r
<1>6. ReadSteps(s, r)
  <2>1. r[0] = <<>>
    BY <1>0, <1>4
  <2>2. \A p \in 1..Len(s) : r[p] = IF LeftOut(s, p) THEN r[p - 1] ELSE Append(r[p - 1], s[p])
    <3> SUFFICES ASSUME NEW p \in 1..Len(s)
                 PROVE  r[p] = IF LeftOut(s, p) THEN r[p - 1] ELSE Append(r[p - 1], s[p])
      OBVIOUS
    <3> p \in 0..Len(s) /\ p # 0
      BY <1>0
    <3> QED BY <1>4 DEF LeftOut
  <2> QED BY <2>1, <2>2 DEF ReadSteps
<1> DEFINE U == {p \in Nat : p <= Len(s) => r[p] \in Seq(T)}
<1>7. \A p \in Nat : p \in U
  <2>1. 0 \in U
    <3>1. r[0] = <<>> /\ <<>> \in Seq(T)
      BY <1>6 DEF ReadSteps
    <3> QED BY <3>1
  <2>2. ASSUME NEW p \in Nat, p \in U PROVE p + 1 \in U
    <3> SUFFICES ASSUME p + 1 \in 1..Len(s) PROVE r[p + 1] \in Seq(T)
      OBVIOUS
    <3>1. r[p] \in Seq(T) /\ s[p + 1] \in T
      BY <2>2, <1>0
    <3>2. r[p + 1] = IF LeftOut(s, p + 1) THEN r[p] ELSE Append(r[p], s[p + 1])
      BY <1>6 DEF ReadSteps
    <3> QED BY <3>1, <3>2
  <2> HIDE DEF U
  <2> QED BY <2>1, <2>2, InductionOnSets
<1>8. r \in [0..Len(s) -> Seq(T)]
  <2> \A p \in 0..Len(s) : r[p] \in Seq(T)
    BY <1>7, <1>0
  <2> DOMAIN r = 0..Len(s) /\ r = [p \in DOMAIN r |-> r[p]]
    BY <1>4
  <2> HIDE DEF U
  <2> QED OBVIOUS
<1> QED BY <1>5, <1>6, <1>8

LEMMA ReadNothing == Unescaped(<<>>) = <<>>
<1> DEFINE s == <<>>
<1>1. s \in Seq({}) /\ Len(s) = 0
  OBVIOUS
<1> HIDE DEF s
<1>2. PICK c : ReadSteps(s, c) /\ Unescaped(s) = c[Len(s)]
  BY <1>1, ReadBy
<1> QED BY <1>1, <1>2 DEF ReadSteps, s

\* One more byte is read, or is left out behind two zeros.
LEMMA ReadAppend ==
  ASSUME NEW T, NEW s \in Seq(T), NEW x \in T
  PROVE  Unescaped(Append(s, x)) =
           IF Len(s) > 1 /\ x = 3 /\ s[Len(s)] = 0 /\ s[Len(s) - 1] = 0
             THEN Unescaped(s) ELSE Append(Unescaped(s), x)
<1> DEFINE t == Append(s, x)
<1>1. /\ t \in Seq(T) /\ Len(t) = Len(s) + 1 /\ Len(s) \in Nat /\ t[Len(s) + 1] = x
      /\ \A p \in 1..Len(s) : t[p] = s[p]
  OBVIOUS
<1> HIDE DEF t
<1>2. PICK c : ReadSteps(s, c) /\ Unescaped(s) = c[Len(s)]
  BY ReadBy
<1>3. PICK d : ReadSteps(t, d) /\ Unescaped(t) = d[Len(t)]
  BY <1>1, ReadBy
<1> DEFINE U == {p \in Nat : p <= Len(s) => d[p] = c[p]}
<1>4. \A p \in Nat : p \in U
  <2>1. 0 \in U
    BY <1>2, <1>3 DEF ReadSteps
  <2>2. ASSUME NEW p \in Nat, p \in U PROVE p + 1 \in U
    <3> SUFFICES ASSUME p + 1 <= Len(s) PROVE d[p + 1] = c[p + 1]
      OBVIOUS
    <3>1. p + 1 \in 1..Len(s) /\ p + 1 \in 1..Len(t) /\ p + 1 - 1 = p
      BY <1>1
    <3>2. d[p] = c[p] /\ t[p + 1] = s[p + 1]
      BY <1>1, <3>1, <2>2
    <3>3. LeftOut(t, p + 1) <=> LeftOut(s, p + 1)
      <4>1. CASE p + 1 > 2
        <5> p + 1 - 1 \in 1..Len(s) /\ p + 1 - 2 \in 1..Len(s)
          BY <1>1, <3>1, <4>1
        <5> QED BY <1>1, <3>1 DEF LeftOut
      <4> QED BY <4>1 DEF LeftOut
    <3> QED BY <3>1, <3>2, <3>3, <1>2, <1>3 DEF ReadSteps
  <2> HIDE DEF U
  <2> QED BY <2>1, <2>2, InductionOnSets
<1>5. d[Len(s)] = c[Len(s)]
  BY <1>1, <1>4
<1>6. d[Len(s) + 1] = IF LeftOut(t, Len(s) + 1) THEN d[Len(s)] ELSE Append(d[Len(s)], x)
  <2> Len(s) + 1 \in 1..Len(t) /\ Len(s) + 1 - 1 = Len(s)
    BY <1>1
  <2> QED BY <1>1, <1>3 DEF ReadSteps
<1>7. LeftOut(t, Len(s) + 1) <=> Len(s) > 1 /\ x = 3 /\ s[Len(s)] = 0 /\ s[Len(s) - 1] = 0
  <2>1. CASE Len(s) > 1
    <3> /\ Len(s) \in 1..Len(s) /\ Len(s) - 1 \in 1..Len(s)
        /\ Len(s) + 1 - 1 = Len(s) /\ Len(s) + 1 - 2 = Len(s) - 1 /\ Len(s) + 1 > 2
      BY <1>1, <2>1
    <3> QED BY <1>1 DEF LeftOut
  <2>2. CASE ~(Len(s) > 1)
    <3> ~(Len(s) + 1 > 2)
      BY <1>1, <2>2
    <3> QED BY <2>2 DEF LeftOut
  <2> QED BY <2>1, <2>2
<1> QED BY <1>1, <1>2, <1>3, <1>5, <1>6, <1>7 DEF t

\* What the handler has written behind the header, and the frame so far.
Payload == SubSeq(nals, Offset + 1, Len(nals))
SoFar   == [k \in 1..(byte - 1) |-> At(frame, k)]

LEMMA AppendedTail ==
  ASSUME NEW T, NEW s \in Seq(T), NEW x \in T, NEW m \in Nat, NEW n \in Nat, Len(s) = n, m <= n
  PROVE  SubSeq(Append(s, x), m + 1, n + 1) = Append(SubSeq(s, m + 1, n), x)
<1> DEFINE t == Append(s, x)  a == SubSeq(t, m + 1, n + 1)  b == Append(SubSeq(s, m + 1, n), x)
<1>1. n \in Nat /\ t \in Seq(T) /\ Len(t) = n + 1 /\ t[n + 1] = x /\ \A i \in 1..n : t[i] = s[i]
  OBVIOUS
<1>2. /\ SubSeq(s, m + 1, n) \in Seq(T) /\ Len(SubSeq(s, m + 1, n)) = n - m
      /\ \A i \in 1..(n - m) : SubSeq(s, m + 1, n)[i] = s[m + i]
  <2>1. \A i \in 1..(n - m) : m + 1 + i - 1 = m + i /\ m + i \in 1..n
    BY <1>1
  <2>2. n - m \in Nat /\ n + 1 - (m + 1) = n - m
    BY <1>1
  <2> QED BY <1>1, <2>1, <2>2
<1>3. b \in Seq(T) /\ Len(b) = n - m + 1 /\ b[n - m + 1] = x /\ \A i \in 1..(n - m) : b[i] = s[m + i]
  <2> DEFINE c == SubSeq(s, m + 1, n)
  <2>1. c \in Seq(T) /\ Len(c) = n - m /\ \A i \in 1..(n - m) : c[i] = s[m + i]
    BY <1>2
  <2> HIDE DEF c
  <2>2. Append(c, x) \in Seq(T) /\ Len(Append(c, x)) = n - m + 1 /\ Append(c, x)[n - m + 1] = x
        /\ \A i \in 1..(n - m) : Append(c, x)[i] = s[m + i]
    BY <2>1, <1>1
  <2> QED BY <2>2 DEF c
<1>4. a \in Seq(T) /\ Len(a) = n - m + 1 /\ \A i \in 1..(n - m + 1) : a[i] = t[m + i]
  <2> HIDE DEF t
  <2>1. \A i \in 1..(n - m + 1) : m + 1 + i - 1 = m + i /\ m + i \in 1..(n + 1)
    BY <1>1
  <2>2. n - m + 1 \in Nat /\ n + 1 - (m + 1) + 1 = n - m + 1 /\ n \in Nat
    BY <1>1
  <2> QED BY <1>1, <2>1, <2>2
<1>5. ASSUME NEW i \in 1..(n - m + 1) PROVE a[i] = b[i]
  <2> HIDE DEF a, b, t
  <2>1. CASE i \in 1..(n - m)
    <3> m + i \in 1..n
      BY <1>1, <2>1
    <3> QED BY <1>1, <1>3, <1>4, <2>1
  <2>2. CASE i = n - m + 1
    <3> m + i = n + 1
      BY <1>1, <2>2
    <3> QED BY <1>1, <1>3, <1>4, <2>2
  <2> QED BY <1>1, <2>1, <2>2
<1> HIDE DEF a, b
<1>6. a = b
  BY <1>3, <1>4, <1>5
<1> QED BY <1>6 DEF a, b

\* The same with names the provers leave alone.
Longer(s, x)  == Append(s, x)
Part(s, m, n) == SubSeq(s, m + 1, n)

LEMMA LongerIs ==
  ASSUME NEW T, NEW s \in Seq(T), NEW x \in T
  PROVE  /\ Longer(s, x) \in Seq(T) /\ Len(Longer(s, x)) = Len(s) + 1
         /\ Longer(s, x)[Len(s) + 1] = x
BY DEF Longer

LEMMA PartOfLonger ==
  ASSUME NEW T, NEW s \in Seq(T), NEW x \in T, NEW m \in Nat, NEW n \in Nat, Len(s) = n, m <= n
  PROVE  Part(Longer(s, x), m, n + 1) = Longer(Part(s, m, n), x)
BY AppendedTail DEF Part, Longer

LEMMA ReadLonger ==
  ASSUME NEW T, NEW s \in Seq(T), NEW x \in T
  PROVE  Unescaped(Longer(s, x)) =
           IF Len(s) > 1 /\ x = 3 /\ s[Len(s)] = 0 /\ s[Len(s) - 1] = 0
             THEN Unescaped(s) ELSE Longer(Unescaped(s), x)
BY ReadAppend DEF Longer

LEMMA EncapsulateReads ==
  ASSUME IInv, NEW idr \in BOOLEAN, NEW m \in 0..MaxLen, NEW f \in [1..m -> Bytes],
         Encapsulate(idr, f)
  PROVE  RoundTrip'
<1> USE NalAssumption
<1> DEFINE h == Header(idr, frame_decode_num)  a == At(f, 1)  b == At(f, 2)  n == Offset'  B == 0..255
<1>1. /\ pc' = "escape" /\ frame' = f /\ byte' = 3 /\ nals' = h \o <<a, b>>
      /\ n = HeaderLen(idr) /\ n \in Nat
  BY DEF Encapsulate, Offset, HeaderLen
<1>2. a \in B /\ b \in B
  <2>1. \A k \in {1, 2} : At(f, k) = 0 \/ At(f, k) \in Bytes
    BY DEF At
  <2>2. Bytes \cup {0} \subseteq B
    BY NalAssumption
  <2>3. At(f, 1) \in Bytes \cup {0} /\ At(f, 2) \in Bytes \cup {0}
    BY <2>1
  <2> QED BY <2>2, <2>3
<1>3. h \in Seq(B) /\ Len(h) = n
  <2>1. frame_decode_num \in Nat
    BY DEF IInv, TypeOK
  <2> HIDE DEF n
  <2> QED BY <1>1, <2>1, HeaderBytes
<1> HIDE DEF h, a, b, n, B
<1>4. nals' = Longer(Longer(h, a), b) /\ Longer(h, a) \in Seq(B) /\ Len(Longer(h, a)) = n + 1
      /\ Len(nals') = n + 2
  <2>1. nals' = Longer(Longer(h, a), b)
    BY <1>1, <1>2, <1>3 DEF Longer
  <2>2. Longer(h, a) \in Seq(B) /\ Len(Longer(h, a)) = n + 1
    BY <1>2, <1>3, LongerIs
  <2>3. Len(Longer(Longer(h, a), b)) = n + 1 + 1
    <3> DEFINE g == Longer(h, a)
    <3>1. g \in Seq(B) /\ Len(g) = n + 1
      BY <2>2
    <3> HIDE DEF g
    <3>2. Len(Longer(g, b)) = Len(g) + 1
      BY <1>2, <3>1, LongerIs
    <3> QED BY <3>1, <3>2 DEF g
  <2> QED BY <1>1, <2>1, <2>2, <2>3
<1>5. Part(nals', n, n + 2) = Longer(Longer(<<>>, a), b)
  <2>1. Part(h, n, n) = <<>>
    BY <1>1, <1>3 DEF Part
  <2>2. Part(Longer(h, a), n, n + 1) = Longer(<<>>, a)
    BY <1>1, <1>2, <1>3, <2>1, PartOfLonger
  <2>3. Part(Longer(Longer(h, a), b), n, n + 1 + 1) = Longer(Part(Longer(h, a), n, n + 1), b)
    <3> DEFINE g == Longer(h, a)  k == n + 1
    <3>1. g \in Seq(B) /\ b \in B /\ n \in Nat /\ k \in Nat /\ Len(g) = k /\ n <= k
      BY <1>1, <1>2, <1>4
    <3> HIDE DEF g, k
    <3>2. Part(Longer(g, b), n, k + 1) = Longer(Part(g, n, k), b)
      BY <3>1, PartOfLonger
    <3> QED BY <3>2 DEF g, k
  <2>4. n + 1 + 1 = n + 2
    BY <1>1
  <2> QED BY <1>4, <2>2, <2>3, <2>4
<1>6. Unescaped(Longer(Longer(<<>>, a), b)) = <<a, b>>
  <2>1. <<>> \in Seq(B) /\ Len(<<>>) = 0 /\ Longer(<<>>, a) \in Seq(B) /\ Len(Longer(<<>>, a)) = 1
    BY <1>2 DEF Longer
  <2>2. Unescaped(Longer(<<>>, a)) = Longer(<<>>, a)
    <3> DEFINE e == <<>>
    <3>1. e \in Seq(B) /\ Len(e) = 0 /\ Unescaped(e) = e
      BY <2>1, ReadNothing
    <3> HIDE DEF e
    <3>2. Unescaped(Longer(e, a)) = Longer(e, a)
      <4>1. Unescaped(Longer(e, a)) =
              IF Len(e) > 1 /\ a = 3 /\ e[Len(e)] = 0 /\ e[Len(e) - 1] = 0
                THEN Unescaped(e) ELSE Longer(Unescaped(e), a)
        BY ONLY <1>2, <3>1, ReadLonger
      <4>2. ~(Len(e) > 1)
        BY ONLY <3>1
      <4> QED BY ONLY <3>1, <4>1, <4>2
    <3> QED BY <3>2 DEF e
  <2>3. Unescaped(Longer(Longer(<<>>, a), b)) = Longer(Longer(<<>>, a), b)
    <3> DEFINE g == Longer(<<>>, a)
    <3>1. g \in Seq(B) /\ Len(g) = 1 /\ Unescaped(g) = g
      BY <2>1, <2>2
    <3> HIDE DEF g
    <3>2. ~(Len(g) > 1)
      BY <3>1
    <3>3. Unescaped(Longer(g, b)) = Longer(Unescaped(g), b)
      <4>1. Unescaped(Longer(g, b)) =
              IF Len(g) > 1 /\ b = 3 /\ g[Len(g)] = 0 /\ g[Len(g) - 1] = 0
                THEN Unescaped(g) ELSE Longer(Unescaped(g), b)
        BY ONLY <1>2, <3>1, ReadLonger
      <4> QED BY ONLY <3>2, <4>1
    <3> QED BY <3>1, <3>3 DEF g
  <2> QED BY <1>2, <2>3 DEF Longer
<1>7. <<a, b>> = [k \in 1..2 |-> At(f, k)]
  <2>1. \A k \in 1..2 : <<a, b>>[k] = At(f, k)
    BY DEF a, b
  <2> QED BY <2>1
<1>8. Payload' = <<a, b>> /\ SoFar' = [k \in 1..2 |-> At(f, k)] /\ Unescaped(Payload') = <<a, b>>
  <2>1. Payload' = Part(nals', n, n + 2)
    <3>1. Payload' = Part(nals', n, Len(nals'))
      BY DEF Payload, Part, n
    <3> QED BY <1>4, <3>1
  <2>2. SoFar' = [k \in 1..2 |-> At(f, k)]
    BY <1>1 DEF SoFar
  <2>3. Longer(Longer(<<>>, a), b) = <<a, b>>
    <3>1. Append(Append(<<>>, a), b) = <<a, b>>
      <4> DEFINE y == Append(Append(<<>>, a), b)  z == <<a, b>>
      <4>1. y \in Seq(B) /\ Len(y) = 2 /\ y[1] = a /\ y[2] = b
        BY <1>2
      <4>2. z \in Seq(B) /\ Len(z) = 2 /\ z[1] = a /\ z[2] = b
        BY <1>2
      <4>3. \A i \in 1..2 : i = 1 \/ i = 2
        OBVIOUS
      <4> HIDE DEF y, z
      <4>4. y = z
        BY <4>1, <4>2, <4>3
      <4> QED BY <4>4 DEF y, z
    <3> QED BY ONLY <3>1 DEF Longer
  <2> QED BY <1>5, <1>6, <2>1, <2>2, <2>3
<1> QED BY <1>7, <1>8 DEF RoundTrip, Payload, SoFar

LEMMA ByteReads == ASSUME IInv, RoundTrip, EscapeByte PROVE RoundTrip'
<1> USE NalAssumption
<1> DEFINE n == Len(nals)  x == frame[byte]  B == 0..255  o == Offset
<1>1. /\ pc = "escape" /\ byte \in 1..Len(frame) /\ byte' = byte + 1 /\ pc' = pc /\ frame' = frame
      /\ byte \in Nat /\ byte >= 3
  BY DEF EscapeByte, IInv, TypeOK
<1>2. /\ n \in Nat /\ n >= o + 2 /\ o \in Nat /\ Offset' = o /\ nals \in Seq(B)
  BY <1>1, OffsetValue DEF IInv, TypeOK, Filled, Offset, EscapeByte
<1>3. x \in B /\ x = At(frame, byte) /\ 3 \in B
  <2>1. frame \in Seq(Bytes)
    BY DEF IInv, TypeOK
  <2>2. x \in Bytes /\ 3 \in B
    BY <1>1, <2>1
  <2>3. x = At(frame, byte)
    BY <1>1 DEF At
  <2>4. x \in B
    BY <2>2
  <2> HIDE DEF x, B
  <2> QED BY <2>2, <2>3, <2>4
<1>4. Escapes <=> x <= 3 /\ nals[n] = 0 /\ nals[n - 1] = 0
  BY DEF Escapes, Zeros
<1> HIDE DEF n, x, B, o
<1>5. Payload \in Seq(B) /\ Len(Payload) = n - o /\ Len(Payload) > 1
      /\ Payload[Len(Payload)] = nals[n] /\ Payload[Len(Payload) - 1] = nals[n - 1]
  <2>1. n - o \in Nat /\ n - o >= 2 /\ o + 1 \in 1..n /\ n - (o + 1) + 1 = n - o
        /\ o + 1 + (n - o) - 1 = n /\ o + 1 + (n - o - 1) - 1 = n - 1
        /\ n - o \in 1..(n - o) /\ n - o - 1 \in 1..(n - o)
    BY <1>2
  <2> DEFINE t == SubSeq(nals, o + 1, n)
  <2>2. t \in Seq(B) /\ Len(t) = n - o /\ t[n - o] = nals[n] /\ t[n - o - 1] = nals[n - 1]
    <3>1. n = Len(nals)
      BY DEF n
    <3> DEFINE d == n - o
    <3>2. d \in Nat /\ t \in Seq(B) /\ Len(t) = d /\ \A i \in 1..d : t[i] = nals[o + i]
      <4>1. \A i \in 1..d : o + 1 + i - 1 = o + i /\ o + i \in 1..n
        BY <1>2
      <4> QED BY <1>2, <2>1, <3>1, <4>1
    <3>3. d \in 1..d /\ d - 1 \in 1..d /\ o + d = n /\ o + (d - 1) = n - 1
      BY <1>2
    <3> HIDE DEF t
    <3> QED BY <3>2, <3>3
  <2>3. Payload = t
    BY DEF Payload, n, o
  <2> HIDE DEF t
  <2> QED BY <2>1, <2>2, <2>3
<1>6. Unescaped(Payload) = SoFar
  BY <1>1 DEF RoundTrip, Payload, SoFar
<1>7. SoFar' = Append(SoFar, x)
  <2> DEFINE g == SoFar
  <2>1. g = [k \in 1..(byte - 1) |-> At(frame, k)] /\ byte - 1 \in Nat
        /\ SoFar' = [k \in 1..byte |-> At(frame, k)]
    BY <1>1 DEF SoFar
  <2>2. Len(g) = byte - 1 /\ Append(g, x) = [k \in 1..byte |-> IF k = byte THEN x ELSE g[k]]
    BY <1>1, <2>1
  <2> HIDE DEF g
  <2>3. \A k \in 1..byte : At(frame, k) = (IF k = byte THEN x ELSE g[k])
    BY <1>1, <1>3, <2>1
  <2>4. SoFar' = Append(g, x)
    BY <2>1, <2>2, <2>3
  <2> QED BY <2>4 DEF g
<1>8. Unescaped(Payload') = Longer(Unescaped(Payload), x)
  <2>1. CASE ~Escapes
    <3>1. nals' = Longer(nals, x) /\ Len(nals') = n + 1
      <4>1. nals' = Longer(nals, x)
        BY <2>1 DEF EscapeByte, x, Longer
      <4> QED BY <1>2, <1>3, <4>1, LongerIs DEF n
    <3>2. Payload' = Longer(Payload, x)
      <4>1. Part(nals', o, n + 1) = Longer(Part(nals, o, n), x)
        <5> n = Len(nals) /\ o <= n
          BY <1>2 DEF n
        <5> QED BY <1>2, <1>3, <3>1, PartOfLonger
      <4> QED BY <1>2, <3>1, <4>1 DEF Payload, Part, n, o
    <3>3. ~(x = 3 /\ Payload[Len(Payload)] = 0 /\ Payload[Len(Payload) - 1] = 0)
      BY <1>4, <1>5, <2>1
    <3> QED BY <1>3, <1>5, <3>2, <3>3, ReadLonger
  <2>2. CASE Escapes
    <3> DEFINE t == Longer(nals, 3)  q == Longer(Payload, 3)
    <3>1. t \in Seq(B) /\ Len(t) = n + 1
      BY <1>2, <1>3, LongerIs DEF n
    <3>2. nals' = Longer(t, x) /\ Len(nals') = n + 2
      <4>1. nals' = nals \o <<3, x>>
        BY <2>2 DEF EscapeByte, x
      <4>2. nals' = Longer(t, x)
        BY <1>2, <1>3, <4>1 DEF Longer
      <4>3. Len(Longer(t, x)) = n + 1 + 1
        <5> HIDE DEF t
        <5>1. Len(Longer(t, x)) = Len(t) + 1
          BY <1>3, <3>1, LongerIs
        <5> QED BY <3>1, <5>1
      <4> QED BY <1>2, <4>2, <4>3
    <3>3. q \in Seq(B) /\ Len(q) = Len(Payload) + 1 /\ q[Len(q)] = 3 /\ Len(Payload) \in Nat
      <4>1. q \in Seq(B) /\ Len(q) = Len(Payload) + 1 /\ q[Len(Payload) + 1] = 3
        BY <1>3, <1>5, LongerIs
      <4>2. Len(Payload) \in Nat
        BY <1>2, <1>5
      <4> QED BY <4>1, <4>2
    <3>4. Part(t, o, n + 1) = q
      <4>1. Part(t, o, n + 1) = Longer(Part(nals, o, n), 3)
        <5> n = Len(nals) /\ o <= n
          BY <1>2 DEF n
        <5> QED BY <1>2, <1>3, PartOfLonger
      <4> QED BY <4>1 DEF Payload, Part, n, o
    <3>5. Unescaped(q) = Unescaped(Payload)
      BY <1>3, <1>4, <1>5, <2>2, ReadLonger
    <3> HIDE DEF t, q
    <3>6. Payload' = Longer(q, x)
      <4>1. Part(Longer(t, x), o, n + 1 + 1) = Longer(Part(t, o, n + 1), x)
        <5> DEFINE k == n + 1
        <5>1. k \in Nat /\ o <= k /\ Len(t) = k
          BY <1>2, <3>1
        <5> HIDE DEF k
        <5>2. Part(Longer(t, x), o, k + 1) = Longer(Part(t, o, k), x)
          BY <1>2, <1>3, <3>1, <5>1, PartOfLonger
        <5> QED BY <5>2 DEF k
      <4>2. Payload' = Part(nals', o, n + 2)
        BY <1>2, <3>2 DEF Payload, Part, o
      <4>3. n + 1 + 1 = n + 2
        BY <1>2
      <4> QED BY <3>2, <3>4, <4>1, <4>2, <4>3
    <3>7. Unescaped(Longer(q, x)) = Longer(Unescaped(q), x)
      BY <1>3, <3>3, ReadLonger
    <3> QED BY <3>5, <3>6, <3>7
  <2> QED BY <2>1, <2>2
<1> QED BY <1>6, <1>7, <1>8 DEF RoundTrip, Payload, SoFar, Longer

\* For frames of every length and content: a decoder that takes out every 3 behind two
\* zeros has the frame again, at every turn of the loop of h264_nal_encapsulate.
THEOREM RoundTripHolds == Spec => []RoundTrip
<1>1. Init => RoundTrip
  BY DEF Init, RoundTrip
<1>2. IInv /\ RoundTrip /\ [Next]_vars => RoundTrip'
  <2> SUFFICES ASSUME IInv, RoundTrip, [Next]_vars PROVE RoundTrip'
    OBVIOUS
  <2>1. ASSUME NEW idr \in BOOLEAN, NEW m \in 0..MaxLen, NEW f \in [1..m -> Bytes],
               Encapsulate(idr, f)
        PROVE  RoundTrip'
    BY <2>1, EncapsulateReads
  <2>2. CASE EscapeByte
    BY <2>2, ByteReads
  <2>3. CASE Done
    BY <2>3 DEF Done, RoundTrip
  <2>4. CASE UNCHANGED vars
    BY <2>4 DEF vars, RoundTrip, Offset
  <2> QED BY <2>1, <2>2, <2>3, <2>4 DEF Next
<1> QED BY <1>1, <1>2, Inductive, PTL DEF Spec

-----------------------------------------------------------------------------
(* The path of a picture. *)

\* The thread that takes a picture on its way wraps frames as NalEscape says: what
\* holds of the buffer there holds of it here.
THEOREM PathWraps == PathSpec => Spec
<1>1. PathInit => Init
  BY DEF PathInit
<1>2. [PathNext]_pathVars => [Next]_vars
  <2> SUFFICES ASSUME [PathNext]_pathVars PROVE [Next]_vars
    OBVIOUS
  <2>1. CASE Wrap
    <3>1. Longest \in 0..MaxLen
      BY NalAssumption, PictureAssumption DEF Longest
    <3>2. PICK idr \in BOOLEAN, n \in 0..Longest : \E f \in [1..n -> Bytes] : Encapsulate(idr, f)
      BY <2>1 DEF Wrap
    <3>3. n \in 0..MaxLen
      BY <3>1, NalAssumption
    <3> QED BY <3>2, <3>3 DEF Next
  <2>2. CASE Escape
    BY <2>2 DEF Escape, Next
  <2>3. CASE Free
    BY <2>3 DEF Free, Next
  <2>4. CASE Connect \/ Encode \/ SendFails
    BY <2>4 DEF Connect, Encode, SendFails
  <2>5. ASSUME NEW got_frame \in BOOLEAN, Image(got_frame) PROVE UNCHANGED vars
    BY <2>5 DEF Image
  <2>6. ASSUME NEW sent \in 1..remaining, Send(sent) PROVE UNCHANGED vars
    BY <2>6 DEF Send
  <2>7. CASE UNCHANGED pathVars
    BY <2>7 DEF pathVars
  <2> QED BY <2>1, <2>2, <2>3, <2>4, <2>5, <2>6, <2>7 DEF PathNext
<1> QED BY <1>1, <1>2, PTL DEF PathSpec, Spec

Written == [picture : Int, given : BOOLEAN, bytes : Nat]

\* What the image shows is never newer than the last picture the decoder gave.
PathIInv ==
  /\ PathTypeOK /\ image_rgb <= out_frame
  /\ written \in Seq(Written) /\ PicturesInOrder

\* The steps that leave the pictures alone.
Elsewhere == UNCHANGED <<out_frame, image_rgb, written>>

LEMMA PathTypes == ASSUME PathTypeOK, TypeOK', [PathNext]_pathVars PROVE PathTypeOK'
<1> USE NalAssumption, PictureAssumption
<1>1. CASE Wrap \/ Escape
  BY <1>1 DEF Wrap, Escape, pictureVars, PathTypeOK
<1>2. CASE Connect
  BY <1>2 DEF Connect, PathTypeOK
<1>3. ASSUME NEW got_frame \in BOOLEAN, Image(got_frame) PROVE PathTypeOK'
  <2>1. frame_decode_num \in 0..MaxFrames /\ out_frame \in -1..MaxFrames /\ image_rgb \in -2..MaxFrames
        /\ MaxFrames \in Nat
    BY DEF PathTypeOK, TypeOK
  <2>2. out_frame' \in -1..MaxFrames /\ image_rgb' \in -2..MaxFrames
    <3>1. CASE got_frame
      BY <1>3, <2>1, <3>1 DEF Image, Copied
    <3>2. CASE ~got_frame
      BY <1>3, <2>1, <3>2 DEF Image, Blank, Jumble
    <3> QED BY <3>1, <3>2
  <2> QED BY <1>3, <2>2 DEF Image, PathTypeOK
<1>4. CASE Encode
  <2> DEFINE B == 0..255
  <2>1. Jpeg(image_rgb) \in Seq(B)
    BY DEF PathTypeOK
  <2>2. PACKET_DELIMITER \in Seq(B)
    BY DEF PACKET_DELIMITER
  <2>3. packet' = PACKET_DELIMITER \o Jpeg(image_rgb)
    BY <1>4 DEF Encode
  <2>4. packet' \in Seq(B) /\ Len(packet') \in Nat
    <3> HIDE DEF B
    <3> QED BY <2>1, <2>2, <2>3
  <2>5. remaining' \in 0..Len(packet')
    BY <1>4, <2>4 DEF Encode
  <2> QED BY <1>4, <2>4, <2>5 DEF Encode, PathTypeOK
<1>5. ASSUME NEW sent \in 1..remaining, Send(sent) PROVE PathTypeOK'
  <2>1. packet \in Seq(0..255) /\ remaining \in 0..Len(packet) /\ packet' = packet /\ remaining' = remaining - sent
    BY <1>5 DEF Send, PathTypeOK
  <2>2. Len(packet) \in Nat
    BY <2>1
  <2>3. remaining' \in 0..Len(packet')
    BY <2>1, <2>2
  <2> QED BY <1>5, <2>3 DEF Send, PathTypeOK
<1>6. CASE SendFails
  <2>1. remaining' = 0 /\ Len(packet') \in Nat
    BY <1>6 DEF SendFails, PathTypeOK
  <2>2. remaining' \in 0..Len(packet') /\ tries' \in 0..TriesAllowed
    BY <1>6, <2>1 DEF SendFails, PathTypeOK
  <2> QED BY <1>6, <2>2 DEF SendFails, PathTypeOK
<1>7. CASE Free
  <2>1. packet' \in Seq(0..255) /\ remaining' = 0 /\ Len(packet') = 0
    BY <1>7 DEF Free
  <2>2. remaining' \in 0..Len(packet')
    BY <2>1
  <2> QED BY <1>7, <2>1, <2>2 DEF Free, PathTypeOK
<1>8. CASE UNCHANGED pathVars
  BY <1>8 DEF pathVars, pictureVars, PathTypeOK
<1> QED BY <1>1, <1>2, <1>3, <1>4, <1>5, <1>6, <1>7, <1>8 DEF PathNext

\* A packet begun adds its picture to what was written.
LEMMA NewPicture ==
  ASSUME PathIInv, NEW got_frame \in BOOLEAN, Image(got_frame)
  PROVE  image_rgb' <= out_frame' /\ written' \in Seq(Written) /\ PicturesInOrder'
<1> USE NalAssumption, PictureAssumption
<1>1. /\ out_frame \in Int /\ out_frame >= -1 /\ image_rgb \in Int /\ image_rgb <= out_frame
      /\ frame_decode_num \in Int
  BY DEF PathIInv, PathTypeOK, TypeOK
<1>2. /\ out_frame' \in Int /\ image_rgb' \in Int /\ image_rgb' <= out_frame' /\ out_frame <= out_frame'
      /\ got_frame => image_rgb' > out_frame /\ image_rgb' >= 0
  <2>1. CASE got_frame
    BY <1>1, <2>1 DEF Image, Copied
  <2>2. CASE ~got_frame
    BY <1>1, <2>2 DEF Image, Blank, Jumble
  <2> QED BY <2>1, <2>2
<1>3. /\ written \in Seq(Written)
      /\ \A k \in 1..Len(written) :
           /\ written[k] \in Written /\ written[k].picture \in Int /\ written[k].picture <= out_frame
           /\ written[k].given => /\ written[k].picture >= 0
                                  /\ \A i \in 1..(k - 1) : written[i].picture < written[k].picture
  <2>1. written \in Seq(Written) /\ DOMAIN written = 1..Len(written)
    BY DEF PathIInv
  <2>2. \A k \in 1..Len(written) : written[k] \in Written
    BY <2>1
  <2>3. \A w \in Written : w.picture \in Int
    BY DEF Written
  <2> QED BY <2>1, <2>2, <2>3 DEF PathIInv, PicturesInOrder
<1> DEFINE n == Len(written)  w == [picture |-> image_rgb', given |-> got_frame, bytes |-> 0]
<1>4. CASE client = "open"
  <2>1. w \in Written /\ w.picture = image_rgb' /\ w.given = got_frame
    BY <1>2 DEF Written
  <2>2. written' = Append(written, w)
    BY <1>4 DEF Image
  <2> HIDE DEF w
  <2>3. /\ n \in Nat /\ written' \in Seq(Written) /\ Len(written') = n + 1 /\ written'[n + 1] = w
        /\ \A k \in 1..n : written'[k] = written[k]
    BY <1>3, <2>1, <2>2
  <2> HIDE DEF n
  <2>4. ASSUME NEW k \in 1..(n + 1)
        PROVE  /\ written'[k].picture <= out_frame'
               /\ written'[k].given => /\ written'[k].picture >= 0
                                       /\ \A i \in 1..(k - 1) : written'[i].picture < written'[k].picture
    <3>1. CASE k \in 1..n
      <4>1. written'[k] = written[k] /\ \A i \in 1..(k - 1) : i \in 1..n /\ written'[i] = written[i]
        BY <2>3, <3>1
      <4>2. /\ written[k].picture \in Int /\ written[k].picture <= out_frame
            /\ written[k].given => /\ written[k].picture >= 0
                                   /\ \A i \in 1..(k - 1) : written[i].picture < written[k].picture
        BY <1>3, <3>1 DEF n
      <4>3. written'[k].picture <= out_frame'
        BY <1>1, <1>2, <4>1, <4>2
      <4> QED BY <4>1, <4>2, <4>3
    <3>2. CASE k = n + 1
      <4>1. written'[k] = w /\ \A i \in 1..(k - 1) : i \in 1..n /\ written'[i] = written[i]
        BY <2>3, <3>2
      <4>2. ASSUME NEW i \in 1..(k - 1), got_frame PROVE written'[i].picture < image_rgb'
        <5>1. written'[i].picture = written[i].picture /\ i \in 1..n
          BY <4>1
        <5>2. written[i].picture \in Int /\ written[i].picture <= out_frame
          BY <1>3, <5>1 DEF n
        <5> QED BY <1>1, <1>2, <4>2, <5>1, <5>2
      <4> QED BY <1>2, <2>1, <4>1, <4>2
    <3> QED BY <2>3, <3>1, <3>2
  <2>5. DOMAIN written' = 1..(n + 1)
    BY <2>3
  <2> QED BY <1>2, <2>3, <2>4, <2>5 DEF PicturesInOrder
<1>5. CASE client # "open"
  <2>1. written' = written /\ DOMAIN written' = 1..Len(written)
    BY <1>3, <1>5 DEF Image
  <2>2. \A k \in 1..Len(written) : written[k].picture <= out_frame'
    BY <1>1, <1>2, <1>3
  <2> QED BY <1>2, <1>3, <2>1, <2>2 DEF PicturesInOrder
<1> QED BY <1>4, <1>5

\* The bytes sent of a packet are counted with it; its picture stays.
LEMMA CountedPicture ==
  ASSUME PathIInv, NEW sent \in 1..remaining, Send(sent)
  PROVE  image_rgb' <= out_frame' /\ written' \in Seq(Written) /\ PicturesInOrder'
<1> DEFINE n == Len(written)
<1>1. sent \in Nat
  BY DEF PathIInv, PathTypeOK
<1>2. /\ written' = [written EXCEPT ![n].bytes = @ + sent] /\ out_frame' = out_frame /\ image_rgb' = image_rgb
      /\ written \in Seq(Written)
  BY DEF Send, PathIInv
<1>3. \A k \in 1..n : written[k] \in Written
  BY <1>2
<1>4. DOMAIN written' = 1..n /\ n \in Nat /\ DOMAIN written = 1..n
  BY <1>2
<1>5. ASSUME NEW k \in 1..n
      PROVE  /\ written'[k] \in Written /\ written'[k].picture = written[k].picture
             /\ written'[k].given = written[k].given
  <2>1. CASE k = n
    <3> DEFINE v == written[k]
    <3>1. written'[k] = [v EXCEPT !.bytes = @ + sent] /\ v \in Written
      BY <1>2, <1>3, <1>4, <2>1
    <3> HIDE DEF v
    <3>2. \A u \in Written : [u EXCEPT !.bytes = @ + sent] \in Written
                             /\ [u EXCEPT !.bytes = @ + sent].picture = u.picture
                             /\ [u EXCEPT !.bytes = @ + sent].given = u.given
      BY <1>1 DEF Written
    <3> QED BY <3>1, <3>2 DEF v
  <2>2. CASE k # n
    BY <1>2, <1>3, <1>4, <2>2
  <2> QED BY <2>1, <2>2
<1>6. written' \in Seq(Written)
  <2>1. written' = [k \in 1..n |-> written'[k]]
    BY <1>2, <1>4
  <2> HIDE DEF n
  <2> QED BY <1>4, <1>5, <2>1
<1> HIDE DEF n
<1>7. PicturesInOrder'
  <2>1. \A k \in 1..n : \A i \in 1..(k - 1) : i \in 1..n
    BY <1>4
  <2> QED BY <1>2, <1>4, <1>5, <2>1 DEF PathIInv, PicturesInOrder
<1> QED BY <1>2, <1>6, <1>7 DEF PathIInv

LEMMA PathKeeps == ASSUME PathIInv, TypeOK', [PathNext]_pathVars PROVE PathIInv'
<1>1. PathTypeOK'
  BY PathTypes DEF PathIInv
<1>2. ASSUME NEW got_frame \in BOOLEAN, Image(got_frame) PROVE PathIInv'
  BY <1>1, <1>2, NewPicture DEF PathIInv
<1>3. ASSUME NEW sent \in 1..remaining, Send(sent) PROVE PathIInv'
  BY <1>1, <1>3, CountedPicture DEF PathIInv
<1>4. ASSUME Elsewhere PROVE PathIInv'
  BY <1>1, <1>4 DEF Elsewhere, PathIInv, PicturesInOrder
<1>5. CASE Connect \/ Wrap \/ Escape \/ Encode \/ SendFails \/ Free \/ UNCHANGED pathVars
  <2>1. Elsewhere
    BY <1>5 DEF Connect, Wrap, Escape, Encode, SendFails, Free, pathVars, pictureVars, Elsewhere
  <2> QED BY <1>4, <2>1
<1> QED BY <1>2, <1>3, <1>5 DEF PathNext

LEMMA PathInitInv == ASSUME PathInit PROVE PathIInv
<1> USE NalAssumption, PictureAssumption
<1>1. TypeOK
  BY InitInv DEF PathInit, IInv
<1>2. packet = <<>> /\ written = <<>> /\ remaining = 0 /\ Len(<<>>) = 0
      /\ <<>> \in Seq(0..255) /\ <<>> \in Seq(Written)
  BY DEF PathInit
<1>3. remaining \in 0..Len(packet)
  BY <1>2
<1>4. out_frame \in -1..MaxFrames /\ image_rgb \in -2..MaxFrames /\ image_rgb <= out_frame /\ tries \in 0..TriesAllowed
  BY DEF PathInit, Blank
<1>5. PathTypeOK
  BY <1>1, <1>2, <1>3, <1>4 DEF PathInit, PathTypeOK
<1>6. PicturesInOrder
  BY <1>2 DEF PicturesInOrder
<1> QED BY <1>2, <1>4, <1>5, <1>6 DEF PathIInv

THEOREM PathInductive == PathSpec => []PathIInv
<1>1. PathInit => PathIInv
  BY PathInitInv
<1>2. PathIInv /\ TypeOK' /\ [PathNext]_pathVars => PathIInv'
  BY PathKeeps
<1>3. PathSpec => []TypeOK
  BY PathWraps, TypeCorrect, PTL
<1> QED BY <1>1, <1>2, <1>3, PTL DEF PathSpec

\* The state of VideoHandlerWiiU::update behind a complete frame, and of
\* broadcast_media for a client, keeps its types.
THEOREM PathTypeCorrect == PathSpec => []PathTypeOK
<1>1. PathIInv => PathTypeOK
  BY DEF PathIInv
<1> QED BY <1>1, PathInductive, PTL

\* Whatever the decoder gives, and when: a client gets no picture that is newer than
\* the decoder's last, and one the decoder gave is newer than all before it.
THEOREM PicturesInOrderHolds == PathSpec => []PicturesInOrder
<1>1. PathIInv => PicturesInOrder
  BY DEF PathIInv
<1> QED BY <1>1, PathInductive, PTL

\* On the way of a picture too: no start code inside a frame, the size of the result,
\* and a decoder that reads back the frame.
THEOREM PathKeepsFrames == PathSpec => [](NoStartCode /\ EscapesMarked /\ SizeBound /\ RoundTrip)
BY PathWraps, NoStartCodeHolds, EscapesMarkedHolds, SizeBoundHolds, RoundTripHolds, PTL

-----------------------------------------------------------------------------
(* What a client finds its way in. *)

\* A number above all others is the last of them, and takes nothing from their places.
LEMMA RankTop ==
  ASSUME NEW S \in SUBSET Nat, IsFiniteSet(S), NEW x \in Nat, \A y \in S : y < x
  PROVE  /\ IsFiniteSet(S \cup {x}) /\ Cardinality(S \cup {x}) = Cardinality(S) + 1
         /\ Cardinality(S) \in Nat
         /\ Rank(S \cup {x}, x) = Cardinality(S) + 1
         /\ \A y \in S : Rank(S \cup {x}, y) = Rank(S, y) /\ Rank(S, y) \in Nat /\ Rank(S, y) <= Cardinality(S)
<1>1. x \notin S /\ x <= x
  OBVIOUS
<1>2. IsFiniteSet(S \cup {x}) /\ Cardinality(S \cup {x}) = Cardinality(S) + 1 /\ Cardinality(S) \in Nat
  BY <1>1, FS_AddElement, FS_CardinalityType
<1>3. {y \in S \cup {x} : y <= x} = S \cup {x}
  <2>1. \A y \in S \cup {x} : y <= x
    OBVIOUS
  <2> QED BY <2>1
<1>4. ASSUME NEW y \in S
      PROVE  Rank(S \cup {x}, y) = Rank(S, y) /\ Rank(S, y) \in Nat /\ Rank(S, y) <= Cardinality(S)
  <2> DEFINE R == {v \in S : v <= y}
  <2>1. ~(x <= y)
    OBVIOUS
  <2>2. {v \in S \cup {x} : v <= y} = R
    BY <2>1
  <2>3. R \in SUBSET S
    OBVIOUS
  <2> HIDE DEF R
  <2>4. IsFiniteSet(R) /\ Cardinality(R) <= Cardinality(S) /\ Cardinality(R) \in Nat
    BY <2>3, FS_Subset, FS_CardinalityType
  <2> QED BY <2>2, <2>4 DEF Rank, R
<1> QED BY <1>2, <1>3, <1>4 DEF Rank

\* A delimiter ends there.
EndAt(s, i) ==
  /\ 5 <= i /\ i <= Len(s) /\ s[i] = 10
  /\ s[i - 4] = 124 /\ s[i - 3] = 124 /\ s[i - 2] = 124 /\ s[i - 1] = 124

LEMMA EndsAre ==
  ASSUME NEW s, NEW i \in Nat, Len(s) \in Nat
  PROVE  i \in Ends(s) <=> EndAt(s, i)
<1>1. Len(PACKET_DELIMITER) = 5 /\ DOMAIN PACKET_DELIMITER = {1, 2, 3, 4, 5}
  BY DEF PACKET_DELIMITER
<1>2. /\ PACKET_DELIMITER[1] = 124 /\ PACKET_DELIMITER[2] = 124 /\ PACKET_DELIMITER[3] = 124
      /\ PACKET_DELIMITER[4] = 124 /\ PACKET_DELIMITER[5] = 10
  BY DEF PACKET_DELIMITER
<1>3. i - 5 + 1 = i - 4 /\ i - 5 + 2 = i - 3 /\ i - 5 + 3 = i - 2 /\ i - 5 + 4 = i - 1 /\ i - 5 + 5 = i
  OBVIOUS
<1>4. (\A j \in {1, 2, 3, 4, 5} : s[i - 5 + j] = PACKET_DELIMITER[j]) <=>
        /\ s[i] = 10
        /\ s[i - 4] = 124 /\ s[i - 3] = 124 /\ s[i - 2] = 124 /\ s[i - 1] = 124
  BY <1>2, <1>3
<1>5. i \in Ends(s) <=> i \in 5..Len(s) /\ \A j \in {1, 2, 3, 4, 5} : s[i - 5 + j] = PACKET_DELIMITER[j]
  BY <1>1 DEF Ends
<1> QED BY <1>4, <1>5 DEF EndAt

\* A packet with this picture, as far as c bytes of it, is at the end of t, from z + 1 on.
Cuts(t, z, picture, c) ==
  \A q \in 1..c : t[z + q] = IF q < 5 THEN 124 ELSE IF q = 5 THEN 10 ELSE picture[q - 5]

\* The end of its delimiter.
LEMMA OwnEnd ==
  ASSUME NEW t, NEW picture, NEW z \in Nat, NEW c \in Nat, Len(t) = z + c, Cuts(t, z, picture, c), 5 <= c
  PROVE  z + 5 \in Ends(t)
<1>1. 1 \in 1..c /\ 2 \in 1..c /\ 3 \in 1..c /\ 4 \in 1..c /\ 5 \in 1..c
  OBVIOUS
<1>2. t[z + 1] = 124 /\ t[z + 2] = 124 /\ t[z + 3] = 124 /\ t[z + 4] = 124 /\ t[z + 5] = 10
  BY <1>1 DEF Cuts
<1>3. z + 5 - 4 = z + 1 /\ z + 5 - 3 = z + 2 /\ z + 5 - 2 = z + 3 /\ z + 5 - 1 = z + 4
  OBVIOUS
<1>4. z + 5 \in Nat /\ 5 <= z + 5 /\ z + 5 <= Len(t) /\ Len(t) \in Nat
  OBVIOUS
<1>5. EndAt(t, z + 5)
  BY <1>2, <1>3, <1>4 DEF EndAt
<1> QED BY <1>4, <1>5, EndsAre

\* t is s and more of a packet that began behind z, with c bytes of it instead of b.
Onto(B, s, t, picture, z, b, c) ==
  /\ s \in Seq(B) /\ t \in Seq(B) /\ picture \in Seq(B)
  /\ z \in Nat /\ b \in Nat /\ c \in Nat /\ b < c /\ c <= 5 + Len(picture)
  /\ Len(s) = z + b /\ Len(t) = z + c /\ \A i \in 1..Len(s) : t[i] = s[i]
  /\ Cuts(t, z, picture, c)

\* The only new end of a delimiter is that of the packet's own.
LEMMA NewEnds ==
  ASSUME NEW B, NEW s, NEW t, NEW picture, NEW z, NEW b, NEW c,
         Onto(B, s, t, picture, z, b, c), Ends(picture) = {}
  PROVE  Ends(t) = Ends(s) \cup (IF b < 5 /\ 5 <= c THEN {z + 5} ELSE {})
<1>0. /\ s \in Seq(B) /\ t \in Seq(B) /\ picture \in Seq(B)
      /\ z \in Nat /\ b \in Nat /\ c \in Nat /\ b < c /\ c <= 5 + Len(picture)
      /\ Len(s) = z + b /\ Len(t) = z + c /\ \A i \in 1..Len(s) : t[i] = s[i]
      /\ Cuts(t, z, picture, c)
  BY DEF Onto
<1> USE <1>0
<1>1. Len(s) \in Nat /\ Len(t) \in Nat /\ Len(picture) \in Nat
  OBVIOUS
<1>2. Ends(s) \subseteq Nat /\ Ends(t) \subseteq Nat
  BY <1>1 DEF Ends, PACKET_DELIMITER
<1>3. ASSUME NEW i \in Nat, i <= z + b PROVE i \in Ends(t) <=> i \in Ends(s)
  <2>1. CASE i >= 5
    <3>1. i \in 1..Len(s) /\ i - 4 \in 1..Len(s) /\ i - 3 \in 1..Len(s) /\ i - 2 \in 1..Len(s) /\ i - 1 \in 1..Len(s)
      BY <1>3, <2>1
    <3>2. t[i] = s[i] /\ t[i - 4] = s[i - 4] /\ t[i - 3] = s[i - 3] /\ t[i - 2] = s[i - 2] /\ t[i - 1] = s[i - 1]
      BY <3>1
    <3>3. i <= Len(s) /\ i <= Len(t)
      BY <1>3
    <3>4. EndAt(t, i) <=> EndAt(s, i)
      BY <3>2, <3>3 DEF EndAt
    <3> QED BY <1>1, <3>4, EndsAre
  <2>2. CASE ~(i >= 5)
    <3>1. ~EndAt(t, i) /\ ~EndAt(s, i)
      BY <2>2 DEF EndAt
    <3> QED BY <1>1, <3>1, EndsAre
  <2> QED BY <2>1, <2>2
<1>4. ASSUME NEW q \in 1..c, q < 5 PROVE z + q \notin Ends(t)
  <2>1. t[z + q] = 124
    BY <1>4 DEF Cuts
  <2>2. z + q \in Nat
    OBVIOUS
  <2>3. ~EndAt(t, z + q)
    BY <2>1 DEF EndAt
  <2> QED BY ONLY <1>1, <2>2, <2>3, EndsAre
<1>5. ASSUME 5 <= c PROVE z + 5 \in Ends(t)
  BY <1>1, <1>5, OwnEnd
<1>6. ASSUME NEW q \in 1..c, q > 5, z + q \in Ends(t) PROVE FALSE
  <2>1. z + q \in Nat
    OBVIOUS
  <2>2. t[z + q] = 10 /\ t[z + q - 4] = 124 /\ t[z + q - 3] = 124 /\ t[z + q - 2] = 124 /\ t[z + q - 1] = 124
    <3>1. EndAt(t, z + q)
      BY ONLY <1>1, <1>6, <2>1, EndsAre
    <3> QED BY <3>1 DEF EndAt
  <2>3. \A d \in 0..4 : z + q - d = z + (q - d) /\ q - d \in 1..c
    BY <1>6
  <2>4. CASE q <= 9
    <3>1. q - 5 \in {1, 2, 3, 4}
      BY <1>6, <2>4
    <3>2. t[z + q - (q - 5)] = 124
      BY <2>2, <3>1
    <3>3. z + q - (q - 5) = z + 5 /\ 5 \in 1..c
      BY <1>6
    <3>4. t[z + 5] = 10
      BY <3>3 DEF Cuts
    <3> QED BY <3>2, <3>3, <3>4
  <2>5. CASE q > 9
    <3> DEFINE i == q - 5
    <3>1. i \in Nat /\ 5 <= i /\ i <= Len(picture) /\ q = i + 5
      BY <2>5
    <3> HIDE DEF i
    <3>2. ASSUME NEW d \in 0..4 PROVE t[z + q - d] = picture[i - d]
      <4>1. q - d \in 1..c /\ z + q - d = z + (q - d) /\ q - d > 5 /\ q - d - 5 = i - d
        BY <3>1, <2>3
      <4> DEFINE y == q - d
      <4>2. y \in 1..c /\ ~(y < 5) /\ y # 5 /\ z + q - d = z + y /\ y - 5 = i - d
        BY <4>1
      <4> HIDE DEF y
      <4>3. t[z + y] = picture[y - 5]
        BY <4>2 DEF Cuts
      <4> QED BY <4>2, <4>3
    <3>3. /\ t[z + q] = picture[i] /\ t[z + q - 4] = picture[i - 4] /\ t[z + q - 3] = picture[i - 3]
          /\ t[z + q - 2] = picture[i - 2] /\ t[z + q - 1] = picture[i - 1]
      <4>1. t[z + q - 0] = picture[i - 0] /\ z + q - 0 = z + q /\ i - 0 = i
        BY <3>1, <3>2
      <4> QED BY <3>2, <4>1
    <3>4. i \in Ends(picture)
      <4>1. EndAt(picture, i)
        BY <2>2, <3>1, <3>3 DEF EndAt
      <4> QED BY <1>1, <3>1, <4>1, EndsAre
    <3> QED BY <3>4
  <2> QED BY <2>4, <2>5
<1>7. ASSUME NEW i \in Nat
      PROVE  i \in Ends(t) <=> i \in Ends(s) \/ (i = z + 5 /\ b < 5 /\ 5 <= c)
  <2>1. CASE i <= z + b
    BY <1>3, <2>1
  <2>2. CASE i > z + b
    <3>1. i \notin Ends(s)
      <4>1. ~EndAt(s, i)
        BY <2>2 DEF EndAt
      <4> QED BY <1>1, <4>1, EndsAre
    <3>2. CASE i > z + c
      <4>1. i \notin Ends(t)
        <5>1. ~EndAt(t, i)
          BY <3>2 DEF EndAt
        <5> QED BY <1>1, <5>1, EndsAre
      <4> QED BY <3>1, <3>2, <4>1
    <3>3. CASE i <= z + c
      <4> DEFINE q == i - z
      <4>1. q \in 1..c /\ i = z + q /\ q > b
        BY <2>2, <3>3
      <4> HIDE DEF q
      <4>2. CASE q < 5
        <5>1. i # z + 5
          BY <4>1, <4>2
        <5> QED BY <1>4, <3>1, <4>1, <4>2, <5>1
      <4>3. CASE q = 5
        <5>1. 5 <= c /\ i = z + 5 /\ b < 5
          BY <4>1, <4>3
        <5> QED BY <1>5, <5>1
      <4>4. CASE q > 5
        <5>1. i # z + 5
          BY <4>1, <4>4
        <5> QED BY <1>6, <3>1, <4>1, <4>4, <5>1
      <4> QED BY <4>1, <4>2, <4>3, <4>4
    <3> QED BY <3>2, <3>3
  <2> QED BY <2>1, <2>2
<1>8. z + 5 \in Nat
  OBVIOUS
<1> QED BY <1>2, <1>7, <1>8

LEMMA PacketIs ==
  ASSUME NEW B, PACKET_DELIMITER \in Seq(B), NEW picture \in Seq(B)
  PROVE  LET t == PACKET_DELIMITER \o picture
         IN /\ t \in Seq(B) /\ Len(t) = 5 + Len(picture)
            /\ \A q \in 1..Len(t) : t[q] = IF q < 5 THEN 124 ELSE IF q = 5 THEN 10 ELSE picture[q - 5]
<1> DEFINE t == PACKET_DELIMITER \o picture  n == Len(picture)
<1>1. n \in Nat /\ Len(PACKET_DELIMITER) = 5
  BY DEF PACKET_DELIMITER
<1>2. /\ PACKET_DELIMITER[1] = 124 /\ PACKET_DELIMITER[2] = 124 /\ PACKET_DELIMITER[3] = 124
      /\ PACKET_DELIMITER[4] = 124 /\ PACKET_DELIMITER[5] = 10
  BY DEF PACKET_DELIMITER
<1>3. /\ t \in Seq(B) /\ Len(t) = 5 + n
      /\ \A q \in 1..5 : t[q] = PACKET_DELIMITER[q]
      /\ \A q \in 1..n : t[5 + q] = picture[q]
  <2> DEFINE m == 5
  <2>1. m \in Nat /\ Len(PACKET_DELIMITER) = m
    BY <1>1
  <2> HIDE DEF m
  <2>2. /\ t \in Seq(B) /\ Len(t) = m + n
        /\ \A q \in 1..m : t[q] = PACKET_DELIMITER[q]
        /\ \A q \in 1..n : t[m + q] = picture[q]
    BY <1>1, <2>1, Concatenated
  <2> HIDE DEF t, n
  <2> QED BY <2>2 DEF m
<1> HIDE DEF t
<1>4. ASSUME NEW q \in 1..(5 + n)
      PROVE  t[q] = IF q < 5 THEN 124 ELSE IF q = 5 THEN 10 ELSE picture[q - 5]
  <2>1. CASE q <= 5
    <3>1. q \in {1, 2, 3, 4, 5} /\ q \in 1..5
      BY <2>1
    <3> QED BY <1>2, <1>3, <3>1
  <2>2. CASE q > 5
    <3>1. q - 5 \in 1..n /\ 5 + (q - 5) = q
      BY <1>1, <2>2
    <3> QED BY <1>3, <2>2, <3>1
  <2> QED BY <1>1, <2>1, <2>2
<1> QED BY <1>3, <1>4 DEF t

\* A packet is on its way to the client, or about to be.
InProgress == remaining > 0 \/ (stage = "encode" /\ client = "open")

\* What the client had got before it.
Start == Len(received) - written[Len(written)].bytes

\* The packets that stay unfinished.
Lost == {k \in DOMAIN written : /\ written[k].bytes < Len(PACKET_DELIMITER) + Len(Jpeg(written[k].picture))
                                /\ InProgress => k # Len(written)}

Stages ==
  /\ received \in Seq(0..255)
  /\ stage # "wrap" => pc = "escape"
  /\ stage # "broadcast" => remaining = 0
  /\ remaining > 0 => client = "open"

Failures == Cardinality(Lost) <= tries + (IF client = "closed" THEN 1 ELSE 0)

Begins ==
  stage = "encode" /\ client = "open" =>
    /\ Len(written) > 0
    /\ written[Len(written)].bytes = 0 /\ written[Len(written)].picture = image_rgb

Sends ==
  remaining > 0 =>
    /\ Len(written) > 0 /\ Start >= 0
    /\ written[Len(written)].picture \in -2..MaxFrames
    /\ packet = PACKET_DELIMITER \o Jpeg(written[Len(written)].picture)
    /\ written[Len(written)].bytes = Len(packet) - remaining
    /\ Cuts(received, Start, Jpeg(written[Len(written)].picture), written[Len(written)].bytes)

\* The pieces of earlier packets end before it, and its own is behind its delimiter.
Behind ==
  remaining > 0 =>
    \A e \in Ends(received), k \in Begun :
      Rank(Ends(received), e) = Rank(Begun, k) =>
        IF k = Len(written) THEN e = Start + 5 ELSE e + Got(k) <= Start

SendInv == Stages /\ Failures /\ Begins /\ Sends /\ (Unmistakable => Apart /\ Behind)

\* What a send does: the packet is on its way as far as c bytes instead of b.
Grows(n, w, z, b, c) ==
  /\ n = Len(written) /\ n > 0 /\ w = Jpeg(written[n].picture)
  /\ written \in Seq(Written) /\ written' \in Seq(Written) /\ Len(written') = n
  /\ \A k \in 1..n : k # n => written'[k] = written[k]
  /\ written[n].bytes = b /\ written'[n].bytes = c /\ written'[n].picture = written[n].picture
  /\ Onto(0..255, received, received', w, z, b, c)

LEMMA SendGrows ==
  ASSUME PathIInv, Stages, Sends, NEW sent \in 1..remaining, Send(sent)
  PROVE  \E n, w, z, b, c : Grows(n, w, z, b, c) /\ remaining' = Len(packet) - c /\ Len(packet) = 5 + Len(w)
<1> DEFINE n == Len(written)  w == Jpeg(written[n].picture)  z == Start  b == written[n].bytes  c == b + sent
           B == 0..255
<1>1. /\ remaining \in Nat /\ sent \in Nat /\ sent > 0 /\ sent <= remaining /\ Len(packet) \in Nat /\ packet \in Seq(B)
      /\ written \in Seq(Written) /\ received \in Seq(B) /\ n \in Nat
  <2>1. packet \in Seq(B) /\ remaining \in 0..Len(packet) /\ written \in Seq(Written) /\ received \in Seq(B)
    BY DEF PathIInv, PathTypeOK, Stages
  <2>2. Len(packet) \in Nat
    BY <2>1
  <2> QED BY <2>1, <2>2
<1>2. /\ n > 0 /\ z >= 0 /\ packet = PACKET_DELIMITER \o w /\ b = Len(packet) - remaining
      /\ written[n].picture \in -2..MaxFrames /\ Cuts(received, z, w, b)
  BY <1>1 DEF Sends
<1>3. w \in Seq(B)
  BY <1>2, PictureAssumption
<1> HIDE DEF n, w, B
<1>4. /\ Len(packet) = 5 + Len(w) /\ Len(w) \in Nat
      /\ \A q \in 1..Len(packet) : packet[q] = IF q < 5 THEN 124 ELSE IF q = 5 THEN 10 ELSE w[q - 5]
  <2>1. PACKET_DELIMITER \in Seq(B)
    BY DEF PACKET_DELIMITER, B
  <2> QED BY <1>2, <1>3, <2>1, PacketIs
<1>5. written[n] \in Written /\ b \in Nat /\ b < c /\ c \in Nat /\ c <= Len(packet)
  <2>1. written[n] \in Written
    BY <1>1, <1>2 DEF n
  <2>2. b \in Nat
    BY <2>1 DEF Written
  <2> HIDE DEF b
  <2> QED BY <1>1, <1>2, <2>1, <2>2
<1>6. z = Len(received) - b /\ z \in Nat /\ Len(received) = z + b /\ Len(received) \in Nat
  <2>1. z = Len(received) - b /\ Len(received) \in Nat
    BY <1>1 DEF Start, n
  <2> HIDE DEF b, z
  <2> QED BY <1>2, <1>5, <2>1
<1>7. remaining' = remaining - sent /\ written' = [written EXCEPT ![n].bytes = @ + sent]
      /\ received' = received \o SubSeq(packet, From + 1, From + sent)
  BY DEF Send, n
<1>8. From = b
  <2>1. From = Len(packet) - 5 - remaining + 5
    BY DEF From, size, PACKET_DELIMITER
  <2> QED BY <1>1, <1>2, <2>1
<1> HIDE DEF b, z
<1> DEFINE u == SubSeq(packet, b + 1, b + sent)
<1>9. u \in Seq(B) /\ Len(u) = sent /\ \A j \in 1..sent : u[j] = packet[b + j]
  <2>1. \A j \in 1..sent : b + 1 + j - 1 = b + j /\ b + j \in 1..Len(packet)
    BY <1>1, <1>5
  <2>2. b + sent - (b + 1) + 1 = sent
    BY <1>1, <1>5
  <2> QED BY <1>1, <1>5, <2>1, <2>2
<1> HIDE DEF u
<1>10. /\ received' \in Seq(B) /\ Len(received') = Len(received) + sent
       /\ \A i \in 1..Len(received) : received'[i] = received[i]
       /\ \A j \in 1..sent : received'[Len(received) + j] = u[j]
  <2>1. received' = received \o u
    BY <1>7, <1>8 DEF u
  <2> DEFINE m == Len(received)  r == received
  <2>2. m \in Nat /\ r \in Seq(B) /\ Len(r) = m /\ u \in Seq(B) /\ Len(u) = sent /\ sent \in Nat
    BY <1>1, <1>6, <1>9
  <2> HIDE DEF m, r
  <2>7. \A q \in Seq(B) : q \in [1..Len(q) -> B]
    OBVIOUS
  <2>8. r \in [1..m -> B] /\ u \in [1..sent -> B]
    BY ONLY <2>2, <2>7
  <2>3. Joins(r \o u, B, r, m, u, sent)
    BY <2>2, <2>8, Joined
  <2>4. Joins(received', B, r, m, u, sent)
    BY <2>1, <2>3 DEF r
  <2>5. /\ received' \in [1..(m + sent) -> B]
        /\ \A i \in 1..m : received'[i] = r[i]
        /\ \A j \in 1..sent : received'[m + j] = u[j]
    BY ONLY <2>4 DEF Joins
  <2>6. received' \in Seq(B) /\ Len(received') = m + sent
    <3> DEFINE f == received'  k == m + sent
    <3>1. k \in Nat /\ f \in [1..k -> B]
      BY <2>2, <2>5
    <3> HIDE DEF f, k
    <3>2. f \in Seq(B) /\ Len(f) = k
      BY <3>1, LengthOf
    <3> QED BY <3>2 DEF f, k
  <2> QED BY <2>5, <2>6 DEF m, r
<1>11. Cuts(received', z, w, c)
  <2> SUFFICES ASSUME NEW q \in 1..c
               PROVE  received'[z + q] = IF q < 5 THEN 124 ELSE IF q = 5 THEN 10 ELSE w[q - 5]
    BY DEF Cuts
  <2>1. CASE q <= b
    <3>1. q \in 1..b /\ z + q \in 1..Len(received)
      BY <1>5, <1>6, <2>1
    <3>2. received'[z + q] = received[z + q]
      BY <1>10, <3>1
    <3> QED BY <1>2, <3>1, <3>2 DEF Cuts
  <2>2. CASE q > b
    <3> DEFINE j == q - b
    <3>1. j \in 1..sent /\ b + j = q /\ Len(received) + j = z + q /\ q \in 1..Len(packet)
      BY <1>1, <1>5, <1>6, <2>2
    <3> HIDE DEF j
    <3>2. received'[z + q] = packet[q]
      BY <1>9, <1>10, <3>1
    <3> QED BY <1>4, <3>1, <3>2
  <2> QED BY <1>5, <2>1, <2>2
<1>12. /\ written' \in Seq(Written) /\ Len(written') = n
       /\ \A k \in 1..n : k # n => written'[k] = written[k]
       /\ written'[n].bytes = c /\ written'[n].picture = written[n].picture
  <2>1. n \in 1..n /\ DOMAIN written = 1..n /\ DOMAIN written' = 1..n
    BY <1>1, <1>2, <1>7 DEF n
  <2>2. \A k \in 1..n : k # n => written'[k] = written[k]
    BY <1>7, <2>1
  <2>3. written'[n] = [written[n] EXCEPT !.bytes = @ + sent]
    BY <1>7, <2>1
  <2>4. written'[n] \in Written /\ written'[n].bytes = c /\ written'[n].picture = written[n].picture
    <3> DEFINE v == written[n]
    <3>1. v \in Written /\ written'[n] = [v EXCEPT !.bytes = @ + sent] /\ v.bytes = b
      BY <1>5, <2>3 DEF b
    <3> HIDE DEF v
    <3>2. [v EXCEPT !.bytes = @ + sent].bytes = v.bytes + sent /\ [v EXCEPT !.bytes = @ + sent].picture = v.picture
      BY <3>1 DEF Written
    <3>3. [v EXCEPT !.bytes = @ + sent] \in Written
      <4>1. v.bytes + sent \in Nat
        BY <1>1, <1>5, <3>1
      <4> QED BY <3>1, <4>1 DEF Written
    <3> QED BY <3>1, <3>2, <3>3 DEF v
  <2>5. \A k \in 1..n : written'[k] \in Written
    <3>1. \A k \in 1..n : written[k] \in Written
      BY <1>1, <2>1
    <3> QED BY <2>2, <2>4, <3>1
  <2>6. written' \in Seq(Written)
    <3> DEFINE v == written'
    <3>1. v = [k \in 1..n |-> v[k]] /\ \A k \in 1..n : v[k] \in Written
      BY <1>7, <2>1, <2>5
    <3> HIDE DEF v
    <3>2. v \in Seq(Written)
      BY ONLY <1>1, <3>1
    <3> QED BY <3>2 DEF v
  <2>7. Len(written') = n
    BY <1>1, <2>1, <2>6
  <2> QED BY <2>2, <2>4, <2>6, <2>7
<1>13. Grows(n, w, z, b, c)
  <2>1. /\ n = Len(written) /\ n > 0 /\ w = Jpeg(written[n].picture)
        /\ written[n].bytes = b /\ written \in Seq(Written)
    BY <1>1, <1>2 DEF n, w, b
  <2>2. c <= 5 + Len(w) /\ Len(received') = z + c
    BY <1>1, <1>4, <1>5, <1>6, <1>10
  <2> HIDE DEF c
  <2>3. Onto(B, received, received', w, z, b, c)
    BY <1>1, <1>3, <1>5, <1>6, <1>10, <1>11, <2>2 DEF Onto
  <2> QED BY <1>12, <2>1, <2>3 DEF Grows, B
<1>14. remaining' = Len(packet) - c
  BY <1>1, <1>2, <1>5, <1>7
<1> QED BY <1>4, <1>13, <1>14

\* The places of delimiters and packets belong together as before, and those of the
\* new delimiter and its packet do.
Match(E, F, A, C, x, n) ==
  /\ Cardinality(F) = Cardinality(C)
  /\ \A e \in F, k \in C :
       Rank(F, e) = Rank(C, k) => (e \in E /\ k \in A /\ Rank(E, e) = Rank(A, k)) \/ (e = x /\ k = n)

LEMMA Matching ==
  ASSUME NEW E \in SUBSET Nat, NEW A \in SUBSET Nat, IsFiniteSet(E), IsFiniteSet(A),
         Cardinality(E) = Cardinality(A),
         NEW x \in Nat, NEW n \in Nat, \A e \in E : e < x, \A k \in A : k < n
  PROVE  Match(E, E \cup {x}, A, A \cup {n}, x, n)
<1> DEFINE F == E \cup {x}  C == A \cup {n}
<1>1. /\ Cardinality(F) = Cardinality(E) + 1 /\ Cardinality(E) \in Nat /\ Rank(F, x) = Cardinality(E) + 1
      /\ \A e \in E : Rank(F, e) = Rank(E, e) /\ Rank(E, e) \in Nat /\ Rank(E, e) <= Cardinality(E)
  BY RankTop
<1>2. /\ Cardinality(C) = Cardinality(A) + 1 /\ Rank(C, n) = Cardinality(A) + 1
      /\ \A k \in A : Rank(C, k) = Rank(A, k) /\ Rank(A, k) \in Nat /\ Rank(A, k) <= Cardinality(A)
  BY RankTop
<1>3. \A e : e \in F <=> e \in E \/ e = x
  OBVIOUS
<1>4. \A k : k \in C <=> k \in A \/ k = n
  OBVIOUS
<1> HIDE DEF F, C
<1>5. ASSUME NEW e \in F, NEW k \in C, Rank(F, e) = Rank(C, k)
      PROVE  (e \in E /\ k \in A /\ Rank(E, e) = Rank(A, k)) \/ (e = x /\ k = n)
  <2>1. CASE e \in E /\ k \in A
    BY <1>1, <1>2, <1>5, <2>1
  <2>2. ASSUME e \in E, k = n PROVE FALSE
    <3>1. Rank(F, e) <= Cardinality(E) /\ Rank(F, e) \in Nat
      BY <1>1, <2>2
    <3>2. Rank(F, e) = Cardinality(E) + 1
      BY <1>2, <1>5, <2>2
    <3> QED BY <1>1, <3>1, <3>2
  <2>3. ASSUME e = x, k \in A PROVE FALSE
    <3>1. Rank(C, k) <= Cardinality(E) /\ Rank(C, k) \in Nat
      BY <1>2, <2>3
    <3>2. Rank(C, k) = Cardinality(E) + 1
      BY <1>1, <1>5, <2>3
    <3> QED BY <1>1, <3>1, <3>2
  <2> QED BY <1>3, <1>4, <2>1, <2>2, <2>3
<1>6. Cardinality(F) = Cardinality(C)
  BY <1>1, <1>2
<1>7. Match(E, F, A, C, x, n)
  BY <1>5, <1>6 DEF Match
<1> QED BY <1>7 DEF F, C

LEMMA PiecesGrow ==
  ASSUME NEW n, NEW w, NEW z, NEW b, NEW c, Grows(n, w, z, b, c), Ends(w) = {}, Apart,
         \A e \in Ends(received), k \in Begun :
           Rank(Ends(received), e) = Rank(Begun, k) => IF k = n THEN e = z + 5 ELSE e + Got(k) <= z
  PROVE  /\ Apart'
         /\ \A e \in Ends(received'), k \in Begun' :
              Rank(Ends(received'), e) = Rank(Begun', k) => IF k = n THEN e = z + 5 ELSE e + Got(k)' <= z
<1> DEFINE E == Ends(received)  F == Ends(received')  A == Begun  C == Begun'
           H == b < 5 /\ 5 <= c
<1>1. /\ n = Len(written) /\ n > 0 /\ w = Jpeg(written[n].picture) /\ w \in Seq(0..255)
      /\ written \in Seq(Written) /\ written' \in Seq(Written) /\ Len(written') = n
      /\ \A k \in 1..n : k # n => written'[k] = written[k]
      /\ written[n].bytes = b /\ written'[n].bytes = c /\ written'[n].picture = written[n].picture
      /\ z \in Nat /\ b \in Nat /\ c \in Nat /\ b < c /\ c <= 5 + Len(w)
      /\ received \in Seq(0..255) /\ received' \in Seq(0..255)
      /\ Len(received) = z + b /\ Len(received') = z + c
      /\ \A i \in 1..Len(received) : received'[i] = received[i]
      /\ Cuts(received', z, w, c)
  BY DEF Grows, Onto
<1>0. z \in Nat /\ b \in Nat /\ c \in Nat /\ b < c
  BY <1>1
<1>2. /\ n \in Nat /\ DOMAIN written = 1..n /\ DOMAIN written' = 1..n /\ n \in 1..n
      /\ DOMAIN received = 1..(z + b) /\ DOMAIN received' = 1..(z + c)
      /\ \A k \in 1..n : written'[k].bytes \in Nat
  <2>1. n \in Nat /\ n \in 1..n
    BY <1>1
  <2>2. \A k \in 1..n : written'[k].bytes \in Nat
    <3>1. \A k \in 1..n : written'[k] \in Written
      BY <1>1
    <3> QED BY <3>1 DEF Written
  <2>3. DOMAIN received = 1..(z + b) /\ DOMAIN received' = 1..(z + c)
    BY <1>1
  <2> QED BY <1>1, <2>1, <2>2, <2>3
<1>3. F = E \cup (IF H THEN {z + 5} ELSE {})
  <2>1. Onto(0..255, received, received', w, z, b, c)
    BY DEF Grows
  <2> QED BY <2>1, NewEnds
<1>4. C = A \cup (IF H THEN {n} ELSE {}) /\ A \in SUBSET (1..n) /\ (n \in A <=> 5 <= b) /\ (n \in C <=> 5 <= c)
  <2>1. \A k : k \in A <=> k \in 1..n /\ written[k].bytes >= 5
    BY <1>2 DEF Begun, PACKET_DELIMITER
  <2>2. \A k : k \in C <=> k \in 1..n /\ written'[k].bytes >= 5
    BY <1>2 DEF Begun, PACKET_DELIMITER
  <2>3. \A k \in 1..n : k # n => (k \in A <=> k \in C)
    BY <1>1, <2>1, <2>2
  <2>4. (n \in A <=> 5 <= b) /\ (n \in C <=> 5 <= c)
    BY <1>1, <1>2, <2>1, <2>2
  <2>5. n \in C <=> n \in A \/ H
    BY <1>1, <2>4
  <2> HIDE DEF A, C
  <2>6. \A k : k \in C <=> k \in A \/ (H /\ k = n)
    BY <2>1, <2>2, <2>3, <2>5
  <2> HIDE DEF H
  <2>7. C = A \cup (IF H THEN {n} ELSE {})
    BY <2>6
  <2> QED BY <2>1, <2>4, <2>7
<1>5. /\ E \in SUBSET (1..(z + b)) /\ IsFiniteSet(E) /\ E \in SUBSET Nat
      /\ IsFiniteSet(A) /\ A \in SUBSET Nat
  <2>1. E \in SUBSET (1..(z + b))
    BY <1>1 DEF Ends, PACKET_DELIMITER
  <2>2. IsFiniteSet(1..(z + b)) /\ IsFiniteSet(1..n)
    <3>1. 1 \in Int /\ z + b \in Int /\ n \in Int
      BY <1>1, <1>2
    <3> QED BY <3>1, FS_Interval
  <2> HIDE DEF E, A
  <2>3. IsFiniteSet(E) /\ IsFiniteSet(A)
    BY <1>4, <2>1, <2>2, FS_Subset
  <2>4. E \in SUBSET Nat /\ A \in SUBSET Nat
    BY <1>4, <2>1
  <2> QED BY <2>1, <2>3, <2>4
<1>6. Cardinality(E) = Cardinality(A)
  BY DEF Apart
<1>7. /\ Cardinality(F) = Cardinality(C)
      /\ \A e \in F, k \in C : Rank(F, e) = Rank(C, k) =>
           (e \in E /\ k \in A /\ Rank(E, e) = Rank(A, k)) \/ (e = z + 5 /\ k = n)
  <2> HIDE DEF E, F, A, C
  <2>1. CASE H
    <3>1. F = E \cup {z + 5} /\ C = A \cup {n}
      BY <1>3, <1>4, <2>1
    <3>2. /\ z + 5 \in Nat /\ \A e \in E : e < z + 5
      BY <1>1, <1>5, <2>1
    <3>3. \A k \in A : k < n
      <4>1. n \notin A /\ \A k \in A : k \in 1..n
        BY <1>1, <1>4, <2>1
      <4> QED BY <1>2, <4>1
    <3> DEFINE x == z + 5
    <3>4. x \in Nat /\ \A e \in E : e < x
      BY <3>2
    <3> HIDE DEF x
    <3>5. Match(E, E \cup {x}, A, A \cup {n}, x, n)
      BY <1>2, <1>5, <1>6, <3>3, <3>4, Matching
    <3>6. Match(E, F, A, C, z + 5, n)
      BY <3>1, <3>5 DEF x
    <3> QED BY <3>6 DEF Match
  <2>2. CASE ~H
    <3>1. F = E /\ C = A
      BY <1>3, <1>4, <2>2
    <3> QED BY <1>6, <3>1
  <2> QED BY <2>1, <2>2
<1>8. 5 <= c => z + 5 \in F
  BY <1>1, OwnEnd
<1>9. \A q \in 1..c : q < 5 => received'[z + q] = 124
  BY <1>1 DEF Cuts
\* A byte of the step that is not behind the packet's own delimiter.
<1>10. ASSUME NEW p \in 1..(z + c), p > z + b, 5 <= c => p < z + 5 PROVE received'[p] = 124
  <2> DEFINE q == p - z
  <2>1. q \in 1..c /\ q < 5 /\ z + q = p
    BY <1>1, <1>10
  <2> HIDE DEF q
  <2> QED BY <1>9, <2>1
\* What belongs together did before, or is the packet and its delimiter.
<1>11. ASSUME NEW e \in F, NEW k \in C, Rank(F, e) = Rank(C, k)
       PROVE  /\ k = n => e = z + 5
              /\ k # n => e \in E /\ k \in A /\ e + Got(k) <= z /\ Piece(e, k)
              /\ k = n /\ 5 <= b => e \in E /\ Piece(e, n)
  <2> HIDE DEF E, F, A, C
  <2>1. (e \in E /\ k \in A /\ Rank(E, e) = Rank(A, k)) \/ (e = z + 5 /\ k = n)
    BY <1>7, <1>11
  <2>2. CASE e \in E /\ k \in A /\ Rank(E, e) = Rank(A, k)
    <3>1. IF k = n THEN e = z + 5 ELSE e + Got(k) <= z
      BY <2>2 DEF E, A
    <3>2. Piece(e, k)
      BY <2>2 DEF Apart, E, A
    <3> QED BY <2>2, <3>1, <3>2
  <2>3. CASE e = z + 5 /\ k = n /\ 5 <= b
    <3>1. F = E /\ C = A
      BY <1>3, <1>4, <2>3, <1>1
    <3>2. e \in E /\ k \in A /\ Rank(E, e) = Rank(A, k)
      BY <1>11, <3>1
    <3> QED BY <2>2, <3>2
  <2>4. CASE e = z + 5 /\ k = n /\ ~(5 <= b)
    BY <2>4
  <2> QED BY <2>1, <2>2, <2>3, <2>4
<1>12. ASSUME NEW k \in C, k # n
       PROVE  k \in 1..n /\ written'[k] = written[k] /\ Got(k)' = Got(k) /\ Got(k) \in Nat
  <2>1. k \in A
    BY <1>4, <1>12
  <2>2. k \in 1..n /\ written[k].bytes >= 5
    BY <1>2, <2>1 DEF Begun, PACKET_DELIMITER
  <2>3. written'[k] = written[k] /\ written[k].bytes \in Nat
    BY <1>1, <1>2, <1>12, <2>2
  <2>4. Got(k)' = Got(k) /\ Got(k) = written[k].bytes - 5
    BY <2>3 DEF Got, PACKET_DELIMITER
  <2> QED BY <2>2, <2>3, <2>4
<1>13. Got(n) = b - 5 /\ Got(n)' = c - 5
  BY <1>1 DEF Got, PACKET_DELIMITER
<1>14. Len(PACKET_DELIMITER) = 5
  BY DEF PACKET_DELIMITER
<1>15. ASSUME NEW e \in F, NEW k \in C, k # n, Rank(F, e) = Rank(C, k) PROVE Piece(e, k)'
  <2> DEFINE g == Got(k)
  <2>1. e \in E /\ e \in Nat /\ k \in A /\ e + g <= z /\ Piece(e, k)
    BY <1>5, <1>11, <1>15
  <2>2. g \in Nat /\ Got(k)' = g /\ written'[k] = written[k] /\ k \in 1..n
    BY <1>12, <1>15
  <2>3. /\ \A p \in 1..g : received[e + p] = Jpeg(written[k].picture)[p]
        /\ \A next \in E : next > e => next >= e + g + 5
        /\ \A p \in (e + g + 1)..(z + b) :
             (\A next \in E : next <= e \/ p < next) => received[p] = 124
    BY <1>1, <1>14, <2>1 DEF Piece
  <2> HIDE DEF g, E, F, A, C
  <2>4. e + g <= z + c
    BY <1>1, <2>1, <2>2
  <2>5. ASSUME NEW p \in 1..g PROVE received'[e + p] = Jpeg(written[k].picture)[p]
    <3>1. e + p \in 1..(z + b)
      BY ONLY <1>0, <2>1, <2>2
    <3> QED BY <1>1, <2>3, <3>1
  <2>6. ASSUME NEW next \in F, next > e PROVE next >= e + g + 5
    <3>1. next \in E \/ next = z + 5
      BY <1>3
    <3> QED BY <1>1, <2>1, <2>2, <2>3, <2>6, <3>1
  <2>7. ASSUME NEW p \in (e + g + 1)..(z + c), \A next \in F : next <= e \/ p < next
        PROVE  received'[p] = 124
    <3>1. p \in Nat /\ p > e + g /\ p <= z + c
      BY ONLY <1>0, <2>1, <2>2
    <3>2. CASE p <= z + b
      <4>1. p \in (e + g + 1)..(z + b) /\ p \in 1..(z + b)
        BY <1>1, <2>1, <2>2, <3>1, <3>2
      <4>2. \A next \in E : next <= e \/ p < next
        BY <1>3, <2>7
      <4> QED BY <1>1, <2>3, <4>1, <4>2
    <3>3. CASE p > z + b
      <4>1. p \in 1..(z + c)
        BY <1>1, <2>1, <2>2, <3>1
      <4>2. 5 <= c => p < z + 5
        <5> SUFFICES ASSUME 5 <= c PROVE p < z + 5
          OBVIOUS
        <5>1. z + 5 <= e \/ p < z + 5
          BY <1>8, <2>7
        <5>2. ~(z + 5 <= e)
          BY ONLY <1>0, <2>1, <2>2
        <5> QED BY <5>1, <5>2
      <4> QED BY <1>10, <3>3, <4>1, <4>2
    <3> QED BY <1>1, <3>1, <3>2, <3>3
  <2>8. Piece(e, k)' <=>
          /\ e + g <= z + c
          /\ \A p \in 1..g : received'[e + p] = Jpeg(written[k].picture)[p]
          /\ \A next \in F : next > e => next >= e + g + 5
          /\ \A p \in (e + g + 1)..(z + c) :
               (\A next \in F : next <= e \/ p < next) => received'[p] = 124
    BY <1>1, <1>14, <2>2 DEF Piece, F
  <2> QED BY <2>4, <2>5, <2>6, <2>7, <2>8
<1>16. ASSUME NEW e \in F, n \in C, Rank(F, e) = Rank(C, n) PROVE Piece(e, n)'
  <2> DEFINE g == c - 5
  <2>1. e = z + 5 /\ (5 <= b => e \in E /\ Piece(e, n)) /\ 5 <= c
    BY <1>4, <1>11, <1>16
  <2>2. g \in Nat /\ Got(n)' = g /\ e + g = z + c /\ c = g + 5
    BY <1>1, <1>13, <2>1
  <2> HIDE DEF g, E, F, A, C
  <2>3. ASSUME NEW p \in 1..g PROVE received'[e + p] = w[p]
    <3>1. 5 + p \in 1..c /\ ~(5 + p < 5) /\ 5 + p # 5 /\ 5 + p - 5 = p /\ z + (5 + p) = e + p
      BY ONLY <1>0, <2>1, <2>2
    <3> QED BY <1>1, <3>1 DEF Cuts
  <2>4. ASSUME NEW next \in F PROVE ~(next > e)
    <3>1. CASE next \in E /\ 5 <= b
      <4>1. next > e => next >= e + (b - 5) + 5
        BY <1>13, <1>14, <2>1, <3>1 DEF Piece, E
      <4>2. next \in Nat /\ next <= z + b
        BY <1>1, <1>5, <3>1
      <4> QED BY <1>1, <2>1, <4>1, <4>2
    <3>2. CASE next \in E /\ ~(5 <= b)
      <4>1. next \in Nat /\ next <= z + b
        BY <1>1, <1>5, <3>2
      <4> QED BY <1>1, <2>1, <3>2, <4>1
    <3>3. CASE next = z + 5
      BY <1>1, <2>1, <3>3
    <3> QED BY <1>3, <3>1, <3>2, <3>3
  <2>5. \A p \in (e + g + 1)..(z + c) : FALSE
    BY <1>1, <2>1, <2>2
  <2>6. Piece(e, n)' <=>
          /\ e + g <= z + c
          /\ \A p \in 1..g : received'[e + p] = w[p]
          /\ \A next \in F : next > e => next >= e + g + 5
          /\ \A p \in (e + g + 1)..(z + c) :
               (\A next \in F : next <= e \/ p < next) => received'[p] = 124
    <3>1. Jpeg(written'[n].picture) = w
      BY <1>1
    <3> QED BY <1>1, <1>14, <2>2, <3>1 DEF Piece, F
  <2>7. e + g <= z + c
    BY <1>1, <2>2
  <2> QED BY <2>3, <2>4, <2>5, <2>6, <2>7
<1>17. ASSUME NEW p \in 1..(z + c), \A e \in F : p < e PROVE received'[p] = 124
  <2>1. CASE p <= z + b
    <3>1. p \in 1..(z + b) /\ \A e \in E : p < e
      BY <1>1, <1>3, <1>17, <2>1
    <3>2. received[p] = 124
      BY <1>2, <3>1 DEF Apart
    <3> QED BY <1>1, <3>1, <3>2
  <2>2. CASE p > z + b
    BY <1>8, <1>10, <1>17, <2>2
  <2> QED BY <1>1, <2>1, <2>2
<1>18. Apart'
  <2>1. Cardinality(F) = Cardinality(C)
    BY <1>7
  <2>2. \A e \in F, k \in C : Rank(F, e) = Rank(C, k) => Piece(e, k)'
    <3> HIDE DEF F, C
    <3> QED BY <1>15, <1>16
  <2>3. \A p \in DOMAIN received' : (\A e \in F : p < e) => received'[p] = 124
    BY <1>2, <1>17
  <2> QED BY <2>1, <2>2, <2>3 DEF Apart
<1>19. ASSUME NEW e \in F, NEW k \in C, Rank(F, e) = Rank(C, k)
       PROVE  IF k = n THEN e = z + 5 ELSE e + Got(k)' <= z
  BY <1>11, <1>12, <1>19
<1> QED BY <1>18, <1>19

LEMMA LostIsFinite ==
  ASSUME PathIInv
  PROVE  IsFiniteSet(Lost) /\ Cardinality(Lost) \in Nat /\ \A T \in SUBSET Lost : Cardinality(T) <= Cardinality(Lost)
<1>1. DOMAIN written = 1..Len(written) /\ Len(written) \in Nat
  BY DEF PathIInv
<1>2. Lost \in SUBSET (1..Len(written))
  BY <1>1 DEF Lost
<1>3. IsFiniteSet(1..Len(written))
  BY <1>1, FS_Interval
<1>4. IsFiniteSet(Lost)
  BY <1>2, <1>3, FS_Subset
<1> QED BY <1>4, FS_Subset, FS_CardinalityType

\* What the client has got is read by what was written of it only.
LEMMA NothingSent ==
  ASSUME UNCHANGED <<received, written>>
  PROVE  (Unmistakable' <=> Unmistakable) /\ (Apart' <=> Apart)
BY DEF Unmistakable, Apart, Begun, Piece, Got

LEMMA NothingLost ==
  ASSUME UNCHANGED <<written, tries>>, InProgress' <=> InProgress, client' = client, Failures
  PROVE  Failures'
<1>1. Lost' = Lost
  BY DEF Lost
<1> QED BY <1>1 DEF Failures

\* The steps before and behind a packet.
LEMMA AroundKeeps ==
  ASSUME SendInv, Connect \/ Wrap \/ Escape \/ Free \/ UNCHANGED pathVars
  PROVE  SendInv'
<1>1. UNCHANGED <<received, written, tries, remaining, image_rgb>>
  BY DEF Connect, Wrap, Escape, Free, pathVars, pictureVars
<1>2. (Unmistakable' <=> Unmistakable) /\ (Apart' <=> Apart)
  BY <1>1, NothingSent
<1>3. CASE Connect
  <2>1. stage = "wrap" /\ stage' = "wrap" /\ remaining = 0 /\ client = "none" /\ client' = "open" /\ pc' = pc
    BY <1>3 DEF Connect, vars, SendInv, Stages
  <2>2. ~InProgress /\ ~InProgress'
    BY <1>1, <2>1 DEF InProgress
  <2>3. Lost' = Lost
    BY <1>1, <2>2 DEF Lost
  <2>4. Failures'
    BY <1>1, <2>1, <2>3 DEF SendInv, Failures
  <2>5. Stages' /\ Begins' /\ Sends' /\ Behind'
    BY <1>1, <2>1 DEF SendInv, Stages, Begins, Sends, Behind
  <2> QED BY <1>2, <2>4, <2>5 DEF SendInv
<1>4. CASE Wrap \/ Escape \/ UNCHANGED pathVars
  <2>1. UNCHANGED <<stage, client, packet>> /\ (pc' = "escape" \/ pc' = pc)
    BY <1>4 DEF Wrap, Escape, EscapeByte, Encapsulate, pathVars, pictureVars, vars
  <2>2. InProgress' <=> InProgress
    BY <1>1, <2>1 DEF InProgress
  <2>3. Failures'
    BY <1>1, <2>1, <2>2, NothingLost DEF SendInv
  <2>4. Stages' /\ Begins' /\ Sends'
    BY <1>1, <2>1 DEF SendInv, Stages, Begins, Sends, Start, Cuts
  <2>5. Behind' <=> Behind
    BY <1>1 DEF Behind, Begun, Got, Start
  <2> QED BY <1>2, <2>3, <2>4, <2>5 DEF SendInv
<1>5. CASE Free
  <2>1. stage = "broadcast" /\ remaining = 0 /\ remaining' = 0 /\ stage' = "wrap" /\ client' = client
    BY <1>1, <1>5 DEF Free
  <2>2. InProgress' <=> InProgress
    BY <2>1 DEF InProgress
  <2>3. Failures'
    BY <1>1, <2>1, <2>2, NothingLost DEF SendInv
  <2>4. Stages' /\ Begins' /\ Sends' /\ Behind'
    BY <1>1, <2>1 DEF SendInv, Stages, Begins, Sends, Behind
  <2> QED BY <1>2, <2>3, <2>4 DEF SendInv
<1> QED BY <1>3, <1>4, <1>5

\* The next packet of the client begins with nothing sent.
LEMMA ImageKeeps ==
  ASSUME PathIInv, SendInv, NEW got_frame \in BOOLEAN, Image(got_frame)
  PROVE  SendInv'
<1> DEFINE n == Len(written)  w == [picture |-> image_rgb', given |-> got_frame, bytes |-> 0]
<1>1. /\ stage = "wrap" /\ stage' = "encode" /\ pc = "escape" /\ pc' = pc
      /\ UNCHANGED <<remaining, client, tries, received, packet>> /\ remaining = 0
      /\ written' = IF client = "open" THEN Append(written, w) ELSE written
  BY DEF Image, vars, SendInv, Stages
<1>2. n \in Nat /\ DOMAIN written = 1..n
  BY DEF PathIInv
<1>3. ~InProgress
  BY <1>1 DEF InProgress
<1>4. CASE client = "open"
  <2>1. /\ DOMAIN written' = 1..(n + 1) /\ Len(written') = n + 1 /\ written'[n + 1] = w
        /\ \A k \in 1..n : written'[k] = written[k]
    <3>1. written' = Append(written, w)
      BY <1>1, <1>4
    <3> HIDE DEF w
    <3> QED BY <1>2, <3>1 DEF PathIInv
  <2>2. w.bytes = 0 /\ w.picture = image_rgb'
    OBVIOUS
  <2> HIDE DEF w, n
  <2>3. Begins' /\ Sends' /\ Behind' /\ Stages'
    <3>1. Len(written') > 0 /\ written'[Len(written')] = w
      BY <1>2, <2>1
    <3> QED BY <1>1, <2>2, <3>1 DEF Begins, Sends, Behind, Stages, SendInv
  <2>4. InProgress'
    BY <1>1, <1>4 DEF InProgress
  <2>5. Lost' = Lost
    <3>1. \A k : k \in 1..(n + 1) /\ k # n + 1 <=> k \in 1..n
      BY <1>2
    <3>2. \A k : k \in Lost' <=> /\ k \in 1..(n + 1) /\ k # n + 1
                                 /\ written'[k].bytes < Len(PACKET_DELIMITER) + Len(Jpeg(written'[k].picture))
      BY <2>1, <2>4 DEF Lost
    <3>3. \A k : k \in Lost <=> /\ k \in 1..n
                                /\ written[k].bytes < Len(PACKET_DELIMITER) + Len(Jpeg(written[k].picture))
      BY <1>2, <1>3 DEF Lost
    <3>4. \A k : k \in Lost' <=> k \in Lost
      BY <2>1, <3>1, <3>2, <3>3
    <3> QED BY <3>4
  <2>6. Failures'
    BY <1>1, <2>5 DEF SendInv, Failures
  <2>7. Begun' = Begun
    <3>1. \A k : k \in Begun' <=> k \in 1..(n + 1) /\ written'[k].bytes >= 5
      BY <2>1 DEF Begun, PACKET_DELIMITER
    <3>2. \A k : k \in Begun <=> k \in 1..n /\ written[k].bytes >= 5
      BY <1>2 DEF Begun, PACKET_DELIMITER
    <3>3. ~(written'[n + 1].bytes >= 5)
      BY <2>1, <2>2
    <3>4. \A k : k \in 1..(n + 1) <=> k \in 1..n \/ k = n + 1
      BY <1>2
    <3>5. \A k : k \in Begun' <=> k \in Begun
      BY <2>1, <3>1, <3>2, <3>3, <3>4
    <3> QED BY <3>5
  <2>8. ASSUME Unmistakable' PROVE Unmistakable
    <3>1. \A k \in 1..n : k \in 1..(n + 1) /\ written'[k].picture = written[k].picture
      BY <1>2, <2>1
    <3> QED BY <1>2, <2>1, <2>8, <3>1 DEF Unmistakable
  <2>9. ASSUME Apart PROVE Apart'
    <3>1. ASSUME NEW k \in Begun PROVE written'[k] = written[k] /\ Got(k)' = Got(k)
      <4>1. k \in 1..n
        BY <1>2, <3>1 DEF Begun
      <4> QED BY <2>1, <4>1 DEF Got
    <3>2. ASSUME NEW e, NEW k \in Begun, Piece(e, k) PROVE Piece(e, k)'
      BY <1>1, <3>1, <3>2 DEF Piece
    <3> QED BY <1>1, <2>7, <2>9, <3>2 DEF Apart
  <2> QED BY <2>3, <2>6, <2>8, <2>9 DEF SendInv
<1>5. CASE client # "open"
  <2>1. UNCHANGED <<received, written>>
    BY <1>1, <1>5
  <2>2. (Unmistakable' <=> Unmistakable) /\ (Apart' <=> Apart)
    BY <2>1, NothingSent
  <2>3. ~InProgress'
    BY <1>1, <1>5 DEF InProgress
  <2>4. Failures'
    BY <1>1, <1>3, <2>1, <2>3, NothingLost DEF SendInv
  <2>5. Begins' /\ Sends' /\ Behind' /\ Stages'
    BY <1>1, <1>5 DEF Begins, Sends, Behind, Stages, SendInv
  <2> QED BY <2>2, <2>4, <2>5 DEF SendInv
<1> QED BY <1>4, <1>5

LEMMA EncodeKeeps == ASSUME PathIInv, SendInv, Encode PROVE SendInv'
<1> DEFINE n == Len(written)
<1>1. /\ stage = "encode" /\ stage' = "broadcast" /\ pc' = pc
      /\ UNCHANGED <<image_rgb, client, tries, received, written>>
      /\ packet' = PACKET_DELIMITER \o Jpeg(image_rgb)
      /\ remaining' = IF client = "open" THEN Len(packet') ELSE 0
  BY DEF Encode, vars
<1>2. n \in Nat /\ DOMAIN written = 1..n /\ received \in Seq(0..255) /\ Len(received) \in Nat
  <2>1. written \in Seq(Written) /\ received \in Seq(0..255)
    BY DEF PathIInv, SendInv, Stages
  <2> QED BY <2>1
<1>3. image_rgb \in -2..MaxFrames
  BY DEF PathIInv, PathTypeOK
<1>4. Len(packet') \in Nat /\ Len(packet') > 0
  <2> DEFINE B == 0..255
  <2>1. Jpeg(image_rgb) \in Seq(B) /\ PACKET_DELIMITER \in Seq(B)
    BY <1>3, PictureAssumption DEF PACKET_DELIMITER
  <2>2. Len(Jpeg(image_rgb)) \in Nat
    BY <2>1
  <2> HIDE DEF B
  <2>3. Len(packet') = 5 + Len(Jpeg(image_rgb))
    BY <1>1, <2>1, PacketIs
  <2> QED BY <2>2, <2>3
<1>5. (Unmistakable' <=> Unmistakable) /\ (Apart' <=> Apart)
  BY <1>1, NothingSent
<1>6. Failures'
  <2>1. remaining = 0
    BY <1>1 DEF SendInv, Stages
  <2>2. InProgress' <=> InProgress
    BY <1>1, <1>4, <2>1 DEF InProgress
  <2> QED BY <1>1, <2>2, NothingLost DEF SendInv
<1>7. Stages' /\ Begins'
  BY <1>1 DEF SendInv, Stages, Begins
<1>8. CASE client = "open"
  <2>1. n > 0 /\ written[n].bytes = 0 /\ written[n].picture = image_rgb
    BY <1>1, <1>8 DEF SendInv, Begins
  <2>2. remaining' = Len(packet') /\ Start' = Len(received) /\ Len(received) >= 0
    BY <1>1, <1>2, <1>8, <2>1 DEF Start
  <2>3. Sends'
    <3>1. Cuts(received', Start', Jpeg(written'[Len(written')].picture), written'[Len(written')].bytes)
      BY <1>1, <2>1 DEF Cuts
    <3>2. written'[Len(written')].bytes = Len(packet') - remaining'
      BY <1>1, <1>4, <2>1, <2>2
    <3> QED BY <1>1, <1>2, <1>3, <2>1, <2>2, <3>1, <3>2 DEF Sends
  <2>4. ASSUME Apart PROVE Behind'
    <3>1. \A k \in Begun : k # n
      BY <1>2, <2>1 DEF Begun, PACKET_DELIMITER
    <3>2. \A e \in Ends(received), k \in Begun :
            Rank(Ends(received), e) = Rank(Begun, k) => e + Got(k) <= Len(received)
      BY <2>4 DEF Apart, Piece
    <3>3. Begun' = Begun /\ \A k : Got(k)' = Got(k)
      BY <1>1 DEF Begun, Got
    <3> QED BY <1>1, <2>2, <3>1, <3>2, <3>3 DEF Behind
  <2> QED BY <1>5, <1>6, <1>7, <2>3, <2>4 DEF SendInv
<1>9. CASE client # "open"
  <2>1. Sends' /\ Behind'
    BY <1>1, <1>9 DEF Sends, Behind
  <2> QED BY <1>5, <1>6, <1>7, <2>1 DEF SendInv
<1> QED BY <1>8, <1>9

LEMMA SendKeeps ==
  ASSUME PathIInv, SendInv, NEW sent \in 1..remaining, Send(sent)
  PROVE  SendInv'
<1>1. PICK n, w, z, b, c : Grows(n, w, z, b, c) /\ remaining' = Len(packet) - c /\ Len(packet) = 5 + Len(w)
  BY SendGrows DEF SendInv
<1>2. /\ stage = "broadcast" /\ remaining > 0 /\ UNCHANGED <<stage, packet, client, tries>> /\ pc' = pc
  BY DEF Send, vars
<1>3. /\ n = Len(written) /\ n > 0 /\ w = Jpeg(written[n].picture) /\ Len(written') = n
      /\ \A k \in 1..n : k # n => written'[k] = written[k]
      /\ written[n].bytes = b /\ written'[n].bytes = c /\ written'[n].picture = written[n].picture
      /\ written \in Seq(Written) /\ written' \in Seq(Written)
  BY <1>1 DEF Grows
<1>4. /\ z \in Nat /\ b \in Nat /\ c \in Nat /\ b < c /\ c <= 5 + Len(w) /\ Len(w) \in Nat
      /\ Len(received) = z + b /\ Len(received') = z + c /\ received' \in Seq(0..255)
      /\ Cuts(received', z, w, c)
  BY <1>1 DEF Grows, Onto
<1>5. n \in Nat /\ DOMAIN written = 1..n /\ DOMAIN written' = 1..n
  BY <1>3
<1>6. Start = z /\ Start' = z
  BY <1>3, <1>4 DEF Start
<1>7. /\ written[n].picture \in -2..MaxFrames /\ packet = PACKET_DELIMITER \o w
  BY <1>2, <1>3 DEF SendInv, Sends
<1>8. Stages' /\ Begins'
  <2>1. remaining' > 0 => client' = "open"
    BY <1>2 DEF SendInv, Stages
  <2> QED BY <1>2, <1>4, <2>1 DEF SendInv, Stages, Begins
<1>9. Sends'
  <2>1. written'[Len(written')].bytes = Len(packet') - remaining'
    <3> DEFINE m == Len(packet)
    <3>1. m \in Nat /\ remaining' = m - c /\ Len(packet') = m
      BY <1>1, <1>2, <1>4
    <3> HIDE DEF m
    <3>2. m - remaining' = c
      BY ONLY <1>4, <3>1
    <3> QED BY <1>3, <3>1, <3>2
  <2>2. Len(written') > 0 /\ Start' >= 0
    BY <1>3, <1>4, <1>6
  <2>3. Jpeg(written'[Len(written')].picture) = w
    BY <1>3
  <2> QED BY <1>2, <1>3, <1>4, <1>6, <1>7, <2>1, <2>2, <2>3 DEF Sends
<1>10. Failures'
  <2> DEFINE short(k) == written[k].bytes < Len(PACKET_DELIMITER) + Len(Jpeg(written[k].picture))
  <2>1. InProgress
    BY <1>2 DEF InProgress
  <2>2. \A k \in Lost' : k \in 1..n /\ short(k)' /\ (InProgress' => k # n)
    BY <1>3, <1>5 DEF Lost
  <2>3. n \notin Lost'
    <3>1. CASE remaining' > 0
      <4> InProgress'
        BY <3>1 DEF InProgress
      <4> QED BY <2>2
    <3>2. CASE ~(remaining' > 0)
      <4>1. ~short(n)'
        BY <1>1, <1>3, <1>4, <3>2 DEF PACKET_DELIMITER
      <4> QED BY <2>2, <4>1
    <3> QED BY <3>1, <3>2
  <2>4. ASSUME NEW k \in Lost' PROVE k \in Lost
    <3>1. k \in 1..n /\ k # n /\ short(k)'
      BY <2>2, <2>3
    <3>2. written'[k] = written[k]
      BY <1>3, <3>1
    <3> QED BY <1>3, <1>5, <3>1, <3>2 DEF Lost
  <2>5. Lost' \in SUBSET Lost
    BY <2>4
  <2>6. Cardinality(Lost') <= Cardinality(Lost) /\ Cardinality(Lost) \in Nat /\ Cardinality(Lost') \in Nat
    BY <2>5, LostIsFinite, FS_Subset, FS_CardinalityType
  <2>7. tries \in Nat /\ tries' = tries /\ client' = client
    BY <1>2 DEF PathIInv, PathTypeOK
  <2>8. Cardinality(Lost) <= tries + (IF client = "closed" THEN 1 ELSE 0)
    BY DEF SendInv, Failures
  <2> QED BY <2>6, <2>7, <2>8 DEF Failures
<1>11. ASSUME Unmistakable' PROVE Apart' /\ Behind'
  <2>1. \A k \in 1..n : written'[k].picture = written[k].picture
    BY <1>3
  <2>2. Unmistakable
    BY <1>5, <1>11, <2>1 DEF Unmistakable
  <2>3. Ends(w) = {}
    <3> n \in 1..n
      BY <1>3, <1>5
    <3> QED BY <1>3, <1>5, <2>2 DEF Unmistakable
  <2>4. Apart /\ Behind
    BY <2>2 DEF SendInv
  <2>5. \A e \in Ends(received), k \in Begun :
          Rank(Ends(received), e) = Rank(Begun, k) => IF k = n THEN e = z + 5 ELSE e + Got(k) <= z
    BY <1>2, <1>3, <1>6, <2>4 DEF Behind
  <2>6. /\ Apart'
        /\ \A e \in Ends(received'), k \in Begun' :
             Rank(Ends(received'), e) = Rank(Begun', k) => IF k = n THEN e = z + 5 ELSE e + Got(k)' <= z
    BY <1>1, <2>3, <2>4, <2>5, PiecesGrow
  <2>7. Behind'
    BY <1>3, <1>6, <2>6 DEF Behind
  <2> QED BY <2>6, <2>7
<1> QED BY <1>8, <1>9, <1>10, <1>11 DEF SendInv

\* A send that fails leaves one more packet unfinished, at most.
LEMMA SendFailsKeeps == ASSUME PathIInv, SendInv, SendFails PROVE SendInv'
<1> DEFINE n == Len(written)
<1>1. /\ stage = "broadcast" /\ remaining > 0 /\ remaining' = 0 /\ UNCHANGED <<stage, received, written>> /\ pc' = pc
      /\ client = "open"
  BY DEF SendFails, vars, SendInv, Stages
<1>2. (Unmistakable' <=> Unmistakable) /\ (Apart' <=> Apart)
  BY <1>1, NothingSent
<1>3. Stages' /\ Begins' /\ Sends' /\ Behind'
  BY <1>1 DEF SendInv, Stages, Begins, Sends, Behind
<1>4. tries \in Nat /\ (\/ tries' = tries + 1 /\ client' = "open"
                        \/ tries' = tries /\ client' = "closed")
  BY <1>1, PictureAssumption DEF SendFails, PathIInv, PathTypeOK
<1>5. Lost' \in SUBSET (Lost \cup {n})
  BY <1>1 DEF Lost
<1>6. IsFiniteSet(Lost \cup {n}) /\ Cardinality(Lost \cup {n}) <= Cardinality(Lost) + 1
      /\ Cardinality(Lost) \in Nat /\ Cardinality(Lost \cup {n}) \in Nat
  <2>1. IsFiniteSet(Lost) /\ Cardinality(Lost) \in Nat
    BY LostIsFinite
  <2>2. /\ IsFiniteSet(Lost \cup {n})
        /\ Cardinality(Lost \cup {n}) = IF n \in Lost THEN Cardinality(Lost) ELSE Cardinality(Lost) + 1
    BY <2>1, FS_AddElement
  <2> QED BY <2>1, <2>2
<1>7. Cardinality(Lost') <= Cardinality(Lost \cup {n}) /\ Cardinality(Lost') \in Nat
  BY <1>5, <1>6, FS_Subset, FS_CardinalityType
<1>8. Cardinality(Lost) <= tries
  BY <1>1, <1>4 DEF SendInv, Failures
<1>9. Cardinality(Lost') <= tries + 1
  BY <1>4, <1>6, <1>7, <1>8
<1>10. Failures'
  <2>1. tries + 1 = tries' + (IF client' = "closed" THEN 1 ELSE 0)
    BY <1>4
  <2> QED BY <1>9, <2>1 DEF Failures
<1> QED BY <1>2, <1>3, <1>10 DEF SendInv

LEMMA SendInit == ASSUME PathInit PROVE SendInv
<1>1. /\ stage = "wrap" /\ remaining = 0 /\ received = <<>> /\ written = <<>> /\ tries = 0 /\ client = "none"
      /\ Len(<<>>) = 0 /\ DOMAIN <<>> = {}
  BY DEF PathInit
<1>2. Ends(received) = {} /\ Begun = {} /\ Lost = {}
  BY <1>1 DEF Ends, Begun, Lost, PACKET_DELIMITER
<1>3. Cardinality({}) = 0
  BY FS_EmptySet
<1>4. Stages /\ Begins /\ Sends /\ Behind
  <2> <<>> \in Seq(0..255)
    OBVIOUS
  <2> QED BY <1>1 DEF Stages, Begins, Sends, Behind
<1>5. Failures
  BY <1>1, <1>2, <1>3 DEF Failures
<1>6. Apart
  BY <1>1, <1>2 DEF Apart
<1> QED BY <1>4, <1>5, <1>6 DEF SendInv

THEOREM SendInductive == PathSpec => []SendInv
<1>1. PathInit => SendInv
  BY SendInit
<1>2. PathIInv /\ SendInv /\ [PathNext]_pathVars => SendInv'
  <2> SUFFICES ASSUME PathIInv, SendInv, [PathNext]_pathVars PROVE SendInv'
    OBVIOUS
  <2>1. CASE Connect \/ Wrap \/ Escape \/ Free \/ UNCHANGED pathVars
    BY <2>1, AroundKeeps
  <2>2. ASSUME NEW got_frame \in BOOLEAN, Image(got_frame) PROVE SendInv'
    BY <2>2, ImageKeeps
  <2>3. CASE Encode
    BY <2>3, EncodeKeeps
  <2>4. ASSUME NEW sent \in 1..remaining, Send(sent) PROVE SendInv'
    BY <2>4, SendKeeps
  <2>5. CASE SendFails
    BY <2>5, SendFailsKeeps
  <2> QED BY <2>1, <2>2, <2>3, <2>4, <2>5 DEF PathNext
<1> QED BY <1>1, <1>2, PathInductive, PTL DEF PathSpec

\* However broadcast_media's sends cut the packets up, and wherever they fail: as long as
\* no picture sent contains a delimiter, a client that splits at delimiters gets each
\* picture as a piece of its own, in order, and no more of them cut off than sends failed.
THEOREM DelimitedHolds == PathSpec => []Delimited
<1>1. PathIInv /\ SendInv => Delimited
  <2> SUFFICES ASSUME PathIInv, SendInv PROVE Delimited
    OBVIOUS
  <2>1. Len(written) \in Nat /\ DOMAIN written = 1..Len(written)
    BY DEF PathIInv
  <2>2. CutOff \in SUBSET Lost
    BY <2>1 DEF CutOff, Lost
  <2>3. Cardinality(CutOff) <= Cardinality(Lost) /\ Cardinality(CutOff) \in Nat /\ Cardinality(Lost) \in Nat
    BY <2>2, LostIsFinite, FS_Subset, FS_CardinalityType
  <2>4. tries \in Nat /\ Cardinality(Lost) <= tries + (IF client = "closed" THEN 1 ELSE 0)
    BY DEF PathIInv, PathTypeOK, SendInv, Failures
  <2>5. Cardinality(CutOff) <= tries + (IF client = "closed" THEN 1 ELSE 0)
    BY <2>3, <2>4
  <2>6. Unmistakable => Apart
    BY DEF SendInv
  <2> QED BY <2>5, <2>6 DEF Delimited
<1> QED BY <1>1, PathInductive, SendInductive, PTL
=============================================================================
