--------------------------- MODULE SoundRelayProofs ---------------------------
(***************************************************************************)
(* Proofs about SoundRelay, for any number of packets and blows: what the  *)
(* clients hear, when the console hears a blow, and that every header of   *)
(* the microphone is read as it was meant, bit by bit.                     *)
(*                                                                         *)
(* The argument: what was heard is what was taken, less the packet the     *)
(* handler is at (Passed), and packets differ by their numbers (Distinct). *)
(* A look at the time has both words of the last blow, or, if it met a     *)
(* store, the second of some blow (Looking); the words only grow, so what  *)
(* is answered is near a blow (Answering).                                 *)
(***************************************************************************)
EXTENDS SoundRelay, DataLemmas

-----------------------------------------------------------------------------
(* Headers. *)

Bit == 0..1

IsBits(b, k) == b \in [1..k -> Bit]

LEMMA BitsBit ==
  ASSUME NEW number \in Nat, NEW k \in Nat
  PROVE  IsBits(Bits(number, k), k)
BY BitsType DEF Bit, IsBits

\* Where the fields are in the struct.
IsLayout(s, a, b, c, d, e, f) ==
  /\ s \in [1..64 -> Bit]
  /\ \A i \in 1..3 : s[i] = a[i]
  /\ s[4] = b[1] /\ s[5] = c[1] /\ s[6] = d[1]
  /\ \A i \in 1..10 : s[6 + i] = e[i]
  /\ \A i \in 1..16 : s[16 + i] = f[i]

LEMMA LayoutBits ==
  ASSUME NEW a \in [1..3 -> Bit], NEW b \in [1..1 -> Bit], NEW c \in [1..1 -> Bit], NEW d \in [1..1 -> Bit],
         NEW e \in [1..10 -> Bit], NEW f \in [1..16 -> Bit]
  PROVE  IsLayout(Layout(a, b, c, d, e, f), a, b, c, d, e, f)
<1> DEFINE s1 == f \o NoTimestamp
           s2 == e \o s1
           s3 == d \o s2
           s4 == c \o s3
           s5 == b \o s4
           s6 == a \o s5
<1>0. Layout(a, b, c, d, e, f) = s6
  BY DEF Layout
<1>1. NoTimestamp \in [1..32 -> Bit]
  BY DEF NoTimestamp, Bit
<1> DEFINE n1 == 1  n3 == 3  n10 == 10  n16 == 16  n32 == 32  n48 == 48  n58 == 58  n59 == 59  n60 == 60  n61 == 61  n64 == 64
<1>2. /\ n1 \in Nat /\ n3 \in Nat /\ n10 \in Nat /\ n16 \in Nat /\ n32 \in Nat
      /\ n48 = n16 + n32 /\ n58 = n10 + n48 /\ n59 = n1 + n58 /\ n60 = n1 + n59 /\ n61 = n1 + n60 /\ n64 = n3 + n61
      /\ n48 \in Nat /\ n58 \in Nat /\ n59 \in Nat /\ n60 \in Nat /\ n61 \in Nat
  OBVIOUS
<1>3. /\ a \in [1..n3 -> Bit] /\ b \in [1..n1 -> Bit] /\ c \in [1..n1 -> Bit] /\ d \in [1..n1 -> Bit]
      /\ e \in [1..n10 -> Bit] /\ f \in [1..n16 -> Bit] /\ NoTimestamp \in [1..n32 -> Bit]
  BY <1>1
<1> HIDE DEF n1, n3, n10, n16, n32, n48, n58, n59, n60, n61, n64
<1>4. Joins(s1, Bit, f, n16, NoTimestamp, n32)
  BY ONLY <1>2, <1>3, Joined
<1> HIDE DEF s1
<1>5. s1 \in [1..n48 -> Bit]
  BY ONLY <1>2, <1>4 DEF Joins
<1>6. Joins(s2, Bit, e, n10, s1, n48)
  BY ONLY <1>2, <1>3, <1>5, Joined
<1> HIDE DEF s2
<1>7. s2 \in [1..n58 -> Bit]
  BY ONLY <1>2, <1>6 DEF Joins
<1>8. Joins(s3, Bit, d, n1, s2, n58)
  BY ONLY <1>2, <1>3, <1>7, Joined
<1> HIDE DEF s3
<1>9. s3 \in [1..n59 -> Bit]
  BY ONLY <1>2, <1>8 DEF Joins
<1>10. Joins(s4, Bit, c, n1, s3, n59)
  BY ONLY <1>2, <1>3, <1>9, Joined
<1> HIDE DEF s4
<1>11. s4 \in [1..n60 -> Bit]
  BY ONLY <1>2, <1>10 DEF Joins
<1>12. Joins(s5, Bit, b, n1, s4, n60)
  BY ONLY <1>2, <1>3, <1>11, Joined
<1> HIDE DEF s5
<1>13. s5 \in [1..n61 -> Bit]
  BY ONLY <1>2, <1>12 DEF Joins
<1>14. Joins(s6, Bit, a, n3, s5, n61)
  BY ONLY <1>2, <1>3, <1>13, Joined
<1> HIDE DEF s6
<1>15. s6 \in [1..n64 -> Bit] /\ \A i \in 1..n3 : s6[i] = a[i]
  BY ONLY <1>2, <1>14 DEF Joins
<1>16. s6[4] = b[1]
  <2>1. s6[n3 + 1] = s5[1]
    BY ONLY <1>14 DEF Joins, n61
  <2>2. s5[1] = b[1]
    BY ONLY <1>12 DEF Joins, n1
  <2> QED BY ONLY <2>1, <2>2 DEF n3
<1>17. s6[5] = c[1]
  <2>1. s6[n3 + 2] = s5[2]
    BY ONLY <1>14 DEF Joins, n61
  <2>2. s5[n1 + 1] = s4[1]
    BY ONLY <1>12 DEF Joins, n60
  <2>3. s4[1] = c[1]
    BY ONLY <1>10 DEF Joins, n1
  <2> QED BY ONLY <2>1, <2>2, <2>3 DEF n3, n1
<1>18. ASSUME NEW i \in 1..59 PROVE s6[5 + i] = s3[i]
  <2>1. s6[n3 + (2 + i)] = s5[2 + i]
    <3> 2 + i \in 1..61
      OBVIOUS
    <3> QED BY ONLY <1>14, 2 + i \in 1..61 DEF Joins, n61
  <2>2. s5[n1 + (1 + i)] = s4[1 + i]
    <3> 1 + i \in 1..60
      OBVIOUS
    <3> QED BY ONLY <1>12, 1 + i \in 1..60 DEF Joins, n60
  <2>3. s4[n1 + i] = s3[i]
    BY ONLY <1>10, i \in 1..59 DEF Joins, n59
  <2>4. n3 + (2 + i) = 5 + i /\ n1 + (1 + i) = 2 + i /\ n1 + i = 1 + i
    BY DEF n1, n3
  <2> QED BY ONLY <2>1, <2>2, <2>3, <2>4
<1>19. s6[6] = d[1]
  <2>1. s6[5 + 1] = s3[1]
    BY <1>18
  <2>2. s3[1] = d[1]
    BY ONLY <1>8 DEF Joins, n1
  <2> QED BY ONLY <2>1, <2>2
<1>20. ASSUME NEW i \in 1..58 PROVE s6[6 + i] = s2[i]
  <2>1. 1 + i \in 1..59 /\ 5 + (1 + i) = 6 + i
    OBVIOUS
  <2>2. s6[5 + (1 + i)] = s3[1 + i]
    BY <2>1, <1>18
  <2>3. s3[n1 + i] = s2[i]
    BY ONLY <1>8, i \in 1..58 DEF Joins, n58
  <2> QED BY ONLY <2>1, <2>2, <2>3 DEF n1
<1>21. ASSUME NEW i \in 1..10 PROVE s6[6 + i] = e[i]
  <2>1. s6[6 + i] = s2[i]
    BY <1>20
  <2>2. s2[i] = e[i]
    BY ONLY <1>6, i \in 1..10 DEF Joins, n10
  <2> QED BY ONLY <2>1, <2>2
<1>22. ASSUME NEW i \in 1..16 PROVE s6[16 + i] = f[i]
  <2>1. 10 + i \in 1..58 /\ 6 + (10 + i) = 16 + i /\ i \in 1..48
    OBVIOUS
  <2>2. s6[6 + (10 + i)] = s2[10 + i]
    BY <2>1, <1>20
  <2>3. s2[n10 + i] = s1[i]
    BY ONLY <1>6, i \in 1..48, <2>1 DEF Joins, n48
  <2>4. s1[i] = f[i]
    BY ONLY <1>4, i \in 1..16 DEF Joins, n16
  <2> QED BY ONLY <2>1, <2>2, <2>3, <2>4 DEF n10
<1>23. IsLayout(s6, a, b, c, d, e, f)
  BY ONLY <1>15, <1>16, <1>17, <1>19, <1>21, <1>22 DEF IsLayout, n3, n64
<1> QED BY ONLY <1>0, <1>23 DEF s1, s2, s3, s4, s5, s6

\* A header with its bytes turned, and the fields in it, highest bit first.
IsRead(b, fmt, seq, size) ==
  /\ \A j \in 1..3 : b[4 - j] = fmt[j]
  /\ \A j \in 1..10 : b[17 - j] = seq[j]
  /\ \A j \in 1..16 : b[33 - j] = size[j]

LEMMA HeaderRead ==
  ASSUME NEW bits, ReverseBytes(bits, HeaderBytes) \in [1..64 -> Bit],
         NEW fmt \in [1..3 -> Bit], NEW seq \in [1..10 -> Bit], NEW size \in [1..16 -> Bit],
         IsRead(ReverseBytes(bits, HeaderBytes), fmt, seq, size)
  PROVE  LET b == ReverseBytes(bits, HeaderBytes) IN
         Header(bits) = [format |-> Number(fmt), mono |-> b[4], vibrate |-> b[5], type |-> b[6],
                         seq_id |-> Number(seq), payload_size |-> Number(size)]
<1> DEFINE b == ReverseBytes(bits, HeaderBytes)
<1> DEFINE N == 64  n0 == 0  n3 == 3  n6 == 6  n10 == 10  n16 == 16
           p1 == 1  p3 == 3  p7 == 7  p16 == 16  p17 == 17  p32 == 32
<1>1. /\ N \in Nat /\ n0 \in Nat /\ n3 \in Nat /\ n6 \in Nat /\ n10 \in Nat /\ n16 \in Nat
      /\ n0 + n3 <= N /\ n6 + n10 <= N /\ n16 + n16 <= N
      /\ p1 = n0 + 1 /\ p3 = n0 + n3 /\ p7 = n6 + 1 /\ p16 = n6 + n10 /\ p17 = n16 + 1 /\ p32 = n16 + n16
  OBVIOUS
<1>2. b \in [1..N -> Bit] /\ fmt \in [1..n3 -> Bit] /\ seq \in [1..n10 -> Bit] /\ size \in [1..n16 -> Bit]
  OBVIOUS
<1>3. /\ \A j \in 1..n3 : b[p3 + 1 - j] = fmt[j]
      /\ \A j \in 1..n10 : b[p16 + 1 - j] = seq[j]
      /\ \A j \in 1..n16 : b[p32 + 1 - j] = size[j]
  <2> HIDE DEF b
  <2>1. IsRead(b, fmt, seq, size)
    BY DEF b
  <2> QED BY <2>1 DEF IsRead
<1>4. Header(bits) = [format |-> Number(SubSeq(Reversed(b, p1, p3), p1, p3)), mono |-> b[4], vibrate |-> b[5],
                      type |-> b[6], seq_id |-> Number(SubSeq(Reversed(b, p7, p16), p7, p16)),
                      payload_size |-> Number(SubSeq(Reversed(b, p17, p32), p17, p32))]
  BY DEF Header
<1> HIDE DEF b, N, n0, n3, n6, n10, n16, p1, p3, p7, p16, p17, p32
<1>5. SubSeq(Reversed(b, p1, p3), p1, p3) = fmt
  <2> InPlace(b, Bit, N, n0, n3, p1, p3, fmt)
    BY ONLY <1>1, <1>2, <1>3 DEF InPlace
  <2> QED BY FieldIs
<1>6. SubSeq(Reversed(b, p7, p16), p7, p16) = seq
  <2> InPlace(b, Bit, N, n6, n10, p7, p16, seq)
    BY ONLY <1>1, <1>2, <1>3 DEF InPlace
  <2> QED BY FieldIs
<1>7. SubSeq(Reversed(b, p17, p32), p17, p32) = size
  <2> InPlace(b, Bit, N, n16, n16, p17, p32, size)
    BY ONLY <1>1, <1>2, <1>3 DEF InPlace
  <2> QED BY FieldIs
<1> QED BY ONLY <1>4, <1>5, <1>6, <1>7 DEF b

\* A number written highest bit first.
IsMsb(m, number, k) == m \in [1..k -> Bit] /\ \A i \in 1..k : m[i] = Bits(number, k)[k + 1 - i]

LEMMA MsbIs ==
  ASSUME NEW number \in Nat, NEW k \in Nat
  PROVE  IsMsb(Msb(number, k), number, k)
<1> DEFINE b == Bits(number, k)
<1>1. b \in [1..k -> Bit]
  BY BitsBit DEF IsBits
<1> HIDE DEF b
<1>2. Reversed(b, 1, k) = [i \in 1..k |-> b[k + 1 - i]]
  <2>1. \A i \in 1..k : 1 + k - i = k + 1 - i
    OBVIOUS
  <2> QED BY <1>1, <2>1 DEF Reversed
<1>3. \A i \in 1..k : k + 1 - i \in 1..k
  OBVIOUS
<1> QED BY <1>1, <1>2, <1>3 DEF IsMsb, Msb, b

\* One bit is its own number.
LEMMA OneBit ==
  ASSUME NEW x \in Bit
  PROVE  Bits(x, 1) \in [1..1 -> Bit] /\ Bits(x, 1)[1] = x /\ Msb(x, 1) \in [1..1 -> Bit] /\ Msb(x, 1)[1] = x
<1>1. x \in Nat /\ 1 \in Nat
  BY DEF Bit
<1>2. PICK half \in [0..1 -> Nat] : half[0] = x /\ Bits(x, 1) = [i \in 1..1 |-> half[i - 1] % 2]
  BY <1>1, BitsAre
<1>3. Bits(x, 1)[1] = x
  BY <1>2 DEF Bit
<1> DEFINE k == 1
<1>4. k \in Nat
  OBVIOUS
<1> HIDE DEF k
<1>5. IsMsb(Msb(x, k), x, k) /\ Bits(x, k) \in [1..k -> Bit]
  BY <1>1, <1>4, MsbIs, BitsBit DEF IsBits
<1> QED BY ONLY <1>3, <1>5 DEF k, IsMsb

\* The relay reads of the console's headers what the console wrote.
LEMMA HeaderOfWire ==
  ASSUME NEW sort \in Sort, NEW seq \in 0..(Modulus - 1)
  PROVE  Header(Wire(sort, seq)) = [format |-> sort.format, mono |-> sort.mono, vibrate |-> sort.vibrate,
                                    type |-> sort.type, seq_id |-> seq, payload_size |-> 512]
<1> DEFINE k3 == 3  k8 == 8  k10 == 10  k16 == 16  number == 512
           a == Msb(sort.format, 3)  b == Msb(sort.mono, 1)  c == Msb(sort.vibrate, 1)  d == Msb(sort.type, 1)
           e == Msb(seq, 10)  f == Msb(number, 16)
           L == Layout(a, b, c, d, e, f)
<1>1. /\ sort.format \in Nat /\ sort.format < 8 /\ sort.mono \in Bit /\ sort.vibrate \in Bit /\ sort.type \in Bit
      /\ seq \in Nat /\ seq < 1024 /\ number \in Nat /\ number < 65536
      /\ k3 \in Nat /\ k8 \in Nat /\ k10 \in Nat /\ k16 \in Nat
  BY DEF Sort, Modulus, Bit
<1> HIDE DEF k3, k8, k10, k16, number
<1>2. /\ IsMsb(Msb(sort.format, k3), sort.format, k3) /\ IsMsb(Msb(seq, k10), seq, k10)
      /\ IsMsb(Msb(number, k16), number, k16)
  BY <1>1, MsbIs
<1>3. /\ Bits(sort.format, k3) \in [1..k3 -> Bit] /\ Bits(seq, k10) \in [1..k10 -> Bit]
      /\ Bits(number, k16) \in [1..k16 -> Bit]
  <2>1. IsBits(Bits(sort.format, k3), k3) /\ IsBits(Bits(seq, k10), k10) /\ IsBits(Bits(number, k16), k16)
    BY ONLY <1>1, BitsBit
  <2> QED BY ONLY <2>1 DEF IsBits
<1>4. /\ Number(Bits(sort.format, k3)) = sort.format /\ Number(Bits(seq, k10)) = seq
      /\ Number(Bits(number, k16)) = number
  <2>1. Weight(k3) = 8 /\ Weight(k10) = 1024 /\ Weight(k16) = 65536
    BY Weights DEF k3, k10, k16
  <2>2. sort.format < Weight(k3) /\ seq < Weight(k10) /\ number < Weight(k16)
    BY ONLY <1>1, <2>1
  <2> QED BY ONLY <1>1, <2>2, NumberOfBits
<1>5. b \in [1..1 -> Bit] /\ b[1] = sort.mono /\ c \in [1..1 -> Bit] /\ c[1] = sort.vibrate
      /\ d \in [1..1 -> Bit] /\ d[1] = sort.type
  BY <1>1, OneBit
<1>6. /\ a \in [1..3 -> Bit] /\ \A i \in 1..3 : a[i] = Bits(sort.format, 3)[4 - i]
      /\ e \in [1..10 -> Bit] /\ \A i \in 1..10 : e[i] = Bits(seq, 10)[11 - i]
      /\ f \in [1..16 -> Bit] /\ \A i \in 1..16 : f[i] = Bits(number, 16)[17 - i]
  BY ONLY <1>2 DEF IsMsb, k3, k10, k16
<1> HIDE DEF a, b, c, d, e, f
<1>7. IsLayout(L, a, b, c, d, e, f)
  BY ONLY <1>5, <1>6, LayoutBits
<1> HIDE DEF L
<1>8. L \in [1..64 -> Bit]
  BY ONLY <1>7 DEF IsLayout
<1>9. ReverseBytes(Wire(sort, seq), HeaderBytes) = L
  <2>1. IsBytes(L, Bit, k8)
    BY ONLY <1>8 DEF k8, IsBytes
  <2>2. ReverseBytes(ReverseBytes(L, HeaderBytes), HeaderBytes) = L
    BY ONLY <2>1, TurnedBack
  <2> QED BY <2>2 DEF Wire, L, a, b, c, d, e, f, number
<1>10. IsRead(L, Bits(sort.format, 3), Bits(seq, 10), Bits(number, 16))
  <2>1. ASSUME NEW j \in 1..3 PROVE L[4 - j] = Bits(sort.format, 3)[j]
    <3>1. 4 - j \in 1..3 /\ 4 - (4 - j) = j
      OBVIOUS
    <3> QED BY ONLY <3>1, <1>6, <1>7 DEF IsLayout
  <2>2. ASSUME NEW j \in 1..10 PROVE L[17 - j] = Bits(seq, 10)[j]
    <3>1. 11 - j \in 1..10 /\ 11 - (11 - j) = j /\ 6 + (11 - j) = 17 - j
      OBVIOUS
    <3>2. L[6 + (11 - j)] = e[11 - j]
      BY ONLY <3>1, <1>7 DEF IsLayout
    <3>3. e[11 - j] = Bits(seq, 10)[11 - (11 - j)]
      BY ONLY <3>1, <1>6
    <3> QED BY ONLY <3>1, <3>2, <3>3
  <2>3. ASSUME NEW j \in 1..16 PROVE L[33 - j] = Bits(number, 16)[j]
    <3>1. 17 - j \in 1..16 /\ 17 - (17 - j) = j /\ 16 + (17 - j) = 33 - j
      OBVIOUS
    <3>2. L[16 + (17 - j)] = f[17 - j]
      BY ONLY <3>1, <1>7 DEF IsLayout
    <3>3. f[17 - j] = Bits(number, 16)[17 - (17 - j)]
      BY ONLY <3>1, <1>6
    <3> QED BY ONLY <3>1, <3>2, <3>3
  <2> QED BY ONLY <2>1, <2>2, <2>3 DEF IsRead
<1>11. Bits(sort.format, 3) \in [1..3 -> Bit] /\ Bits(seq, 10) \in [1..10 -> Bit] /\ Bits(number, 16) \in [1..16 -> Bit]
  BY ONLY <1>3 DEF k3, k10, k16
<1>12. Header(Wire(sort, seq)) =
         [format |-> Number(Bits(sort.format, 3)), mono |-> L[4], vibrate |-> L[5], type |-> L[6],
          seq_id |-> Number(Bits(seq, 10)), payload_size |-> Number(Bits(number, 16))]
  BY ONLY <1>8, <1>9, <1>10, <1>11, HeaderRead
<1>13. L[4] = sort.mono /\ L[5] = sort.vibrate /\ L[6] = sort.type
  BY ONLY <1>5, <1>7 DEF IsLayout
<1>14. /\ Number(Bits(sort.format, 3)) = sort.format /\ Number(Bits(seq, 10)) = seq
       /\ Number(Bits(number, 16)) = number
  BY ONLY <1>4 DEF k3, k10, k16
<1> QED BY ONLY <1>12, <1>13, <1>14 DEF number

\* The bits of a number that was turned are its bits, highest first.
LEMMA TurnedNumber ==
  ASSUME NEW number \in Nat, NEW k \in Nat
  PROVE  Bits(Number(Reversed(Bits(number, k), 1, k)), k) = Msb(number, k)
<1> DEFINE m == Msb(number, k)
<1>1. m \in [1..k -> 0..1]
  BY MsbIs DEF IsMsb, Bit
<1> HIDE DEF m
<1>2. Bits(Number(m), k) = m
  BY <1>1, BitsOfNumber
<1> QED BY <1>2 DEF m, Msb

\* 512 has its one bit in its second byte.
LEMMA SizeLowByte == \A i \in 1..8 : Bits(512, 16)[i] = 0
<1> DEFINE number == 512  k == 16
<1>1. number \in Nat /\ k \in Nat
  OBVIOUS
<1> HIDE DEF number, k
<1>2. PICK half \in [0..k -> Nat] :
        /\ half[0] = number /\ \A i \in 1..k : half[i] = half[i - 1] \div 2
        /\ Bits(number, k) = [i \in 1..k |-> half[i - 1] % 2]
  BY <1>1, BitsAre
<1>3. \A i \in 1..8 : i \in 1..k /\ i - 1 + 1 = i
  BY DEF k
<1>4. half[0] = 512
  BY <1>2 DEF number
<1>5. half[1] = 256
  <2> half[1] = half[0] \div 2
    BY <1>2, <1>3
  <2> QED BY <1>4
<1>6. half[2] = 128
  <2> half[2] = half[1] \div 2
    BY <1>2, <1>3
  <2> QED BY <1>5
<1>7. half[3] = 64
  <2> half[3] = half[2] \div 2
    BY <1>2, <1>3
  <2> QED BY <1>6
<1>8. half[4] = 32
  <2> half[4] = half[3] \div 2
    BY <1>2, <1>3
  <2> QED BY <1>7
<1>9. half[5] = 16
  <2> half[5] = half[4] \div 2
    BY <1>2, <1>3
  <2> QED BY <1>8
<1>10. half[6] = 8
  <2> half[6] = half[5] \div 2
    BY <1>2, <1>3
  <2> QED BY <1>9
<1>11. half[7] = 4
  <2> half[7] = half[6] \div 2
    BY <1>2, <1>3
  <2> QED BY <1>10
<1>12. ASSUME NEW i \in 1..8 PROVE half[i - 1] % 2 = 0
  <2>1. i - 1 = 0 \/ i - 1 = 1 \/ i - 1 = 2 \/ i - 1 = 3 \/ i - 1 = 4 \/ i - 1 = 5 \/ i - 1 = 6 \/ i - 1 = 7
    OBVIOUS
  <2> QED BY ONLY <2>1, <1>4, <1>5, <1>6, <1>7, <1>8, <1>9, <1>10, <1>11
<1>13. \A i \in 1..8 : Bits(number, k)[i] = 0
  BY <1>2, <1>3, <1>12
<1> QED BY <1>13 DEF number, k

\* Two bits.
LEMMA NumberOfTwo ==
  ASSUME NEW b \in [1..2 -> 0..1]
  PROVE  Number(b) = b[1] + 2 * b[2]
<1> DEFINE k == 2
<1>1. k \in Nat /\ b \in [1..k -> Nat] /\ b[1] \in 0..1 /\ b[2] \in 0..1
  OBVIOUS
<1> HIDE DEF k
<1>2. PICK sum \in [0..k -> Nat] :
           /\ sum[0] = 0 /\ \A i \in 1..k : sum[i] = 2 * sum[i - 1] + b[k + 1 - i]
           /\ Number(b) = sum[k]
  BY ONLY <1>1, Sums
<1>3. sum[1] = 2 * sum[0] + b[2] /\ sum[2] = 2 * sum[1] + b[1]
  BY <1>2 DEF k
<1> DEFINE x == b[1]  y == b[2]
<1>4. x \in 0..1 /\ y \in 0..1 /\ sum[0] = 0 /\ sum[1] = 2 * sum[0] + y /\ sum[2] = 2 * sum[1] + x
  BY <1>1, <1>2, <1>3
<1> HIDE DEF x, y
<1>5. sum[2] = x + 2 * y
  BY ONLY <1>4
<1> QED BY <1>2, <1>5 DEF x, y, k

\* The bits of the number in a header of the microphone, as the relay reads them.
SeqRead(v) == [j \in 1..10 |-> IF j <= 8 THEN v[2 + j] ELSE v[11 - j]]

\* send_mic_blow shifts and turns the number so that it is read as it is.
LEMMA SeqFieldIsRead ==
  ASSUME NEW seq \in 0..(Modulus - 1)
  PROVE  /\ SeqField(seq) \in Nat
         /\ Number(SeqRead(Bits(SeqField(seq), 10))) = seq
<1> DEFINE l == seq % 256
           h == seq \div 256
           x == ((seq \div 256) * 2 + (seq \div 512)) % 4
           field == SeqField(seq)
<1>1. seq = 256 * h + l /\ h \in 0..3 /\ l \in 0..255
  BY DEF Modulus
<1>2. seq \div 512 = h \div 2
  BY <1>1
<1>3. field = l * 4 + x /\ x = (h * 2 + (h \div 2)) % 4
  BY <1>2 DEF SeqField
<1> HIDE DEF l, h, x, field
<1>4. x \in 0..3 /\ x = IF h = 0 THEN 0 ELSE IF h = 1 THEN 2 ELSE IF h = 2 THEN 1 ELSE 3
  <2>1. h = 0 \/ h = 1 \/ h = 2 \/ h = 3
    BY ONLY <1>1
  <2> QED BY ONLY <2>1, <1>3
<1>5. field \in Nat /\ field < 1024
  BY ONLY <1>1, <1>3, <1>4
<1> DEFINE k2 == 2  k8 == 8  k10 == 10  k28 == k2 + k8  k82 == k8 + k2
           v == Bits(field, k10)
           R == SeqRead(v)
<1>6. k2 \in Nat /\ k8 \in Nat /\ k10 \in Nat
  OBVIOUS
<1>7. k28 = k10 /\ k82 = k10
  OBVIOUS
<1> HIDE DEF k2, k8, k10
<1>8. v \in [1..k10 -> 0..1] /\ IsBits(v, k10)
  <2> IsBits(v, k10)
    BY ONLY <1>5, <1>6, BitsBit
  <2> QED BY DEF IsBits, Bit
<1>9. Number(v) = field
  <2>1. Weight(k10) = 1024
    BY Weights DEF k10
  <2> QED BY ONLY <2>1, <1>5, <1>6, NumberOfBits
<1> HIDE DEF v
<1> DEFINE lo == [i \in 1..k2 |-> v[i]]
           w  == [i \in 1..k8 |-> v[k2 + i]]
           R1 == [i \in 1..k8 |-> R[i]]
           R2 == [i \in 1..k2 |-> R[k8 + i]]
<1>10. v[1] \in 0..1 /\ v[2] \in 0..1
  BY ONLY <1>8 DEF k10
<1>11. R \in [1..k10 -> 0..1]
  <2>1. ASSUME NEW j \in 1..10 PROVE R[j] \in 0..1
    <3>1. CASE j <= 8
      <4> 2 + j \in 1..10
        BY <3>1
      <4> QED BY <3>1, <1>8 DEF SeqRead, k10
    <3>2. CASE ~(j <= 8)
      <4> 11 - j \in 1..10
        OBVIOUS
      <4> QED BY <3>2, <1>8 DEF SeqRead, k10
    <3> QED BY <3>1, <3>2
  <2> QED BY <2>1 DEF SeqRead, k10
<1>12. R1 = w
  <2>1. \A i \in 1..8 : R[i] = v[2 + i]
    BY DEF SeqRead
  <2> HIDE DEF R
  <2>2. \A i \in 1..k8 : R[i] = v[k2 + i]
    BY <2>1 DEF k8, k2
  <2> QED BY ONLY <2>2
<1>13. lo[1] = v[1] /\ lo[2] = v[2] /\ lo \in [1..2 -> 0..1]
  <2>1. 1 \in 1..k2 /\ 2 \in 1..k2
    BY DEF k2
  <2>2. lo[1] = v[1] /\ lo[2] = v[2]
    BY <2>1
  <2>3. \A i \in 1..k2 : i \in 1..k10
    BY DEF k2, k10
  <2>4. lo \in [1..k2 -> 0..1]
    BY <2>3, <1>8
  <2> HIDE DEF lo
  <2> QED BY ONLY <2>2, <2>4 DEF k2
<1>14. R2[1] = v[2] /\ R2[2] = v[1] /\ R2 \in [1..2 -> 0..1]
  <2>1. R[9] = v[2] /\ R[10] = v[1]
    BY DEF SeqRead
  <2> HIDE DEF R
  <2>2. R2[1] = R[9] /\ R2[2] = R[10]
    BY DEF k2, k8
  <2>3. R2 = [i \in 1..k2 |-> R2[i]]
    OBVIOUS
  <2> HIDE DEF R2
  <2>4. R2 = [i \in 1..2 |-> R2[i]]
    BY ONLY <2>3 DEF k2
  <2>5. R2[1] = v[2] /\ R2[2] = v[1]
    BY <2>1, <2>2
  <2>6. \A i \in 1..2 : R2[i] \in 0..1
    BY ONLY <2>5, <1>10
  <2> QED BY ONLY <2>4, <2>5, <2>6
<1> HIDE DEF R
<1>15. field = Number(lo) + Weight(k2) * Number(w)
  <2>1. v \in [1..(k2 + k8) -> Nat]
    <3> \A n \in 0..1 : n \in Nat
      OBVIOUS
    <3> QED BY <1>7, <1>8
  <2> QED BY ONLY <2>1, <1>6, <1>9, NumberSplit
<1>16. Number(R) = Number(R1) + Weight(k8) * Number(R2)
  <2>1. R \in [1..(k8 + k2) -> Nat]
    <3> \A n \in 0..1 : n \in Nat
      OBVIOUS
    <3> QED BY <1>7, <1>11
  <2> QED BY ONLY <2>1, <1>6, NumberSplit
<1>17. w \in [1..k8 -> 0..1]
  <2>1. \A i \in 1..k8 : k2 + i \in 1..k10
    BY <1>6, <1>7
  <2> QED BY <2>1, <1>8
<1> HIDE DEF lo, w, R1, R2
<1>18. Number(lo) = v[1] + 2 * v[2]
  BY ONLY <1>13, NumberOfTwo
<1>19. Number(R2) = v[2] + 2 * v[1]
  BY ONLY <1>14, NumberOfTwo
<1>20. Weight(k2) = 4 /\ Weight(k8) = 256
  BY Weights DEF k2, k8
<1> DEFINE W == Number(w)  a == v[1]  b == v[2]
<1>21. W \in Nat
  <2> w \in [1..k8 -> Nat]
    <3> \A n \in 0..1 : n \in Nat
      OBVIOUS
    <3> QED BY <1>17
  <2> QED BY ONLY w \in [1..k8 -> Nat], <1>6, NumberType
<1>22. /\ a \in 0..1 /\ b \in 0..1
       /\ field = (a + 2 * b) + 4 * W
       /\ Number(R) = W + 256 * (b + 2 * a)
  BY ONLY <1>10, <1>12, <1>15, <1>16, <1>18, <1>19, <1>20
<1> HIDE DEF W, a, b
<1>23. W = l /\ a + 2 * b = x
  BY ONLY <1>1, <1>3, <1>4, <1>21, <1>22
<1>24. b + 2 * a = h
  <2>1. h = 0 \/ h = 1 \/ h = 2 \/ h = 3
    BY ONLY <1>1
  <2> QED BY ONLY <2>1, <1>4, <1>22, <1>23
<1>25. Number(R) = seq
  BY ONLY <1>1, <1>22, <1>23, <1>24
<1> QED BY ONLY <1>5, <1>25 DEF R, v, k10, field

\* What the relay reads of the headers it writes for the microphone.
LEMMA HeaderOfAnswer ==
  ASSUME NEW seq \in 0..(Modulus - 1)
  PROVE  Header(MicHeader(seq)) = [format |-> 6, mono |-> 1, vibrate |-> 0, type |-> 0,
                                   seq_id |-> seq, payload_size |-> 512]
<1> DEFINE k3 == 3  k8 == 8  k10 == 10  k16 == 16  six == 6  size == 512
           a == Bits(Reverse3(6), 3)  b == Bits(1, 1)  c == Bits(0, 1)  e == Bits(SeqField(seq), 10)
           f == Bits(Reverse16(512), 16)
           L == Layout(a, b, c, c, e, f)
           z == ReverseBytes(L, {0, 2, 4, 6})
           r == ReverseBytes(z, HeaderBytes)
           F3 == Bits(six, k3)  F16 == Bits(size, k16)
<1>1. k3 \in Nat /\ k8 \in Nat /\ k10 \in Nat /\ k16 \in Nat /\ six \in Nat /\ size \in Nat
  OBVIOUS
<1>2. F16 = Bits(512, 16) /\ F3 = Bits(6, 3)
  OBVIOUS
<1>3. a = Bits(Number(Reversed(Bits(six, k3), 1, k3)), k3) /\ f = Bits(Number(Reversed(Bits(size, k16), 1, k16)), k16)
  BY DEF Reverse3, Reverse16
<1>4. MicHeader(seq) = z
  BY DEF MicHeader, Struct
<1> HIDE DEF k3, k8, k10, k16, six, size
<1>5. a = Msb(six, k3) /\ f = Msb(size, k16)
  BY ONLY <1>1, <1>3, TurnedNumber
<1>6. IsMsb(Msb(six, k3), six, k3) /\ IsMsb(Msb(size, k16), size, k16)
  BY ONLY <1>1, MsbIs
<1>7. b \in [1..1 -> Bit] /\ b[1] = 1 /\ c \in [1..1 -> Bit] /\ c[1] = 0
  <2> 0 \in Bit /\ 1 \in Bit
    BY DEF Bit
  <2> QED BY OneBit
<1>8. SeqField(seq) \in Nat /\ Number(SeqRead(e)) = seq
  BY SeqFieldIsRead
<1>9. e \in [1..10 -> Bit]
  <2>1. IsBits(Bits(SeqField(seq), k10), k10)
    BY ONLY <1>1, <1>8, BitsBit
  <2> QED BY ONLY <2>1 DEF IsBits, k10
<1>10. IsBits(F3, k3) /\ IsBits(F16, k16)
  BY ONLY <1>1, BitsBit
<1> HIDE DEF F3, F16
<1>11. F3 \in [1..3 -> Bit] /\ F16 \in [1..16 -> Bit]
  BY ONLY <1>10 DEF IsBits, k3, k16
<1>12. /\ a \in [1..3 -> Bit] /\ \A i \in 1..3 : a[i] = F3[4 - i]
       /\ f \in [1..16 -> Bit] /\ \A i \in 1..16 : f[i] = F16[17 - i]
  BY ONLY <1>5, <1>6 DEF IsMsb, k3, k16, F3, F16
<1> HIDE DEF a, b, c, e, f
<1>13. IsLayout(L, a, b, c, c, e, f)
  BY ONLY <1>7, <1>9, <1>12, LayoutBits
<1> HIDE DEF L
<1>14. BytesTurned(z, Bit, k8, L, {0, 2, 4, 6})
  <2> IsBytes(L, Bit, k8)
    BY ONLY <1>13 DEF k8, IsBytes, IsLayout
  <2> QED BY ReverseBytesIs
<1> HIDE DEF z
<1>15. BytesTurned(r, Bit, k8, z, HeaderBytes)
  <2> IsBytes(z, Bit, k8)
    BY ONLY <1>1, <1>14 DEF IsBytes, BytesTurned
  <2> QED BY ReverseBytesIs
<1> HIDE DEF r
<1>16. r \in [1..64 -> Bit]
  BY ONLY <1>15 DEF BytesTurned, k8
<1>17. ASSUME NEW y \in 0..7, NEW i \in 1..8
       PROVE  r[8 * y + i] = IF y \in {0, 2, 4, 6} THEN L[8 * y + i] ELSE L[8 * y + 9 - i]
  <2>1. y \in 0..(k8 - 1) /\ 9 - i \in 1..8 /\ 8 * y + (9 - i) = 8 * y + 9 - i /\ 8 * y + 9 - (9 - i) = 8 * y + i
        /\ y \in HeaderBytes
    BY DEF k8, HeaderBytes
  <2>2. r[8 * y + i] = z[8 * y + 9 - i]
    BY ONLY <2>1, <1>15, i \in 1..8 DEF BytesTurned
  <2>3. z[8 * y + (9 - i)] = IF y \in {0, 2, 4, 6} THEN L[8 * y + 9 - (9 - i)] ELSE L[8 * y + (9 - i)]
    BY ONLY <2>1, <1>14 DEF BytesTurned
  <2> QED BY ONLY <2>1, <2>2, <2>3
<1>18. /\ \A i \in 1..8 : r[i] = L[i] /\ r[16 + i] = L[16 + i]
       /\ \A i \in 1..8 : r[8 + i] = L[17 - i] /\ r[24 + i] = L[33 - i]
  <2>1. ASSUME NEW i \in 1..8 PROVE r[8 * 0 + i] = L[8 * 0 + i] /\ r[8 * 2 + i] = L[8 * 2 + i]
    BY <1>17
  <2>2. ASSUME NEW i \in 1..8 PROVE r[8 * 1 + i] = L[8 * 1 + 9 - i] /\ r[8 * 3 + i] = L[8 * 3 + 9 - i]
    BY <1>17
  <2> QED BY ONLY <2>1, <2>2
<1>19. /\ \A i \in 1..3 : L[i] = a[i]
       /\ L[4] = 1 /\ L[5] = 0 /\ L[6] = 0
       /\ \A i \in 1..10 : L[6 + i] = e[i]
       /\ \A i \in 1..16 : L[16 + i] = f[i]
  BY ONLY <1>7, <1>13 DEF IsLayout
<1>20. ASSUME NEW j \in 1..3 PROVE r[4 - j] = F3[j]
  <2> 4 - j \in 1..8 /\ 4 - j \in 1..3 /\ 4 - (4 - j) = j
    OBVIOUS
  <2> QED BY <1>12, <1>18, <1>19
<1>21. ASSUME NEW j \in 1..10 PROVE r[17 - j] = SeqRead(e)[j]
  <2>1. CASE j <= 8
    <3>1. 9 - j \in 1..8 /\ 8 + (9 - j) = 17 - j /\ 17 - (9 - j) = 6 + (2 + j) /\ 2 + j \in 1..10
      BY <2>1
    <3>2. r[8 + (9 - j)] = L[17 - (9 - j)]
      BY ONLY <3>1, <1>18
    <3>3. L[6 + (2 + j)] = e[2 + j]
      BY ONLY <3>1, <1>19
    <3> QED BY <2>1, <3>1, <3>2, <3>3 DEF SeqRead
  <2>2. CASE ~(j <= 8)
    <3>1. 17 - j \in 1..8 /\ 17 - j = 6 + (11 - j) /\ 11 - j \in 1..10
      BY <2>2
    <3>2. r[17 - j] = L[17 - j]
      BY ONLY <3>1, <1>18
    <3>3. L[6 + (11 - j)] = e[11 - j]
      BY ONLY <3>1, <1>19
    <3> QED BY <2>2, <3>1, <3>2, <3>3 DEF SeqRead
  <2> QED BY <2>1, <2>2
<1>22. ASSUME NEW j \in 1..16 PROVE r[33 - j] = F16[j]
  <2>1. CASE j <= 8
    <3>1. 9 - j \in 1..8 /\ 24 + (9 - j) = 33 - j /\ 33 - (9 - j) = 16 + (8 + j) /\ 8 + j \in 1..16
          /\ 17 - (8 + j) = 9 - j /\ j \in 1..8
      BY <2>1
    <3>2. r[24 + (9 - j)] = L[33 - (9 - j)]
      BY ONLY <3>1, <1>18
    <3>3. L[16 + (8 + j)] = f[8 + j]
      BY ONLY <3>1, <1>19
    <3>4. f[8 + j] = F16[9 - j]
      BY ONLY <3>1, <1>12
    <3>5. F16[9 - j] = 0 /\ F16[j] = 0
      BY ONLY <3>1, <1>2, SizeLowByte
    <3> QED BY ONLY <3>1, <3>2, <3>3, <3>4, <3>5
  <2>2. CASE ~(j <= 8)
    <3>1. 17 - j \in 1..8 /\ 16 + (17 - j) = 33 - j /\ 17 - j \in 1..16 /\ 17 - (17 - j) = j
      BY <2>2
    <3>2. r[16 + (17 - j)] = L[16 + (17 - j)]
      BY ONLY <3>1, <1>18
    <3>3. L[16 + (17 - j)] = f[17 - j]
      BY ONLY <3>1, <1>19
    <3>4. f[17 - j] = F16[17 - (17 - j)]
      BY ONLY <3>1, <1>12
    <3> QED BY ONLY <3>1, <3>2, <3>3, <3>4
  <2> QED BY <2>1, <2>2
<1>23. IsRead(r, F3, SeqRead(e), F16)
  BY ONLY <1>20, <1>21, <1>22 DEF IsRead
<1>24. SeqRead(e) \in [1..10 -> Bit]
  <2>1. ASSUME NEW j \in 1..10 PROVE SeqRead(e)[j] \in Bit
    <3>1. (j <= 8 => 2 + j \in 1..10) /\ 11 - j \in 1..10
      OBVIOUS
    <3> QED BY <3>1, <1>9 DEF SeqRead
  <2> QED BY <2>1 DEF SeqRead
<1>25. Header(z) = [format |-> Number(F3), mono |-> r[4], vibrate |-> r[5], type |-> r[6],
                    seq_id |-> Number(SeqRead(e)), payload_size |-> Number(F16)]
  BY ONLY <1>11, <1>16, <1>23, <1>24, HeaderRead DEF r
<1>26. r[4] = 1 /\ r[5] = 0 /\ r[6] = 0
  BY ONLY <1>18, <1>19
<1>27. Number(F3) = 6 /\ Number(F16) = 512
  <2>1. Weight(k3) = 8 /\ Weight(k16) = 65536
    BY Weights DEF k3, k16
  <2>2. six < Weight(k3) /\ size < Weight(k16)
    BY ONLY <2>1 DEF six, size
  <2>3. Number(F3) = six /\ Number(F16) = size
    BY ONLY <1>1, <2>2, NumberOfBits DEF F3, F16
  <2> QED BY ONLY <2>3 DEF six, size
<1> QED BY ONLY <1>4, <1>8, <1>25, <1>26, <1>27

-----------------------------------------------------------------------------
(* The numbers of some packets of a sequence. *)

NumbersSteps(s, K, of) ==
  of[0] = <<>> /\ \A i \in 1..Len(s) : of[i] = IF s[i] \in K THEN Append(of[i - 1], s[i].n) ELSE of[i - 1]

\* What has numbers.
Numbered(T) == \A x \in T : x.n \in Nat

LEMMA NumbersBy ==
  ASSUME NEW T, Numbered(T), NEW s \in Seq(T), NEW K
  PROVE  \E of \in [0..Len(s) -> Seq(Nat)] : NumbersSteps(s, K, of) /\ NumbersOf(s, K) = of[Len(s)]
<1> DEFINE step == [i \in 1..Len(s) |-> [c \in Seq(Nat) |-> IF s[i] \in K THEN Append(c, s[i].n) ELSE c]]
           F(c) == [i \in 0..Len(s) |-> IF i = 0 THEN <<>> ELSE IF s[i] \in K THEN Append(c[i - 1], s[i].n) ELSE c[i - 1]]
           r == CHOOSE c : c = F(c)
<1>0. Len(s) \in Nat /\ \A i \in 1..Len(s) : i - 1 \in 0..Len(s) /\ i # 0 /\ s[i].n \in Nat
  BY DEF Numbered
<1>1. step \in [1..Len(s) -> [Seq(Nat) -> Seq(Nat)]]
  BY <1>0
<1>2. PICK g \in [0..Len(s) -> Seq(Nat)] : Recurs(g, Len(s), <<>>, step)
  <2>1. <<>> \in Seq(Nat)
    OBVIOUS
  <2> HIDE DEF step
  <2> QED BY <1>0, <1>1, <2>1, RecursionOnNat
<1>3. g = F(g)
  <2>1. \A i \in 1..Len(s) : g[i] = IF s[i] \in K THEN Append(g[i - 1], s[i].n) ELSE g[i - 1]
    <3> SUFFICES ASSUME NEW i \in 1..Len(s) PROVE g[i] = IF s[i] \in K THEN Append(g[i - 1], s[i].n) ELSE g[i - 1]
      OBVIOUS
    <3>1. g[i] = step[i][g[i - 1]] /\ g[i - 1] \in Seq(Nat)
      BY <1>0, <1>2 DEF Recurs
    <3> QED BY <3>1
  <2>2. g[0] = <<>>
    BY <1>2 DEF Recurs
  <2>3. \A i \in 0..Len(s) : g[i] = IF i = 0 THEN <<>> ELSE IF s[i] \in K THEN Append(g[i - 1], s[i].n) ELSE g[i - 1]
    <3> HIDE DEF step, r
    <3> SUFFICES ASSUME NEW i \in 0..Len(s), i # 0 PROVE i \in 1..Len(s)
      BY <2>1, <2>2
    <3> QED BY <1>0
  <2> HIDE DEF step, r
  <2> QED BY <2>3
<1>4. r = F(r)
  BY <1>3
<1>5. NumbersOf(s, K) = r[Len(s)]
  BY DEF NumbersOf
<1> HIDE DEF r
<1>6. NumbersSteps(s, K, r)
  <2>1. r[0] = <<>>
    BY <1>0, <1>4
  <2>2. \A i \in 1..Len(s) : r[i] = IF s[i] \in K THEN Append(r[i - 1], s[i].n) ELSE r[i - 1]
    <3> SUFFICES ASSUME NEW i \in 1..Len(s) PROVE r[i] = IF s[i] \in K THEN Append(r[i - 1], s[i].n) ELSE r[i - 1]
      OBVIOUS
    <3> i \in 0..Len(s) /\ i # 0
      BY <1>0
    <3> QED BY <1>4
  <2> QED BY <2>1, <2>2 DEF NumbersSteps
<1> DEFINE U == {i \in Nat : i <= Len(s) => r[i] \in Seq(Nat)}
<1>7. \A i \in Nat : i \in U
  <2>1. 0 \in U
    <3>1. r[0] = <<>> /\ <<>> \in Seq(Nat)
      BY <1>6 DEF NumbersSteps
    <3> QED BY <3>1
  <2>2. ASSUME NEW i \in Nat, i \in U PROVE i + 1 \in U
    <3> SUFFICES ASSUME i + 1 \in 1..Len(s) PROVE r[i + 1] \in Seq(Nat)
      OBVIOUS
    <3>1. r[i] \in Seq(Nat) /\ s[i + 1].n \in Nat
      BY <2>2, <1>0
    <3>2. r[i + 1] = IF s[i + 1] \in K THEN Append(r[i], s[i + 1].n) ELSE r[i]
      BY <1>6 DEF NumbersSteps
    <3> QED BY <3>1, <3>2
  <2> HIDE DEF U
  <2> QED BY <2>1, <2>2, InductionOnSets
<1>8. r \in [0..Len(s) -> Seq(Nat)]
  <2> \A i \in 0..Len(s) : r[i] \in Seq(Nat)
    BY <1>7, <1>0
  <2> DOMAIN r = 0..Len(s) /\ r = [i \in DOMAIN r |-> r[i]]
    BY <1>4
  <2> HIDE DEF U
  <2> QED OBVIOUS
<1> QED BY <1>5, <1>6, <1>8

LEMMA NumbersEmpty == \A K : NumbersOf(<<>>, K) = <<>>
<1> TAKE K
<1> DEFINE s == <<>>
<1>1. Numbered({}) /\ s \in Seq({}) /\ Len(s) = 0
  BY DEF Numbered
<1> HIDE DEF s
<1>2. PICK c : NumbersSteps(s, K, c) /\ NumbersOf(s, K) = c[Len(s)]
  BY <1>1, NumbersBy
<1> QED BY <1>1, <1>2 DEF NumbersSteps, s

LEMMA NumbersAppend ==
  ASSUME NEW T, Numbered(T), NEW s \in Seq(T), NEW x \in T, NEW K
  PROVE  NumbersOf(Append(s, x), K) = IF x \in K THEN Append(NumbersOf(s, K), x.n) ELSE NumbersOf(s, K)
<1> DEFINE t == Append(s, x)
<1>1. t \in Seq(T) /\ Len(t) = Len(s) + 1 /\ Len(s) \in Nat /\ t[Len(s) + 1] = x /\ \A i \in 1..Len(s) : t[i] = s[i]
  OBVIOUS
<1> HIDE DEF t
<1>2. PICK c : NumbersSteps(s, K, c) /\ NumbersOf(s, K) = c[Len(s)]
  BY NumbersBy
<1>3. PICK d : NumbersSteps(t, K, d) /\ NumbersOf(t, K) = d[Len(t)]
  BY <1>1, NumbersBy
<1> DEFINE U == {i \in Nat : i <= Len(s) => d[i] = c[i]}
<1>4. \A i \in Nat : i \in U
  <2>1. 0 \in U
    BY <1>2, <1>3 DEF NumbersSteps
  <2>2. ASSUME NEW i \in Nat, i \in U PROVE i + 1 \in U
    <3> SUFFICES ASSUME i + 1 <= Len(s) PROVE d[i + 1] = c[i + 1]
      OBVIOUS
    <3>1. i + 1 \in 1..Len(s) /\ i + 1 \in 1..Len(t) /\ i + 1 - 1 = i
      BY <1>1
    <3>2. d[i] = c[i] /\ t[i + 1] = s[i + 1]
      BY <1>1, <3>1, <2>2
    <3> QED BY <3>1, <3>2, <1>2, <1>3 DEF NumbersSteps
  <2> HIDE DEF U
  <2> QED BY <2>1, <2>2, InductionOnSets
<1>5. d[Len(s)] = c[Len(s)]
  BY <1>1, <1>4
<1>6. d[Len(s) + 1] = IF x \in K THEN Append(d[Len(s)], x.n) ELSE d[Len(s)]
  <2> Len(s) + 1 \in 1..Len(t) /\ Len(s) + 1 - 1 = Len(s)
    BY <1>1
  <2> QED BY <1>1, <1>3 DEF NumbersSteps
<1> QED BY <1>1, <1>2, <1>3, <1>5, <1>6 DEF t

-----------------------------------------------------------------------------
(* The invariant: what the clients hear. *)

Idle == pc \in {"select", "serve"}

\* Every socket the round still has to serve has a packet.
Ready == pc # "select" => \A s \in ready : IF s = "aud" THEN queue # <<>> ELSE waiting[s] > 0

\* Every packet of the console is at most once in the socket or taken from it.
Distinct ==
  /\ \A i \in 1..Len(queue) : queue[i].n <= sent /\ \A j \in 1..Len(queue) : queue[i].n = queue[j].n => i = j
  /\ \A i \in 1..Len(taken) : taken[i].n <= sent /\ \A j \in 1..Len(taken) : taken[i].n = taken[j].n => i = j
  /\ \A i \in 1..Len(queue), j \in 1..Len(taken) : queue[i].n # taken[j].n

\* The handler has the packet taken last.
Handling ==
  ~Idle => /\ taken # <<>> /\ packet = taken[Len(taken)] /\ packet \in Stereo
           /\ seq_id_expected = NumberOf(packet.n + 1)

\* How far the handler got with it.
Passed ==
  /\ \A j \in 1..Len(heard) : \E i \in 1..Len(taken) : taken[i].n = heard[j].n
  /\ NumbersOf(taken, Stereo) = IF pc \in {"vibrate", "sound"} THEN Append(NumbersOf(heard, Sounds), packet.n)
                                                               ELSE NumbersOf(heard, Sounds)
  /\ pc = "vibrate" => packet.sort.vibrate = 1
  /\ pc = "sound" => (packet.sort.vibrate = 1 <=>
                      heard # <<>> /\ heard[Len(heard)] = [what |-> "vibrate", n |-> packet.n])

\* The second half of SoundAsArrived.
Together ==
  \A i \in 1..Len(taken) : taken[i] \in Stereo =>
    \A j \in 1..Len(heard) : heard[j] = [what |-> "sound", n |-> taken[i].n] =>
      (taken[i].sort.vibrate = 1 <=> j > 1 /\ heard[j - 1] = [what |-> "vibrate", n |-> taken[i].n])

-----------------------------------------------------------------------------
(* The invariant: when the console hears a blow. *)

\* What the store of the last blow has written so far.
Stored ==
  /\ now >= Second /\ \A i \in 1..Len(stamps) : stamps[i] >= Second
  /\ IF stamps = <<>> THEN tv_sec = 0 /\ tv_nsec = 0 /\ spc = "idle"
     ELSE /\ tv_sec = Sec(stamps[Len(stamps)])
          /\ spc # "nsec" => tv_nsec = Nsec(stamps[Len(stamps)])

\* The first word of the time is of some blow; when no store met the look, of the last.
Looking ==
  pc = "nsec" => /\ rsec = 0 \/ \E i \in 1..Len(stamps) : rsec = Sec(stamps[i])
                 /\ ~overlapped => spc = "idle" /\ rsec = tv_sec

\* A time close enough to a blow.
Near(time) ==
  \E i \in 1..Len(stamps) : time - stamps[i] < Second /\ (~overlapped => time - stamps[i] <= Delay)

Answering ==
  /\ pc \in {"blow", "send"} => Near(rtime)
  /\ mic # <<>> => /\ Idle /\ mic.time \in Nat /\ Near(mic.time)
                   /\ mic.after \in 1..MaxSounds /\ mic.header = MicHeader(NumberOf(mic.after + 1))

IInv == TypeOK /\ Ready /\ Distinct /\ Handling /\ Passed /\ Together /\ Stored /\ Looking /\ Answering

-----------------------------------------------------------------------------
(* Types. *)

LEMMA ModulusType == Modulus \in Nat \ {0}
BY DEF Modulus

LEMMA NumbersUsed ==
  ASSUME first \in Firsts, NEW n \in 1..(MaxSounds + 1)
  PROVE  NumberOf(n) \in Used /\ NumberOf(n) \in 0..(Modulus - 1)
<1>1. NumberOf(n) \in Used
  BY DEF NumberOf, Used
<1>2. NumberOf(n) \in 0..(Modulus - 1)
  <2>1. first \in Nat /\ n \in Nat /\ Modulus \in Nat \ {0}
    BY SoundAssumption, ModulusType
  <2>2. first + n \in Nat
    BY <2>1
  <2>3. \A a \in Nat, m \in Nat \ {0} : a % m \in 0..(m - 1)
    OBVIOUS
  <2> QED BY <2>1, <2>2, <2>3 DEF NumberOf
<1> QED BY <1>1, <1>2

\* A packet as the handler reads it.
LEMMA ReadIs ==
  ASSUME first \in Firsts, NEW p \in Packets
  PROVE  LET h == Read[p.sort][NumberOf(p.n)] IN
         /\ h.vibrate = p.sort.vibrate /\ h.seq_id = NumberOf(p.n) /\ NumberOf(p.n) \in 0..(Modulus - 1)
         /\ p \in Stereo <=> IsAudio(h) /\ ~Skipped(h)
<1> DEFINE h == Read[p.sort][NumberOf(p.n)]
<1>1. p.sort \in Sorts /\ p.sort \in Sort /\ p.n \in 1..MaxSounds /\ p.n \in 1..(MaxSounds + 1)
  BY SoundAssumption DEF Packets
<1>2. NumberOf(p.n) \in Used /\ NumberOf(p.n) \in 0..(Modulus - 1)
  BY <1>1, NumbersUsed
<1>3. h = Header(Wire(p.sort, NumberOf(p.n)))
  BY <1>1, <1>2 DEF Read
<1>4. h = [format |-> p.sort.format, mono |-> p.sort.mono, vibrate |-> p.sort.vibrate,
           type |-> p.sort.type, seq_id |-> NumberOf(p.n), payload_size |-> 512]
  BY <1>1, <1>2, <1>3, HeaderOfWire
<1> HIDE DEF h
<1>5. p.sort.mono = 0 <=> p.sort.mono # 1
  BY <1>1 DEF Sort
<1>6. h.vibrate = p.sort.vibrate /\ h.seq_id = NumberOf(p.n)
  BY <1>4
<1>7. p \in Stereo <=> IsAudio(h) /\ ~Skipped(h)
  BY <1>4, <1>5 DEF Stereo, IsAudio, Skipped
<1> QED BY <1>2, <1>6, <1>7 DEF h

LEMMA Times ==
  ASSUME NEW t \in Nat
  PROVE  Sec(t) \in Nat /\ Nsec(t) \in 0..(Second - 1) /\ t = Second * Sec(t) + Nsec(t)
<1>1. Second \in Nat \ {0}
  BY SoundAssumption
<1>2. /\ t \div Second \in Nat /\ t % Second \in 0..(Second - 1)
      /\ t = Second * (t \div Second) + (t % Second)
  BY <1>1, SMT
<1> QED BY <1>2 DEF Sec, Nsec

LEMMA TypeInit == Init => TypeOK
<1> SUFFICES ASSUME Init PROVE TypeOK
  OBVIOUS
<1>1. Second \in Nat \ {0} /\ MaxSounds \in Nat /\ MaxWaiting \in Nat
  BY SoundAssumption
<1> USE DEF Init
<1>2. first \in Firsts /\ sent \in 0..MaxSounds /\ queue \in Seq(Packets) /\ waiting \in [Busy -> 0..MaxWaiting]
  <2>1. first \in Firsts /\ queue \in Seq(Packets)
    OBVIOUS
  <2>2. sent \in 0..MaxSounds
    BY <1>1
  <2>3. waiting \in [Busy -> 0..MaxWaiting]
    BY <1>1
  <2> QED BY <2>1, <2>2, <2>3
<1>3. /\ pc \in {"select", "serve", "vibrate", "sound", "sec", "nsec", "blow", "send"}
      /\ ready \subseteq Busy \cup {"aud"} /\ pc \in {"select", "serve"}
      /\ seq_id_expected \in -1..(Modulus - 1)
  BY ModulusType
<1>4. /\ rsec \in Nat /\ rtime \in 0..now /\ tv_sec \in Nat /\ tv_nsec \in 0..(Second - 1)
      /\ spc \in {"idle", "nsec", "blow"} /\ now \in Nat
  BY <1>1
<1>6. blow \in BOOLEAN /\ alive \in BOOLEAN /\ overlapped \in BOOLEAN
  BY Zenon
<1>5. taken \in Seq(Packets) /\ heard \in Seq(Heard) /\ stamps \in Seq(0..now)
  OBVIOUS
<1> QED BY ONLY <1>2, <1>3, <1>4, <1>5, <1>6 DEF TypeOK

LEMMA Retyped ==
  ASSUME NEW S, NEW T, NEW s \in Seq(S), \A i \in 1..Len(s) : s[i] \in T
  PROVE  s \in Seq(T)
<1>1. s = [i \in 1..Len(s) |-> s[i]] /\ Len(s) \in Nat
  OBVIOUS
<1>2. s \in [1..Len(s) -> T]
  BY <1>1
<1> QED BY <1>1, <1>2

LEMMA TypeNext == TypeOK /\ Ready /\ Handling /\ Stored /\ Next => TypeOK'
<1> SUFFICES ASSUME TypeOK, Ready, Handling, Stored, Next PROVE TypeOK'
  OBVIOUS
<1> USE DEF TypeOK
<1>0. Second \in Nat \ {0} /\ MaxSounds \in Nat /\ MaxWaiting \in Nat /\ Modulus \in Nat \ {0}
  BY SoundAssumption, ModulusType
<1>1. ASSUME NEW sort \in Sorts, SendSound(sort) PROVE TypeOK'
  <2> DEFINE p == [sort |-> sort, n |-> sent + 1]
  <2>1. p \in Packets
    BY <1>0, <1>1 DEF SendSound, Packets
  <2> HIDE DEF p
  <2>2. queue' \in {queue, Append(queue, p), <<p>> \o queue}
    BY <1>1 DEF SendSound, p
  <2>3. queue' \in Seq(Packets)
    <3>1. Append(queue, p) \in Seq(Packets)
      BY <2>1
    <3>2. <<p>> \in Seq(Packets)
      BY <2>1
    <3>3. <<p>> \o queue \in Seq(Packets)
      BY <3>2
    <3> QED BY <2>2, <3>1, <3>3
  <2> QED BY <1>0, <1>1, <2>3 DEF SendSound, thread, setter, object
<1>2. ASSUME NEW s \in Busy, SendOther(s) PROVE TypeOK'
  <2>1. waiting' \in [Busy -> 0..MaxWaiting]
    BY <1>0, <1>2 DEF SendOther
  <2> QED BY <1>2, <2>1 DEF SendOther, console, thread, setter, object
<1>3. CASE Tick
  <2>1. now' \in Nat /\ rtime \in 0..now'
    BY <1>3 DEF Tick
  <2>2. stamps \in Seq(0..now')
    <3>1. \A i \in 1..Len(stamps) : stamps[i] \in 0..now'
      BY <1>3 DEF Tick
    <3> QED BY <3>1, Retyped
  <2> QED BY <1>3, <2>1, <2>2 DEF Tick, console, thread, setter, object
<1>4. CASE BeginBlow
  <2>1. Sec(now) \in Nat
    BY Times
  <2>2. stamps' \in Seq(0..now)
    <3> now \in 0..now
      OBVIOUS
    <3> QED BY <1>4 DEF BeginBlow
  <2> QED BY <1>4, <2>1, <2>2 DEF BeginBlow, console, thread
<1>5. CASE StampNsec
  <2>1. Nsec(Last(stamps)) \in 0..(Second - 1)
    <3>1. stamps # <<>>
      BY <1>5 DEF StampNsec, Stored
    <3>2. Last(stamps) \in Nat
      BY <3>1 DEF Last
    <3> QED BY <3>2, Times
  <2> QED BY <1>5, <2>1 DEF StampNsec, console, thread
<1>6. CASE StoreBlow
  BY <1>6 DEF StoreBlow, console, thread
<1>7. CASE Select
  BY <1>7 DEF Select, Pending, console, setter, object
<1>8. ASSUME NEW s \in Busy, ServeOther(s) PROVE TypeOK'
  <2>1. waiting[s] \in 1..MaxWaiting
    BY <1>0, <1>8 DEF ServeOther, Turn, Ready
  <2>2. waiting' \in [Busy -> 0..MaxWaiting]
    BY <1>0, <1>8, <2>1 DEF ServeOther
  <2> QED BY <1>8, <2>2 DEF ServeOther, Left, console, setter, object
<1>9. CASE EndRound
  BY <1>9 DEF EndRound, console, setter, object
<1>10. CASE Take
  <2>1. queue # <<>>
    BY <1>10 DEF Take, Turn, Ready
  <2> DEFINE p == Head(queue)
  <2>2. p \in Packets /\ queue' \in Seq(Packets)
    BY <1>10, <2>1 DEF Take
  <2>3. taken' \in Seq(Packets)
    BY <1>10, <2>2 DEF Take
  <2>4. Parsed.seq_id \in 0..(Modulus - 1)
    BY <2>2, ReadIs DEF Parsed
  <2>5. seq_id_expected' \in -1..(Modulus - 1)
    <3>1. UpdateSeqId(Parsed.seq_id) \in 0..(Modulus - 1)
      <4>1. Parsed.seq_id + 1 \in Nat
        BY <1>0, <2>4
      <4>2. \A a \in Nat, m \in Nat \ {0} : a % m \in 0..(m - 1)
        OBVIOUS
      <4> QED BY <1>0, <4>1, <4>2 DEF UpdateSeqId
    <3>2. seq_id_expected' = UpdateSeqId(Parsed.seq_id) \/ seq_id_expected' = seq_id_expected
      BY <1>10 DEF Take
    <3> QED BY <1>0, <3>1, <3>2
  <2>6. /\ pc' \in {"select", "serve", "vibrate", "sound", "sec", "nsec", "blow", "send"}
        /\ pc' \notin {"select", "serve"} => packet' \in Packets
    BY <1>10, <2>2 DEF Take
  <2>7. ready' \subseteq Busy \cup {"aud"}
    BY <1>10 DEF Take, Left
  <2>8. UNCHANGED <<first, sent, waiting, rsec, rtime, tv_sec, tv_nsec, blow, spc, stamps, overlapped, now, alive, heard>>
    BY <1>10 DEF Take, console, setter, object
  <2> QED BY <2>2, <2>3, <2>5, <2>6, <2>7, <2>8
<1>11. CASE Vibrate
  <2>1. [what |-> "vibrate", n |-> packet.n] \in Heard
    BY <1>11 DEF Vibrate, Heard, Packets
  <2>2. heard' \in Seq(Heard)
    BY <1>11, <2>1 DEF Vibrate, Broadcast
  <2> QED BY <1>11, <2>2 DEF Vibrate, Broadcast, console, setter, object
<1>12. CASE Sound
  <2>1. [what |-> "sound", n |-> packet.n] \in Heard
    BY <1>12 DEF Sound, Heard, Packets
  <2>2. heard' \in Seq(Heard)
    BY <1>12, <2>1 DEF Sound, Broadcast
  <2> QED BY <1>12, <2>2 DEF Sound, Broadcast, console, setter, object
<1>13. CASE LoadSec
  BY <1>13 DEF LoadSec, console, object
<1>14. CASE LookAtTime
  BY <1>14 DEF LookAtTime, Return, console, setter, object
<1>15. CASE LoadBlow
  BY <1>15 DEF LoadBlow, Return, console, setter, object
<1>16. CASE SendMicBlow
  BY <1>16 DEF SendMicBlow, Return, console, setter, object
<1>17. CASE SendFails
  BY <1>17 DEF SendFails, console, thread, setter, object
<1> QED BY <1>1, <1>2, <1>3, <1>4, <1>5, <1>6, <1>7, <1>8, <1>9, <1>10, <1>11, <1>12, <1>13, <1>14, <1>15, <1>16, <1>17 DEF Next, GamepadNext

-----------------------------------------------------------------------------
(* The steps that do not concern the sound handler leave it alone. *)

\* The last steps of the handler, and those that do not touch it.
Aside ==
  /\ UNCHANGED <<first, sent, queue, seq_id_expected, taken, heard>>
  /\ \/ UNCHANGED <<pc, packet>>
     \/ Idle /\ Idle'
     \/ /\ pc \in {"sec", "nsec", "blow", "send"}
        /\ Idle' \/ (pc' \in {"sec", "nsec", "blow", "send"} /\ UNCHANGED packet)

LEMMA AsideSteps ==
  Next => \/ Aside \/ Take \/ Vibrate \/ Sound \/ \E sort \in Sorts : SendSound(sort)
<1> SUFFICES ASSUME Next PROVE Aside \/ Take \/ Vibrate \/ Sound \/ \E sort \in Sorts : SendSound(sort)
  OBVIOUS
<1> USE DEF Aside, Idle, console, thread
<1>2. ASSUME NEW s \in Busy, SendOther(s) PROVE Aside
  BY <1>2 DEF SendOther
<1>3. CASE Tick
  BY <1>3 DEF Tick
<1>4. CASE BeginBlow
  BY <1>4 DEF BeginBlow
<1>5. CASE StampNsec
  BY <1>5 DEF StampNsec
<1>6. CASE StoreBlow
  BY <1>6 DEF StoreBlow
<1>7. CASE Select
  BY <1>7 DEF Select
<1>8. ASSUME NEW s \in Busy, ServeOther(s) PROVE Aside
  BY <1>8 DEF ServeOther
<1>9. CASE EndRound
  BY <1>9 DEF EndRound
<1>13. CASE LoadSec
  BY <1>13 DEF LoadSec
<1>14. CASE LookAtTime
  BY <1>14 DEF LookAtTime, Return
<1>15. CASE LoadBlow
  BY <1>15 DEF LoadBlow, Return
<1>16. CASE SendMicBlow
  BY <1>16 DEF SendMicBlow, Return
<1>17. CASE SendFails
  BY <1>17 DEF SendFails
<1> QED BY <1>2, <1>3, <1>4, <1>5, <1>6, <1>7, <1>8, <1>9, <1>13, <1>14, <1>15, <1>16, <1>17 DEF Next, GamepadNext

-----------------------------------------------------------------------------
(* What the clients hear. *)

LEMMA ReadyNext == TypeOK /\ Ready /\ Next => Ready'
<1> SUFFICES ASSUME TypeOK, Ready, Next PROVE Ready'
  OBVIOUS
<1> USE DEF Ready
<1>0. "aud" \notin Busy /\ ready \subseteq Busy \cup {"aud"} /\ waiting \in [Busy -> 0..MaxWaiting] /\ MaxWaiting \in Nat
  BY SoundAssumption DEF TypeOK
<1>1. ASSUME NEW sort \in Sorts, SendSound(sort) PROVE Ready'
  <2> DEFINE p == [sort |-> sort, n |-> sent + 1]
  <2>1. queue # <<>> => queue' # <<>>
    <3> HIDE DEF p
    <3>1. queue' \in {queue, Append(queue, p), <<p>> \o queue}
      BY <1>1 DEF SendSound, p
    <3>2. queue \in Seq(Packets)
      BY DEF TypeOK
    <3>3. Append(queue, p) # <<>> /\ <<p>> \o queue # <<>>
      BY <3>2
    <3> QED BY <3>1, <3>3
  <2> QED BY <1>1, <2>1 DEF SendSound, thread
<1>2. ASSUME NEW s \in Busy, SendOther(s) PROVE Ready'
  <2>1. \A t \in Busy : waiting[t] > 0 => waiting'[t] > 0
    BY <1>0, <1>2 DEF SendOther
  <2> QED BY <1>0, <1>2, <2>1 DEF SendOther, thread
<1>7. CASE Select
  BY <1>0, <1>7 DEF Select, Pending
<1>8. ASSUME NEW s \in Busy, ServeOther(s) PROVE Ready'
  <2>1. ready' = ready \ {s} /\ \A t \in Busy \ {s} : waiting'[t] = waiting[t]
    BY <1>0, <1>8 DEF ServeOther, Left
  <2> QED BY <1>0, <1>8, <2>1 DEF ServeOther
<1>10. CASE Take
  BY <1>10 DEF Take, Turn, Left
<1>18. CASE UNCHANGED <<queue, waiting, ready>> /\ (pc = "select" => pc' = "select")
  BY <1>18
<1>19. ASSUME Tick \/ BeginBlow \/ StampNsec \/ StoreBlow \/ SendFails
       PROVE  UNCHANGED <<queue, waiting, ready>> /\ (pc = "select" => pc' = "select")
  BY <1>19 DEF Tick, BeginBlow, StampNsec, StoreBlow, SendFails, thread
<1>20. ASSUME EndRound \/ Vibrate \/ Sound \/ LoadSec \/ LookAtTime \/ LoadBlow \/ SendMicBlow
       PROVE  UNCHANGED <<queue, waiting, ready>> /\ (pc = "select" => pc' = "select")
  BY <1>20 DEF EndRound, Vibrate, Sound, Broadcast, LoadSec, LookAtTime, LoadBlow, SendMicBlow
<1> QED BY <1>1, <1>2, <1>7, <1>8, <1>10, <1>18, <1>19, <1>20 DEF Next, GamepadNext

LEMMA DistinctNext == TypeOK /\ Ready /\ Distinct /\ Next => Distinct'
<1> SUFFICES ASSUME TypeOK, Ready, Distinct, Next PROVE Distinct'
  OBVIOUS
<1>0. queue \in Seq(Packets) /\ taken \in Seq(Packets) /\ sent \in Nat /\ \A q \in Packets : q.n \in Nat
  BY SoundAssumption DEF TypeOK, Packets
<1>1. ASSUME NEW sort \in Sorts, SendSound(sort) PROVE Distinct'
  <2> DEFINE p == [sort |-> sort, n |-> sent + 1]
  <2>1. /\ queue' \in {queue, Append(queue, p), <<p>> \o queue}
        /\ sent' = sent + 1 /\ taken' = taken /\ p.n = sent + 1
    BY <1>0, <1>1 DEF SendSound
  <2> HIDE DEF p
  <2>2. /\ \A i \in 1..Len(queue) : queue[i].n \in Nat /\ queue[i].n <= sent
        /\ \A i \in 1..Len(taken) : taken[i].n \in Nat /\ taken[i].n <= sent
    BY <1>0 DEF Distinct
  <2>6. \A i \in 1..Len(taken') : taken'[i].n <= sent' /\ \A j \in 1..Len(taken') : taken'[i].n = taken'[j].n => i = j
    BY <1>0, <2>1, <2>2 DEF Distinct
  <2>3. CASE queue' = queue
    BY <1>0, <2>1, <2>2, <2>3, <2>6 DEF Distinct
  <2>7. /\ sent \in Nat /\ sent' = sent + 1 /\ p.n = sent + 1 /\ taken' = taken
        /\ \A i \in 1..Len(queue), j \in 1..Len(queue) : queue[i].n = queue[j].n => i = j
        /\ \A i \in 1..Len(queue), j \in 1..Len(taken) : queue[i].n # taken[j].n
    BY <1>0, <2>1 DEF Distinct
  <2>4. CASE queue' = Append(queue, p)
    <3>1. /\ Len(queue') = Len(queue) + 1 /\ queue'[Len(queue) + 1] = p /\ \A i \in 1..Len(queue) : queue'[i] = queue[i]
          /\ Len(queue) \in Nat
      BY <1>0, <2>4
    <3>2. \A i \in 1..Len(queue') : i = Len(queue) + 1 \/ i \in 1..Len(queue)
      BY <3>1
    <3>3. \A i \in 1..Len(queue') : queue'[i].n <= sent' /\ \A j \in 1..Len(queue') : queue'[i].n = queue'[j].n => i = j
      BY ONLY <2>2, <2>7, <3>1, <3>2
    <3>4. \A i \in 1..Len(queue'), j \in 1..Len(taken') : queue'[i].n # taken'[j].n
      BY ONLY <2>2, <2>7, <3>1, <3>2
    <3> QED BY ONLY <2>6, <3>3, <3>4 DEF Distinct
  <2>5. CASE queue' = <<p>> \o queue
    <3>1. /\ Len(queue') = Len(queue) + 1 /\ queue'[1] = p /\ \A i \in 1..Len(queue) : queue'[i + 1] = queue[i]
          /\ Len(queue) \in Nat
      BY <1>0, <2>1, <2>5
    <3>2. \A i \in 1..Len(queue') : i = 1 \/ (i - 1 \in 1..Len(queue) /\ queue'[i] = queue[i - 1])
      BY <3>1
    <3>3. \A i \in 1..Len(queue') : queue'[i].n <= sent' /\ \A j \in 1..Len(queue') : queue'[i].n = queue'[j].n => i = j
      <4> SUFFICES ASSUME NEW i \in 1..Len(queue'), NEW j \in 1..Len(queue')
                   PROVE queue'[i].n <= sent' /\ (queue'[i].n = queue'[j].n => i = j)
        OBVIOUS
      <4>0. ASSUME NEW k \in 1..Len(queue')
            PROVE  (k = 1 => queue'[k].n = sent + 1) /\ (k # 1 => queue'[k].n \in Nat /\ queue'[k].n <= sent)
        <5>1. k = 1 => queue'[k].n = sent + 1
          BY ONLY <2>7, <3>1
        <5>2. ASSUME k # 1 PROVE queue'[k].n \in Nat /\ queue'[k].n <= sent
          BY ONLY <2>2, <3>2, <5>2, k \in 1..Len(queue')
        <5> QED BY <5>1, <5>2
      <4>1. queue'[i].n <= sent'
        BY ONLY <2>7, <4>0, i \in 1..Len(queue')
      <4>2. ASSUME queue'[i].n = queue'[j].n, i # 1, j # 1 PROVE i = j
        <5>1. i - 1 \in 1..Len(queue) /\ j - 1 \in 1..Len(queue) /\ queue[i - 1].n = queue[j - 1].n
          BY <3>2, <4>2
        <5>2. i - 1 = j - 1
          BY ONLY <2>7, <5>1
        <5> QED BY <5>2
      <4>3. ASSUME queue'[i].n = queue'[j].n, (i = 1 /\ j # 1) \/ (i # 1 /\ j = 1) PROVE FALSE
        BY ONLY <2>7, <4>0, <4>3, i \in 1..Len(queue'), j \in 1..Len(queue')
      <4> QED BY <4>1, <4>2, <4>3
    <3>4. \A i \in 1..Len(queue'), j \in 1..Len(taken') : queue'[i].n # taken'[j].n
      <4> SUFFICES ASSUME NEW i \in 1..Len(queue'), NEW j \in 1..Len(taken') PROVE queue'[i].n # taken'[j].n
        OBVIOUS
      <4>0. j \in 1..Len(taken) /\ taken'[j] = taken[j]
        BY <2>7
      <4>1. CASE i = 1
        BY ONLY <2>2, <2>7, <3>1, <4>0, <4>1
      <4>2. CASE i # 1
        BY ONLY <2>7, <3>2, <4>0, <4>2, i \in 1..Len(queue')
      <4> QED BY <4>1, <4>2
    <3> QED BY ONLY <2>6, <3>3, <3>4 DEF Distinct
  <2> QED BY <2>1, <2>3, <2>4, <2>5
<1>2. CASE Take
  <2>1. queue # <<>>
    BY <1>2 DEF Take, Turn, Ready
  <2> DEFINE p == Head(queue)
  <2>2. /\ taken' = Append(taken, p) /\ queue' = Tail(queue) /\ sent' = sent /\ p \in Packets /\ p = queue[1]
    <3>1. taken' = Append(taken, p) /\ queue' = Tail(queue) /\ sent' = sent
      BY <1>2 DEF Take, console
    <3>2. p \in Packets /\ p = queue[1]
      BY <1>0, <2>1
    <3> QED BY <3>1, <3>2
  <2> HIDE DEF p
  <2>3. /\ Len(taken') = Len(taken) + 1 /\ taken'[Len(taken) + 1] = p /\ \A i \in 1..Len(taken) : taken'[i] = taken[i]
        /\ Len(taken) \in Nat
    BY <1>0, <2>2
  <2>4. Len(queue') = Len(queue) - 1 /\ Len(queue) \in Nat \ {0} /\ \A i \in 1..Len(queue') : queue'[i] = queue[i + 1]
    BY <1>0, <2>1, <2>2
  <2>5. 1 \in 1..Len(queue) /\ \A i \in 1..Len(queue') : i + 1 \in 1..Len(queue) /\ i + 1 # 1
    BY <2>4
  <2>6. \A i \in 1..Len(taken') : i = Len(taken) + 1 \/ i \in 1..Len(taken)
    BY <2>3
  <2>7. \A i \in 1..Len(queue') : queue'[i].n # p.n
    BY <2>2, <2>4, <2>5 DEF Distinct
  <2>8. \A i \in 1..Len(taken) : taken[i].n # p.n
    BY <2>2, <2>5 DEF Distinct
  <2>9. p.n <= sent
    BY <2>2, <2>5 DEF Distinct
  <2>10. \A i \in 1..Len(queue') : queue'[i].n <= sent' /\ \A j \in 1..Len(queue') : queue'[i].n = queue'[j].n => i = j
    <3> SUFFICES ASSUME NEW i \in 1..Len(queue') PROVE queue'[i].n <= sent' /\ \A j \in 1..Len(queue') : queue'[i].n = queue'[j].n => i = j
      OBVIOUS
    <3>1. queue[i + 1].n <= sent
      BY <2>5 DEF Distinct
    <3>2. ASSUME NEW j \in 1..Len(queue'), queue'[i].n = queue'[j].n PROVE i = j
      <4>1. queue[i + 1].n = queue[j + 1].n
        BY <2>4, <3>2
      <4>2. i + 1 = j + 1
        BY <2>5, <4>1 DEF Distinct
      <4> QED BY <2>4, <4>2
    <3> QED BY <2>2, <2>4, <3>1, <3>2
  <2>11. \A i \in 1..Len(taken') : taken'[i].n <= sent' /\ \A j \in 1..Len(taken') : taken'[i].n = taken'[j].n => i = j
    BY <2>2, <2>3, <2>6, <2>8, <2>9 DEF Distinct
  <2>12. \A i \in 1..Len(queue'), j \in 1..Len(taken') : queue'[i].n # taken'[j].n
    BY <2>3, <2>4, <2>5, <2>6, <2>7 DEF Distinct
  <2> QED BY <2>10, <2>11, <2>12 DEF Distinct
<1>3. CASE UNCHANGED <<queue, taken, sent>>
  BY <1>3 DEF Distinct
<1>4. Aside => UNCHANGED <<queue, taken, sent>>
  BY DEF Aside
<1>5. Vibrate \/ Sound => UNCHANGED <<queue, taken, sent>>
  BY DEF Vibrate, Sound, Broadcast, console
<1> QED BY <1>1, <1>2, <1>3, <1>4, <1>5, AsideSteps

\* Numbers are counted on.
LEMMA NextNumber ==
  ASSUME NEW M \in Nat \ {0}, NEW a \in Nat
  PROVE  ((a % M) + 1) % M = (a + 1) % M
<1> DEFINE q == a \div M  r == a % M
<1>1. q \in Nat /\ r \in 0..(M - 1) /\ a = M * q + r
  BY SMT
<1> HIDE DEF q, r
<1>2. CASE r + 1 < M
  <2>1. (r + 1) % M = r + 1
    BY <1>1, <1>2
  <2>2. a + 1 = M * q + (r + 1)
    BY <1>1
  <2>3. (M * q + (r + 1)) % M = r + 1
    BY <1>1, <1>2, SMT
  <2> QED BY <2>1, <2>2, <2>3 DEF r
<1>3. CASE r + 1 = M
  <2>1. (r + 1) % M = 0
    BY <1>1, <1>3
  <2>2. a + 1 = M * (q + 1)
    BY <1>1, <1>3
  <2>3. (M * (q + 1)) % M = 0
    BY <1>1, SMT
  <2> QED BY <2>1, <2>2, <2>3 DEF r
<1> QED BY <1>1, <1>2, <1>3

\* The packet the handler takes, and what it does with it.
LEMMA TakeIs ==
  ASSUME TypeOK, Ready, Take
  PROVE  /\ queue # <<>> /\ Head(queue) \in Packets /\ Head(queue) = queue[1]
         /\ taken' = Append(taken, Head(queue)) /\ queue' = Tail(queue)
         /\ taken' \in Seq(Packets) /\ taken' # <<>> /\ taken'[Len(taken')] = Head(queue)
         /\ UNCHANGED <<first, heard>> /\ pc = "serve"
         /\ IF Head(queue) \in Stereo
              THEN /\ packet' = Head(queue)
                   /\ pc' = IF Head(queue).sort.vibrate = 1 THEN "vibrate" ELSE "sound"
                   /\ seq_id_expected' = NumberOf(Head(queue).n + 1)
              ELSE UNCHANGED <<packet, pc>>
<1> DEFINE p == Head(queue)
<1>1. queue # <<>>
  BY DEF Take, Turn, Ready
<1>2. p \in Packets /\ p = queue[1] /\ taken \in Seq(Packets) /\ first \in Firsts
  BY <1>1 DEF TypeOK
<1>3. taken' = Append(taken, p) /\ queue' = Tail(queue) /\ UNCHANGED <<first, heard>> /\ pc = "serve"
  BY DEF Take, console
<1>4. taken' \in Seq(Packets) /\ taken' # <<>> /\ taken'[Len(taken')] = p
  <2> HIDE DEF p
  <2> QED BY <1>2, <1>3
<1>5. /\ Parsed.vibrate = p.sort.vibrate /\ Parsed.seq_id = NumberOf(p.n)
      /\ p \in Stereo <=> IsAudio(Parsed) /\ ~Skipped(Parsed)
  BY <1>2, ReadIs DEF Parsed
<1>6. CASE p \in Stereo
  <2>1. IsAudio(Parsed) /\ ~Skipped(Parsed)
    BY <1>5, <1>6
  <2>2. packet' = p /\ pc' = (IF Parsed.vibrate = 1 THEN "vibrate" ELSE "sound")
        /\ seq_id_expected' = UpdateSeqId(Parsed.seq_id)
    BY <2>1 DEF Take
  <2>3. UpdateSeqId(NumberOf(p.n)) = NumberOf(p.n + 1)
    <3>1. first \in Nat /\ p.n \in Nat /\ Modulus \in Nat \ {0}
      BY <1>2, SoundAssumption, ModulusType DEF Packets
    <3> DEFINE a == first + p.n
    <3>2. a \in Nat /\ first + (p.n + 1) = a + 1
      BY <3>1
    <3> HIDE DEF a
    <3>3. ((a % Modulus) + 1) % Modulus = (a + 1) % Modulus
      BY ONLY <3>1, <3>2, NextNumber
    <3> QED BY <3>2, <3>3 DEF UpdateSeqId, NumberOf, a
  <2> QED BY <1>1, <1>2, <1>3, <1>4, <1>5, <1>6, <2>2, <2>3
<1>7. CASE p \notin Stereo
  <2>1. ~(IsAudio(Parsed) /\ ~Skipped(Parsed))
    BY <1>5, <1>7
  <2>2. UNCHANGED <<packet, pc>>
    BY <2>1 DEF Take
  <2> QED BY <1>1, <1>2, <1>3, <1>4, <1>7, <2>2
<1> QED BY <1>6, <1>7

LEMMA HandlingNext == TypeOK /\ Ready /\ Handling /\ Next => Handling'
<1> SUFFICES ASSUME TypeOK, Ready, Handling, Next PROVE Handling'
  OBVIOUS
<1> USE DEF Handling, Idle
<1>1. ASSUME NEW sort \in Sorts, SendSound(sort) PROVE Handling'
  BY <1>1 DEF SendSound, thread, NumberOf
<1>2. CASE Take
  BY <1>2, TakeIs DEF NumberOf
<1>3. CASE Vibrate
  BY <1>3 DEF Vibrate, Broadcast, console, NumberOf
<1>4. CASE Sound
  BY <1>4 DEF Sound, Broadcast, console, NumberOf
<1>5. CASE Aside
  BY <1>5 DEF Aside, NumberOf
<1> QED BY <1>1, <1>2, <1>3, <1>4, <1>5, AsideSteps

LEMMA NumberedSets == Numbered(Packets) /\ Numbered(Heard)
BY SoundAssumption DEF Numbered, Packets, Heard

LEMMA PassedNext == TypeOK /\ Ready /\ Distinct /\ Handling /\ Passed /\ Next => Passed'
<1> SUFFICES ASSUME TypeOK, Ready, Distinct, Handling, Passed, Next PROVE Passed'
  OBVIOUS
<1>0. taken \in Seq(Packets) /\ heard \in Seq(Heard) /\ queue \in Seq(Packets)
  BY DEF TypeOK
<1>1. ASSUME NEW sort \in Sorts, SendSound(sort) PROVE Passed'
  BY <1>1 DEF SendSound, thread, Passed
<1>2. CASE Take
  <2> DEFINE p == Head(queue)
  <2>0. /\ p \in Packets /\ p = queue[1] /\ taken' = Append(taken, p) /\ heard' = heard /\ pc = "serve" /\ queue # <<>>
        /\ IF p \in Stereo THEN packet' = p /\ pc' = (IF p.sort.vibrate = 1 THEN "vibrate" ELSE "sound")
                           ELSE pc' = pc
    BY <1>2, TakeIs
  <2> HIDE DEF p
  <2>1. \A i \in 1..Len(taken) : i \in 1..Len(taken') /\ taken'[i] = taken[i]
    BY <1>0, <2>0
  <2>2. \A j \in 1..Len(heard') : \E i \in 1..Len(taken') : taken'[i].n = heard'[j].n
    BY <2>0, <2>1 DEF Passed
  <2>3. NumbersOf(taken', Stereo) = IF p \in Stereo THEN Append(NumbersOf(taken, Stereo), p.n) ELSE NumbersOf(taken, Stereo)
    <3>1. p \in Packets /\ taken \in Seq(Packets) /\ Numbered(Packets)
      BY <1>0, <2>0, NumberedSets
    <3>2. NumbersOf(Append(taken, p), Stereo) =
            IF p \in Stereo THEN Append(NumbersOf(taken, Stereo), p.n) ELSE NumbersOf(taken, Stereo)
      BY ONLY <3>1, NumbersAppend
    <3> QED BY <2>0, <3>2
  <2>4. NumbersOf(taken, Stereo) = NumbersOf(heard, Sounds)
    BY <2>0 DEF Passed
  <2>5. \A j \in 1..Len(heard) : heard[j].n # p.n
    <3> SUFFICES ASSUME NEW j \in 1..Len(heard) PROVE heard[j].n # p.n
      OBVIOUS
    <3>1. PICK i \in 1..Len(taken) : taken[i].n = heard[j].n
      BY DEF Passed
    <3>2. 1 \in 1..Len(queue)
      BY <1>0, <2>0
    <3>3. queue[1].n # taken[i].n
      BY <3>2 DEF Distinct
    <3> QED BY <2>0, <3>1, <3>3
  <2>6. heard # <<>> => heard[Len(heard)] # [what |-> "vibrate", n |-> p.n]
    <3> SUFFICES ASSUME heard # <<>> PROVE heard[Len(heard)] # [what |-> "vibrate", n |-> p.n]
      OBVIOUS
    <3>1. Len(heard) \in 1..Len(heard)
      BY <1>0
    <3> QED BY <2>5, <3>1
  <2>7. CASE p \in Stereo
    BY <2>0, <2>2, <2>3, <2>4, <2>6, <2>7 DEF Passed
  <2>8. CASE p \notin Stereo
    BY <2>0, <2>2, <2>3, <2>4, <2>8 DEF Passed
  <2> QED BY <2>7, <2>8
<1>3. CASE Vibrate
  <2> DEFINE h == [what |-> "vibrate", n |-> packet.n]
  <2>0. pc = "vibrate" /\ heard' = Append(heard, h) /\ pc' = "sound" /\ UNCHANGED <<first, packet, taken>>
    BY <1>3 DEF Vibrate, Broadcast, console
  <2>1. h \in Heard /\ h \notin Sounds
    BY <2>0 DEF TypeOK, Packets, Heard, Sounds
  <2>2. NumbersOf(heard', Sounds) = NumbersOf(heard, Sounds)
    <3> HIDE DEF h
    <3> QED BY <1>0, <2>0, <2>1, NumberedSets, NumbersAppend
  <2>3. heard' # <<>> /\ heard'[Len(heard')] = h /\ \A j \in 1..Len(heard') : heard'[j] = h \/ (j \in 1..Len(heard) /\ heard'[j] = heard[j])
    <3> HIDE DEF h
    <3> QED BY <1>0, <2>0
  <2>4. \E i \in 1..Len(taken) : taken[i].n = h.n
    <3>1. taken # <<>> /\ packet = taken[Len(taken)]
      BY <2>0 DEF Handling, Idle
    <3>2. Len(taken) \in 1..Len(taken)
      BY <1>0, <3>1
    <3> QED BY <3>1, <3>2
  <2>5. \A j \in 1..Len(heard') : \E i \in 1..Len(taken') : taken'[i].n = heard'[j].n
    BY <2>0, <2>3, <2>4 DEF Passed
  <2>6. NumbersOf(taken', Stereo) = Append(NumbersOf(heard', Sounds), packet.n)
    BY <2>0, <2>2 DEF Passed
  <2>7. packet.sort.vibrate = 1
    BY <2>0 DEF Passed
  <2> QED BY <2>0, <2>3, <2>5, <2>6, <2>7 DEF Passed
<1>4. CASE Sound
  <2> DEFINE h == [what |-> "sound", n |-> packet.n]
  <2>0. pc = "sound" /\ heard' = Append(heard, h) /\ pc' = "sec" /\ UNCHANGED <<first, packet, taken>>
    BY <1>4 DEF Sound, Broadcast, console
  <2>1. h \in Heard /\ h \in Sounds /\ h.n = packet.n
    BY <2>0 DEF TypeOK, Packets, Heard, Sounds
  <2>2. NumbersOf(heard', Sounds) = Append(NumbersOf(heard, Sounds), packet.n)
    <3> HIDE DEF h
    <3> QED BY <1>0, <2>0, <2>1, NumberedSets, NumbersAppend
  <2>3. \A j \in 1..Len(heard') : heard'[j] = h \/ (j \in 1..Len(heard) /\ heard'[j] = heard[j])
    <3> HIDE DEF h
    <3> QED BY <1>0, <2>0
  <2>4. \E i \in 1..Len(taken) : taken[i].n = h.n
    <3>1. taken # <<>> /\ packet = taken[Len(taken)]
      BY <2>0 DEF Handling, Idle
    <3>2. Len(taken) \in 1..Len(taken)
      BY <1>0, <3>1
    <3> QED BY <3>1, <3>2
  <2>5. \A j \in 1..Len(heard') : \E i \in 1..Len(taken') : taken'[i].n = heard'[j].n
    BY <2>0, <2>3, <2>4 DEF Passed
  <2>6. NumbersOf(taken', Stereo) = NumbersOf(heard', Sounds)
    BY <2>0, <2>2 DEF Passed
  <2> QED BY <2>0, <2>5, <2>6 DEF Passed
<1>5. CASE Aside
  BY <1>5 DEF Aside, Idle, Passed
<1> QED BY <1>1, <1>2, <1>3, <1>4, <1>5, AsideSteps

LEMMA TogetherNext == TypeOK /\ Ready /\ Distinct /\ Handling /\ Passed /\ Together /\ Next => Together'
<1> SUFFICES ASSUME TypeOK, Ready, Distinct, Handling, Passed, Together, Next PROVE Together'
  OBVIOUS
<1>0. taken \in Seq(Packets) /\ heard \in Seq(Heard) /\ queue \in Seq(Packets)
  BY DEF TypeOK
<1>1. ASSUME NEW sort \in Sorts, SendSound(sort) PROVE Together'
  BY <1>1 DEF SendSound, Together
<1>2. CASE Take
  <2> DEFINE p == Head(queue)
  <2>0. p \in Packets /\ p = queue[1] /\ taken' = Append(taken, p) /\ heard' = heard /\ queue # <<>>
    BY <1>2, TakeIs
  <2> HIDE DEF p
  <2>1. \A i \in 1..Len(taken') : taken'[i] = p \/ (i \in 1..Len(taken) /\ taken'[i] = taken[i])
    BY <1>0, <2>0
  <2>2. \A j \in 1..Len(heard) : heard[j] # [what |-> "sound", n |-> p.n]
    <3> SUFFICES ASSUME NEW j \in 1..Len(heard) PROVE heard[j].n # p.n
      OBVIOUS
    <3>1. PICK i \in 1..Len(taken) : taken[i].n = heard[j].n
      BY DEF Passed
    <3>2. 1 \in 1..Len(queue)
      BY <1>0, <2>0
    <3>3. queue[1].n # taken[i].n
      BY <3>2 DEF Distinct
    <3> QED BY <2>0, <3>1, <3>3
  <2> QED BY <2>0, <2>1, <2>2 DEF Together
<1>3. CASE Vibrate
  <2> DEFINE h == [what |-> "vibrate", n |-> packet.n]
  <2>0. heard' = Append(heard, h) /\ taken' = taken
    BY <1>3 DEF Vibrate, Broadcast
  <2>1. \A m : h # [what |-> "sound", n |-> m]
    OBVIOUS
  <2> HIDE DEF h
  <2>2. \A j \in 1..Len(heard') : heard'[j] = h \/ (j \in 1..Len(heard) /\ heard'[j] = heard[j] /\ (j > 1 => heard'[j - 1] = heard[j - 1]))
    BY <1>0, <2>0
  <2> QED BY <2>0, <2>1, <2>2 DEF Together
<1>4. CASE Sound
  <2> DEFINE h == [what |-> "sound", n |-> packet.n]
             k == Len(heard) + 1
  <2>0. pc = "sound" /\ heard' = Append(heard, h) /\ UNCHANGED <<packet, taken>>
    BY <1>4 DEF Sound, Broadcast
  <2>1. \A m : h = [what |-> "sound", n |-> m] => m = packet.n
    OBVIOUS
  <2> HIDE DEF h
  <2>2. /\ \A j \in 1..Len(heard') : j = k \/ (j \in 1..Len(heard) /\ heard'[j] = heard[j] /\ (j > 1 => heard'[j - 1] = heard[j - 1]))
        /\ heard'[k] = h /\ (heard = <<>> => ~(k > 1)) /\ (heard # <<>> => k > 1 /\ heard'[k - 1] = heard[Len(heard)])
    BY <1>0, <2>0
  <2>3. taken # <<>> /\ packet = taken[Len(taken)]
    BY <2>0 DEF Handling, Idle
  <2>4. packet.sort.vibrate = 1 <=> (heard # <<>> /\ heard[Len(heard)] = [what |-> "vibrate", n |-> packet.n])
    BY <2>0 DEF Passed
  <2> HIDE DEF k
  <2>5. packet.sort.vibrate = 1 <=> (k > 1 /\ heard'[k - 1] = [what |-> "vibrate", n |-> packet.n])
    BY <2>2, <2>4
  <2> SUFFICES ASSUME NEW i \in 1..Len(taken), taken[i] \in Stereo,
                      NEW j \in 1..Len(heard'), heard'[j] = [what |-> "sound", n |-> taken[i].n]
               PROVE  taken[i].sort.vibrate = 1 <=> j > 1 /\ heard'[j - 1] = [what |-> "vibrate", n |-> taken[i].n]
    BY <2>0 DEF Together
  <2>6. CASE j = k
    <3>1. taken[i].n = packet.n
      BY <2>1, <2>2, <2>6
    <3>2. Len(taken) \in 1..Len(taken)
      BY <1>0, <2>3
    <3>3. i = Len(taken)
      BY <2>3, <3>1, <3>2 DEF Distinct
    <3> QED BY <2>3, <2>5, <2>6, <3>3
  <2>7. CASE j # k
    <3>1. j \in 1..Len(heard) /\ heard'[j] = heard[j] /\ (j > 1 => heard'[j - 1] = heard[j - 1])
      BY <2>2, <2>7
    <3> QED BY <3>1 DEF Together
  <2> QED BY <2>6, <2>7
<1>5. CASE Aside
  BY <1>5 DEF Aside, Together
<1> QED BY <1>1, <1>2, <1>3, <1>4, <1>5, AsideSteps

-----------------------------------------------------------------------------
(* When the console hears a blow. *)

LEMMA Later ==
  ASSUME NEW a \in Nat, NEW b \in Nat, a < b
  PROVE  Second * a \in Nat /\ Second * b \in Nat /\ Second * a + Second <= Second * b
<1>1. Second \in Nat /\ a + 1 <= b
  BY SoundAssumption
<1>2. Second * (a + 1) <= Second * b
  BY <1>1, SMT
<1> QED BY <1>1, <1>2, SMT

\* A blow before t whose second t is not beyond is less than a second ago, and by
\* both words as long as they say.
LEMMA SameSecond ==
  ASSUME NEW s \in Nat, NEW t \in Nat, s <= t, Sec(t) <= Sec(s)
  PROVE  t - s < Second /\ t - s = Nsec(t) - Nsec(s)
<1> DEFINE a == Sec(s)  b == Sec(t)  u == Nsec(s)  v == Nsec(t)
<1>1. /\ a \in Nat /\ b \in Nat /\ u \in 0..(Second - 1) /\ v \in 0..(Second - 1)
      /\ s = Second * a + u /\ t = Second * b + v /\ Second \in Nat /\ b <= a /\ s <= t
  BY Times, SoundAssumption
<1> HIDE DEF a, b, u, v
<1>2. Second * a \in Nat /\ Second * b \in Nat
  BY <1>1
<1>3. ~(b < a)
  <2> SUFFICES ASSUME b < a PROVE FALSE
    OBVIOUS
  <2>1. Second * b + Second <= Second * a
    BY <1>1, Later
  <2> QED BY <1>1, <1>2, <2>1
<1>4. a = b
  BY <1>1, <1>3
<1>5. t - s = v - u
  BY <1>1, <1>2, <1>4
<1>6. v - u < Second
  BY ONLY <1>1
<1> QED BY <1>5, <1>6 DEF u, v

\* A clock past its first second is not in second 0.
LEMMA PastZero ==
  ASSUME NEW t \in Nat, t >= Second
  PROVE  Sec(t) >= 1
<1> DEFINE a == Sec(t)  v == Nsec(t)
<1>1. a \in Nat /\ v \in 0..(Second - 1) /\ t = Second * a + v /\ Second \in Nat
  BY Times, SoundAssumption
<1> HIDE DEF a, v
<1>2. a # 0
  <2> SUFFICES ASSUME a = 0 PROVE FALSE
    OBVIOUS
  <2>1. Second * a = 0
    BY <1>1
  <2> QED BY <1>1, <2>1
<1> QED BY <1>1, <1>2 DEF a

\* The steps that leave the blows and the look at them alone.
Elsewhere ==
  /\ UNCHANGED <<tv_sec, tv_nsec, spc, stamps, overlapped, now, rsec, rtime>>
  /\ mic' = mic \/ mic' = <<>>
  /\ pc' = pc \/ (pc' \notin {"nsec", "blow", "send"})
  /\ mic' # <<>> => (Idle => Idle')

LEMMA ElsewhereSteps ==
  Next => \/ Elsewhere \/ Tick \/ BeginBlow \/ StampNsec \/ StoreBlow
          \/ LoadSec \/ LookAtTime \/ LoadBlow \/ SendMicBlow
<1> SUFFICES ASSUME Next PROVE \/ Elsewhere \/ Tick \/ BeginBlow \/ StampNsec \/ StoreBlow
                               \/ LoadSec \/ LookAtTime \/ LoadBlow \/ SendMicBlow
  OBVIOUS
<1> USE DEF Elsewhere, Idle, thread, setter, object
<1>1. ASSUME NEW sort \in Sorts, SendSound(sort) PROVE Elsewhere
  BY <1>1 DEF SendSound
<1>2. ASSUME NEW s \in Busy, SendOther(s) PROVE Elsewhere
  BY <1>2 DEF SendOther
<1>7. CASE Select
  BY <1>7 DEF Select
<1>8. ASSUME NEW s \in Busy, ServeOther(s) PROVE Elsewhere
  BY <1>8 DEF ServeOther
<1>9. CASE EndRound
  BY <1>9 DEF EndRound
<1>10. CASE Take
  <2>1. UNCHANGED <<rsec, rtime, setter, now>> /\ mic' = <<>>
    BY <1>10 DEF Take
  <2>2. pc' = pc \/ pc' \in {"vibrate", "sound"}
    BY <1>10 DEF Take
  <2> QED BY <2>1, <2>2
<1>11. CASE Vibrate
  BY <1>11 DEF Vibrate, Broadcast
<1>12. CASE Sound
  BY <1>12 DEF Sound, Broadcast
<1>17. CASE SendFails
  BY <1>17 DEF SendFails
<1> QED BY <1>1, <1>2, <1>7, <1>8, <1>9, <1>10, <1>11, <1>12, <1>17 DEF Next, GamepadNext

LEMMA StoredNext == TypeOK /\ Stored /\ Next => Stored'
<1> SUFFICES ASSUME TypeOK, Stored, Next PROVE Stored'
  OBVIOUS
<1>0. stamps \in Seq(0..now) /\ now \in Nat /\ Second \in Nat
  BY SoundAssumption DEF TypeOK
<1>1. CASE Elsewhere
  BY <1>1 DEF Elsewhere, Stored
<1>2. CASE Tick
  BY <1>0, <1>2 DEF Tick, setter, object, Stored
<1>3. CASE BeginBlow
  <2>1. /\ stamps' # <<>> /\ stamps'[Len(stamps')] = now
        /\ \A i \in 1..Len(stamps') : stamps'[i] = now \/ (i \in 1..Len(stamps) /\ stamps'[i] = stamps[i])
    BY <1>0, <1>3 DEF BeginBlow
  <2> QED BY <1>3, <2>1 DEF BeginBlow, Stored
<1>4. CASE StampNsec
  BY <1>4 DEF StampNsec, Stored, Last
<1>5. CASE StoreBlow
  BY <1>5 DEF StoreBlow, Stored
<1>6. CASE LoadSec \/ LookAtTime \/ LoadBlow \/ SendMicBlow
  <2>1. UNCHANGED <<object, spc, stamps, now>>
    BY <1>6 DEF LoadSec, LookAtTime, LoadBlow, SendMicBlow, setter
  <2> QED BY <2>1 DEF Stored, object
<1> QED BY <1>1, <1>2, <1>3, <1>4, <1>5, <1>6, ElsewhereSteps

LEMMA LookingNext == TypeOK /\ Stored /\ Looking /\ Next => Looking'
<1> SUFFICES ASSUME TypeOK, Stored, Looking, Next PROVE Looking'
  OBVIOUS
<1>0. stamps \in Seq(0..now)
  BY DEF TypeOK
<1>1. CASE Elsewhere
  BY <1>1 DEF Elsewhere, Looking
<1>2. CASE Tick
  BY <1>2 DEF Tick, thread, setter, object, Looking
<1>3. CASE BeginBlow
  <2>1. \A i \in 1..Len(stamps) : i \in 1..Len(stamps') /\ stamps'[i] = stamps[i]
    BY <1>0, <1>3 DEF BeginBlow
  <2>2. pc' = pc /\ rsec' = rsec /\ overlapped' = (overlapped \/ pc = "nsec")
    BY <1>3 DEF BeginBlow, thread
  <2>3. pc = "nsec" => rsec = 0 \/ \E i \in 1..Len(stamps) : rsec = Sec(stamps[i])
    BY DEF Looking
  <2> QED BY <2>1, <2>2, <2>3 DEF Looking
<1>4. CASE StampNsec \/ StoreBlow
  <2>1. spc # "idle" /\ UNCHANGED <<pc, rsec, stamps, overlapped, tv_sec>>
    BY <1>4 DEF StampNsec, StoreBlow, thread
  <2> QED BY <2>1 DEF Looking
<1>5. CASE LoadSec
  <2>1. pc' = "nsec" /\ rsec' = tv_sec /\ overlapped' = (spc # "idle") /\ UNCHANGED <<tv_sec, spc, stamps>>
    BY <1>5 DEF LoadSec, object
  <2>2. stamps # <<>> => Len(stamps) \in 1..Len(stamps)
    BY <1>0
  <2> QED BY <2>1, <2>2 DEF Looking, Stored
<1>6. CASE LookAtTime \/ LoadBlow \/ SendMicBlow
  <2>1. pc' # "nsec"
    BY <1>6 DEF LookAtTime, LoadBlow, SendMicBlow, Return
  <2> QED BY <2>1 DEF Looking
<1> QED BY <1>1, <1>2, <1>3, <1>4, <1>5, <1>6, ElsewhereSteps

\* A look that finds the time close enough is near a blow.
LEMMA LookIsNear ==
  ASSUME TypeOK, Stored, Looking, pc = "nsec", WithinTime(rsec, tv_nsec, now)
  PROVE  Near(now)
<1>0. stamps \in Seq(0..now) /\ now \in Nat /\ now >= Second /\ rsec \in Nat /\ Second \in Nat /\ Delay \in Nat
  BY SoundAssumption DEF TypeOK, Stored
<1>1. Sec(now) \in Nat /\ Sec(now) >= 1 /\ Nsec(now) \in Nat /\ tv_nsec \in Nat
  <2>1. Nsec(now) \in 0..(Second - 1) /\ tv_nsec \in 0..(Second - 1)
    BY <1>0, Times DEF TypeOK
  <2> QED BY <1>0, <2>1, Times, PastZero
<1>2. Sec(now) - rsec <= 0 /\ Nsec(now) - tv_nsec <= Delay
  BY DEF WithinTime
<1>3. PICK i \in 1..Len(stamps) : rsec = Sec(stamps[i])
  <2>1. rsec # 0
    BY <1>0, <1>1, <1>2
  <2> QED BY <2>1 DEF Looking
<1>4. \A k \in 1..Len(stamps) : stamps[k] \in Nat /\ stamps[k] <= now
  BY <1>0
<1>5. CASE overlapped
  <2>1. Sec(now) <= Sec(stamps[i])
    BY <1>0, <1>1, <1>2, <1>3
  <2>2. now - stamps[i] < Second
    BY <1>0, <1>4, <2>1, SameSecond
  <2> QED BY <1>5, <2>2 DEF Near
<1>6. CASE ~overlapped
  <2> DEFINE k == Len(stamps)
  <2>1. k \in 1..Len(stamps) /\ stamps # <<>>
    BY <1>0, <1>3
  <2>2. rsec = Sec(stamps[k]) /\ tv_nsec = Nsec(stamps[k])
    BY <1>6, <2>1 DEF Looking, Stored
  <2> HIDE DEF k
  <2>3. Sec(now) <= Sec(stamps[k])
    BY <1>0, <1>1, <1>2, <2>2
  <2>4. now - stamps[k] < Second /\ now - stamps[k] = Nsec(now) - Nsec(stamps[k])
    BY <1>0, <1>4, <2>1, <2>3, SameSecond
  <2> QED BY <1>2, <2>1, <2>2, <2>4 DEF Near
<1> QED BY <1>5, <1>6

LEMMA AnsweringNext == TypeOK /\ Handling /\ Stored /\ Looking /\ Answering /\ Next => Answering'
<1> SUFFICES ASSUME TypeOK, Handling, Stored, Looking, Answering, Next PROVE Answering'
  OBVIOUS
<1>0. stamps \in Seq(0..now)
  BY DEF TypeOK
<1>9. first' = first
  <2>1. ASSUME NEW sort \in Sorts, SendSound(sort) PROVE first' = first
    BY <2>1 DEF SendSound
  <2>2. Take \/ Vibrate \/ Sound => first' = first
    BY DEF Take, Vibrate, Sound, Broadcast, console
  <2>3. Aside => first' = first
    BY DEF Aside
  <2> QED BY <2>1, <2>2, <2>3, AsideSteps
<1>10. \A n : NumberOf(n)' = NumberOf(n)
  BY <1>9 DEF NumberOf
<1>1. CASE Elsewhere
  <2>1. Near(rtime)' <=> Near(rtime)
    BY <1>1 DEF Elsewhere, Near
  <2>2. mic' # <<>> => mic' = mic
    BY <1>1 DEF Elsewhere
  <2>3. mic' = mic => (Near(mic.time)' <=> Near(mic.time))
    BY <1>1 DEF Elsewhere, Near
  <2> QED BY <1>1, <1>9, <2>1, <2>2, <2>3 DEF Elsewhere, Answering, NumberOf
<1>2. CASE Tick
  BY <1>2, <1>9 DEF Tick, thread, setter, object, Answering, Near, Idle, NumberOf
<1>3. CASE BeginBlow
  <2>1. \A i \in 1..Len(stamps) : i \in 1..Len(stamps') /\ stamps'[i] = stamps[i]
    BY <1>0, <1>3 DEF BeginBlow
  <2>2. UNCHANGED <<pc, rtime, mic>> /\ (pc # "nsec" => overlapped' = overlapped)
    BY <1>3 DEF BeginBlow, thread, TypeOK
  <2>3. pc # "nsec" => \A t : Near(t) => Near(t)'
    BY <2>1, <2>2 DEF Near
  <2> QED BY <1>9, <2>2, <2>3 DEF Answering, Idle, NumberOf
<1>4. CASE StampNsec \/ StoreBlow
  <2>1. UNCHANGED <<pc, rtime, mic, stamps, overlapped>>
    BY <1>4 DEF StampNsec, StoreBlow, thread
  <2> QED BY <1>9, <2>1 DEF Answering, Idle, Near, NumberOf
<1>5. CASE LoadSec
  BY <1>5 DEF LoadSec, Answering, Idle
<1>6. CASE LookAtTime
  <2>1. mic' = mic /\ mic = <<>> /\ UNCHANGED <<stamps, overlapped>>
    BY <1>6 DEF LookAtTime, Answering, Idle, setter
  <2>2. ASSUME pc' \in {"blow", "send"} PROVE Near(rtime)'
    <3>1. WithinTime(rsec, tv_nsec, now) /\ rtime' = now
      BY <1>6, <2>2 DEF LookAtTime, Return
    <3>2. Near(now)
      BY <1>6, <3>1, LookIsNear DEF LookAtTime
    <3> QED BY <2>1, <3>1, <3>2 DEF Near
  <2> QED BY <2>1, <2>2 DEF Answering
<1>7. CASE LoadBlow
  <2>1. mic' = mic /\ mic = <<>> /\ UNCHANGED <<stamps, overlapped>>
    BY <1>7 DEF LoadBlow, Answering, Idle, setter
  <2>2. pc' \in {"blow", "send"} => rtime' = rtime /\ pc = "blow"
    BY <1>7 DEF LoadBlow, Return
  <2> QED BY <2>1, <2>2 DEF Answering, Near
<1>8. CASE SendMicBlow
  <2> DEFINE m == [header |-> Answers[seq_id_expected], time |-> rtime, after |-> packet.n]
  <2>1. pc = "send" /\ pc' = "serve" /\ mic' = m /\ UNCHANGED <<stamps, overlapped>>
    BY <1>8 DEF SendMicBlow, Return, setter
  <2>2. packet \in Packets /\ seq_id_expected = NumberOf(packet.n + 1)
    BY <2>1 DEF Handling, Idle, TypeOK
  <2>3. packet.n \in 1..MaxSounds /\ packet.n + 1 \in 1..(MaxSounds + 1)
    BY <2>2, SoundAssumption DEF Packets
  <2>4. NumberOf(packet.n + 1) \in Used
    BY <2>3, NumbersUsed DEF TypeOK
  <2>5. m.header = MicHeader(NumberOf(packet.n + 1)) /\ m.time = rtime /\ m.after = packet.n
    BY <2>2, <2>4 DEF Answers
  <2>6. rtime \in Nat /\ Near(rtime)
    BY <2>1 DEF Answering, TypeOK
  <2> HIDE DEF m
  <2>7. mic'.header = MicHeader(NumberOf(mic'.after + 1)) /\ mic'.after \in 1..MaxSounds /\ mic'.time = rtime
    BY <2>1, <2>3, <2>5
  <2>8. Near(mic.time)'
    BY <2>1, <2>6, <2>7 DEF Near
  <2> QED BY <1>9, <2>1, <2>6, <2>7, <2>8 DEF Answering, Idle, NumberOf
<1> QED BY <1>1, <1>2, <1>3, <1>4, <1>5, <1>6, <1>7, <1>8, ElsewhereSteps

-----------------------------------------------------------------------------
(* The theorems. *)

LEMMA Invariance == Spec => []IInv
<1>1. Init => IInv
  <2> SUFFICES ASSUME Init PROVE IInv
    OBVIOUS
  <2>1. TypeOK
    BY TypeInit
  <2>2. Second \in Nat
    BY SoundAssumption
  <2>3. NumbersOf(taken, Stereo) = <<>> /\ NumbersOf(heard, Sounds) = <<>>
    BY NumbersEmpty DEF Init
  <2> USE DEF Init
  <2>4. Ready /\ Distinct /\ Handling
    BY DEF Ready, Distinct, Handling, Idle
  <2>5. Passed /\ Together
    BY <2>3 DEF Passed, Together
  <2>6. Stored /\ Looking /\ Answering
    BY <2>2 DEF Stored, Looking, Answering
  <2> QED BY <2>1, <2>4, <2>5, <2>6 DEF IInv
<1>2. IInv /\ [Next]_vars => IInv'
  <2> SUFFICES ASSUME IInv, [Next]_vars PROVE IInv'
    OBVIOUS
  <2>1. CASE Next
    <3>1. TypeOK /\ Ready /\ Distinct /\ Handling /\ Passed /\ Together /\ Stored /\ Looking /\ Answering
      BY DEF IInv
    <3>2. TypeOK' /\ Ready' /\ Distinct' /\ Handling'
      BY <2>1, <3>1, TypeNext, ReadyNext, DistinctNext, HandlingNext
    <3>3. Passed' /\ Together'
      BY <2>1, <3>1, PassedNext, TogetherNext
    <3>4. Stored' /\ Looking' /\ Answering'
      BY <2>1, <3>1, StoredNext, LookingNext, AnsweringNext
    <3> QED BY <3>2, <3>3, <3>4 DEF IInv
  <2>2. CASE UNCHANGED vars
    <3> USE <2>2 DEF vars, console, thread, setter, object
    <3>1. TypeOK' <=> TypeOK
      BY DEF TypeOK
    <3>2. (Ready' <=> Ready) /\ (Distinct' <=> Distinct)
      BY DEF Ready, Distinct
    <3>3. Handling' <=> Handling
      BY DEF Handling, Idle, NumberOf
    <3>4. (Passed' <=> Passed) /\ (Together' <=> Together)
      BY DEF Passed, Together
    <3>5. (Stored' <=> Stored) /\ (Looking' <=> Looking)
      BY DEF Stored, Looking
    <3>6. Answering' <=> Answering
      BY DEF Answering, Idle, Near, NumberOf
    <3> QED BY <3>1, <3>2, <3>3, <3>4, <3>5, <3>6 DEF IInv
  <2> QED BY <2>1, <2>2
<1> QED BY <1>1, <1>2, PTL DEF Spec

\* Every variable keeps its type: no packet is taken of an empty socket, and no
\* number of a packet leaves its ten bits.
THEOREM TypeCorrect == Spec => []TypeOK
<1>1. IInv => TypeOK
  BY DEF IInv
<1> QED BY <1>1, Invariance, PTL

\* The clients hear the stereo packets that were taken, each once and in order, and
\* a vibration right before its sound.
THEOREM HeardAsArrived == Spec => []SoundAsArrived
<1>1. IInv => SoundAsArrived
  BY DEF IInv, Passed, Together, SoundAsArrived
<1> QED BY <1>1, Invariance, PTL

\* What is written for the console bit by bit is read as noise with the next number.
THEOREM MicReadAsMeant == Spec => []MicUnderstood
<1>1. IInv => MicUnderstood
  <2> SUFFICES ASSUME IInv, mic # <<>>
               PROVE  Header(mic.header) = [format |-> 6, mono |-> 1, vibrate |-> 0, type |-> 0,
                                            seq_id |-> NumberOf(mic.after + 1), payload_size |-> 512]
    BY DEF MicUnderstood
  <2>1. mic.after \in 1..MaxSounds /\ mic.header = MicHeader(NumberOf(mic.after + 1)) /\ first \in Firsts
    BY DEF IInv, Answering, TypeOK
  <2>2. NumberOf(mic.after + 1) \in 0..(Modulus - 1)
    <3> mic.after + 1 \in 1..(MaxSounds + 1)
      BY <2>1, SoundAssumption
    <3> QED BY <2>1, NumbersUsed
  <2> QED BY <2>1, <2>2, HeaderOfAnswer
<1> QED BY <1>1, Invariance, PTL

\* The console hears a blow only while one is fresh: within the delay, or, when the
\* look at its time met a store, within a second.
THEOREM BlowsAreFresh == Spec => []MicAnswersBlow
<1>1. IInv => MicAnswersBlow
  BY DEF IInv, Answering, Near, MicAnswersBlow
<1> QED BY <1>1, Invariance, PTL

=============================================================================
