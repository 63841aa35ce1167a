-------------------------------- MODULE BitUtil --------------------------------
(***************************************************************************)
(* Bits and bytes in memory, and BitUtil::reverse (src/src/util/BitUtil.cpp)*)
(* on them. A number is the sequence of its bits, the lowest first, and so  *)
(* are bytes and bit fields in memory.                                     *)
(***************************************************************************)
EXTENDS Integers, Sequences

Bits(number, bits) ==
  LET half[i \in 0..bits] == IF i = 0 THEN number ELSE half[i - 1] \div 2
  IN [i \in 1..bits |-> half[i - 1] % 2]

\* From the highest bit down, each step doubles.
Number(bits) ==
  LET sum[i \in 0..Len(bits)] == IF i = 0 THEN 0 ELSE 2 * sum[i - 1] + bits[Len(bits) + 1 - i]
  IN sum[Len(bits)]

\* BitUtil::reverse, on the bits from place to place.
Reversed(bits, from, to) == [i \in DOMAIN bits |-> IF i \in from..to THEN bits[from + to - i] ELSE bits[i]]

\* Some bytes of a header reversed.
ReverseBytes(bits, bytes) ==
  [i \in DOMAIN bits |->
     LET byte == (i - 1) \div 8 IN IF byte \in bytes THEN bits[8 * byte + 9 - (i - 8 * byte)] ELSE bits[i]]
=============================================================================
