-------------------------------- MODULE Bits --------------------------------
(***************************************************************************)
(* Numbers as strings of bits, lowest bit first, as util/BitUtil.hpp and   *)
(* the writeBits and readBits of BlockStorage.hpp lay them in a buffer.    *)
(***************************************************************************)
EXTENDS Integers, Sequences

(* The lowest w bits of a number: what pack and writeBits write.            *)
BitsOf(n, w) == [i \in 1..w |-> (n \div 2^(i - 1)) % 2]

(* The number in a string of bits: what unpack and readBits return.         *)
ValueOf(s) ==
  LET upTo[i \in 0..Len(s)] == IF i = 0 THEN 0 ELSE upTo[i - 1] + s[i] * 2^(i - 1)
  IN  upTo[Len(s)]

(* A wide number, itself given as bits, in a field of w bits.               *)
Fit(s, w) == [i \in 1..w |-> IF i <= Len(s) THEN s[i] ELSE 0]

(* The same number without leading zeros.                                   *)
Significant(s) ==
  SubSeq(s, 1, CHOOSE k \in 0..Len(s) : /\ k > 0 => s[k] = 1
                                        /\ \A i \in (k + 1)..Len(s) : s[i] = 0)

(* w bits from position p on, counted from 0; beyond the end there are none *)
(* that matter.                                                             *)
Slice(s, p, w) == [i \in 1..w |-> IF p + i <= Len(s) THEN s[p + i] ELSE 0]
=============================================================================
