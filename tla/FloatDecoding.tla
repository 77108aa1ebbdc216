---------------------------- MODULE FloatDecoding ----------------------------
(***************************************************************************)
(* From binary to decimal (detail/input_types/float.hpp): the numbers with *)
(* few bits, which trivial_float_dec and trivial_double_dec turn into      *)
(* m10 * 10^e10 with multiplications by powers of five.  All others go     *)
(* through Ryu, which is a library here.                                   *)
(*                                                                         *)
(* The bits of a number are its significand and how many of the            *)
(* significand's bits are behind the binary point.                         *)
(***************************************************************************)
EXTENDS Integers, Sequences, SequencesExt

(* b to the power of n.  (The provers know ^ for literal exponents only.)  *)
Power(b, n) ==
  LET power[k \in Nat] == IF k = 0 THEN 1 ELSE b * power[k - 1]
  IN power[n]

(* The digits of a number, the most significant one first.                 *)
DigitsOf(n) ==
  LET digits[k \in Nat] ==
        IF k < 10 THEN <<k>> ELSE Append(digits[k \div 10], k % 10)
  IN digits[n]

(* count_digits<10>.                                                       *)
CountDigits(n) == Len(DigitsOf(n))

(* A number without its trailing zeros, and how many there were; n is not  *)
(* 0, for which the loops that do this would not end.                      *)
WithoutZeros(n) ==
  LET zeros == Max({k \in 0 .. CountDigits(n) - 1 : n % Power(10, k) = 0})
  IN [m |-> n \div Power(10, zeros), zeros |-> zeros]

(* How many bits the significand of a number of exponent e may have behind *)
(* its first one.                                                          *)
FloatBits(e) == (179 * e + 1850) \div 256
DoubleBits(e) == (179 * e + 4084) \div 256

(* m has shift bits behind the point; n of them are zeros.                 *)
ZeroBits(d, n) == d.shift >= n /\ d.m % Power(2, n) = 0

(* A mutant: the exponent is forgotten.                                    *)
HalvedInPlace(d, n) ==
  IF ZeroBits(d, n) THEN [m |-> d.m \div Power(2, n), shift |-> d.shift - n, e |-> d.e] ELSE d

(* One of the tests for a block of zero bits.                              *)
Halved(d, n) ==
  IF ZeroBits(d, n)
  THEN [m |-> d.m \div Power(2, n), shift |-> d.shift - n, e |-> d.e + n] ELSE d

(* The rest of trivial_float_dec, and of trivial_double_dec, which tests   *)
(* for a block of eight zero bits before.                                  *)
TrivialDec(bits) ==
  LET start == [m |-> bits.significand, shift |-> bits.shift, e |-> -bits.shift]
      fewer == IF bits.double THEN Halved(start, 8) ELSE start
      halved == Halved(Halved(Halved(fewer, 4), 2), 1)
      whole == WithoutZeros(halved.m)
  IN [m |-> whole.m * Power(5, halved.shift), e |-> halved.e + whole.zeros]

(* What it means: the same number, in as few digits as there are.          *)
SameNumber(bits, d) ==
  /\ d.e + bits.shift >= 0
  /\ d.m * Power(10, d.e + bits.shift) = bits.significand * Power(5, bits.shift)
  /\ d.m % 10 # 0
=============================================================================
