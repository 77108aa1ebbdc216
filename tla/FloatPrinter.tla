---------------------------- MODULE FloatPrinter ----------------------------
(***************************************************************************)
(* How a floating point number is printed (detail/input_types/float.hpp):  *)
(* the choice of the notation and the rounding in double_printer_data, the *)
(* size the four printers announce, and what their print_to functions put  *)
(* into the window of an outbuf.                                           *)
(*                                                                         *)
(* Unlike the printers of integers, these decide everything before they    *)
(* write: print_to is a sequence of pieces, each with the units it asks    *)
(* ensure() for, the text it stores and the units it advances.  A piece    *)
(* stored backwards from its end may turn out longer or shorter than that. *)
(*                                                                         *)
(* A character of the text is a digit, or one of the names below.  The     *)
(* letter case is left out, and so is which character replaces a decimal   *)
(* point that cannot be encoded.                                           *)
(***************************************************************************)
EXTENDS Integers, Sequences, SequencesExt, FiniteSetsExt, Numpunct, FloatDecoding

CONSTANTS
  MinSize,     (* min_size_after_recycle(): 64 in the code                 *)
  Rooms,       (* the windows printing may start with                      *)
  Windows,     (* the windows recycle() may leave                          *)
  Decimals,    (* numbers m * 10^e, decoded by Ryu                         *)
  Bits,        (* numbers trivial_float_dec or trivial_double_dec decodes  *)
  Formats,     (* the formats                                              *)
  Puncts,      (* grouping, units of the separator, units of the point     *)
  MaxExponent, (* of the numbers printed in the fixed notation, or grouped *)
  Replacement, (* replacement_char_size() of the encoding                  *)
  Byte,        (* 2^8: the sizes of groups are stored in std::uint8_t      *)
  Int16,       (* 2^15                                                     *)
  Unsigned     (* 2^32                                                     *)

FloatPrinterAssumption ==
  /\ MinSize \in Nat /\ Rooms \subseteq Nat /\ Windows \subseteq {w \in Nat : w >= MinSize}
  /\ \A d \in Decimals : d.m % 10 # 0 \/ d = [m |-> 0, e |-> 0]
  /\ Bits \subseteq [significand: Nat \ {0}, shift: Nat, double: BOOLEAN]
  /\ \A b \in Bits :  \* float.hpp:55, 115: no 8, or 16, zero bits where p5 is that large
       LET most == IF b.double THEN 15 ELSE 7 IN
       b.shift <= most \/ b.significand % Power(2, most + 1) # 0
  /\ Formats \subseteq [notation: {"general", "fixed", "scientific"}, precision: Nat \cup {-1},
                       showpoint: BOOLEAN, showpos: BOOLEAN, width: Nat,
                       align: {"left", "right", "split", "center"}]
  /\ Byte \in Nat \ {0}
  /\ Puncts \subseteq [grouping: Seq(0 .. Byte - 1) \ {<<>>}, sep: 0 .. 4, point: 0 .. 4]
  /\ MaxExponent \in Nat /\ Replacement \in 1 .. 4
  /\ Int16 \in Nat \ {0} /\ Unsigned \in Nat /\ Unsigned > MinSize

VARIABLES
  arg,       (* the number, the format and the facets: fixed               *)
  room,      (* end - pos                                                  *)
  out,       (* what has been written                                      *)
  todo       (* the pieces print_to still has to write                     *)

vars == <<arg, room, out, todo>>

Separator == -1
FillChar == -3
Minus == -4
Plus == -5
Point == -6
Exponent == -7
NotANumber == -8
Infinite == -9
Garbage == -10  (* what was in the window before                           *)

Times(n, x) == [i \in 1 .. n |-> x]
Larger(a, b) == IF a > b THEN a ELSE b
Bit(b) == IF b THEN 1 ELSE 0
Abs(n) == IF n < 0 THEN -n ELSE n
ToUnsigned(n) == n % Unsigned
ToInt16(n) == ((n + Int16) % (2 * Int16)) - Int16

-----------------------------------------------------------------------------
(* The arguments.  make_printer takes a printer with punctuation when the  *)
(* facets pack has any, and a fast one when the number is not formatted.   *)
Unspecified == -1

Default == [notation |-> "general", precision |-> Unspecified, showpoint |-> FALSE,
            showpos |-> FALSE, width |-> 0, align |-> "right"]

(* decode: the signs, infinity and nan have bits of their own.             *)
Numbers ==
  [kind: {"number"}, dec: Decimals, bits: {<<>>}]
  \cup {[kind |-> "number", bits |-> b, dec |-> TrivialDec(b)] : b \in Bits}
  \cup [kind: {"infinity", "nan"}, dec: {[m |-> 0, e |-> 0]}, bits: {<<>>}]

(* What a window has room for: the sign, the digits, the point and the     *)
(* exponent, which has three digits at most; and digits with a separator   *)
(* behind each.  (A group may have any size: see WindowSafe.)              *)
NumbersAssumption ==
  \A x \in Numbers :
    LET digits == CountDigits(x.dec.m) IN
    /\ x.dec \in [m: Nat, e: -900 .. 900]
    /\ digits + 8 <= MinSize /\ digits <= 90
    /\ x.bits = <<>> => 2 * digits <= MinSize

NoPunct == [grouping |-> <<0>>, sep |-> 1, point |-> 1]

Printers == {"fast_double", "double", "fast_punct_double", "punct_double"}

IsFast(a) == a.printer \in {"fast_double", "fast_punct_double"}
HasPunct(a) == a.printer \in {"fast_punct_double", "punct_double"}

Args ==
  {a \in [printer: Printers, x: Numbers, negative: BOOLEAN,
          fmt: Formats \cup {Default}, punct: Puncts \cup {NoPunct}] :
     /\ IsFast(a) => a.fmt = Default
     /\ HasPunct(a) \equiv a.punct # NoPunct
     /\ a.x.bits # <<>> => a.printer = "fast_double"
     /\ a.fmt.notation = "fixed" \/ a.punct.grouping[1] # 0 =>
          a.x.dec.e \in -MaxExponent .. MaxExponent}

Finite(a) == a.x.kind = "number"

-----------------------------------------------------------------------------
(* double_printer_data: m10 and e10 after rounding, m10_digcount,          *)
(* extra_zeros, sci_notation and showpoint.                                *)

(* general, without a precision.                                           *)
Shortest(a, d) ==
  LET e == a.x.dec.e
      sp == a.fmt.showpoint
      grouping == a.punct.grouping
      seps == IF a.punct.sep = 0 THEN 0 ELSE ThousandsSepCount(grouping, d + e)
      ungrouped == e > 4 + Bit(~sp /\ d > 1) \/ e < -d - 2 - Bit(sp \/ d > 1)
  IN CASE ~HasPunct(a) \/ (~IsFast(a) /\ a.punct.sep = 0) -> ungrouped
       [] HasPunct(a) /\ e <= -d -> -e > d + 2 + Bit(e < -99) + Bit(sp \/ d > 1)
       [] HasPunct(a) /\ e > -d ->
            IF ~IsFast(a) /\ NoGroupSeparation(grouping, d + e) THEN ungrouped
            ELSE 4 + Bit(e > 99) + Bit(sp \/ d > 1) < Larger(e, 0) + Bit(sp \/ e < 0) + seps

WithoutPrecision(a) ==
  LET d == CountDigits(a.x.dec.m)
      sci == CASE a.fmt.notation = "general" -> Shortest(a, d)
               [] OTHER -> a.fmt.notation = "scientific"
  IN [m |-> a.x.dec.m, e |-> a.x.dec.e, digits |-> d, extra |-> 0, sci |-> sci,
      point |-> a.fmt.showpoint \/ (IF sci THEN d > 1 ELSE a.x.dec.e < 0)]

(* A mutant of the next definition: halves are rounded up.                 *)
RoundedHalfUp(m, n) ==
  LET p10 == Power(10, n) IN m \div p10 + Bit(2 * (m % p10) >= p10)

Rounded(m, n) ==
  LET p10 == Power(10, n)
      quotient == m \div p10
      remainder == m % p10
      middle == p10 \div 2
  IN quotient + Bit(remainder > middle \/ (remainder = middle /\ quotient % 2 = 1))

(* The zeros to be added or, if negative, the digits to be removed.        *)
Zeros(a, d) ==
  LET p == a.fmt.precision
      significant == Larger(p, 1)
  IN CASE a.fmt.notation = "general" ->
            IF significant < d \/ a.fmt.showpoint THEN significant - d ELSE 0
       [] a.fmt.notation = "fixed" -> p - Larger(-a.x.dec.e, 0)
       [] a.fmt.notation = "scientific" -> p - (d - 1)

WithPrecision(a) ==
  LET m == a.x.dec.m
      e == a.x.dec.e
      d == CountDigits(m)
      xz == Zeros(a, d)
      general == a.fmt.notation = "general"
      sci == CASE general -> e + d - 1 < -4 \/ e + d - 1 >= Larger(a.fmt.precision, 1)
               [] OTHER -> a.fmt.notation = "scientific"
      point == a.fmt.showpoint \/ (IF general THEN (IF sci THEN d # 1 ELSE e < 0)
                                              ELSE a.fmt.precision # 0)
      short == IF general THEN WithoutZeros(Rounded(m, -xz))
                          ELSE [m |-> Rounded(m, -xz), zeros |-> 0]
      digits == d + xz - short.zeros
      exp == e - xz + short.zeros
      frac == IF sci THEN digits - 1 ELSE Larger(-exp, 0)
  IN IF xz >= 0
     THEN [m |-> m, e |-> e, digits |-> d, extra |-> xz, sci |-> sci, point |-> point]
     ELSE [m |-> short.m, e |-> exp, digits |-> digits, extra |-> 0, sci |-> sci,
           point |-> IF general THEN a.fmt.showpoint \/ frac # 0 ELSE point]

Data(a) ==
  IF ~Finite(a) THEN [m |-> 0, e |-> 0, digits |-> 0, extra |-> 0, sci |-> FALSE, point |-> FALSE]
  ELSE IF a.fmt.precision = Unspecified THEN WithoutPrecision(a) ELSE WithPrecision(a)

ShowSign(a) == a.fmt.showpos \/ a.negative

-----------------------------------------------------------------------------
(* What the constructors announce.                                         *)
PointUnits(a) == IF a.punct.point = 0 THEN Replacement ELSE a.punct.point

(* e+XX; the printers without punctuation look at e10 to see whether the   *)
(* exponent has three digits, not at the exponent.                         *)
ExponentOf(f) == f.e + f.digits - 1
ExponentUnits(f) == 4 + Bit(Abs(ExponentOf(f)) > 99)
ExponentGuess(f) == 4 + Bit(f.e > 99 \/ f.e < -99)

(* fast_double_printer::size.                                              *)
FastSize(a, f) ==
  Bit(a.negative /\ a.x.kind # "nan") +
  IF ~Finite(a) THEN 3
  ELSE f.digits +
       IF f.sci THEN Bit(f.digits # 1) + ExponentGuess(f)
       ELSE Larger(f.e, 0)
            + (IF f.e <= -f.digits THEN 2 - f.e - f.digits ELSE Bit(f.e < 0))

(* double_printer::_content_width.                                         *)
DoubleWidth(a, f) ==
  Bit(ShowSign(a)) +
  IF ~Finite(a) THEN 3
  ELSE f.extra + Bit(f.point) + f.digits +
       IF f.sci THEN ExponentGuess(f)
       ELSE Larger(f.e, 0) + (IF f.e <= -f.digits THEN 1 - f.e - f.digits ELSE 0)

(* The separators, where they can be encoded.                              *)
SepCount(a, f) ==
  IF a.punct.sep = 0 THEN 0 ELSE ThousandsSepCount(a.punct.grouping, f.digits + f.e)

(* punct_double_printer::_content_width, when a point and a separator are  *)
(* one column each, and _content_size.                                     *)
Punctuated(a, f, point, sep) ==
  Bit(ShowSign(a)) +
  IF ~Finite(a) THEN 3
  ELSE f.extra + point * Bit(f.point) +
       IF f.sci THEN f.digits + ExponentUnits(f)
       ELSE IF f.e <= -f.digits THEN 1 - f.e
       ELSE f.digits + Larger(f.e, 0) + sep * SepCount(a, f)

(* fast_punct_double_printer::size.                                        *)
FastPunctSize(a, f) ==
  IF ~Finite(a) THEN 3 + Bit(a.negative /\ a.x.kind = "infinity")
  ELSE IF f.sci THEN f.digits + Bit(a.negative) + ExponentUnits(f)
                     + PointUnits(a) * Bit(f.digits > 1)
  ELSE IF f.e <= -f.digits THEN 1 + PointUnits(a) - f.e
  ELSE a.punct.sep * SepCount(a, f) + PointUnits(a) * Bit(f.e < 0) + f.digits
       + Bit(a.negative) + Larger(f.e, 0)

ContentWidth(a) ==
  ToInt16(IF HasPunct(a) THEN Punctuated(a, Data(a), 1, 1) ELSE DoubleWidth(a, Data(a)))

FillCount(a) ==
  IF a.fmt.width > ContentWidth(a) THEN a.fmt.width - ContentWidth(a) ELSE 0

(* The size announced to the preview.  (The fill character has one unit.)  *)
PreviewSize(a) ==
  LET f == Data(a) IN
  CASE a.printer = "fast_double" -> FastSize(a, f)
    [] a.printer = "fast_punct_double" -> FastPunctSize(a, f)
    [] a.printer = "double" -> ContentWidth(a) + FillCount(a)
    [] a.printer = "punct_double" ->
         Punctuated(a, f, PointUnits(a), a.punct.sep) + FillCount(a)

-----------------------------------------------------------------------------
(* The pieces.  ensure(need), then text is stored so that it ends units    *)
(* after pos, and pos advances over it.                                    *)
Units(a, text) ==
  LET places(x) == Cardinality({i \in DOMAIN text : text[i] = x})
  IN Len(text) + (a.punct.sep - 1) * places(Separator) + (PointUnits(a) - 1) * places(Point)

Piece(need, text, units) == <<[op |-> "store", need |-> need, text |-> text, units |-> units]>>

(* A mutant of the next definition: ensure() for its characters only.      *)
EnsuredChars(a, text) ==
  IF text = <<>> THEN <<>> ELSE Piece(Len(text), text, Units(a, text))

(* A text stored forwards, after ensure() for all of it.                   *)
Ensured(a, text) ==
  IF text = <<>> THEN <<>> ELSE Piece(Units(a, text), text, Units(a, text))

(* write_fill and encode_fill.                                             *)
Run(n, x) == IF n <= 0 THEN <<>> ELSE <<[op |-> "fill", text |-> Times(n, x)]>>

(* write_int<10>: as many digits as were counted, stored backwards.        *)
WriteInt(n, digits) == Piece(ToUnsigned(digits), DigitsOf(n), ToUnsigned(digits))

(* The last k digits of n.                                                 *)
Fraction(n, k) ==
  LET t == DigitsOf(n % Power(10, k)) IN Times(k - Len(t), 0) \o t

SignText(a) ==
  IF ~ShowSign(a) THEN <<>> ELSE IF a.negative THEN <<Minus>> ELSE <<Plus>>

(* print_nan and print_inf.                                                *)
Special(a) == Times(3, IF a.x.kind = "nan" THEN NotANumber ELSE Infinite)

ExponentText(f) ==
  LET e == ExponentOf(f)
      t == DigitsOf(Abs(e))
  IN <<Exponent, IF e < 0 THEN Minus ELSE Plus>>
     \o (IF Len(t) = 1 THEN <<0>> ELSE <<>>) \o t

(* The digits of the scientific notation, without punctuation.  They are   *)
(* stored one place to the right, and the first one then moves in front of *)
(* the point.  A single digit is not taken apart.                          *)
Mantissa(f) ==
  LET t == DigitsOf(f.m)
      skip == Len(t) - f.digits
  IN CASE f.digits = 1 -> <<f.m>> \o (IF f.point THEN <<Point>> ELSE <<>>)
       [] f.digits > 1 -> <<t[skip + 1], Point>> \o SubSeq(t, skip + 2, Len(t))
       [] f.digits < 1 -> <<Garbage>>

(* The number with its point inside, stored backwards from the end.        *)
PointInside(f) ==
  DigitsOf(f.m \div Power(10, Abs(f.e))) \o <<Point>> \o Fraction(f.m, Abs(f.e))

LeadingZeros(f) == Run(-f.e - f.digits, 0)

(* fast_double_printer::print_to.                                          *)
FastPieces(a, f) ==
  LET sign == IF a.negative THEN <<Minus>> ELSE <<>>
      stored(need, text) == Piece(Len(sign) + need, sign \o text, Len(sign \o text))
      t == DigitsOf(f.m)
      need == f.digits * Bit(f.e > -f.digits) + Bit(f.e < -f.digits) + Bit(f.e < 0)
  IN CASE a.x.kind = "nan" -> Ensured(a, Special(a))
       [] a.x.kind = "infinity" -> stored(3, Special(a))
       [] Finite(a) /\ f.sci ->
            stored(f.digits + Bit(f.digits # 1) + ExponentGuess(f), Mantissa(f) \o ExponentText(f))
       [] Finite(a) /\ ~f.sci ->
            IF f.e >= 0 THEN stored(need, t) \o Run(f.e, 0)
            ELSE IF -f.e >= f.digits
            THEN stored(need, <<0, Point>>) \o LeadingZeros(f) \o WriteInt(f.m, f.digits)
            ELSE stored(need, PointInside(f))

(* double_printer::print_to, after the sign.  Behind extra zeros the       *)
(* exponent is stored without ensure().                                    *)
DoublePieces(a, f) ==
  LET digits == ToUnsigned(f.digits)
      need == ToUnsigned(Bit(f.point) + f.digits + Bit(f.e < -f.digits))
      needSci == f.digits + Bit(f.point) + ExponentGuess(f)
      stored(n, text) == Piece(n, text, Len(text))
      extra == Run(f.extra, 0)
  IN CASE f.sci /\ f.extra = 0 -> stored(needSci, Mantissa(f) \o ExponentText(f))
       [] f.sci /\ f.extra # 0 ->
            stored(needSci, Mantissa(f)) \o extra \o stored(0, ExponentText(f))
       [] ~f.sci /\ f.e >= 0 ->
            Piece(need, DigitsOf(f.m), digits) \o Run(f.e, 0)
            \o (IF f.point THEN stored(1, <<Point>>) ELSE <<>>) \o extra
       [] ~f.sci /\ f.e < 0 ->
            (IF -f.e >= digits
             THEN stored(need, <<0, Point>>) \o LeadingZeros(f) \o WriteInt(f.m, f.digits)
             ELSE Piece(need, PointInside(f), digits + 1))
            \o extra

(* print_scientific_notation.                                              *)
ScientificPieces(a, f) ==
  LET t == DigitsOf(f.m)
      point == f.point \/ f.extra # 0
      psize == PointUnits(a)
  IN (IF f.digits = 1 THEN Ensured(a, <<f.m>> \o (IF point THEN <<Point>> ELSE <<>>))
      ELSE Piece(f.digits + psize, <<t[1], Point>> \o Tail(t), f.digits + psize))
     \o Run(f.extra, 0) \o Ensured(a, ExponentText(f))

(* A mutant of the next definition: the zeros of a group that began with   *)
(* digits are forgotten.                                                   *)
GroupPiecesShort(a, t, digits, size, before) ==
  LET left == digits - before
      part(k) == SubSeq(t, before + 1, before + k)
      both(text) == Piece(size + a.punct.sep, text, size + a.punct.sep)
  IN IF left > size THEN both(part(size) \o <<Separator>>)
     ELSE IF left > 0 \/ before = 0 THEN Piece(left, part(left), left)
     ELSE both(<<Separator>> \o Times(size, 0))

(* _print_amplified_integer_small_separator and _big_separator: one group  *)
(* of m10 * 10^e10, when before digits are written.  Of m10 come the first *)
(* digits digits, then zeros.                                              *)
GroupPieces(a, t, digits, size, before) ==
  LET left == digits - before
      part(k) == SubSeq(t, before + 1, before + k)
      both(text) == Piece(size + a.punct.sep, text, size + a.punct.sep)
  IN IF left > size THEN both(part(size) \o <<Separator>>)
     ELSE IF left > 0 \/ before = 0
     THEN (IF left > 0 THEN Piece(left, part(left), left) ELSE <<>>)
          \o (IF size > left THEN Piece(size - left, Times(size - left, 0), size - left) ELSE <<>>)
     ELSE both(<<Separator>> \o Times(size, 0))

(* The sizes that get_groups leaves in its array: of a group too large for *)
(* a byte, what is left of it there.                                       *)
StoredSizes(a, f) ==
  LET sizes == GroupSizes(a.punct.grouping, f.digits + f.e)
  IN [i \in DOMAIN sizes |-> sizes[i] % Byte]

(* The array ends before the digits do, and what is in front of it is read.*)
GroupsRunOut(a, f) ==
  f.digits > FoldLeft(LAMBDA sum, size : sum + size, 0, StoredSizes(a, f))

(* print_amplified_integer.  (A count of digits below zero makes a number  *)
(* of groups that has no meaning.)                                         *)
Amplified(a, f) ==
  IF a.punct.sep = 0 THEN WriteInt(f.m, f.digits) \o Run(f.e, 0)
  ELSE IF f.digits + f.e < 0 \/ GroupsRunOut(a, f) THEN Piece(0, <<Garbage>>, 1)
  ELSE LET sizes == Reverse(StoredSizes(a, f))
           before[i \in 1 .. Len(sizes)] == IF i = 1 THEN 0 ELSE before[i - 1] + sizes[i - 1]
       IN FlattenSeq([i \in 1 .. Len(sizes) |->
                        GroupPieces(a, DigitsOf(f.m), f.digits, sizes[i], before[i])])

(* write_int<10> with punctuation: its loops are those of module           *)
(* IntPrinter.  (Given fewer digits than there are, they leave the groups.)*)
GroupedInt(a, n, digits) ==
  LET t == DigitsOf(n)
      sizes == GroupSizes(a.punct.grouping, digits)
      ends == {FoldLeft(LAMBDA sum, k : sum + k, 0, SubSeq(sizes, 1, i)) :
                 i \in 1 .. Len(sizes) - 1}
  IN IF a.punct.sep = 0 THEN WriteInt(n, digits)
     ELSE IF Len(t) # digits THEN Piece(0, <<Garbage>>, 1)
     ELSE <<[op |-> "grouped",
             text |-> FlattenSeq([i \in 1 .. digits |->
                        IF digits - i \in ends THEN <<t[i], Separator>> ELSE <<t[i]>>])]>>

(* punct_double_printer::print_to and fast_punct_double_printer::print_to, *)
(* after the sign, for a number that is not printed in the scientific      *)
(* notation.                                                               *)
PunctPieces(a, f) ==
  LET point == Ensured(a, <<Point>>)
      extra == Run(f.extra, 0)
      idigits == ToUnsigned(f.digits + f.e)
      integral == f.m \div Power(10, Abs(f.e))
  IN IF f.e >= 0
     THEN (IF NoGroupSeparation(a.punct.grouping, idigits)
           THEN WriteInt(f.m, f.digits) \o Run(f.e, 0) ELSE Amplified(a, f))
          \o (IF f.point THEN point ELSE <<>>) \o extra
     ELSE IF -f.e >= ToUnsigned(f.digits)
     THEN Ensured(a, <<0>>) \o point \o LeadingZeros(f) \o WriteInt(f.m, f.digits) \o extra
     ELSE (IF NoGroupSeparation(a.punct.grouping, idigits)
           THEN WriteInt(integral, idigits) ELSE GroupedInt(a, integral, idigits))
          \o point \o Piece(-f.e, Fraction(f.m, -f.e), -f.e) \o extra

Body(a, f) ==
  CASE ~Finite(a) -> Ensured(a, Special(a))
    [] Finite(a) /\ a.printer = "double" -> DoublePieces(a, f)
    [] Finite(a) /\ HasPunct(a) -> IF f.sci THEN ScientificPieces(a, f) ELSE PunctPieces(a, f)

(* print_to, with the fill characters on their sides.                      *)
Pieces(a) ==
  LET f == Data(a)
      fill(n) == Run(n, FillChar)
      n == FillCount(a)
      sign == Ensured(a, SignText(a))
  IN CASE a.printer = "fast_double" -> FastPieces(a, f)
       [] a.printer = "fast_punct_double" -> sign \o Body(a, f)
       [] ~IsFast(a) ->
            CASE a.fmt.align = "right" -> fill(n) \o sign \o Body(a, f)
              [] a.fmt.align = "left" -> sign \o Body(a, f) \o fill(n)
              [] a.fmt.align = "split" -> sign \o fill(n) \o Body(a, f)
              [] a.fmt.align = "center" ->
                   fill(n \div 2) \o sign \o Body(a, f) \o fill(n - n \div 2)

Init ==
  /\ arg \in Args
  /\ room \in Rooms
  /\ out = <<>>
  /\ todo = Pieces(arg)

-----------------------------------------------------------------------------
Call(op) == todo # <<>> /\ Head(todo).op = op

(* text is longer by over units than the place it was given: its beginning *)
(* replaces what is in front of it, and is lost for this number where that *)
(* is not part of it.  (over counts units, out characters: where a point   *)
(* of several units is overwritten by one, the rest of it would remain.)   *)
StoreOver(text, over) ==
  IF over <= 0 THEN out \o Times(Bit(over < 0), Garbage) \o text
  ELSE IF over <= Len(out) THEN SubSeq(out, 1, Len(out) - over) \o text
  ELSE SubSeq(text, over - Len(out) + 1, Len(text))

Store ==
  /\ Call("store")
  /\ LET p == Head(todo) IN
     /\ \E r \in (IF room >= p.need THEN {room} ELSE Windows) : room' = r - p.units
     /\ out' = StoreOver(p.text, Units(arg, p.text) - p.units)
  /\ todo' = Tail(todo)
  /\ UNCHANGED arg

(* The loops of write_fill are those of module Outbuf, and leave any room. *)
Fill ==
  /\ Call("fill")
  /\ LET n == Len(Head(todo).text) IN
     IF n <= room THEN room' = room - n ELSE room' \in 0 .. MinSize
  /\ out' = out \o Head(todo).text
  /\ todo' = Tail(todo)
  /\ UNCHANGED arg

Grouped ==
  /\ Call("grouped")
  /\ LET n == Units(arg, Head(todo).text) IN
     IF arg.punct.sep = 1
     THEN \E r \in (IF room >= n THEN {room} ELSE Windows) : room' = r - n
     ELSE room' \in 0 .. MinSize
  /\ out' = out \o Head(todo).text
  /\ todo' = Tail(todo)
  /\ UNCHANGED arg

Next ==
  \/ Store \/ Fill \/ Grouped
  \/ todo = <<>> /\ UNCHANGED vars

Spec == Init /\ [][Next]_vars

-----------------------------------------------------------------------------
(* The text a number should have, from the documentation of the formats.   *)

(* m without its last n digits, rounded to the nearest, ties to even.      *)
Nearest(m, n) ==
  LET p10 == Power(10, n) IN
  CHOOSE q \in {m \div p10, m \div p10 + 1} :
    LET distance == 2 * Abs(m - q * p10) IN
    distance < p10 \/ (distance = p10 /\ q % 2 = 0)

IntegerPart(t) ==
  LET ends == GroupEnds(arg.punct.grouping, Len(t)) IN
  IF arg.punct.sep = 0 THEN t
  ELSE FlattenSeq([i \in 1 .. Len(t) |->
         IF Len(t) - i \in ends THEN <<t[i], Separator>> ELSE <<t[i]>>])

PointIf(more) == IF arg.fmt.showpoint \/ more THEN <<Point>> ELSE <<>>

(* m * 10^e with p digits behind the point.                                *)
FixedText(m, e, p) ==
  LET t == IF e + p >= 0 THEN DigitsOf(m) \o Times(e + p, 0) ELSE DigitsOf(Nearest(m, -e - p))
      padded == Times(p + 1 - Len(t), 0) \o t
      n == Len(padded) - p
  IN IntegerPart(SubSeq(padded, 1, n)) \o PointIf(p > 0) \o SubSeq(padded, n + 1, n + p)

(* One digit, the point, p digits, and the exponent.                       *)
ScientificText(m, e, p) ==
  LET d == CountDigits(m)
      q == Nearest(m, d - 1 - p)
      carry == CountDigits(q) - (p + 1)
      t == IF p >= d - 1 THEN DigitsOf(m) \o Times(p - d + 1, 0)
           ELSE SubSeq(DigitsOf(q), 1, p + 1)
      exp == e + d - 1 + (IF p >= d - 1 THEN 0 ELSE carry)
      x == DigitsOf(Abs(exp))
  IN <<t[1]>> \o PointIf(p > 0) \o Tail(t)
     \o <<Exponent, IF exp < 0 THEN Minus ELSE Plus>> \o Times(2 - Len(x), 0) \o x

(* The number rounded to p significant digits, without trailing zeros.     *)
Significant(m, e, p) ==
  LET d == CountDigits(m)
      w == WithoutZeros(Nearest(m, d - p))
  IN IF p >= d THEN [m |-> m, e |-> e] ELSE [m |-> w.m, e |-> e + d - p + w.zeros]

(* Without a precision: the scientific notation if, and only if, it is     *)
(* shorter.  With one: that many significant digits, and the scientific    *)
(* notation for exponents below -4 and from the precision on; zeros up to  *)
(* the precision are shown with operator~, unless digits were removed.     *)
GeneralText(m, e) ==
  LET p == Larger(arg.fmt.precision, 1)
      sci == ScientificText(m, e, CountDigits(m) - 1)
      fixed == FixedText(m, e, Larger(-e, 0))
      s == Significant(m, e, p)
      d == CountDigits(s.m)
      x == s.e + d - 1
      pad == arg.fmt.showpoint /\ p >= CountDigits(m)
  IN IF arg.fmt.precision = Unspecified THEN (IF Len(sci) < Len(fixed) THEN sci ELSE fixed)
     ELSE IF x < -4 \/ x >= p THEN ScientificText(s.m, s.e, IF pad THEN p - 1 ELSE d - 1)
     ELSE FixedText(s.m, s.e, IF pad THEN p - 1 - x ELSE Larger(-s.e, 0))

NumberText ==
  LET m == arg.x.dec.m
      e == arg.x.dec.e
      p == arg.fmt.precision
  IN CASE arg.fmt.notation = "general" -> GeneralText(m, e)
       [] arg.fmt.notation = "fixed" ->
            FixedText(m, e, IF p = Unspecified THEN Larger(-e, 0) ELSE p)
       [] arg.fmt.notation = "scientific" ->
            ScientificText(m, e, IF p = Unspecified THEN CountDigits(m) - 1 ELSE p)

Content == IF Finite(arg) THEN NumberText ELSE Special(arg)

(* fast_double_printer has no sign for a nan.                              *)
Sign == IF arg.printer = "fast_double" /\ arg.x.kind = "nan" THEN <<>> ELSE SignText(arg)

-----------------------------------------------------------------------------
Printed == todo = <<>>

Filled(n) == Times(n, FillChar)

TextIsRight ==
  \E n \in 0 .. Len(out) :
    out = CASE arg.fmt.align = "left" -> Sign \o Content \o Filled(n)
            [] arg.fmt.align = "right" -> Filled(n) \o Sign \o Content
            [] arg.fmt.align = "split" -> Sign \o Filled(n) \o Content
            [] arg.fmt.align = "center" ->
                 Filled(n \div 2) \o Sign \o Content \o Filled(n - n \div 2)

(* What the digits are when nothing goes wrong with them: as many as were  *)
(* counted.  (Rounding may carry to one more, which is not counted, and a  *)
(* fixed notation may remove them all.)                                    *)
DigitsCounted == Finite(arg) => Data(arg).digits = CountDigits(Data(arg).m)

(* operator~ with a precision adds zeros to a whole number without looking *)
(* at the zeros it ends in: ~fmt(100.0).p(5) has two of them more.         *)
ZerosOfInteger ==
  LET f == Data(arg) IN
  arg.fmt.notation = "general" /\ ~f.sci /\ f.extra > 0 /\ f.e > 0

(* Whether the exponent has three digits was seen right.                   *)
ExponentCounted ==
  HasPunct(arg) \/ ~Data(arg).sci \/ ExponentGuess(Data(arg)) = ExponentUnits(Data(arg))

(* ensure() is not asked for the exponent behind extra zeros, nor for the  *)
(* 0 in front of a point that only one 0 separates from it: 0.5.           *)
RoomAsked ==
  LET f == Data(arg) IN
  Finite(arg) =>
    IF f.sci THEN arg.printer = "double" => f.extra = 0
             ELSE arg.printer = "fast_double" => f.e # -f.digits

(* fast_punct_double_printer::size leaves out these signs.                 *)
SignCounted ==
  LET f == Data(arg) IN
  arg.printer = "fast_punct_double" /\ arg.negative =>
    arg.x.kind = "infinity" \/ (Finite(arg) /\ (f.sci \/ f.e > -f.digits))

(* The zeros behind the digits are printed in groups.                      *)
Amplifies(a, f) ==
  /\ Finite(a) /\ HasPunct(a) /\ a.punct.sep # 0
  /\ ~f.sci /\ f.e >= 0
  /\ ~NoGroupSeparation(a.punct.grouping, ToUnsigned(f.digits + f.e))

(* STRF_ASSERTs behind print_amplified_integer: the groups are as many as  *)
(* the digits need (float.hpp:515, 564); and none is larger, with its      *)
(* separator, than the smallest window (float.hpp:507, 533, 557).          *)
GroupsSuffice == LET f == Data(arg) IN Amplifies(arg, f) => ~GroupsRunOut(arg, f)

LargeGroup ==
  LET f == Data(arg) IN
  /\ Amplifies(arg, f)
  /\ \E size \in ToSet(StoredSizes(arg, f)) : size + arg.punct.sep > MinSize

(* No group of the number lost anything in the array.                      *)
GroupsInBytes ==
  LET f == Data(arg) IN
  Amplifies(arg, f) =>
    \A size \in ToSet(GroupSizes(arg.punct.grouping, f.digits + f.e)) : size < Byte

(* ensure() is asked for more than it can give, against the STRF_ASSERT of *)
(* require(), outbuf.hpp:89, and the precondition in ref_outbuf.adoc:167.  *)
BeyondContract(pieces) ==
  \E p \in ToSet(pieces) : p.op = "store" /\ p.need > MinSize

Written == Units(arg, out)

(* No piece is stored beyond the end of its window, however it was split   *)
(* between ensure() calls that are computed apart from what is stored,     *)
(* unless a call asked for more than the smallest window; and only a group *)
(* that is too large for that window makes one ask for it.                 *)
WindowSafe ==
  DigitsCounted /\ ExponentCounted /\ RoomAsked /\ GroupsSuffice =>
    /\ room < 0 => BeyondContract(Pieces(arg))
    /\ BeyondContract(todo) => LargeGroup

(* The text is the number, rounded to the nearest, in the notation that    *)
(* the format asks for, grouped, with its sign, and with the fill          *)
(* characters on the side of the alignment.                                *)
TextRight ==
  Printed /\ DigitsCounted /\ ~ZerosOfInteger /\ GroupsInBytes => TextIsRight

(* The constructor announces exactly the size that print_to writes.        *)
PreviewExact ==
  Printed /\ DigitsCounted /\ ExponentCounted /\ SignCounted /\ GroupsInBytes =>
    Written = PreviewSize(arg)

(* A narrower text is filled up to the width, a wider one is not filled.   *)
AlignedToWidth ==
  /\ Printed /\ DigitsCounted /\ ExponentCounted /\ GroupsInBytes
  /\ ~ZerosOfInteger /\ (arg.punct.sep # 0 \/ IsFast(arg))
  => Len(out) = Larger(arg.fmt.width, Len(Sign \o Content))

(* The decoders of numbers with few bits lose nothing, and remove every    *)
(* zero the printers could have counted as a digit.                        *)
DecodeExact == arg.x.bits # <<>> => SameNumber(arg.x.bits, arg.x.dec)

=============================================================================
