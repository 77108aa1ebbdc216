------------------------------- MODULE Widths -------------------------------
(***************************************************************************)
(* Widths (width_t.hpp), the width calculators                             *)
(* (detail/facets/width_calculator.hpp) and the preview that printers      *)
(* report their size and their width to (printer.hpp).                     *)
(*                                                                         *)
(* A text is a sequence of characters.  A width is a number of parts of a  *)
(* column, One of them to the column; the saturation at 2^15 columns is    *)
(* left out.                                                               *)
(***************************************************************************)
EXTENDS Integers, SequencesExt

CONSTANTS
  One,        (* the parts of a column: 2^16 in the code                   *)
  UnitsOf,    (* the units each character takes                            *)
  WidthOf     (* the width a calculator of the user gives each of them     *)

ASSUME WidthsAssumption ==
  /\ One \in Nat /\ One > 1 /\ One % 2 = 0
  /\ UnitsOf \in [DOMAIN WidthOf -> Nat \ {0}]

SumOver(F(_), s) ==
  LET sum[i \in 0 .. Len(s)] == IF i = 0 THEN 0 ELSE sum[i - 1] + F(s[i])
  IN sum[Len(s)]

SizeOf(text) == SumOver(LAMBDA c : UnitsOf[c], text)

Floor(w) == w \div One
Ceil(w) == (w + One - 1) \div One

(* To the nearest; halves to the even number.                              *)
Round(w) ==
  LET i == Floor(w)
      f == 2 * (w % One)
  IN IF f > One \/ (i % 2 = 1 /\ f = One) THEN i + 1 ELSE i

-----------------------------------------------------------------------------
(* A count that stops at max, a std::size_t: a negative one is no limit.   *)
UpTo(max, n) == IF max >= 0 /\ n > max THEN max ELSE n

FastWidth(limit, text) == One * SizeOf(text)

WidthAsU32len(limit, text) == IF limit > 0 THEN One * UpTo(Ceil(limit), Len(text)) ELSE 0

(* A calculator of the user: it may stop when it has passed the limit.     *)
UserWidth(limit, text) ==
  LET width[i \in 0 .. Len(text)] ==
        IF i = 0 THEN 0
        ELSE IF width[i - 1] > limit THEN width[i - 1]
        ELSE width[i - 1] + WidthOf[text[i]]
  IN width[Len(text)]

Calculators == {"fast", "u32len", "user"}

CalcWidth(calc, limit, text) ==
  CASE calc = "fast"   -> FastWidth(limit, text)
    [] calc = "u32len" -> WidthAsU32len(limit, text)
    [] calc = "user"   -> UserWidth(limit, text)

CharWidth(calc, c) == IF calc = "user" THEN WidthOf[c] ELSE One

-----------------------------------------------------------------------------
(* print_preview: what is not required is not kept.                        *)
Preview(size_required, width_required, width) ==
  [size_required |-> size_required, width_required |-> width_required,
   size |-> 0, width |-> width]

NoPreview == Preview(FALSE, FALSE, 0)

AddSize(p, n) == IF p.size_required THEN [p EXCEPT !.size = @ + n] ELSE p

WithRemaining(p, w) == IF p.width_required THEN [p EXCEPT !.width = w] ELSE p

SubtractWidth(p, w) == WithRemaining(p, p.width - w)

ClearRemainingWidth(p) == WithRemaining(p, 0)

CheckedSubtractWidth(p, w) ==
  IF w < p.width THEN SubtractWidth(p, w) ELSE ClearRemainingWidth(p)

(* The overload for a number of columns.                                   *)
CheckedSubtractColumns(p, n) ==
  IF n < Ceil(p.width) THEN SubtractWidth(p, One * n) ELSE ClearRemainingWidth(p)

=============================================================================
