-------------------------- MODULE MCNumberPrinters --------------------------
EXTENDS NumberPrinters, FloatDecoding

(* Groups of one size, several, and a last group that is not repeated.     *)
MCGroupings == {<<1>>, <<3>>, <<1, 2>>, <<2, 1>>, <<1, 1, 0>>, <<3, 0>>}

(* Numbers whose digits round down, up, to even and over a power of ten,   *)
(* with the point before, inside and behind them; some whose exponent has  *)
(* two or three digits; and some with so many zeros that a group which is  *)
(* not repeated is larger than the window, or than Byte.                   *)
MCDecimals ==
  [m: {1, 5, 25, 96, 125, 996}, e: {-5, -3, -2, -1, 0, 1, 2, 5}]
  \cup [m: {1, 125}, e: {-102, -101, -100, -99, -98, 97, 98, 99, 100}]
  \cup {[m |-> 0, e |-> 0], [m |-> 1, e |-> 21], [m |-> 125, e |-> 20], [m |-> 1255, e |-> 19]}

(* For every exponent of a float that trivial_float_dec accepts, numbers   *)
(* with bits at the end, at the beginning, and both.                       *)
MCBits ==
  UNION {LET k == FloatBits(e)
             low == IF 2^k - 1 < 15 THEN 2^k - 1 ELSE 15
         IN {[significand |-> 2^k + r, shift |-> k - e, double |-> FALSE] : r \in 0 .. low}
            \cup {[significand |-> 2^k + r * 2^(k - 4), shift |-> k - e, double |-> FALSE] :
                     r \in IF k < 4 THEN {} ELSE 0 .. 15}
         : e \in -10 .. 23}

FormatsOf(notations, precisions, points, signs, widths, aligns) ==
  [notation: notations, precision: precisions, showpoint: points, showpos: signs,
   width: widths, align: aligns]

MCFormats ==
  FormatsOf({"general", "fixed", "scientific"}, {-1, 0, 1, 2, 4}, BOOLEAN, {FALSE}, {0}, {"right"})
  \cup FormatsOf({"general"}, {-1}, {FALSE}, {TRUE}, {0}, {"right"})
  \cup FormatsOf({"general", "fixed"}, {2}, {FALSE}, {FALSE}, {9},
                 {"left", "right", "split", "center"})

(* Groups of one size and two, separators and points of one and two units, *)
(* those that cannot be encoded, no groups, and groups that are not        *)
(* repeated.                                                               *)
MCPuncts ==
  {[grouping |-> <<1>>, sep |-> 1, point |-> 1], [grouping |-> <<1, 2>>, sep |-> 2, point |-> 2],
   [grouping |-> <<3>>, sep |-> 1, point |-> 0], [grouping |-> <<2>>, sep |-> 0, point |-> 1],
   [grouping |-> <<0>>, sep |-> 1, point |-> 2], [grouping |-> <<3, 0>>, sep |-> 1, point |-> 1]}
=============================================================================
