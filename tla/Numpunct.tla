------------------------------ MODULE Numpunct ------------------------------
(***************************************************************************)
(* The numeric punctuation facets (detail/facets/numpunct.hpp): how many   *)
(* separators a number of n digits gets, and how long its groups are.  Two *)
(* loops compute the one and the other; printers take their size from the  *)
(* first and their text from the second.                                   *)
(*                                                                         *)
(* A grouping is the string of a str_grouping: the size of the group of    *)
(* the least significant digits first, the last one repeated, and 0 for "no*)
(* more groups".  A monotonic_grouping is a string of one size.            *)
(***************************************************************************)
EXTENDS Naturals, Sequences, SequencesExt

(* get_groups: the sizes of the groups of n digits, the least significant  *)
(* first; group i of the grouping is the next.                             *)
GroupSizes(grouping, n) ==
  LET from[p \in (1 .. Len(grouping)) \X (0 .. n)] ==
        LET i == p[1]  k == p[2]  size == grouping[i] IN
        IF size = 0 \/ size >= k THEN <<k>>
        ELSE <<size>> \o from[<<IF i < Len(grouping) THEN i + 1 ELSE i, k - size>>]
  IN from[<<1, n>>]

(* A mutant of the next definition's last line: a separator in front of a  *)
(* full last group.                                                        *)
RepeatedRoundedUp(k, size) == k \div size

(* How many separators the repeated last group leaves among k digits.      *)
Repeated(k, size) == (k - 1) \div size

(* get_thousands_sep_count.                                                *)
ThousandsSepCount(grouping, n) ==
  LET from[p \in (1 .. Len(grouping) + 1) \X (0 .. n)] ==
        LET i == p[1]  k == p[2]  size == grouping[i] IN
        IF i > Len(grouping) THEN Repeated(k, Last(grouping))
        ELSE IF size = 0 \/ size >= k THEN 0
        ELSE 1 + from[<<i + 1, k - size>>]
  IN from[<<1, n>>]

(* no_group_separation: all n digits are in the first group.  (A first     *)
(* group of 0 is stored as the largest unsigned.)                          *)
NoGroupSeparation(grouping, n) == grouping[1] = 0 \/ n <= grouping[1]

-----------------------------------------------------------------------------
(* What a grouping means, said without the loops: digit j, counted from    *)
(* the least significant one, is the last of a group when some number m of *)
(* groups, none of them 0, have j digits together.                         *)
GroupEnds(grouping, n) ==
  LET nth(i) == IF i <= Len(grouping) THEN grouping[i] ELSE Last(grouping)
      together[m \in 0 .. n] == IF m = 0 THEN 0 ELSE nth(m) + together[m - 1]
  IN {j \in 1 .. n - 1 :
        \E m \in 1 .. n : (\A i \in 1 .. m : nth(i) # 0) /\ together[m] = j}
=============================================================================
