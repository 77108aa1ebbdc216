----------------------------- MODULE IntPrinter -----------------------------
(***************************************************************************)
(* How an integer is printed (detail/input_types/int.hpp and               *)
(* detail/int_digits.hpp): what the printer's constructor announces to the *)
(* preview, and the loops of print_to, which put a prefix, zeros, fill     *)
(* characters, digits and separators into the window of an outbuf.         *)
(*                                                                         *)
(* A number is its digits, numbered from the most significant one.  The    *)
(* window is the number of units that fit before end; recycle(), whatever  *)
(* outbuf it belongs to, leaves at least MinSize.                          *)
(***************************************************************************)
EXTENDS Integers, Sequences, FiniteSets, SequencesExt, Numpunct

CONSTANTS
  MinSize,     (* min_size_after_recycle(): 64 in the code                 *)
  MaxBits,     (* the digits of the largest number in base 2: 64           *)
  MaxDigits,   (* and in the other bases: 22 in base 8                     *)
  Rooms,       (* the windows printing may start with                      *)
  Windows,     (* the windows recycle() may leave                          *)
  Groupings,   (* the groupings of the numpunct facet                      *)
  SepSizes,    (* the units of the thousands separator; 0: not encodable   *)
  Precisions, Widths,  (* of the format                                    *)
  Int16,       (* 2^15: the first number that an std::int16_t has not      *)
  LibBitops    (* the digits are counted with std::countl_zero             *)

IntPrinterAssumption ==
  /\ {MinSize, MaxBits, MaxDigits} \subseteq Nat /\ Int16 \in Nat \ {0}
  /\ 2 <= MinSize /\ MaxBits <= MinSize   \* "0b", and a group of bits
  /\ MaxDigits < MinSize /\ 2 * MaxDigits - 1 <= MinSize
  /\ Rooms \subseteq Nat /\ Windows \subseteq {w \in Nat : w >= MinSize}
  /\ SepSizes \subseteq {s \in Nat : s < MinSize}
  /\ Groupings \subseteq Seq(Nat) \ {<<>>}
  /\ Precisions \subseteq Nat /\ Widths \subseteq Nat
  /\ LibBitops \in BOOLEAN

VARIABLES
  arg,       (* the number, the format and the facets: fixed               *)
  room,      (* end - pos                                                  *)
  out,       (* what has been written                                      *)
  todo,      (* the calls print_to still has to make                       *)
  dig,       (* the next digit of the loop that is running                 *)
  groups,    (* the sizes of its groups, the current one first             *)
  required   (* the argument of the last ensure()                          *)

vars == <<arg, room, out, todo, dig, groups, required>>

(* What can be written, besides the digits 1, 2, ...                       *)
Zero == 0
Separator == -1
Prefix == -2
FillChar == -3

Times(n, x) == [i \in 1 .. n |-> x]
Larger(a, b) == IF a > b THEN a ELSE b

-----------------------------------------------------------------------------
(* The arguments: int_printer, punct_int_printer, and the printers of      *)
(* formatted integers, full_fmt_int_printer around partial_fmt_int_printer.*)
Plain ==
  [printer: {"int"}, base: {"dec"}, digits: 1 .. MaxDigits, zero: {FALSE},
   prefix: 0 .. 1, precision: {0}, width: {0}, align: {"right"},
   grouping: {<<0>>}, sep: {1}]
Punct ==
  [printer: {"punct"}, base: {"dec"}, digits: 1 .. MaxDigits, zero: {FALSE},
   prefix: 0 .. 1, precision: {0}, width: {0}, align: {"right"},
   grouping: Groupings, sep: SepSizes]
Formatted ==
  {a \in [printer: {"format"}, base: {"bin", "dec", "oct", "hex"},
          digits: 1 .. MaxBits, zero: BOOLEAN,
          prefix: 0 .. 2, precision: Precisions, width: Widths,
          align: {"left", "split", "center", "right"},
          grouping: Groupings \cup {<<0>>}, sep: SepSizes] :
     /\ a.base # "bin" => a.digits <= MaxDigits
     /\ a.zero => a.digits = 1
     /\ a.prefix \in (IF a.base \in {"dec", "oct"} THEN 0 .. 1 ELSE {0, 2})}

(* count_digits.  There are two of them: countl_zero finds no digit in 0.  *)
DigCount(a) ==
  IF LibBitops /\ a.zero /\ a.base # "dec" THEN 0 ELSE a.digits

SepCount(a) ==
  IF a.printer = "punct" /\ NoGroupSeparation(a.grouping, DigCount(a)) THEN 0
  ELSE ThousandsSepCount(a.grouping, DigCount(a))

(* static_cast<std::int16_t>.                                              *)
ToInt16(n) == ((n + Int16) % (2 * Int16)) - Int16

ContentWidth(a) ==
  ToInt16(Larger(a.precision, DigCount(a)) + a.prefix + SepCount(a))

(* Only formatted integers are filled.                                     *)
FillCount(a) ==
  IF a.printer = "format" /\ a.width > ContentWidth(a)
  THEN a.width - ContentWidth(a) ELSE 0

(* The size announced to the preview.  (The fill character has one unit.)  *)
PreviewSize(a) ==
  Larger(a.precision, DigCount(a)) + a.prefix + SepCount(a) * a.sep + FillCount(a)

(* print_to of partial_fmt_int_printer, and its write_digits.              *)
Content(a) ==
  IF SepCount(a) = 0 THEN <<"prefixed", "zeros", "digits">>
                     ELSE <<"complement", "zeros", "grouped">>
WriteDigits(a) == <<"zeros", IF SepCount(a) = 0 THEN "digits" ELSE "grouped">>

(* The calls print_to makes.                                               *)
Calls(a) ==
  CASE a.printer = "int" \/ (a.printer = "punct" /\ SepCount(a) = 0) -> <<"direct">>
    [] a.printer = "punct" /\ SepCount(a) # 0 -> <<"complement", "grouped">>
    [] a.printer = "format" /\ FillCount(a) = 0 -> Content(a)
    [] a.printer = "format" /\ FillCount(a) # 0 ->
         CASE a.align = "left" -> Content(a) \o <<"fill">>
           [] a.align = "split" -> <<"complement", "fill">> \o WriteDigits(a)
           [] a.align = "center" -> <<"fill_half">> \o Content(a) \o <<"fill_rest">>
           [] a.align = "right" -> <<"fill">> \o Content(a)

Init ==
  /\ arg \in Plain \cup Punct \cup Formatted
  /\ arg.width = 0 => arg.align = "right"   \* the alignment is not looked at
  /\ room \in Rooms
  /\ out = <<>>
  /\ todo = Calls(arg)
  /\ dig = 1 /\ groups = <<>> /\ required = 0

-----------------------------------------------------------------------------
(* ensure(n): recycle() when n units do not fit; the rooms it may leave.   *)
Ensured(n) == IF room >= n THEN {room} ELSE Windows

Put(r, symbols, units) == out' = out \o symbols /\ room' = r - units

Return == todo' = Tail(todo)
Call(name) == todo # <<>> /\ Head(todo) = name
Enter(loop) == todo' = <<loop>> \o Tail(todo)

(* write_fill and encode_fill: their loops are those of module Outbuf, and *)
(* leave any room.                                                         *)
PutFill(n, x) ==
  /\ out' = out \o Times(n, x)
  /\ IF n <= room THEN room' = room - n ELSE room' \in 0 .. MinSize
  /\ Return
  /\ UNCHANGED <<arg, dig, groups, required>>

(* A mutant of the next definition: both halves are rounded down.          *)
FillTwoHalves ==
  \/ Call("fill") /\ PutFill(FillCount(arg), FillChar)
  \/ Call("fill_half") /\ PutFill(FillCount(arg) \div 2, FillChar)
  \/ Call("fill_rest") /\ PutFill(FillCount(arg) \div 2, FillChar)

(* _write_fill: all of the fill characters, or the half on either side.    *)
Fill ==
  \/ Call("fill") /\ PutFill(FillCount(arg), FillChar)
  \/ Call("fill_half") /\ PutFill(FillCount(arg) \div 2, FillChar)
  \/ Call("fill_rest") /\ PutFill(FillCount(arg) - FillCount(arg) \div 2, FillChar)

Zeros ==
  /\ Call("zeros")
  /\ PutFill(IF arg.precision > DigCount(arg) THEN arg.precision - DigCount(arg) ELSE 0,
             Zero)

(* partial_fmt_int_printer::print_to asks for the prefix and the digits    *)
(* together, and then puts only the prefix.                                *)
Prefixed ==
  /\ Call("prefixed")
  /\ required' = arg.prefix + DigCount(arg)
  /\ \E r \in Ensured(arg.prefix + DigCount(arg)) : Put(r, Times(arg.prefix, Prefix), arg.prefix)
  /\ Return
  /\ UNCHANGED <<arg, dig, groups>>

(* write_complement, and the '-' of punct_int_printer.                     *)
Complement ==
  /\ Call("complement")
  /\ IF arg.prefix = 0 THEN UNCHANGED <<room, out, required>>
     ELSE /\ required' = arg.prefix
          /\ \E r \in Ensured(arg.prefix) : Put(r, Times(arg.prefix, Prefix), arg.prefix)
  /\ Return
  /\ UNCHANGED <<arg, dig, groups>>

Digits(first, n) == [i \in 1 .. n |-> first + i - 1]

(* The sign and all digits at once: int_printer, and punct_int_printer     *)
(* without separators.                                                     *)
Direct ==
  /\ Call("direct")
  /\ required' = arg.prefix + arg.digits
  /\ \E r \in Ensured(arg.prefix + arg.digits) :
       Put(r, Times(arg.prefix, Prefix) \o Digits(1, arg.digits), arg.prefix + arg.digits)
  /\ Return
  /\ UNCHANGED <<arg, dig, groups>>

(* write_txtdigits_backwards, from digcount units after pos on: when it    *)
(* has more digits to write than were counted, it writes over what precedes*)
(* pos.                                                                    *)
Backwards ==
  /\ required' = DigCount(arg)
  /\ \E r \in Ensured(DigCount(arg)) :
       /\ out' = SubSeq(out, 1, Len(out) - (arg.digits - DigCount(arg))) \o Digits(1, arg.digits)
       /\ room' = r - DigCount(arg)

(* intdigits_writer<2>::write of a number of one digit.                    *)
PutBit ==
  /\ \E r \in Ensured(1) : Put(r, Digits(1, 1), 1)
  /\ UNCHANGED required

Ungrouped(name) ==
  /\ Call(name)
  /\ dig' = 1
  /\ \/ arg.base # "bin" /\ Backwards /\ Return
     \/ arg.base = "bin" /\ arg.digits = 1 /\ PutBit /\ Return
     \/ arg.base = "bin" /\ arg.digits > 1 /\ Enter("bits") /\ UNCHANGED <<room, out, required>>
  /\ UNCHANGED <<arg, groups>>

(* write_int without punctuation.                                          *)
WriteDigitsOnly == Ungrouped("digits")

(* The loop of intdigits_writer<2>::write, digit by digit.                 *)
Bit ==
  /\ Call("bits")
  /\ \E r \in Ensured(1) : Put(r, <<dig>>, 1)
  /\ dig' = dig + 1
  /\ IF dig = arg.digits THEN Return ELSE UNCHANGED todo
  /\ UNCHANGED <<arg, groups, required>>

-----------------------------------------------------------------------------
(* write_int with punctuation.  The sizes of the groups, the least         *)
(* significant one first, as numpunct_base::groups stores them.            *)
Sizes == GroupSizes(arg.grouping, DigCount(arg))

(* write_txtdigits_backwards_little_sep in base 10 takes two digits at a   *)
(* time.  k digits are left; n more fit into group g.  (A group that does  *)
(* not exist is never asked for: the last one holds the digits left.)      *)
PairsBackwards(sizes, digits) ==
  LET text[p \in (1 .. digits) \X (0 .. digits) \X (1 .. Len(sizes))] ==
        LET k == p[1]  n == p[2]  g == p[3] IN
        CASE k = 1 -> <<1>>
          [] k = 2 -> IF n = 1 THEN <<1, Separator, 2>> ELSE <<1, 2>>
          [] k > 2 /\ n > 2 -> text[<<k - 2, n - 2, g>>] \o <<k - 1, k>>
          [] k > 2 /\ n = 2 /\ g < Len(sizes) -> text[<<k - 2, sizes[g + 1], g + 1>>]
                                                  \o <<Separator, k - 1, k>>
          [] k > 2 /\ n = 1 /\ g < Len(sizes) /\ sizes[g + 1] > 1 ->
               text[<<k - 2, sizes[g + 1] - 1, g + 1>>] \o <<k - 1, Separator, k>>
          [] k > 2 /\ n = 1 /\ g + 1 < Len(sizes) /\ sizes[g + 1] = 1 ->
               text[<<k - 2, sizes[g + 2], g + 2>>] \o <<Separator, k - 1, Separator, k>>
          [] OTHER -> <<>>
  IN text[<<digits, sizes[1], 1>>]

(* In the other bases it takes one.                                        *)
OnesBackwards(sizes, digits) ==
  LET text[p \in (1 .. digits) \X (0 .. digits) \X (1 .. Len(sizes))] ==
        LET k == p[1]  n == p[2]  g == p[3] IN
        CASE k = 1 -> <<1>>
          [] k > 1 /\ n > 1 -> text[<<k - 1, n - 1, g>>] \o <<k>>
          [] k > 1 /\ n = 1 /\ g < Len(sizes) ->
               text[<<k - 1, sizes[g + 1], g + 1>>] \o <<Separator, k>>
          [] OTHER -> <<>>
  IN text[<<digits, sizes[1], 1>>]

(* A separator of one unit: the whole text has its place at once.          *)
LittleSep ==
  /\ required' = arg.digits + Len(Sizes) - 1
  /\ \E r \in Ensured(required') :
       Put(r, IF arg.base = "dec" THEN PairsBackwards(Sizes, arg.digits)
                                  ELSE OnesBackwards(Sizes, arg.digits),
           required')

(* A mutant: the loops start with the least significant group.             *)
EnterLoopUp(loop) ==
  /\ Enter(loop)
  /\ dig' = 1 /\ groups' = Sizes
  /\ UNCHANGED out

(* What write() of both intdigits_writers does with the separator: leave   *)
(* it out when it cannot be encoded, and choose the loop by its size.  The *)
(* loops go through the groups from the most significant one on.           *)
EnterLoop(loop) ==
  /\ Enter(loop)
  /\ dig' = 1 /\ groups' = Reverse(Sizes)
  /\ UNCHANGED out

WriteGrouped ==
  \/ arg.sep = 0 /\ Ungrouped("grouped")
  \/ /\ Call("grouped") /\ arg.sep # 0
     /\ \/ arg.base # "bin" /\ arg.sep = 1 /\ LittleSep /\ Return /\ UNCHANGED <<dig, groups>>
        \/ /\ arg.base # "bin" /\ arg.sep # 1
           /\ EnterLoop("big_sep")
           /\ required' = 1 /\ room' \in Ensured(1)
        \/ /\ arg.base = "bin" /\ arg.sep = 1
           /\ EnterLoop("bits_little_sep")
           /\ required' = Last(Sizes) /\ room' \in Ensured(Last(Sizes))
        \/ /\ arg.base = "bin" /\ arg.sep # 1
           /\ EnterLoop("bits_big_sep")
           /\ UNCHANGED <<room, required>>
     /\ UNCHANGED arg

(* write_digits_big_sep: one digit, and what follows it.  groups[1] counts *)
(* down.                                                                   *)
BigSepDigit ==
  /\ Call("big_sep")
  /\ Put(room, <<dig>>, 1)
  /\ dig' = dig + 1
  /\ groups' = [groups EXCEPT ![1] = @ - 1]
  /\ IF dig = arg.digits THEN Return ELSE Enter("big_sep_room")
  /\ UNCHANGED <<arg, required>>

(* A mutant of the next definition, with one comparison off by one.        *)
NeedsRecycleLate == room = 0 \/ (groups[1] = 0 /\ room < arg.sep)
NeedsRecycle == room = 0 \/ (groups[1] = 0 /\ room <= arg.sep)

BigSepRoom ==
  /\ Call("big_sep_room")
  /\ \E r \in (IF NeedsRecycle THEN Windows ELSE {room}) :
       IF groups[1] = 0 THEN Put(r, <<Separator>>, arg.sep) /\ groups' = Tail(groups)
                        ELSE Put(r, <<>>, 0) /\ UNCHANGED groups
  /\ Enter("big_sep")
  /\ UNCHANGED <<arg, dig, required>>

(* The loops of intdigits_writer<2> write a group at a time.  write_big_sep*)
(* makes sure that there is room for it first; write_little_sep has made   *)
(* sure before the separator.                                              *)
BitGroup ==
  /\ \/ Call("bits_little_sep") /\ Put(room, Digits(dig, Head(groups)), Head(groups))
     \/ /\ Call("bits_big_sep")
        /\ \E r \in Ensured(Head(groups)) : Put(r, Digits(dig, Head(groups)), Head(groups))
  /\ dig' = dig + Head(groups)
  /\ groups' = Tail(groups)
  /\ IF groups' = <<>> THEN Return
     ELSE Enter(IF Call("bits_little_sep") THEN "little_sep" ELSE "big_bit_sep")
  /\ UNCHANGED <<arg, required>>

BitSep ==
  /\ \/ /\ Call("little_sep")
        /\ \E r \in Ensured(Head(groups) + 1) : Put(r, <<Separator>>, 1)
        /\ Enter("bits_little_sep")
     \/ /\ Call("big_bit_sep")
        /\ \E r \in Ensured(Head(groups) + arg.sep) : Put(r, <<Separator>>, arg.sep)
        /\ Enter("bits_big_sep")
  /\ UNCHANGED <<arg, dig, groups, required>>

Next ==
  \/ Fill \/ Zeros \/ Prefixed \/ Complement
  \/ Direct \/ WriteDigitsOnly \/ Bit
  \/ WriteGrouped \/ BigSepDigit \/ BigSepRoom \/ BitGroup \/ BitSep
  \/ todo = <<>> /\ UNCHANGED vars

Spec == Init /\ [][Next]_vars

-----------------------------------------------------------------------------
Printed == todo = <<>>

(* The units of the text: one for every character, but arg.sep for every   *)
(* separator.                                                              *)
Separators(text) == Cardinality({i \in 1 .. Len(text) : text[i] = Separator})
Written == Len(out) + Separators(out) * (arg.sep - 1)

(* The digits with their separators, from the meaning of the grouping.     *)
Ends(a) == IF a.sep = 0 THEN {} ELSE GroupEnds(a.grouping, a.digits)
Grouped(a) ==
  LET first[k \in 0 .. a.digits] ==
        IF k = 0 THEN <<>>
        ELSE first[k - 1] \o (IF a.digits - k + 1 \in Ends(a) THEN <<Separator, k>> ELSE <<k>>)
  IN first[a.digits]

Number(a) ==
  Times(IF a.precision > a.digits THEN a.precision - a.digits ELSE 0, Zero) \o Grouped(a)

Filled(n) == Times(n, FillChar)
Sign(a) == Times(a.prefix, Prefix)

(* No loop stores beyond the end of its window, wherever in the text       *)
(* recycle() was called and however small the window was at the start.     *)
WindowSafe == room >= 0

(* The text is the number, grouped as the facet says, with the prefix in   *)
(* front, and the fill characters on the side the alignment asks for.      *)
TextRight ==
  Printed =>
    \E n \in 0 .. Len(out) :
      out = CASE arg.align = "left" -> Sign(arg) \o Number(arg) \o Filled(n)
              [] arg.align = "right" -> Filled(n) \o Sign(arg) \o Number(arg)
              [] arg.align = "split" -> Sign(arg) \o Filled(n) \o Number(arg)
              [] arg.align = "center" ->
                   Filled(n \div 2) \o Sign(arg) \o Number(arg) \o Filled(n - n \div 2)

(* The constructor announces exactly the size that print_to writes.        *)
PreviewExact == Printed => Written = PreviewSize(arg)

(* A narrower text is filled up to the width, a wider one is not filled.   *)
(* (The width of the content is computed in 16 bits, and counts separators *)
(* that print_to leaves out because they cannot be encoded.)               *)
AlignedToWidth ==
  Printed /\ arg.sep # 0 /\ Len(Sign(arg) \o Number(arg)) < Int16 =>
    Len(out) = Larger(arg.width, Len(Sign(arg) \o Number(arg)))

(* STRF_ASSERT(s <= min_size_after_recycle<char_type>()) in require().     *)
RequireInContract == required <= MinSize

(* test/input_int.cpp: `~strf::hex(0x0) > 8` prints "     0x0".            *)
ZeroIsPrinted ==
  Printed /\ arg.zero /\ arg.precision = 0 /\ arg.align = "right" =>
    out = Filled(Len(out) - arg.prefix - 1) \o Sign(arg) \o <<1>>

(* AlignedToWidth without the condition on the separator: the test         *)
(* test/input_int.cpp says that separators which cannot be encoded are     *)
(* omitted, and every test with a width expects that many characters.      *)
AlignedWithoutSeparators ==
  Printed /\ Len(Sign(arg) \o Number(arg)) < Int16 =>
    Len(out) = Larger(arg.width, Len(Sign(arg) \o Number(arg)))
=============================================================================
