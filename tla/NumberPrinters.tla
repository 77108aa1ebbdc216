--------------------------- MODULE NumberPrinters ---------------------------
(***************************************************************************)
(* The printers of numbers (detail/input_types/int.hpp and float.hpp): the *)
(* type of the argument and its format decide which of their print_to      *)
(* functions runs.  All work on the same outbuf, and share the numpunct    *)
(* facets of module Numpunct.                                              *)
(***************************************************************************)
EXTENDS Sequences

CONSTANTS
  MinSize, Rooms, Windows, MaxBits, MaxDigits, (* of module IntPrinter     *)
  Groupings, SepSizes, Precisions, Widths, LibBitops,
  FloatMinSize, FloatRooms, FloatWindows,      (* of module FloatPrinter   *)
  Decimals, Bits, Formats, Puncts, MaxExponent, Replacement, Byte, Unsigned,
  Int16                                        (* of both                  *)

VARIABLES type, arg, room, out, todo, dig, groups, required

ofInt == <<dig, groups, required>>
vars == <<type, arg, room, out, todo, ofInt>>

PrintInt == INSTANCE IntPrinter
PrintFloat == INSTANCE FloatPrinter WITH
  MinSize <- FloatMinSize, Rooms <- FloatRooms, Windows <- FloatWindows

ASSUME NumberPrintersAssumption ==
  /\ PrintInt!IntPrinterAssumption
  /\ PrintFloat!FloatPrinterAssumption /\ PrintFloat!NumbersAssumption

Init ==
  \/ type = "int" /\ PrintInt!Init
  \/ type = "float" /\ PrintFloat!Init /\ dig = 0 /\ groups = <<>> /\ required = 0

Next ==
  \/ type = "int" /\ PrintInt!Next /\ UNCHANGED type
  \/ type = "float" /\ PrintFloat!Next /\ UNCHANGED <<type, ofInt>>

Spec == Init /\ [][Next]_vars

-----------------------------------------------------------------------------
(* No loop of the printers of integers stores beyond the end of its window,*)
(* wherever in the text recycle() was called and however small the window  *)
(* was at the start.                                                       *)
IntWindowSafe == type = "int" => PrintInt!WindowSafe

(* And no piece that a printer of floating point numbers stores, unless    *)
(* ensure() was asked for a group larger than the smallest window.         *)
FloatWindowSafe == type = "float" => PrintFloat!WindowSafe

(* The text is the number, in its format, grouped as the facet says, and   *)
(* filled up to the width when it is narrower, not at all when it is wider.*)
IntTextRight == type = "int" => PrintInt!TextRight /\ PrintInt!AlignedToWidth
FloatTextRight == type = "float" => PrintFloat!TextRight /\ PrintFloat!AlignedToWidth

(* The constructors announce exactly the size that print_to writes.        *)
IntPreviewExact == type = "int" => PrintInt!PreviewExact
FloatPreviewExact == type = "float" => PrintFloat!PreviewExact

(* trivial_float_dec loses no bit, and leaves no zero at the end.          *)
DecodeExact == type = "float" => PrintFloat!DecodeExact

=============================================================================
