--------------------------- MODULE FormatFunctions ---------------------------
(***************************************************************************)
(* The format functions (detail/format_functions.hpp and no_cv_format_fn   *)
(* of detail/input_types/string.hpp): each returns the argument with one   *)
(* part of its format replaced.                                            *)
(*                                                                         *)
(* A format function is a record: its name and its parameter, which is a   *)
(* number or a word.                                                       *)
(***************************************************************************)
EXTENDS Printers

FmtOp(name, number) == [name |-> name, number |-> number, word |-> ""]
FmtWord(name, word) == [name |-> name, number |-> 0, word |-> word]

Alignments == {"left", "right", "center", "split"}

(* make_fmt: a value, or a range, that can be formatted.                   *)
FmtValue(x) == IF x.input = "char" THEN CharFmt(x.ch) ELSE x

FmtRange(x) == [x EXCEPT !.like = FmtValue(Head(x.items))]

(* alignment_format_fn<false>: the first alignment starts from the default. *)
Activated(x) == IF x.aligned THEN x ELSE [x EXCEPT !.aligned = TRUE, !.afmt = DefaultAlignment]

(* A mutant: an alignment starts from the default each time.               *)
WithAlignmentReset(x, alignment, width) ==
  [x EXCEPT !.aligned = TRUE,
            !.afmt = [DefaultAlignment EXCEPT !.alignment = alignment, !.width = width]]

(* alignment_format_fn<true>: operators <, >, ^, % and fill().             *)
WithAlignment(x, alignment, width) ==
  [Activated(x) EXCEPT !.afmt.alignment = alignment, !.afmt.width = width]

WithFill(x, c) == [Activated(x) EXCEPT !.afmt.fill = c]

(* quantity_format_fn                                                      *)
WithCount(x, count) == [x EXCEPT !.count = count]

(* no_cv_format_fn: the format it returns has no conversion functions.     *)
WithConversion(x, via) == [x EXCEPT !.via = via]

(* split_pos_format_fn                                                     *)
WithSplitPos(x, pos) == [x EXCEPT !.split_pos = pos]

(* Which functions an argument has: what the compiler accepts.             *)
HasFunction(x, op) ==
  LET y == IF x.input = "range" THEN x.like ELSE x
  IN /\ x.input = "range" => x.op = Unformatted /\ x.items # <<>>
     /\ CASE op.name = "fmt"      -> x.input \in {"char", "range"} /\ y.input \in {"char", "none"}
          [] op.name = "multi"    -> y.input = "fmt_char"
          [] op.name = "via"      -> y.input = "string" /\ y.via = "none"
          [] op.name = "split_pos" -> y.input = "join"
          [] OTHER                -> y.input \in {"string", "fmt_char", "join"}

FormatOne(x, op) ==
  CASE op.name = "fmt"       -> FmtValue(x)
    [] op.name \in Alignments -> WithAlignment(x, op.name, op.number)
    [] op.name = "fill"      -> WithFill(x, op.word)
    [] op.name = "multi"     -> WithCount(x, op.number)
    [] op.name = "via"       -> WithConversion(x, op.word)
    [] op.name = "split_pos" -> WithSplitPos(x, op.number)

(* The functions of a formatted range are those of its values.             *)
Format(x, op) ==
  IF x.input # "range" THEN FormatOne(x, op)
  ELSE IF op.name = "fmt" THEN FmtRange(x)
  ELSE [x EXCEPT !.like = FormatOne(@, op)]

=============================================================================
