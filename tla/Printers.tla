------------------------------ MODULE Printers ------------------------------
(***************************************************************************)
(* The printers of characters, strings, converted strings, ranges, joins   *)
(* and packs (detail/input_types/*.hpp): what make_printer decides when    *)
(* the printer is made, what it tells the preview, and what print_to       *)
(* prints.                                                                 *)
(*                                                                         *)
(* An argument is a record: its input type, its value and its format.      *)
(* Making a printer gives the printer and the preview as it leaves it.     *)
(* What a conversion of charset does to a text is the subject of           *)
(* Transcoding: here the text is the one that comes out, and its units are *)
(* those of the destination.                                               *)
(***************************************************************************)
EXTENDS Facets, Widths

CONSTANTS
  Blank   (* the fill character when none is given                         *)

DefaultAlignment == [fill |-> Blank, width |-> 0, alignment |-> "right"]

-----------------------------------------------------------------------------
(* The inputs.                                                             *)

(* via: how the charset is converted: not at all, by cv() or sani() with   *)
(* the encodings of the facets, or by cv(enc) from another encoding;       *)
(* "cv16" when the characters are of another type than the destination's.  *)
StringArg(text) ==
  [input |-> "string", text |-> text, via |-> "none", aligned |-> FALSE, afmt |-> DefaultAlignment]

CharArg(c) == [input |-> "char", ch |-> c]

CharFmt(c) == [input |-> "fmt_char", ch |-> c, count |-> 1, aligned |-> TRUE, afmt |-> DefaultAlignment]

Unformatted == [input |-> "none"]

(* like: the format of the values of fmt_range; op: the UnaryOp of a       *)
(* transformed range, a format too.                                        *)
RangeArg(items) ==
  [input |-> "range", items |-> items, separated |-> FALSE, sep |-> <<>>,
   like |-> Unformatted, op |-> Unformatted]

SeparatedRange(items, sep) == [RangeArg(items) EXCEPT !.separated = TRUE, !.sep = sep]

Transformed(range, op) == [range EXCEPT !.op = op]

JoinArg(args) ==
  [input |-> "join", args |-> args, split_pos |-> 0, aligned |-> FALSE, afmt |-> DefaultAlignment]

(* aligned_join_t: join_left, join_right, join_center and join_split.      *)
AlignedJoin(args, afmt, split_pos) ==
  [JoinArg(args) EXCEPT !.split_pos = split_pos, !.aligned = TRUE, !.afmt = afmt]

(* strf::with(fpes...)(args...)                                            *)
InnerPack(fpes, args) == [input |-> "pack", fp |-> Pack(fpes), args |-> args]

-----------------------------------------------------------------------------
(* What is printed.                                                        *)

Made(pr, p) == [printer |-> pr, preview |-> p]

Fill(n, c) == [i \in 1 .. n |-> c]

(* The string with its fill characters; split is taken for right.          *)
Filled(body, n, afmt) ==
  LET half == n \div 2
  IN CASE afmt.alignment = "left"   -> body \o Fill(n, afmt.fill)
       [] afmt.alignment = "center" -> Fill(half, afmt.fill) \o body \o Fill(n - half, afmt.fill)
       [] OTHER                     -> Fill(n, afmt.fill) \o body

TextPrinter(text) == [prints |-> "text", text |-> text]

FilledPrinter(text, n, afmt) == TextPrinter(Filled(text, n, afmt))

FillSize(n, afmt) == n * UnitsOf[afmt.fill]

-----------------------------------------------------------------------------
(* string_printer::_calc_width, for the three calculators.                 *)
StringFast(p, text) ==
  IF SizeOf(text) <= Floor(p.width) THEN SubtractWidth(p, One * SizeOf(text))
  ELSE ClearRemainingWidth(p)

CountCodepoints(p, text) ==
  LET count == UpTo(Ceil(p.width), Len(text))
  IN IF p.width <= 0 THEN p
     ELSE IF count < Ceil(p.width) THEN SubtractWidth(p, One * count)
     ELSE ClearRemainingWidth(p)

StringUser(p, text) ==
  LET w == UserWidth(p.width, text)
  IN IF p.width <= 0 THEN p
     ELSE IF w < p.width THEN SubtractWidth(p, w)
     ELSE ClearRemainingWidth(p)

StringPrinter(calc, p, text) ==
  Made(TextPrinter(text),
       AddSize(CASE calc = "fast"   -> StringFast(p, text)
                 [] calc = "u32len" -> CountCodepoints(p, text)
                 [] calc = "user"   -> StringUser(p, text), SizeOf(text)))

(* cv_string_printer: units of another encoding are no width, not even for *)
(* fast_width.                                                             *)
CvStringPrinter(calc, p, text) ==
  Made(TextPrinter(text),
       AddSize(IF calc = "user" THEN StringUser(p, text) ELSE CountCodepoints(p, text),
               SizeOf(text)))

(* fmt_string_printer::_init: the fill count and the preview.              *)
Decided(fill, p) == [fill |-> fill, preview |-> p]

FmtFast(p, text, afmt) ==
  LET len == SizeOf(text)
  IN IF afmt.width > len
     THEN Decided(afmt.width - len, SubtractWidth(p, One * afmt.width))
     ELSE Decided(0, CheckedSubtractColumns(p, len))

FmtCodepoints(p, text, afmt, limit) ==
  LET count == UpTo(limit, Len(text))
  IN IF afmt.width > count
     THEN Decided(afmt.width - count, SubtractWidth(p, One * afmt.width))
     ELSE Decided(0, CheckedSubtractColumns(p, count))

FmtUser(p, text, afmt) ==
  LET fmt_width == One * afmt.width
      str_width == UserWidth(Max({fmt_width, p.width}), text)
      wfill     == fmt_width - str_width
  IN IF fmt_width > str_width
     THEN Decided(Round(wfill), SubtractWidth(p, wfill + One * Round(wfill)))
     ELSE Decided(0, SubtractWidth(p, str_width))

FmtPrinter(d, text, afmt) ==
  Made(FilledPrinter(text, d.fill, afmt),
       AddSize(d.preview, SizeOf(text) + FillSize(d.fill, afmt)))

FmtStringPrinter(calc, p, text, afmt) ==
  FmtPrinter(CASE calc = "fast"   -> FmtFast(p, text, afmt)
               [] calc = "u32len" -> FmtCodepoints(p, text, afmt, afmt.width)
               [] calc = "user"   -> FmtUser(p, text, afmt), text, afmt)

FmtCvStringPrinter(calc, p, text, afmt) ==
  FmtPrinter(IF calc = "user" THEN FmtUser(p, text, afmt)
             ELSE FmtCodepoints(p, text, afmt, Max({afmt.width, Ceil(p.width)})), text, afmt)

(* The make_printer of strings: which of the four printers it is.          *)
MakeString(fp, p, arg) ==
  LET calc == IF arg.via = "cv16" THEN GetFacet(fp, "width16", "string16")
              ELSE GetFacet(fp, "width", "string")
  IN IF arg.via \in {"none", "cv"}
     THEN IF arg.aligned THEN FmtStringPrinter(calc, p, arg.text, arg.afmt)
          ELSE StringPrinter(calc, p, arg.text)
     ELSE IF arg.aligned THEN FmtCvStringPrinter(calc, p, arg.text, arg.afmt)
          ELSE CvStringPrinter(calc, p, arg.text)

-----------------------------------------------------------------------------
CharPrinter(calc, p, c) ==
  Made(TextPrinter(<<c>>), AddSize(SubtractWidth(p, CharWidth(calc, c)), 1))

(* fmt_char_printer; for a calculator of the user it does not compile.     *)
FmtCharPrinter(p, arg) ==
  LET width == arg.afmt.width
      fill  == IF width > arg.count THEN width - arg.count ELSE 0
      after == IF width > arg.count THEN SubtractWidth(p, One * width)
               ELSE CheckedSubtractColumns(p, arg.count)
  IN Made(FilledPrinter(Fill(arg.count, arg.ch), fill, arg.afmt),
          AddSize(after, arg.count * UnitsOf[arg.ch] + FillSize(fill, arg.afmt)))

-----------------------------------------------------------------------------
(* The values of a range become arguments one by one, each time they are   *)
(* needed: in the preview, and again in print_to.                          *)
FormattedLike(value, like) ==
  IF like.input = "string" THEN [like EXCEPT !.text = value.text]
  ELSE [like EXCEPT !.ch = value.ch]

Element(range, i) ==
  IF range.like # Unformatted THEN FormattedLike(range.items[i], range.like)
  ELSE IF range.op # Unformatted THEN FormattedLike(range.items[i], range.op)
  ELSE range.items[i]

RECURSIVE Make(_, _, _), MakeAll(_, _, _), PrintTo(_), PrintAll(_), PrintSplit(_, _, _, _)

(* One printer after another, each telling the same preview.               *)
MakeAll(fp, p, args) ==
  IF args = <<>> THEN Made(<<>>, p)
  ELSE LET first == Make(fp, p, Head(args))
           others == MakeAll(fp, first.preview, Tail(args))
       IN Made(<<first.printer>> \o others.printer, others.preview)

(* range_printer, fmt_range_printer and transformed_range_printer          *)
RangePrinter(fp, p, arg) ==
  Made([prints |-> "range", fp |-> fp, range |-> arg],
       MakeAll(fp, p, [i \in DOMAIN arg.items |-> Element(arg, i)]).preview)

(* The loop over the values, which ends early when only the width is       *)
(* wanted and none is left.                                                *)
SeparatedItems(fp, p, arg) ==
  LET state[i \in 0 .. Len(arg.items)] ==
        IF i = 0 THEN [preview |-> p, count |-> 0, ended |-> FALSE]
        ELSE IF state[i - 1].ended THEN state[i - 1]
        ELSE LET next == Make(fp, state[i - 1].preview, Element(arg, i)).preview
             IN [preview |-> next, count |-> i,
                 ended |-> ~next.size_required /\ next.width <= 0]
  IN state[Len(arg.items)]

(* A mutant: a separator after the last value too.                         *)
SeparatorsAll(fp, p, sep, count) ==
  LET dw == CalcWidth(GetFacet(fp, "width", "separator"), p.width, sep)
  IN AddSize(IF dw = 0 THEN p ELSE CheckedSubtractWidth(p, dw * count), count * SizeOf(sep))

Separators(fp, p, sep, count) ==
  LET dw == CalcWidth(GetFacet(fp, "width", "separator"), p.width, sep)
  IN AddSize(IF dw = 0 THEN p ELSE CheckedSubtractWidth(p, dw * (count - 1)),
             (count - 1) * SizeOf(sep))

(* separated_range_printer, fmt_separated_range_printer and                *)
(* sep_transformed_range_printer; no preview, no loop.                     *)
SeparatedRangePrinter(fp, p, arg) ==
  LET items == SeparatedItems(fp, p, arg)
      after == IF p = NoPreview THEN p
               ELSE IF items.ended \/ items.count < 2 THEN items.preview
               ELSE Separators(fp, items.preview, arg.sep, items.count)
  IN Made([prints |-> "range", fp |-> fp, range |-> arg], after)

MakeRange(fp, p, arg) ==
  IF arg.separated THEN SeparatedRangePrinter(fp, p, arg) ELSE RangePrinter(fp, p, arg)

-----------------------------------------------------------------------------
JoinPrinter(fp, p, arg) ==
  LET made == MakeAll(fp, p, arg.args)
  IN Made([prints |-> "all", printers |-> made.printer], made.preview)

AlignedPrinter(arg, printers, fillcount) ==
  [prints |-> "aligned", printers |-> printers, fillcount |-> fillcount,
   afmt |-> arg.afmt, split_pos |-> arg.split_pos]

(* aligned_join_printer_impl when no width is asked for.                   *)
AlignedJoinPrinter(fp, p, arg) ==
  LET made == MakeAll(fp, Preview(p.size_required, TRUE, One * arg.afmt.width), arg.args)
      rest == made.preview.width
      fill == IF rest > 0 THEN Round(rest) ELSE 0
  IN Made(AlignedPrinter(arg, made.printer, fill),
          AddSize(p, made.preview.size + FillSize(fill, arg.afmt)))

(* A mutant: the width beyond that of the join is filled too.              *)
InnerAlignedJoinGreedy(fp, p, arg) ==
  LET wmax == Max({One * Max({arg.afmt.width, 0}), p.width})
      made == MakeAll(fp, Preview(p.size_required, TRUE, wmax), arg.args)
      rest == made.preview.width
      fill == IF rest > 0 THEN Round(rest) ELSE 0
  IN Made(AlignedPrinter(arg, made.printer, fill),
          AddSize(SubtractWidth(p, One * fill + wmax - rest),
                  made.preview.size + FillSize(fill, arg.afmt)))

(* ... and inside a join, where the outer join wants to know the width: it *)
(* is looked at as far as the outer one has room.                          *)
InnerAlignedJoinPrinter(fp, p, arg) ==
  LET own  == One * Max({arg.afmt.width, 0})
      wmax == Max({own, p.width})
      diff == wmax - own
      made == MakeAll(fp, Preview(p.size_required, TRUE, wmax), arg.args)
      rest == made.preview.width
      fill == IF rest > diff THEN Round(rest - diff) ELSE 0
  IN Made(AlignedPrinter(arg, made.printer, fill),
          AddSize(SubtractWidth(p, One * fill + wmax - rest),
                  made.preview.size + FillSize(fill, arg.afmt)))

MakeJoin(fp, p, arg) ==
  IF ~arg.aligned THEN JoinPrinter(fp, p, arg)
  ELSE IF p.width_required THEN InnerAlignedJoinPrinter(fp, p, arg)
  ELSE AlignedJoinPrinter(fp, p, arg)

(* facets_pack_printer: the facets of the pack come after those around it. *)
PackPrinter(fp, p, arg) ==
  LET made == MakeAll(Pack(<<fp, arg.fp>>), p, arg.args)
  IN Made([prints |-> "all", printers |-> made.printer], made.preview)

Make(fp, p, arg) ==
  CASE arg.input = "string"   -> MakeString(fp, p, arg)
    [] arg.input = "char"     -> CharPrinter(GetFacet(fp, "width", "char"), p, arg.ch)
    [] arg.input = "fmt_char" -> FmtCharPrinter(p, arg)
    [] arg.input = "range"    -> MakeRange(fp, p, arg)
    [] arg.input = "join"     -> MakeJoin(fp, p, arg)
    [] arg.input = "pack"     -> PackPrinter(fp, p, arg)

-----------------------------------------------------------------------------
(* write_args                                                              *)
PrintAll(printers) == FlattenSeq([i \in DOMAIN printers |-> PrintTo(printers[i])])

PrintRange(fp, range) ==
  LET sep == IF range.separated THEN range.sep ELSE <<>>
  IN FlattenSeq([i \in DOMAIN range.items |->
       (IF i > 1 THEN sep ELSE <<>>) \o PrintTo(Make(fp, NoPreview, Element(range, i)).printer)])

(* print_split: the fill comes after the first split_pos printers.         *)
PrintSplit(printers, fillcount, fill, split_pos) ==
  IF printers = <<>> THEN Fill(fillcount, fill)
  ELSE IF split_pos > 0
  THEN PrintTo(Head(printers)) \o PrintSplit(Tail(printers), fillcount, fill, split_pos - 1)
  ELSE Fill(fillcount, fill) \o PrintAll(printers)

(* aligned_join_printer_impl::print_to                                     *)
PrintAligned(pr) ==
  IF pr.afmt.alignment = "split"
  THEN PrintSplit(pr.printers, pr.fillcount, pr.afmt.fill, pr.split_pos)
  ELSE Filled(PrintAll(pr.printers), pr.fillcount, pr.afmt)

PrintTo(pr) ==
  CASE pr.prints = "text"    -> pr.text
    [] pr.prints = "range"   -> PrintRange(pr.fp, pr.range)
    [] pr.prints = "all"     -> PrintAll(pr.printers)
    [] pr.prints = "aligned" -> PrintAligned(pr)

=============================================================================
