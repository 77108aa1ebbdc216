------------------------------- MODULE ArgText -------------------------------
(***************************************************************************)
(* What the documentation says an argument prints, without previews and    *)
(* without printers: the fill of an argument, or of a join, is what the    *)
(* measured width of its content leaves of the width asked for, and the    *)
(* facet that measures is the last one that is for the argument.           *)
(***************************************************************************)
EXTENDS FormatFunctions

FacetOf(fp, x) ==
  CASE x.input = "string" /\ x.via = "cv16" -> LastFacet(fp, "width16", "string16")
    [] x.input = "string" /\ x.via # "cv16" -> LastFacet(fp, "width", "string")
    [] x.input \in {"char", "fmt_char"}     -> LastFacet(fp, "width", "char")
    [] x.input = "range"                    -> LastFacet(fp, "width", "separator")

(* recoded: the units of the destination say nothing about the width.      *)
Measure(calc, text, recoded) ==
  CASE calc = "fast"   -> One * (IF recoded THEN Len(text) ELSE SizeOf(text))
    [] calc = "u32len" -> One * Len(text)
    [] calc = "user"   -> SumOver(LAMBDA c : WidthOf[c], text)

Recoded(x) == x.input = "string" /\ x.via \notin {"none", "cv"}

FillFor(afmt, w) == IF One * afmt.width > w THEN Round(One * afmt.width - w) ELSE 0

(* before: how many of n fill characters come before a text.               *)
Before(n, alignment) ==
  CASE alignment = "left" -> 0
    [] alignment = "center" -> n \div 2
    [] OTHER -> n

Padded(body, n, afmt) ==
  LET b == Before(n, afmt.alignment)
  IN Fill(b, afmt.fill) \o body \o Fill(n - b, afmt.fill)

Inner(fp, x) == IF x.input = "pack" THEN Pack(<<fp, x.fp>>) ELSE fp
Parts(x) ==
  CASE x.input = "range" -> [i \in DOMAIN x.items |-> Element(x, i)]
    [] x.input \in {"join", "pack"} -> x.args
    [] OTHER -> <<>>

Body(x) ==
  CASE x.input = "string" -> x.text
    [] x.input = "char" -> <<x.ch>>
    [] x.input = "fmt_char" -> Fill(x.count, x.ch)

IsAtom(x) == x.input \in {"string", "char", "fmt_char"}
IsAligned(x) == x.input \in {"string", "fmt_char", "join"} /\ x.aligned

RECURSIVE TextOf(_, _), Width(_, _)

ContentWidth(fp, x) ==
  IF IsAtom(x) THEN Measure(FacetOf(fp, x), Body(x), Recoded(x))
  ELSE SumOver(LAMBDA y : Width(Inner(fp, x), y), Parts(x))
       + IF x.input = "range" /\ x.separated /\ Len(x.items) > 1
         THEN (Len(x.items) - 1) * Measure(FacetOf(fp, x), x.sep, FALSE) ELSE 0

FillOf(fp, x) == IF IsAligned(x) THEN FillFor(x.afmt, ContentWidth(fp, x)) ELSE 0

Width(fp, x) == ContentWidth(fp, x) + One * FillOf(fp, x)

PartsText(fp, x, from, to) ==
  FlattenSeq([i \in 1 .. to - from + 1 |-> TextOf(Inner(fp, x), Parts(x)[from + i - 1])])

Content(fp, x) ==
  IF IsAtom(x) THEN Body(x)
  ELSE IF x.input = "range" /\ x.separated /\ x.items # <<>>
  THEN PartsText(fp, x, 1, 1)
         \o FlattenSeq([i \in 1 .. Len(x.items) - 1 |-> x.sep \o PartsText(fp, x, i + 1, i + 1)])
  ELSE PartsText(fp, x, 1, Len(Parts(x)))

TextOf(fp, x) ==
  IF x.input = "join" /\ x.aligned /\ x.afmt.alignment = "split"
  THEN LET k == Min({Max({x.split_pos, 0}), Len(x.args)})
       IN PartsText(fp, x, 1, k) \o Fill(FillOf(fp, x), x.afmt.fill)
            \o PartsText(fp, x, k + 1, Len(x.args))
  ELSE IF IsAligned(x) THEN Padded(Content(fp, x), FillOf(fp, x), x.afmt)
  ELSE Content(fp, x)

-----------------------------------------------------------------------------
(* The strings whose preview, inside an aligned join, is not their width:  *)
(* with width_as_u32len a formatted string of more than afmt.width         *)
(* characters, and with a calculator of the user one to be filled.         *)
Misjudged(fp, x) ==
  /\ x.input = "string" /\ x.aligned
  /\ \/ FacetOf(fp, x) = "user" /\ One * x.afmt.width > ContentWidth(fp, x)
     \/ FacetOf(fp, x) = "u32len" /\ ~Recoded(x) /\ x.afmt.width >= 0 /\ Len(x.text) > x.afmt.width

RECURSIVE Judged(_, _, _)

(* No aligned join of x contains such a string.                            *)
Judged(fp, x, in_join) ==
  /\ ~(in_join /\ Misjudged(fp, x))
  /\ \A i \in DOMAIN Parts(x) :
       Judged(Inner(fp, x), Parts(x)[i], in_join \/ (x.input = "join" /\ x.aligned))

(* What the compiler accepts: a formatted character needs fast_width or    *)
(* width_as_u32len, and a plain one, unless its width is asked for,        *)
(* fast_width.                                                             *)
RECURSIVE Compiles(_, _, _)

Compiles(fp, x, wide) ==
  /\ x.input = "char" => wide \/ GetFacet(fp, "width", "char") = "fast"
  /\ x.input = "fmt_char" => GetFacet(fp, "width", "char") # "user"
  /\ \A i \in DOMAIN Parts(x) :
       Compiles(Inner(fp, x), Parts(x)[i],
                x.input # "range" /\ (wide \/ (x.input = "join" /\ x.aligned)))

=============================================================================
