------------------------------ MODULE Printing ------------------------------
(***************************************************************************)
(* A print (destination.hpp): an argument is formatted and wrapped, a      *)
(* destination is given facets and a way to reserve memory, and the call   *)
(* makes the printers, creates the outbuf and prints, directly or through  *)
(* a tr-string.  The outbuf takes everything: the ones that do not are the *)
(* subject of the writers' modules.                                        *)
(***************************************************************************)
EXTENDS ArgText, TrString

CONSTANTS
  Values,      (* the arguments to start from                              *)
  FmtOps,      (* the format functions, with their parameters              *)
  Joins,       (* the aligned joins: format, split_pos and other arguments *)
  Packs,       (* the facets of strf::with() around an argument            *)
  DestFacets,  (* the facets given to a destination                        *)
  Sizes,       (* the sizes given to reserve()                             *)
  Rests,       (* the arguments that follow in the call                    *)
  TrStrings,   (* the strings of tr()                                      *)
  TrValues, TrFacets,  (* the arguments and the facets to check them with  *)
  Replacement, (* the replacement character                                *)
  MaxFormat, MaxWrap, MaxDest, (* bounds: how many calls of each kind       *)
  MaxCalls                     (* and in all                               *)

VARIABLES
  pc,        (* what happens next                                          *)
  formats,   (* the format functions that were called                      *)
  calls,     (* how many wrap and destination functions were called        *)
  args,      (* the arguments of the call                                  *)
  tr,        (* its tr-string                                              *)
  dest,      (* the destination: facets, and how it reserves               *)
  printers,  (* the printers of the arguments, or none yet                 *)
  previews,  (* the previews they report to                                *)
  loop,      (* where tr_string_write is                                   *)
  reserved,  (* what create() was called with                              *)
  out,       (* what has been printed                                      *)
  threw      (* tr_string_write threw                                      *)

vars == <<pc, formats, calls, args, tr, dest, printers, previews, loop, reserved, out, threw>>

NoPrinter == [prints |-> "nothing"]
NoTr == <<>>
Unsized == -1

Init ==
  /\ pc = "build"
  /\ formats = <<>>
  /\ calls = [wrap |-> 0, dest |-> 0]
  /\ \E v \in Values : args = <<v>>
  /\ tr = NoTr
  /\ dest = [fp |-> Pack(<<>>), reserve |-> "none", size |-> 0]
  /\ printers = <<>> /\ previews = <<>>
  /\ loop = LoopStart
  /\ reserved = Unsized /\ out = <<>> /\ threw = FALSE

-----------------------------------------------------------------------------
(* Before the call.                                                        *)
MayCall ==
  /\ pc = "build"
  /\ Len(formats) + calls.wrap + calls.dest < MaxCalls

May(kind, max) ==
  /\ MayCall
  /\ calls[kind] < max
  /\ calls' = [calls EXCEPT ![kind] = @ + 1]

FormatArg(op) ==
  /\ MayCall
  /\ Len(formats) < MaxFormat /\ calls.wrap = 0 /\ calls.dest = 0
  /\ HasFunction(args[1], op)
  /\ formats' = Append(formats, op)
  /\ args' = <<Format(args[1], op)>>
  /\ UNCHANGED <<pc, calls, tr, dest, printers, previews, loop, reserved, out, threw>>

WrapArg(arg) ==
  /\ May("wrap", MaxWrap)
  /\ calls.dest = 0
  /\ args' = <<arg>>
  /\ UNCHANGED <<pc, formats, tr, dest, printers, previews, loop, reserved, out, threw>>

JoinWith(j) == WrapArg(AlignedJoin(j.before \o args \o j.after, j.afmt, j.split_pos))
PackWith(fpes) == WrapArg(InnerPack(fpes, args))

ChangeDest(d) ==
  /\ May("dest", MaxDest)
  /\ dest' = d
  /\ UNCHANGED <<pc, formats, args, tr, printers, previews, loop, reserved, out, threw>>

(* with(): a new pack, of the old one and the new facet.                   *)
With(fpe) == ChangeDest([dest EXCEPT !.fp = Pack(<<dest.fp, fpe>>)])

NoReserve == ChangeDest([dest EXCEPT !.reserve = "none"])
ReserveCalc == ChangeDest([dest EXCEPT !.reserve = "calc"])
Reserve(n) == ChangeDest([dest EXCEPT !.reserve = "given", !.size = n])

-----------------------------------------------------------------------------
(* The call.                                                               *)
EmptyPreview == Preview(dest.reserve = "calc", FALSE, 0)

Start(all, str, preview_arr) ==
  /\ pc = "build"
  /\ \A i \in DOMAIN all : Compiles(dest.fp, all[i], FALSE)
  /\ pc' = "make"
  /\ args' = all /\ tr' = str
  /\ printers' = [i \in DOMAIN all |-> NoPrinter]
  /\ previews' = preview_arr
  /\ UNCHANGED <<formats, calls, dest, loop, reserved, out, threw>>

(* operator()                                                              *)
Call(rest) == Start(args \o rest, NoTr, <<EmptyPreview>>)

(* tr(): each argument has a preview of its own.                           *)
CanCallTr ==
  /\ pc = "build"
  /\ args[1] \in TrValues
  /\ Range(FacetsIn(dest.fp, {"void", "string"})) \subseteq TrFacets

CallTr(str, rest) ==
  /\ CanCallTr
  /\ Start(args \o rest, str, [i \in 1 .. Len(rest) + 1 |-> EmptyPreview])

Missing == {i \in DOMAIN printers : printers[i] = NoPrinter}

(* The arguments of a function are evaluated in any order, the elements of *)
(* a braced list, as in _tr_write_2, from left to right.                   *)
MakeNext(i) ==
  /\ pc = "make"
  /\ i \in Missing
  /\ tr # NoTr => i = Min(Missing)
  /\ LET k    == IF tr = NoTr THEN 1 ELSE i
         made == Make(dest.fp, previews[k], args[i])
     IN /\ printers' = [printers EXCEPT ![i] = made.printer]
        /\ previews' = [previews EXCEPT ![k] = made.preview]
  /\ UNCHANGED <<pc, formats, calls, args, tr, dest, loop, reserved, out, threw>>

Policy == GetFacet(dest.fp, "tr_invalid_arg", "void")

(* The tr_string_printer adds the size of the whole to its own preview.    *)
Announced ==
  IF tr = NoTr \/ dest.reserve # "calc" THEN previews[1].size
  ELSE TrStringSize(tr, [i \in DOMAIN previews |-> previews[i].size],
                    InvalidArgSize(Policy, Replacement))

(* _write of the three destinations.                                       *)
Create ==
  /\ pc = "make" /\ Missing = {}
  /\ pc' = "print"
  /\ reserved' = CASE dest.reserve = "none"  -> Unsized
                   [] dest.reserve = "given" -> dest.size
                   [] dest.reserve = "calc"  -> Announced
  /\ UNCHANGED <<formats, calls, args, tr, dest, printers, previews, loop, out, threw>>

PrintNext ==
  /\ pc = "print" /\ tr = NoTr /\ printers # <<>>
  /\ out' = out \o PrintTo(Head(printers))
  /\ printers' = Tail(printers)
  /\ UNCHANGED <<pc, formats, calls, args, tr, dest, previews, loop, reserved, threw>>

Written(f) ==
  CASE f.fragment = "text"    -> f.text
    [] f.fragment = "arg"     -> PrintTo(printers[f.index + 1])
    [] f.fragment = "missing" -> IF Policy = "replace" THEN <<Replacement>> ELSE <<>>

(* An iteration of tr_string_write.                                        *)
TrNext ==
  /\ pc = "print" /\ tr # NoTr /\ ~LoopEnded(tr, loop)
  /\ LET next == Iterate(tr, loop, Len(printers))
         fails == \E i \in DOMAIN next.found :
                    next.found[i].fragment = "missing" /\ Policy = "stop"
     IN /\ loop' = next
        /\ out' = out \o FlattenSeq([i \in DOMAIN next.found |-> Written(next.found[i])])
        /\ threw' = fails
        /\ pc' = IF fails THEN "done" ELSE pc
  /\ UNCHANGED <<formats, calls, args, tr, dest, printers, previews, reserved>>

Finish ==
  /\ pc = "print"
  /\ IF tr = NoTr THEN printers = <<>> ELSE LoopEnded(tr, loop)
  /\ pc' = "done"
  /\ UNCHANGED <<formats, calls, args, tr, dest, printers, previews, loop, reserved, out, threw>>

Next ==
  \/ \E op \in FmtOps : FormatArg(op)
  \/ \E j \in Joins : JoinWith(j)
  \/ \E fpes \in Packs : PackWith(fpes)
  \/ \E fpe \in DestFacets : With(fpe)
  \/ NoReserve \/ ReserveCalc
  \/ \E n \in Sizes : Reserve(n)
  \/ \E rest \in Rests : Call(rest)
  \/ CanCallTr /\ \E str \in TrStrings, rest \in Rests : CallTr(str, rest)
  \/ \E i \in DOMAIN printers : MakeNext(i)
  \/ Create \/ PrintNext \/ TrNext \/ Finish

Spec == Init /\ [][Next]_vars

-----------------------------------------------------------------------------
TypeOK ==
  /\ pc \in {"build", "make", "print", "done"}
  /\ dest.reserve \in {"none", "given", "calc"} /\ dest.size \in Nat
  /\ Len(printers) <= Len(args) /\ Len(previews) <= Len(args)
  /\ reserved \in Nat \cup {Unsized}
  /\ loop.it \in 1 .. Len(tr) + 2 /\ loop.arg_idx \in 0 .. Len(args)
  /\ threw \in BOOLEAN
  /\ threw => pc = "done"

AllJudged == \A i \in DOMAIN args : Judged(dest.fp, args[i], FALSE)

MeantByArgs == FlattenSeq([i \in DOMAIN args |-> TextOf(dest.fp, args[i])])

(* Whatever the order of the format functions, the argument ends up with   *)
(* the last alignment, the last fill character, the last count and the     *)
(* conversion asked for, and an alignment never takes back a fill          *)
(* character nor the other way round.                                      *)
Called(names) == SelectSeq(formats, LAMBDA op : op.name \in names)
Formatted == IF args[1].input = "range" THEN args[1].like ELSE args[1]
LastFormatWins ==
  pc = "build" /\ calls.wrap = 0 /\ formats # <<>> =>
    LET alignments == Called(Alignments)
        fills == Called({"fill"})
        counts == Called({"multi"})
        conversions == Called({"via"})
    IN /\ alignments # <<>> =>
            /\ Formatted.afmt.alignment = Last(alignments).name
            /\ Formatted.afmt.width = Last(alignments).number
       /\ fills # <<>> => Formatted.afmt.fill = Last(fills).word
       /\ counts # <<>> => Formatted.count = Last(counts).number
       /\ conversions # <<>> => Formatted.via = Last(conversions).word

(* What is printed is what the arguments mean: with the formats the last   *)
(* format functions gave them, measured by the last facet that is for      *)
(* them, and filled up to the widths asked for.  The joins with a string   *)
(* that their preview misjudges are left out.                              *)
TextRight == pc = "done" /\ tr = NoTr /\ AllJudged => out = MeantByArgs

(* A destination with reserve_calc() creates the outbuf with exactly the   *)
(* size of what is then printed, whatever joins, ranges and packs are in   *)
(* it; and when a tr-string stops at a missing argument, of what was       *)
(* printed before it.                                                      *)
SizeExact ==
  pc = "done" /\ dest.reserve = "calc" => reserved = SizeOf(out)

(* Among all the facets a destination was given, behind whatever filters   *)
(* and in whatever packs, an input gets the last one that is for it.       *)
LastFacetWins ==
  pc = "done" => \A cat \in DOMAIN Default, tag \in {"string", "string16", "char", "separator", "void"} :
    /\ GetFacet(dest.fp, cat, tag) = LastFacet(dest.fp, cat, tag)
    /\ \A i \in DOMAIN args :
         GetFacet(Inner(dest.fp, args[i]), cat, tag) = LastFacet(Inner(dest.fp, args[i]), cat, tag)

(* tr() prints the text, and each directive as its argument; it throws     *)
(* when an argument is missing and the policy is to stop, at that place,   *)
(* and never otherwise.                                                    *)
Fragments == Meaning(tr, Len(args))
FirstMissing == {i \in DOMAIN Fragments : Fragments[i].fragment = "missing"}
StopsAt ==
  IF Policy = "stop" /\ FirstMissing # {} THEN Min(FirstMissing) - 1 ELSE Len(Fragments)
MeantBy(f) ==
  CASE f.fragment = "text"    -> f.text
    [] f.fragment = "arg"     -> TextOf(dest.fp, args[f.index + 1])
    [] f.fragment = "missing" -> IF Policy = "replace" THEN <<Replacement>> ELSE <<>>

TrRight ==
  pc = "done" /\ tr # NoTr =>
    /\ out = FlattenSeq([i \in 1 .. StopsAt |-> MeantBy(Fragments[i])])
    /\ threw <=> (StopsAt < Len(Fragments))

(* With width_as_u32len an aligned join prints exactly as many characters  *)
(* as it was asked for, or its arguments when they are more.               *)
FilledToWidth ==
  \A i \in DOMAIN args :
    LET x == args[i]
    IN pc = "done" /\ tr = NoTr /\ Len(args) = 1 /\ x.input = "join" /\ x.aligned
       /\ GetFacet(dest.fp, "width", "string") = "u32len"
         => Len(out) = Max({x.afmt.width, Len(Content(dest.fp, x))})

=============================================================================
