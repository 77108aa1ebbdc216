------------------------------- MODULE Facets -------------------------------
(***************************************************************************)
(* Packs of facets (facets_pack.hpp): which of several facets of one       *)
(* category an argument gets.                                              *)
(*                                                                         *)
(* An element of a pack is a facet, a facet or a pack behind a filter of   *)
(* input tags (strf::constrain), or another pack.  Whether an element is   *)
(* stored by value or by reference makes no difference to the answer.      *)
(***************************************************************************)
EXTENDS Integers, SequencesExt

CONSTANTS
  Default  (* a function from the categories to their default facets       *)

Facet(cat, value) == [elem |-> "facet", cat |-> cat, value |-> value]
Constrain(filter, fpe) == [elem |-> "constrained", filter |-> filter, fpe |-> fpe]
Pack(fpes) == [elem |-> "pack", fpes |-> fpes]

RECURSIVE HasFacet(_, _, _), GetFacet(_, _, _)

(* has_facet_v of fpe_traits: known when the program is compiled.          *)
HasFacet(fpe, cat, tag) ==
  CASE fpe.elem = "facet"       -> fpe.cat = cat
    [] fpe.elem = "constrained" -> tag \in fpe.filter /\ HasFacet(fpe.fpe, cat, tag)
    [] OTHER -> \E i \in DOMAIN fpe.fpes : HasFacet(fpe.fpes[i], cat, tag)

(* The elements a pack may take the facet from, by their rank.             *)
Candidates(fpe, cat, tag) == {i \in DOMAIN fpe.fpes : HasFacet(fpe.fpes[i], cat, tag)}

(* A mutant: the lowest rank is preferred.                                 *)
PreferredFirst(S) == Min(S)

(* do_get_facet: the overload with the highest rank is the best match.     *)
Preferred(S) == Max(S)

GetFacet(fpe, cat, tag) ==
  CASE fpe.elem = "facet"       -> fpe.value
    [] fpe.elem = "constrained" -> GetFacet(fpe.fpe, cat, tag)
    [] OTHER ->
         LET found == Candidates(fpe, cat, tag)
         IN IF found = {} THEN Default[cat]
            ELSE GetFacet(fpe.fpes[Preferred(found)], cat, tag)

-----------------------------------------------------------------------------
(* What a pack means: all its facets in a row, each with the tags it is    *)
(* for, and for a tag the last of them that is for it.                     *)
RECURSIVE FacetsIn(_, _)

FacetsIn(fpe, tags) ==
  CASE fpe.elem = "facet" -> <<[cat |-> fpe.cat, value |-> fpe.value, tags |-> tags]>>
    [] fpe.elem = "constrained" -> FacetsIn(fpe.fpe, tags \cap fpe.filter)
    [] OTHER -> FlattenSeq([i \in DOMAIN fpe.fpes |-> FacetsIn(fpe.fpes[i], tags)])

LastFacet(fpe, cat, tag) ==
  LET row == SelectSeq(FacetsIn(fpe, {tag}), LAMBDA f : f.cat = cat /\ tag \in f.tags)
  IN IF row = <<>> THEN Default[cat] ELSE row[Len(row)].value

=============================================================================
