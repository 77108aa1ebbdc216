----------------------------- MODULE MCPrinting -----------------------------
(* The instances of Printing that TLC checks: characters of one, two and   *)
(* three units, of one column, of a column and a half and of more than two. *)
EXTENDS Printing

Chars == {" ", ".", "a", "e", "w", "?", "{", "}", "-", "0", "1"}
MCWidthOf == [c \in Chars |-> CASE c = "e" -> 6 [] c = "w" -> 9 [] OTHER -> 4]
MCUnitsOf == [c \in Chars |-> CASE c = "e" -> 2 [] c \in {"w", "?"} -> 3 [] OTHER -> 1]
MCDigitOf == [c \in {"0", "1"} |-> IF c = "0" THEN 0 ELSE 1]
MCDefault == [cat \in {"width", "width16", "tr_invalid_arg"} |->
                IF cat = "tr_invalid_arg" THEN "replace" ELSE "fast"]

Afmt(fill, width, alignment) == [fill |-> fill, width |-> width, alignment |-> alignment]
ae == StringArg(<<"a", "e">>)
wae == StringArg(<<"w", "a", "e">>)
right3 == [ae EXCEPT !.aligned = TRUE, !.afmt = Afmt("e", 3, "right")]

MCValues == {
  wae, CharArg("a"), JoinArg(<<ae, CharArg("a"), wae>>),
  RangeArg(<<ae, wae>>), RangeArg(<<CharArg("a"), CharArg("a")>>),
  SeparatedRange(<<wae, ae, ae>>, <<"e", "a">>),
  Transformed(SeparatedRange(<<ae, wae>>, <<"a">>), right3) }

MCFmtOps == {
  FmtOp("fmt", 0), FmtOp("left", 4), FmtOp("right", 7), FmtOp("center", 6), FmtOp("split", 9),
  FmtWord("fill", "e"), FmtOp("multi", 3), FmtWord("via", "cv"), FmtWord("via", "cv_from"),
  FmtWord("via", "cv16"), FmtOp("split_pos", 1) }

Join(before, after, afmt, pos) == [before |-> before, after |-> after, afmt |-> afmt, split_pos |-> pos]
MCJoins == {
  Join(<<>>, <<>>, Afmt(".", 0 - 1, "left"), 0), Join(<<>>, <<>>, Afmt(".", 12, "left"), 0),
  Join(<<CharArg("a")>>, <<>>, Afmt("e", 7, "center"), 0),
  Join(<<>>, <<ae, right3>>, Afmt(".", 14, "split"), 2),
  Join(<<>>, <<SeparatedRange(<<ae, ae>>, <<"w">>)>>, Afmt("w", 15, "right"), 0) }

Fast == Facet("width", "fast")
U32len == Facet("width", "u32len")
User == Facet("width", "user")
MCPacks == {
  <<U32len>>, <<Constrain({"string"}, User)>>,
  <<User, Constrain({"separator", "char"}, Pack(<<U32len, Fast>>))>> }
MCDestFacets == {
  U32len, User, Facet("width16", "user"), Constrain({"string", "separator"}, User),
  Pack(<<Constrain({"char", "separator"}, Fast), Constrain({"string"}, U32len)>>),
  Facet("tr_invalid_arg", "stop"), Facet("tr_invalid_arg", "ignore") }
MCRests == {<<>>, <<ae>>}

TrChars == {"a", "{", "}", "-", "1"}
MCTrStrings == UNION {[1 .. n -> TrChars] : n \in 1 .. 4} \cup {
  <<"{", "}", "{", "0", "}", "{", "}">>, <<"{", "1", "a", "}", "{", "{", "{", "}", "a">>,
  <<"{", "-", "{", "}", "}", "{", "1", "0", "}", "a">> }
MCTrValues == {wae}
MCTrFacets == {[cat |-> "tr_invalid_arg", value |-> policy, tags |-> {"void", "string"}] :
                 policy \in {"stop", "ignore"}}
NoTrStrings == {}

(* The instance for the joins that are misjudged.                          *)
JoinValues == {wae}
JoinFmtOps == {FmtOp("right", 2)}
JoinJoins == {Join(<<>>, <<>>, Afmt(".", 12, "right"), 0)}
JoinDestFacets == {U32len, User}

=============================================================================
