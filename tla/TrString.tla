------------------------------ MODULE TrString ------------------------------
(***************************************************************************)
(* The strings of tr(): text with directives {} that stand for arguments   *)
(* (detail/tr_string.hpp).                                                 *)
(*                                                                         *)
(* The function that computes the size and the one that writes go over the *)
(* string in the same way; an iteration of their loops is an operator on   *)
(* the state of the loop, and a fragment is what it decides to write:      *)
(* characters, an argument, or the mark of a missing one.                  *)
(***************************************************************************)
EXTENDS Widths

CONSTANTS
  DigitOf   (* the characters that are digits, and their values            *)

(* traits::find: where c is from position i on; past the end if nowhere.   *)
Find(str, i, c) ==
  LET found == {j \in i .. Len(str) : str[j] = c}
  IN IF found = {} THEN Len(str) + 1 ELSE Min(found)

Digits == DOMAIN DigitOf

(* read_uint.  (The value at which it stops reading, near the largest long,*)
(* is left out: there is no such argument either way.)                     *)
EndOfDigits(str, i) ==
  LET others == {j \in i .. Len(str) : str[j] \notin Digits}
  IN IF others = {} THEN Len(str) + 1 ELSE Min(others)

ReadUint(str, i) ==
  LET end == EndOfDigits(str, i)
      value[j \in i - 1 .. end - 1] == IF j < i THEN 0 ELSE 10 * value[j - 1] + DigitOf[str[j]]
  IN [value |-> value[end - 1], it |-> end]

Literal(text) == [fragment |-> "text", text |-> text]
ArgFragment(i, num_args) ==
  IF i < num_args THEN [fragment |-> "arg", index |-> i] ELSE [fragment |-> "missing"]

-----------------------------------------------------------------------------
(* The state of a loop: at "text" or after a brace, with what the last     *)
(* iteration found to write.                                               *)
LoopStart == [at |-> "text", it |-> 1, arg_idx |-> 0, found |-> <<>>]

Continue(loop, at, it, arg_idx, found) ==
  [at |-> at, it |-> it, arg_idx |-> arg_idx, found |-> found]

(* The text up to the next brace.                                          *)
ScanText(str, loop) ==
  LET brace == Find(str, loop.it, "{")
  IN Continue(loop, IF brace > Len(str) THEN "end" ELSE "brace", brace + 1, loop.arg_idx,
              <<Literal(SubSeq(str, loop.it, brace - 1))>>)

(* after_the_brace, when the string has ended.                             *)
BraceAtEnd(str, loop, num_args) ==
  Continue(loop, "end", loop.it, loop.arg_idx, <<ArgFragment(loop.arg_idx, num_args)>>)

(* A mutant: the next argument is counted even when there is none.         *)
NextArgUnbounded(str, loop, num_args) ==
  Continue(loop, "text", loop.it + 1, loop.arg_idx + 1, <<ArgFragment(loop.arg_idx, num_args)>>)

(* {}                                                                      *)
NextArg(str, loop, num_args) ==
  Continue(loop, "text", loop.it + 1,
           IF loop.arg_idx < num_args THEN loop.arg_idx + 1 ELSE loop.arg_idx,
           <<ArgFragment(loop.arg_idx, num_args)>>)

(* A mutant: a numbered argument moves the unnumbered ones on.             *)
NumberedArgMoves(str, loop, num_args) ==
  LET number == ReadUint(str, loop.it)
      close  == Find(str, number.it, "}")
  IN Continue(loop, IF close > Len(str) THEN "end" ELSE "text", close + 1, loop.arg_idx + 1,
              <<ArgFragment(number.value, num_args)>>)

(* {n}, with whatever comes before the closing brace.                      *)
NumberedArg(str, loop, num_args) ==
  LET number == ReadUint(str, loop.it)
      close  == Find(str, number.it, "}")
  IN Continue(loop, IF close > Len(str) THEN "end" ELSE "text", close + 1, loop.arg_idx,
              <<ArgFragment(number.value, num_args)>>)

(* {{ is a brace, and with it goes the text up to the next one.            *)
EscapedBrace(str, loop) ==
  LET brace == Find(str, loop.it + 1, "{")
  IN Continue(loop, IF brace > Len(str) THEN "end" ELSE "brace", brace + 1, loop.arg_idx,
              <<Literal(SubSeq(str, loop.it, brace - 1))>>)

(* Anything else: a comment when it begins with -, else the next argument. *)
Commented(str, loop, num_args) ==
  LET close == Find(str, loop.it + 1, "}")
      arg   == str[loop.it] # "-"
  IN Continue(loop, IF close > Len(str) THEN "end" ELSE "text", close + 1,
              IF arg /\ loop.arg_idx < num_args THEN loop.arg_idx + 1 ELSE loop.arg_idx,
              IF arg THEN <<ArgFragment(loop.arg_idx, num_args)>> ELSE <<>>)

AfterBrace(str, loop, num_args) ==
  CASE loop.it > Len(str)         -> BraceAtEnd(str, loop, num_args)
    [] str[loop.it] = "}"         -> NextArg(str, loop, num_args)
    [] str[loop.it] \in Digits    -> NumberedArg(str, loop, num_args)
    [] str[loop.it] = "{"         -> EscapedBrace(str, loop)
    [] OTHER                      -> Commented(str, loop, num_args)

LoopEnded(str, loop) == loop.at = "end" \/ (loop.at = "text" /\ loop.it > Len(str))

Iterate(str, loop, num_args) ==
  IF loop.at = "text" THEN ScanText(str, loop) ELSE AfterBrace(str, loop, num_args)

-----------------------------------------------------------------------------
(* trstr_invalid_arg_size_when_stop                                        *)
WhenStop == -1

(* invalid_arg_size                                                        *)
InvalidArgSize(policy, replacement) ==
  CASE policy = "replace" -> UnitsOf[replacement]
    [] policy = "stop"    -> WhenStop
    [] policy = "ignore"  -> 0

(* tr_string_size: the sizes of the fragments, up to the end or, when the  *)
(* policy is to stop, to the first missing argument.                       *)
RECURSIVE SizeFrom(_, _, _, _, _)

SizeFrom(str, loop, arg_sizes, missing_size, count) ==
  LET next == Iterate(str, loop, Len(arg_sizes))
      found == next.found
      sizeof(f) == CASE f.fragment = "text"    -> SizeOf(f.text)
                     [] f.fragment = "arg"     -> arg_sizes[f.index + 1]
                     [] f.fragment = "missing" -> missing_size
      stops == missing_size = WhenStop /\ found # <<>> /\ found[1].fragment = "missing"
  IN IF LoopEnded(str, loop) \/ stops THEN count
     ELSE SizeFrom(str, next, arg_sizes, missing_size, count + SumOver(sizeof, found))

TrStringSize(str, arg_sizes, missing_size) ==
  SizeFrom(str, LoopStart, arg_sizes, missing_size, 0)

-----------------------------------------------------------------------------
(* What such a string means, character by character.  state is where the   *)
(* character before left us: in the text, behind a brace, in a directive.  *)
RECURSIVE MeaningFrom(_, _, _, _, _)

MeaningFrom(str, i, state, next, num_args) ==
  LET arg  == <<ArgFragment(next, num_args)>>
      more == IF next < num_args THEN next + 1 ELSE next
      c    == str[i]
  IN CASE i > Len(str) -> IF state = "brace" THEN arg ELSE <<>>
       [] i <= Len(str) /\ state = "text" ->
            IF c = "{" THEN MeaningFrom(str, i + 1, "brace", next, num_args)
            ELSE <<Literal(<<c>>)>> \o MeaningFrom(str, i + 1, "text", next, num_args)
       [] i <= Len(str) /\ state = "directive" ->
            MeaningFrom(str, i + 1, IF c = "}" THEN "text" ELSE "directive", next, num_args)
       [] i <= Len(str) /\ state = "brace" ->
            CASE c = "{" -> <<Literal(<<c>>)>> \o MeaningFrom(str, i + 1, "text", next, num_args)
              [] c = "}" -> arg \o MeaningFrom(str, i + 1, "text", more, num_args)
              [] c = "-" -> MeaningFrom(str, i + 1, "directive", next, num_args)
              [] c \in Digits ->
                   LET n == ReadUint(str, i)
                   IN <<ArgFragment(n.value, num_args)>>
                        \o MeaningFrom(str, n.it, "directive", next, num_args)
              [] OTHER -> arg \o MeaningFrom(str, i + 1, "directive", more, num_args)

Meaning(str, num_args) == MeaningFrom(str, 1, "text", 0, num_args)

=============================================================================
