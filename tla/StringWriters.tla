---------------------------- MODULE StringWriters ----------------------------
(***************************************************************************)
(* The three outbufs of detail/output_types/std_string.hpp.                *)
(*                                                                         *)
(* basic_string_appender and basic_string_maker collect the output in a    *)
(* buffer inside the object and append it to a std::string.  They differ   *)
(* in who owns the string: the appender is given one, the maker returns    *)
(* its own from finish(), which leaves it moved from.                      *)
(*                                                                         *)
(* basic_pre_sized_string_maker creates its string with the size that the  *)
(* preview has computed and writes to it in place: mem is the string.      *)
(* recycle() appends more cells, finish() cuts off the unused ones; the    *)
(* outbuf never becomes bad.                                               *)
(*                                                                         *)
(* append may throw (out of memory); the string is then as it was.         *)
(***************************************************************************)
EXTENDS Outbuf, Sequences, FiniteSets

CONSTANTS
  Sizes,       (* the sizes a pre-sized string may be created with         *)
  MaxFinishes  (* bound: how often finish() is called                      *)

StringAssumption ==
  /\ Sizes \subseteq Nat /\ Sizes # {}
  /\ MaxFinishes \in Nat

VARIABLES
  writer,   (* the class of the outbuf                                     *)
  str,      (* _str of an appender or a maker                              *)
  given,    (* what the calls of finish() left the caller with, and the    *)
            (* number of characters asked for until then                   *)
  threw     (* an append has thrown                                        *)

string == <<writer, str, given, threw>>
vars == <<outbuf, client, string>>

Buffering == {"appender", "maker"}

(* _str.size() of a pre-sized string: its cells are 0 .. StrSize-1.        *)
StrSize == Cardinality(DOMAIN mem)

InitBuffering ==
  /\ writer \in Buffering
  /\ mem = [c \in 0 .. MinSize - 1 |-> 0] /\ end = MinSize

InitPreSized ==
  /\ writer = "pre_sized"
  /\ \E n \in Sizes : mem = [c \in 0 .. n - 1 |-> 0] /\ end = n

Init ==
  /\ InitBuffering \/ InitPreSized
  /\ pos = 0 /\ good = TRUE
  /\ str = <<>> /\ given = <<>> /\ threw = FALSE
  /\ ClientInit

-----------------------------------------------------------------------------
(* The characters to append; a mutant appends the whole buffer.            *)
WholeBuffer == [i \in 1 .. MinSize |-> mem[i - 1]]
Buffered == [i \in 1 .. pos |-> mem[i - 1]]

(* set_pos(_buf), and a mutant that does it only when something is flushed.*)
ResetWhenGood == pos' = IF good THEN 0 ELSE pos
Reset == pos' = 0

(* A mutant: set_good(false) is missing before the append.                 *)
RecycleStayingGood ==
  /\ pc = "recycle" /\ writer \in Buffering
  /\ Reset
  /\ \/ ~good /\ UNCHANGED <<good, str, threw>> /\ RecycleReturns
     \/ good /\ str' = str \o Buffered /\ UNCHANGED <<good, threw>> /\ RecycleReturns
     \/ good /\ threw' = TRUE /\ UNCHANGED <<good, str>> /\ RecycleThrows
  /\ UNCHANGED <<mem, end, writer, given>>

(* recycle() is bad while it appends: when append throws, it stays so.     *)
RecycleBuffering ==
  /\ pc = "recycle" /\ writer \in Buffering
  /\ Reset
  /\ \/ ~good /\ UNCHANGED <<good, str, threw>> /\ RecycleReturns
     \/ good /\ str' = str \o Buffered /\ UNCHANGED <<good, threw>> /\ RecycleReturns
     \/ good /\ good' = FALSE /\ threw' = TRUE /\ UNCHANGED str /\ RecycleThrows
  /\ UNCHANGED <<mem, end, writer, given>>

FinishBuffering ==
  /\ pc = "idle" /\ writer \in Buffering
  /\ Len(given) < MaxFinishes
  /\ good' = FALSE
  /\ \/ /\ LET final == IF good THEN str \o Buffered ELSE str IN
             /\ given' = Append(given, [str |-> final, asked |-> asked])
             /\ str' = IF writer = "maker" THEN <<>> ELSE final
        /\ UNCHANGED threw
     \/ good /\ threw' = TRUE /\ UNCHANGED <<str, given>>
  /\ UNCHANGED <<mem, pos, end, writer, client>>

-----------------------------------------------------------------------------
(* The string with n cells appended.  (Mutants: it is resized to n cells;  *)
(* it is assigned n new cells more than it had.)                           *)
Resized(n) == [c \in 0 .. n - 1 |-> IF c \in DOMAIN mem THEN mem[c] ELSE 0]
Assigned(n) == [c \in 0 .. StrSize + n - 1 |-> 0]
Appended(n) == [c \in 0 .. StrSize + n - 1 |-> IF c \in DOMAIN mem THEN mem[c] ELSE 0]

(* By how much recycle() makes it grow: by what has been written, and at   *)
(* least by a new window.                                                  *)
More == IF pos > MinSize THEN pos ELSE MinSize

(* The cells are appended after the ones the string has, which reach up to *)
(* end or beyond; the new window starts at pos all the same.               *)
RecyclePreSized ==
  /\ pc = "recycle" /\ writer = "pre_sized"
  /\ \/ /\ mem' = Appended(More)
        /\ end' = pos + More
        /\ RecycleReturns
        /\ UNCHANGED threw
     \/ threw' = TRUE /\ RecycleThrows /\ UNCHANGED <<mem, end>>
  /\ UNCHANGED <<pos, good, writer, str, given>>

(* The unused cells are cut off.  After finish() the string is moved from  *)
(* and pos points into nothing: the object must not be used again.         *)
FinishPreSized ==
  /\ pc = "idle" /\ writer = "pre_sized"
  /\ given = <<>>
  /\ given' = <<[str |-> Buffered, asked |-> asked]>>
  /\ UNCHANGED <<outbuf, client, writer, str, threw>>

-----------------------------------------------------------------------------
Usable == writer \in Buffering \/ given = <<>>

Client == Usable /\ (Start \/ Continue) /\ UNCHANGED string

Recycle == RecycleBuffering \/ RecyclePreSized

Next == Client \/ Recycle \/ FinishBuffering \/ FinishPreSized

Spec == Init /\ [][Next]_vars

-----------------------------------------------------------------------------
(* The window is part of the buffer or of the string: end, which recycle() *)
(* computes from pos, is never beyond the cells it appended to the old     *)
(* size.                                                                   *)
WindowInMemory == WindowRespected /\ end <= StrSize

(* What a pre-sized string holds before pos is increasing: what was        *)
(* written before a recycle() survives it, in its place.  (An append that  *)
(* throws loses the rest of the operation it interrupts and nothing else.) *)
NothingOverwritten ==
  writer = "pre_sized" =>
    \A c, d \in 0 .. pos - 1 : c < d => 0 < mem[c] /\ mem[c] < mem[d]

(* Unless an append threw, which the client saw, the first finish() gives  *)
(* everything asked for, in order and nothing else, however often the      *)
(* string grew and wherever in its window a loop recycled.  An appender    *)
(* and a maker, which are bad after the exception, give a beginning of it  *)
(* even to a client that caught the exception and went on printing.        *)
FinishGivesAll ==
  given # <<>> =>
    /\ ~threw => given[1].str = Prefix(given[1].asked)
    /\ writer \in Buffering => given[1].str = Prefix(Len(given[1].str))

(* The string as its user sees it: an appender's at any time, the others   *)
(* as the first finish() gave it.  (A pre-sized string that an exception   *)
(* has made incomplete is left out: NothingOverwritten says what holds of  *)
(* it.)                                                                    *)
Received ==
  IF writer = "appender" THEN str
  ELSE IF writer = "maker" /\ given = <<>> THEN str
  ELSE IF given # <<>> /\ (writer = "maker" \/ ~threw) THEN given[1].str
  ELSE <<>>

Sink == INSTANCE OrderedSink WITH
  received <- Received, open <- good /\ Usable, success <- "none"

(* The characters reach the string in order and without gaps, and none     *)
(* after an exception or after finish().                                   *)
DeliversInOrder == Sink!Spec
=============================================================================
