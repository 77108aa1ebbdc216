--------------------------- MODULE FlushingWriter ---------------------------
(***************************************************************************)
(* What narrow_cfile_writer, wide_cfile_writer and basic_streambuf_writer  *)
(* have in common: a buffer of min_size_after_recycle() characters inside  *)
(* the object that is handed to a FILE or a streambuf, the count of the    *)
(* characters that were taken, and a result that reports both.             *)
(***************************************************************************)
EXTENDS Outbuf, Sequences

CONSTANT
  MaxFinishes  (* bound: how often finish() is called                      *)

ASSUME FlushingAssumption == MaxFinishes \in Nat

VARIABLES
  sink,      (* the characters the FILE or streambuf has taken, in order   *)
  count,     (* _count                                                     *)
  results    (* what the calls of finish() returned, with the number of    *)
             (* characters asked for and the value of good() until then    *)

flushing == <<sink, count, results>>
vars == <<outbuf, client, flushing>>

Init ==
  /\ mem = [c \in 0 .. MinSize - 1 |-> 0]
  /\ pos = 0 /\ end = MinSize /\ good = TRUE
  /\ sink = <<>> /\ count = 0 /\ results = <<>>
  /\ ClientInit

(* The first k characters of _buf.                                         *)
Buffered(k) == [i \in 1 .. k |-> mem[i - 1]]

(* A mutant: the count grows by what was offered.                          *)
TakeCountingAll(k) == sink' = sink \o Buffered(k) /\ count' = count + pos

(* The destination takes the first k characters of _buf; the count grows   *)
(* by what it returned.                                                    *)
Take(k) == sink' = sink \o Buffered(k) /\ count' = count + k

(* this->set_pos(_buf), and two mutants: it is lacking; it stands inside   *)
(* the if statement that looks at good().                                  *)
ResetForgotten == pos' = pos
ResetWhenGood == pos' = IF good THEN 0 ELSE pos
Reset == pos' = 0

MayFinish == pc = "idle" /\ Len(results) < MaxFinishes

Report(success) ==
  results' = Append(results, [count |-> count', success |-> success,
                              asked |-> asked, wasGood |-> good])

Client == (Start \/ Continue) /\ UNCHANGED flushing

-----------------------------------------------------------------------------
(* Type correctness of the buffer, the client and the results.             *)
TypeOK ==
  /\ mem \in [0 .. MinSize - 1 -> 0 .. MaxChars]
  /\ ClientTypeOK
  /\ sink \in Seq(1 .. MaxChars)
  /\ count \in Nat
  /\ results \in Seq([count: Nat, success: BOOLEAN,
                     asked: 0 .. MaxChars, wasGood: BOOLEAN])

(* The window stays inside _buf, whatever recycle() and finish() left it   *)
(* at.                                                                     *)
WindowInMemory == end = MinSize /\ WindowRespected

(* While the outbuf is good, every character asked for has arrived, waits  *)
(* in its place in _buf, or is still to be placed by the running loop; and *)
(* an outbuf that became bad has lost one.                                 *)
NothingLostWhileGood ==
  /\ sink = Prefix(Len(sink))
  /\ good => /\ Len(sink) + Mark + todo = asked
             /\ \A c \in 0 .. Mark - 1 : mem[c] = Len(sink) + c + 1
  /\ ~good /\ results = <<>> => Len(sink) < asked

(* result::count is the number of characters that really arrived, also     *)
(* when some call wrote only a part.                                       *)
CountIsExact ==
  /\ count = Len(sink)
  /\ \A i \in DOMAIN results : results[i].count <= count

(* The first finish() reports success exactly when every character asked   *)
(* for before it has arrived: neither a short write long ago nor one in    *)
(* the last flush is forgotten, and no failure is reported for nothing.    *)
SuccessMeansComplete ==
  results # <<>> =>
    (results[1].success <=> results[1].count = results[1].asked)

(* doc/ref_outbuf.adoc, of finish() of all three classes: "result::success *)
(* is the value good() would return before this call to finish()".         *)
SuccessIsGoodBefore ==
  \A i \in DOMAIN results : results[i].success = results[i].wasGood

(* Every operation comes to its end, on good and on failed destinations.   *)
OperationsEnd == pc # "idle" ~> pc = "idle"

(* The destination as its user sees it.                                    *)
Sink == INSTANCE OrderedSink WITH
  received <- sink,
  open <- good,
  success <- IF results = <<>> THEN "none"
             ELSE IF results[Len(results)].success THEN "yes" ELSE "no"

(* Characters arrive in order, once, without gaps, and none after a        *)
(* failure or after finish().                                              *)
DeliversInOrder == Sink!Spec
=============================================================================
