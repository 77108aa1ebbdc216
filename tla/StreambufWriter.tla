--------------------------- MODULE StreambufWriter ---------------------------
(***************************************************************************)
(* basic_streambuf_writer (detail/output_types/std_streambuf.hpp): the     *)
(* buffer goes to std::basic_streambuf::sputn, which may take only a part, *)
(* and, unlike fwrite, may throw (overflow() is a user's function).        *)
(***************************************************************************)
EXTENDS FlushingWriter

CONSTANT MayThrow  (* whether sputn of this streambuf can throw            *)

(* sputn takes the first k characters of _buf and returns k.               *)
Sputn(k) == Take(k)

(* recycle() compares it with what it gave.  (The mutant does not.)        *)
FlushedUnchecked(k) == Sputn(k) /\ good' = TRUE
Flushed(k) == Sputn(k) /\ good' = (k = pos)

(* sputn throws after it took the first k characters; pos is back at _buf  *)
(* already and good is as it was, but the count never learns of the k.     *)
SputnThrows(k) ==
  /\ MayThrow
  /\ sink' = sink \o Buffered(k)
  /\ RecycleThrows
  /\ UNCHANGED count

Recycle ==
  /\ pc = "recycle"
  /\ Reset
  /\ \/ ~good /\ UNCHANGED <<good, sink, count>> /\ RecycleReturns
     \/ good /\ \E k \in 0 .. pos : Flushed(k) /\ RecycleReturns
     \/ good /\ \E k \in 0 .. pos : SputnThrows(k) /\ UNCHANGED good
  /\ UNCHANGED <<mem, end, results>>

(* finish() makes the outbuf bad before it flushes; when sputn throws it   *)
(* returns nothing.                                                        *)
Finish ==
  /\ MayFinish
  /\ Reset
  /\ good' = FALSE
  /\ \/ ~good /\ UNCHANGED <<sink, count>> /\ Report(FALSE) /\ UNCHANGED client
     \/ good /\ \E k \in 0 .. pos : Sputn(k) /\ Report(k = pos) /\ UNCHANGED client
     \/ good /\ \E k \in 0 .. pos : SputnThrows(k) /\ UNCHANGED results
  /\ UNCHANGED <<mem, end>>

Next == Client \/ Recycle \/ Finish

Spec == Init /\ [][Next]_vars

-----------------------------------------------------------------------------
(* An exception from the streambuf may cost characters, since recycle()    *)
(* leaves the outbuf good with its buffer emptied; but what arrives is     *)
(* still in order and nothing arrives twice, also when the client catches  *)
(* the exception and goes on printing.                                     *)
NothingTwice == \A i, j \in DOMAIN sink : i < j => sink[i] < sink[j]

(* The count never exceeds what arrived.                                   *)
CountNotTooHigh == count <= Len(sink)
=============================================================================
