-------------------------- MODULE NarrowCfileWriter --------------------------
(***************************************************************************)
(* narrow_cfile_writer (detail/output_types/FILE.hpp): recycle() and       *)
(* finish() hand the buffer to one fwrite, which may take only a part.     *)
(***************************************************************************)
EXTENDS FlushingWriter

(* fwrite takes k characters; fewer than it was given is a failure.  (The  *)
(* mutant forgets to compare.)                                             *)
FwriteUnchecked(k) == Take(k) /\ good' = TRUE
Fwrite(k) == Take(k) /\ good' = (k = pos)

Recycle ==
  /\ pc = "recycle"
  /\ Reset
  /\ \/ ~good /\ UNCHANGED <<good, sink, count>>
     \/ good /\ \E k \in 0 .. pos : Fwrite(k)
  /\ UNCHANGED <<mem, end, results>>
  /\ RecycleReturns

(* finish() makes the outbuf bad before it flushes, and leaves pos alone.  *)
Finish ==
  /\ MayFinish
  /\ good' = FALSE
  /\ \/ ~good /\ UNCHANGED <<sink, count>> /\ Report(FALSE)
     \/ good /\ \E k \in 0 .. pos : Take(k) /\ Report(k = pos)
  /\ UNCHANGED <<mem, pos, end, client>>

Next == Client \/ Recycle \/ Finish

Spec == Init /\ [][Next]_vars
=============================================================================
