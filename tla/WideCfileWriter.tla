--------------------------- MODULE WideCfileWriter ---------------------------
(***************************************************************************)
(* wide_cfile_writer (detail/output_types/FILE.hpp): recycle() gives the   *)
(* characters to fputwc one by one and stops at the first WEOF; finish()   *)
(* is recycle() and then a report.                                         *)
(***************************************************************************)
EXTENDS FlushingWriter

(* fputwc has accepted the first k characters of _buf and, unless they are *)
(* all, has answered WEOF to the next one.  (Each accepted character adds  *)
(* one to _count; the mutant goes on after WEOF and stays good.)           *)
FputwcUnchecked(k) == Take(k) /\ good' = TRUE
Fputwc(k) == Take(k) /\ good' = (k = pos)

Flush ==
  /\ Reset
  /\ \/ ~good /\ UNCHANGED <<good, sink, count>>
     \/ good /\ \E k \in 0 .. pos : Fputwc(k)

Recycle ==
  /\ pc = "recycle"
  /\ Flush
  /\ UNCHANGED <<mem, end, results>>
  /\ RecycleReturns

(* finish() calls recycle() and keeps the good() that call left.           *)
Finish ==
  /\ MayFinish
  /\ Reset
  /\ good' = FALSE
  /\ \/ ~good /\ UNCHANGED <<sink, count>> /\ Report(FALSE)
     \/ good /\ \E k \in 0 .. pos : Take(k) /\ Report(k = pos)
  /\ UNCHANGED <<mem, end, client>>

Next == Client \/ Recycle \/ Finish

Spec == Init /\ [][Next]_vars
=============================================================================
