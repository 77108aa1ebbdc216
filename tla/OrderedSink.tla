----------------------------- MODULE OrderedSink -----------------------------
(***************************************************************************)
(* What every destination of strf promises to the one who prints to it.    *)
(*                                                                         *)
(* The characters arrive in the order they were asked for, none twice and  *)
(* none skipped.  A destination that has failed, or that was finished,     *)
(* takes nothing more, and does not become good again.  finish() reports   *)
(* success only when everything asked for until then has arrived.          *)
(***************************************************************************)
EXTENDS Naturals, Sequences

VARIABLES
  asked,     (* how many characters have been asked for                    *)
  received,  (* the characters that have arrived                           *)
  open,      (* the destination still takes characters                     *)
  success    (* what finish() reported: "none" before it is called         *)

vars == <<asked, received, open, success>>

Upto(k) == [i \in 1 .. k |-> i]

Init ==
  /\ asked = 0
  /\ received = <<>>
  /\ open = TRUE
  /\ success = "none"

Ask ==
  /\ asked' \in Nat /\ asked' >= asked
  /\ UNCHANGED <<received, open, success>>

(* Some more of the characters asked for arrive; the destination may fail  *)
(* on the way.                                                             *)
Deliver ==
  /\ open
  /\ \E k \in Len(received) .. asked : received' = Upto(k)
  /\ open' \in BOOLEAN
  /\ UNCHANGED <<asked, success>>

(* finish() delivers what is left, or fails to, and closes.                *)
Finish ==
  /\ \/ open /\ \E k \in Len(received) .. asked : received' = Upto(k)
     \/ ~open /\ UNCHANGED received
  /\ open' = FALSE
  /\ success' \in {"yes", "no"}
  /\ success' = "yes" => open /\ received' = Upto(asked)
  /\ UNCHANGED asked

Next == Ask \/ Deliver \/ Finish

Spec == Init /\ [][Next]_vars
=============================================================================
