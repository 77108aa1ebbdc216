----------------------------- MODULE CstrWriter -----------------------------
(***************************************************************************)
(* basic_cstr_writer (include/strf/outbuf.hpp): the output goes straight   *)
(* into an array the user owns, whose last cell is kept for the            *)
(* terminating NUL.  When the array is full, recycle() remembers where the *)
(* output ended and lets the rest go to the static garbage buffer.         *)
(*                                                                         *)
(* The array is the cells 0 .. Capacity-1.  The garbage buffer, shared by  *)
(* every outbuf of the program, is the MinSize cells from Garbage on; its  *)
(* content is never read and is left out of mem.                           *)
(***************************************************************************)
EXTENDS Outbuf, Sequences

CONSTANTS
  Capacity,    (* dest_end - dest                                          *)
  MaxFinishes, (* bound: how often finish() is called                      *)
  MaxMoves     (* bound: how often the writer is moved                     *)

CstrAssumption ==
  /\ Capacity \in Nat \ {0}     \* STRF_ASSERT(dest < dest_end)
  /\ MaxFinishes \in Nat /\ MaxMoves \in Nat

VARIABLES
  it,       (* _it: where the output ended; NoCell is nullptr              *)
  results,  (* what the calls of finish() returned, with the number of     *)
            (* characters asked for until then                             *)
  moves     (* how often the writer was moved                              *)

cstr == <<it, results, moves>>
vars == <<outbuf, client, cstr>>

NUL == 0
Unwritten == MaxChars + 1
NoCell == Capacity
Garbage == Capacity + 1

(* The cells before the one kept for the terminator; a mutant keeps none.  *)
NoRoomForNul == Capacity
Room == Capacity - 1

(* set_pos and set_end to the garbage buffer; the mutant's window is empty.*)
ToGarbageEnd == pos' = Garbage + MinSize
ToGarbage == pos' = Garbage

(* Where the output ends: fixed by the first recycle() or finish().  (The  *)
(* mutant fixes it anew each time.)                                        *)
OutputEndMoving == pos
OutputEnd == IF good THEN pos ELSE it

Init ==
  /\ mem = [c \in 0 .. Capacity - 1 |-> Unwritten]
  /\ pos = 0 /\ end = Room /\ good = TRUE
  /\ it = NoCell /\ results = <<>> /\ moves = 0
  /\ ClientInit

(* A mutant of recycle(): the outbuf stays good.                           *)
RecycleStayingGood ==
  /\ pc = "recycle"
  /\ it' = pos /\ end' = Garbage + MinSize
  /\ pos' = Garbage
  /\ UNCHANGED <<good, mem, results, moves>>
  /\ RecycleReturns

(* recycle() changes end only the first time: it is the garbage buffer's   *)
(* from then on.                                                           *)
Recycle ==
  /\ pc = "recycle"
  /\ it' = OutputEnd
  /\ end' = IF good THEN Garbage + MinSize ELSE end
  /\ good' = FALSE
  /\ ToGarbage
  /\ UNCHANGED <<mem, results, moves>>
  /\ RecycleReturns

Finish ==
  /\ pc = "idle"
  /\ Len(results) < MaxFinishes
  /\ it' = OutputEnd
  /\ good' = FALSE
  /\ ToGarbage /\ end' = Garbage + MinSize
  /\ mem' = [mem EXCEPT ![it'] = NUL]
  /\ results' = Append(results, [ptr |-> it', truncated |-> ~good, asked |-> asked])
  /\ UNCHANGED <<client, moves>>

(* The move constructor makes a writer of the cells between pos and end,   *)
(* and keeps one of them for the terminator once more.  A writer that is   *)
(* full must not be moved (its constructor asserts dest < dest_end), and   *)
(* one that is bad is not moved here: it would be good again, with the     *)
(* garbage buffer for its array.                                           *)
Move ==
  /\ pc = "idle" /\ good /\ pos < end
  /\ moves < MaxMoves
  /\ moves' = moves + 1
  /\ end' = end - 1
  /\ it' = NoCell
  /\ UNCHANGED <<mem, pos, good, results, client>>

Client == (Start \/ Continue) /\ UNCHANGED cstr

Next == Client \/ Recycle \/ Finish \/ Move

Spec == Init /\ [][Next]_vars

-----------------------------------------------------------------------------
(* While good the window lies in the array, before the cell kept for the   *)
(* terminator; afterwards it is the garbage buffer.  Nothing else is ever  *)
(* written to.                                                             *)
WindowInMemory ==
  /\ WindowRespected
  /\ IF good THEN end = Capacity - 1 - moves
             ELSE Garbage <= pos /\ end = Garbage + MinSize

(* finish() leaves a C string: its characters are the first ones asked     *)
(* for, in order, the NUL follows them inside the array, and nothing that  *)
(* is printed later changes it.                                            *)
Terminated ==
  results # <<>> =>
    LET ptr == results[1].ptr IN
    /\ ptr \in DOMAIN mem /\ mem[ptr] = NUL
    /\ \A c \in 0 .. ptr - 1 : mem[c] = c + 1
    /\ \A i \in DOMAIN results : results[i].ptr = ptr

(* The first finish() says truncated exactly when a character was lost ... *)
TruncatedMeansLoss ==
  results # <<>> =>
    (results[1].truncated <=> results[1].ptr # results[1].asked)

(* ... and then less than one ensured piece of the array stayed unused,    *)
(* besides a cell for each time the writer was moved.                      *)
TruncatedLate ==
  results # <<>> =>
    (results[1].truncated => results[1].ptr + MinSize > Capacity - 1 - moves)

(* The destination as its user sees it: the array, once its end is known.  *)
Received == IF good THEN <<>> ELSE [i \in 1 .. it |-> mem[i - 1]]
Success ==
  IF results = <<>> THEN "none"
  ELSE IF results[Len(results)].truncated THEN "no" ELSE "yes"

Sink == INSTANCE OrderedSink WITH received <- Received, open <- good, success <- Success

(* Nothing reaches the array after recycle() or finish(), and finish()     *)
(* denies truncation only for complete output.                             *)
DeliversInOrder == Sink!Spec
=============================================================================
