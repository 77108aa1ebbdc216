------------------------------- MODULE Outbuf -------------------------------
(***************************************************************************)
(* The output buffer of strf (include/strf/outbuf.hpp) and the loops that  *)
(* write through it.                                                       *)
(*                                                                         *)
(* An outbuf is a window [pos, end) into some memory, a flag good, and a   *)
(* virtual function recycle() that a destination class overrides.  Every   *)
(* printer of the library puts its characters with one of the six loops    *)
(* below.  The loops are modelled here once; each destination module       *)
(* EXTENDS this one and defines Recycle and Finish.                        *)
(*                                                                         *)
(* A character is identified by its place in the logical output: the n-th  *)
(* character the client asks for is the number n, and 0 is a cell that     *)
(* holds no output (or the terminating NUL), so a lost, repeated or        *)
(* misplaced character shows in what a destination receives.               *)
(*                                                                         *)
(* A call of recycle() is a handover: the loop sets pc to "recycle" and    *)
(* ret to the place it resumes at, the destination's Recycle returns there.*)
(***************************************************************************)
EXTENDS Naturals

CONSTANTS
  MinSize,   (* min_size_after_recycle(): 64 in the code                   *)
  MaxUnit,   (* the largest code point, in code units: 4 in the code       *)
  MaxChars   (* bound: how many characters one behaviour asks for          *)

ASSUME OutbufAssumption ==
  /\ MinSize \in Nat
  /\ MaxUnit \in 1 .. MinSize
  /\ MaxChars \in Nat

VARIABLES
  mem,       (* the memory of the destination: cell -> character           *)
  pos, end,  (* _pos and _end                                              *)
  good,      (* _good                                                      *)
  asked,     (* how many characters the client has asked for               *)
  pc, ret,   (* where the client is, and where recycle() returns to        *)
  todo,      (* characters the current loop still has to place             *)
  unit,      (* N, the code units of the character repeat_sequence repeats *)
  dit, dend  (* dest_it and dest_end, a transcoder's copies of pos and end *)

outbuf == <<mem, pos, end, good>>
client == <<asked, pc, ret, todo, unit, dit, dend>>

Loops == {"write", "put", "fill", "repeat", "direct", "emit"}

(* ob.size()                                                               *)
Size == end - pos

(* The first k numbers: the logical output up to its k-th character.       *)
Prefix(k) == [i \in 1 .. k |-> i]

ClientInit ==
  /\ asked = 0 /\ todo = 0 /\ unit = 1
  /\ pc = "idle" /\ ret = "idle"
  /\ dit = 0 /\ dend = 0

-----------------------------------------------------------------------------
(* Steps the loops are made of.                                            *)

(* Store k characters, the first of them the one numbered first, at cell a.*)
(* Cells outside DOMAIN mem belong to the shared garbage buffer, whose     *)
(* content nobody reads.                                                   *)
Store(a, k, first) ==
  mem' = [c \in DOMAIN mem |-> IF a <= c /\ c < a + k THEN first + (c - a)
                                                      ELSE mem[c]]

(* Put the next k characters at pos and advance over them.                 *)
Place(k, first) == Store(pos, k, first) /\ pos' = pos + k

CallRecycle(back) == pc' = "recycle" /\ ret' = back

Return == pc' = "idle" /\ todo' = 0 /\ UNCHANGED ret

(* A mutant: the pointer into the source is one too far after a recycle(). *)
NextCharSkipping == asked - todo + 2

(* The number of the next character of the loop that is running.           *)
NextChar == asked - todo + 1

(* An operation of n characters starts.                                    *)
Ask(n) ==
  /\ pc = "idle"
  /\ asked + n <= MaxChars
  /\ asked' = asked + n

-----------------------------------------------------------------------------
(* outbuf_write: copy n characters; when they do not fit, fill the window  *)
(* and continue after recycle() for as long as the outbuf is good.         *)
Write(n) ==
  /\ Ask(n)
  /\ \/ /\ pos + n <= end
        /\ Place(n, asked + 1)
        /\ UNCHANGED <<pc, ret, todo>>
     \/ /\ pos + n > end
        /\ Place(Size, asked + 1)
        /\ \/ good /\ todo' = n - Size /\ CallRecycle("write")
           \/ ~good /\ Return
  /\ UNCHANGED <<end, good, unit, dit, dend>>

WriteContinue ==
  /\ pc = "write"
  /\ \/ /\ todo <= Size
        /\ Place(todo, NextChar)
        /\ Return
     \/ /\ todo > Size
        /\ Place(Size, NextChar)
        /\ \/ good /\ todo' = todo - Size /\ CallRecycle("write")
           \/ ~good /\ Return
  /\ UNCHANGED <<end, good, asked, unit, dit, dend>>

(* outbuf_put: one character; after recycle() it is stored even when the   *)
(* outbuf has become bad.                                                  *)
Put ==
  /\ Ask(1)
  /\ \/ pos # end /\ Place(1, asked + 1) /\ UNCHANGED <<pc, ret, todo>>
     \/ pos = end /\ todo' = 1 /\ CallRecycle("put") /\ UNCHANGED <<mem, pos>>
  /\ UNCHANGED <<end, good, unit, dit, dend>>

PutContinue ==
  /\ pc = "put"
  /\ Place(1, NextChar)
  /\ Return
  /\ UNCHANGED <<end, good, asked, unit, dit, dend>>

(* A mutant of the next definition: the rest of the window is not used.    *)
FillNextWindow(n) ==
  /\ Ask(n)
  /\ \/ n <= Size /\ Place(n, asked + 1) /\ UNCHANGED <<pc, ret, todo>>
     \/ n > Size /\ todo' = n /\ CallRecycle("fill") /\ UNCHANGED <<mem, pos>>
  /\ UNCHANGED <<end, good, unit, dit, dend>>

(* write_fill: n copies of one character; recycle() first, then look at    *)
(* good.                                                                   *)
Fill(n) ==
  /\ Ask(n)
  /\ \/ n <= Size /\ Place(n, asked + 1) /\ UNCHANGED <<pc, ret, todo>>
     \/ /\ n > Size
        /\ Place(Size, asked + 1)
        /\ todo' = n - Size
        /\ CallRecycle("fill")
  /\ UNCHANGED <<end, good, unit, dit, dend>>

FillContinue ==
  /\ pc = "fill"
  /\ \/ ~good /\ Return /\ UNCHANGED <<mem, pos>>
     \/ good /\ todo <= Size /\ Place(todo, NextChar) /\ Return
     \/ /\ good /\ todo > Size
        /\ Place(Size, NextChar)
        /\ todo' = todo - Size
        /\ CallRecycle("fill")
  /\ UNCHANGED <<end, good, asked, unit, dit, dend>>

(* repeat_sequence: count copies of a character of u code units, never     *)
(* splitting one; it does not look at good.                                *)
(* A mutant: the division rounds up.                                       *)
WholeRoundedUp(u) == ((Size + u - 1) \div u) * u

Whole(u) == (Size \div u) * u

Repeat(copies, u) ==
  /\ Ask(copies * u)
  /\ unit' = u
  /\ \/ copies * u <= Size /\ Place(copies * u, asked + 1) /\ UNCHANGED <<pc, ret, todo>>
     \/ /\ copies * u > Size
        /\ Place(Whole(u), asked + 1)
        /\ todo' = copies * u - Whole(u)
        /\ CallRecycle("repeat")
  /\ UNCHANGED <<end, good, dit, dend>>

RepeatContinue ==
  /\ pc = "repeat"
  /\ \/ todo <= Whole(unit) /\ Place(todo, NextChar) /\ Return
     \/ /\ todo > Whole(unit)
        /\ Place(Whole(unit), NextChar)
        /\ todo' = todo - Whole(unit)
        /\ CallRecycle("repeat")
  /\ UNCHANGED <<end, good, asked, unit, dit, dend>>

(* ensure(n) and then n characters stored directly, as the integer         *)
(* printers do: the stores do not look at good.                            *)
Direct(n) ==
  /\ Ask(n)
  /\ \/ pos + n <= end /\ Place(n, asked + 1) /\ UNCHANGED <<pc, ret, todo>>
     \/ pos + n > end /\ todo' = n /\ CallRecycle("direct") /\ UNCHANGED <<mem, pos>>
  /\ UNCHANGED <<end, good, unit, dit, dend>>

DirectContinue ==
  /\ pc = "direct"
  /\ Place(todo, NextChar)
  /\ Return
  /\ UNCHANGED <<end, good, asked, unit, dit, dend>>

(* A transcoder copies pos and end to dest_it and dest_end, emits          *)
(* characters of n code units through the copies, and gives dest_it back   *)
(* with advance_to: at its end, before it throws, and before recycle()     *)
(* (STRF_CHECK_DEST_SIZE), after which it stops when the outbuf is bad.    *)
Transcode ==
  /\ pc = "idle"
  /\ asked < MaxChars
  /\ dit' = pos /\ dend' = end
  /\ pc' = "transcode"
  /\ UNCHANGED <<outbuf, asked, ret, todo, unit>>

Emit(n) ==
  /\ pc = "transcode"
  /\ asked + n <= MaxChars
  /\ asked' = asked + n
  /\ \/ /\ dit + n <= dend
        /\ Store(dit, n, asked + 1)
        /\ dit' = dit + n
        /\ UNCHANGED <<pos, pc, ret, todo, dend>>
     \/ /\ dit + n > dend
        /\ pos' = dit
        /\ todo' = n
        /\ CallRecycle("emit")
        /\ UNCHANGED <<mem, dit, dend>>
  /\ UNCHANGED <<end, good, unit>>

(* A mutant: dest_it and dest_end are not read again after recycle().      *)
EmitContinueStale ==
  /\ pc = "emit"
  /\ \/ ~good /\ Return /\ UNCHANGED <<mem, dit>>
     \/ /\ good
        /\ Store(dit, todo, NextChar)
        /\ dit' = dit + todo
        /\ todo' = 0
        /\ pc' = "transcode"
        /\ UNCHANGED ret
  /\ UNCHANGED <<pos, end, good, asked, unit, dend>>

EmitContinue ==
  /\ pc = "emit"
  /\ \/ ~good /\ Return /\ UNCHANGED <<mem, dit, dend>>
     \/ /\ good
        /\ Store(pos, todo, NextChar)
        /\ dit' = pos + todo
        /\ dend' = end
        /\ todo' = 0
        /\ pc' = "transcode"
        /\ UNCHANGED ret
  /\ UNCHANGED <<pos, end, good, asked, unit>>

(* A mutant: advance_to(dest_it) is forgotten.                             *)
EndTranscodeForgetting ==
  /\ pc = "transcode"
  /\ pc' = "idle"
  /\ UNCHANGED <<outbuf, asked, ret, todo, unit, dit, dend>>

EndTranscode ==
  /\ pc = "transcode"
  /\ pos' = dit
  /\ pc' = "idle"
  /\ UNCHANGED <<mem, end, good, asked, ret, todo, unit, dit, dend>>

-----------------------------------------------------------------------------
(* A client starts any operation when it is idle ...                       *)
Start ==
  \/ \E n \in 0 .. MaxChars : Write(n) \/ Fill(n)
  \/ Put
  \/ \E u \in 2 .. MaxUnit : \E copies \in 0 .. MaxChars : Repeat(copies, u)
  \/ \E n \in 1 .. MinSize : Direct(n)
  \/ Transcode

(* ... and carries the one it started through.                             *)
Continue ==
  \/ WriteContinue
  \/ PutContinue
  \/ FillContinue
  \/ RepeatContinue
  \/ DirectContinue
  \/ \E n \in 1 .. MaxUnit : Emit(n)
  \/ EmitContinue
  \/ EndTranscode

(* recycle() returns to the loop that called it; an exception it throws    *)
(* leaves the loop.                                                        *)
RecycleReturns == pc' = ret /\ UNCHANGED <<asked, ret, todo, unit, dit, dend>>
RecycleThrows == Return /\ UNCHANGED <<asked, unit, dit, dend>>

-----------------------------------------------------------------------------
ClientTypeOK ==
  /\ pos \in Nat /\ end \in Nat /\ good \in BOOLEAN
  /\ asked \in 0 .. MaxChars /\ todo \in 0 .. MaxChars
  /\ unit \in 1 .. MaxUnit
  /\ dit \in Nat /\ dend \in Nat
  /\ pc \in {"idle", "recycle", "transcode"} \cup Loops
  /\ ret \in {"idle"} \cup Loops

(* Where the characters end that have been put into the window: while a    *)
(* transcoder runs, its dest_it is ahead of pos.                           *)
Mark == IF pc = "transcode" THEN dit ELSE pos

(* What the loops leave behind for each other: nothing to place outside a  *)
(* loop, and no more than one ensured piece when a loop recycles for one.  *)
LoopState ==
  /\ pc \in {"idle", "transcode"} => todo = 0
  /\ pc = "recycle" => ret \in Loops
  /\ pc = "recycle" /\ ret \in {"put", "direct", "emit"} => todo <= MinSize
  /\ pc = "put" \/ (pc = "recycle" /\ ret = "put") => todo = 1
  /\ todo <= asked

(* The assertions of advance, advance_to and require (outbuf.hpp:73-93) and*)
(* the documented postcondition of recycle(): no loop steps over the end   *)
(* of its window, whatever mix of loops and failures preceded it, and a    *)
(* loop that recycled finds min_size_after_recycle() cells.                *)
WindowRespected ==
  /\ pos <= end
  /\ pc = "transcode" => pos <= dit /\ dit <= end /\ dend = end
  /\ pc \in Loops => Size >= MinSize
  /\ pc \in {"put", "direct", "emit"} => pos + todo <= end
=============================================================================
