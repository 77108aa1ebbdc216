-------------------------- MODULE CstrWriter_proofs --------------------------
(***************************************************************************)
(* basic_cstr_writer ends its string in place, keeps it, and tells exactly *)
(* whether it was truncated, for every size of the array and of the        *)
(* garbage buffer, every width of a code point, and any number of          *)
(* characters, of moves and of calls of finish().                          *)
(***************************************************************************)
EXTENDS CstrWriter, Outbuf_proofs, SequenceTheorems

(* The array holds the characters asked for, in order, as far as they were *)
(* put there: while good, all of them but those the running loop holds;    *)
(* afterwards, those before the place the terminator is for.               *)
InPlace ==
  /\ good => /\ Mark + todo = asked
             /\ \A c \in 0 .. Mark - 1 : mem[c] = c + 1
  /\ ~good => /\ it \in 0 .. Capacity - 1 /\ it <= asked
              /\ \A c \in 0 .. it - 1 : mem[c] = c + 1

(* A writer that is bad before finish() has lost a character, for want of  *)
(* room.                                                                   *)
LostLate == ~good /\ results = <<>> => it < asked /\ it + MinSize > Capacity - 1 - moves

(* What the results say, and the terminator.                               *)
ResultsTrue ==
  results # <<>> =>
    /\ ~good
    /\ mem[it] = NUL
    /\ \A i \in DOMAIN results : results[i].ptr = it
    /\ results[1].truncated <=> it # results[1].asked
    /\ results[1].truncated => it + MinSize > Capacity - 1 - moves

ResultSet == [ptr: 0 .. Capacity - 1, truncated: BOOLEAN, asked: 0 .. MaxChars]

TypeOK ==
  /\ mem \in [0 .. Capacity - 1 -> 0 .. MaxChars + 1]
  /\ ClientTypeOK
  /\ it \in Nat /\ moves \in Nat
  /\ results \in Seq(ResultSet)

(* The inductive invariant.                                                *)
IInv ==
  /\ TypeOK
  /\ LoopState
  /\ RecycleState
  /\ WindowInMemory
  /\ InPlace
  /\ LostLate
  /\ ResultsTrue

(* Storing the characters that come next, inside the array ...             *)
LEMMA StoreInside ==
  ASSUME CstrAssumption, NEW a \in Nat, NEW k \in Nat,
         mem \in [0 .. Capacity - 1 -> 0 .. MaxChars + 1],
         a + k <= Capacity - 1, a + k <= MaxChars,
         \A c \in 0 .. a - 1 : mem[c] = c + 1,
         Store(a, k, a + 1)
  PROVE  /\ mem' \in [0 .. Capacity - 1 -> 0 .. MaxChars + 1]
         /\ \A c \in 0 .. a + k - 1 : mem'[c] = c + 1
<1>. USE OutbufAssumption DEF CstrAssumption
<1>1. mem' = [c \in 0 .. Capacity - 1 |->
                IF a <= c /\ c < a + k THEN (a + 1) + (c - a) ELSE mem[c]]
  BY DEF Store
<1>2. ASSUME NEW c \in 0 .. Capacity - 1, a <= c, c < a + k
      PROVE  (a + 1) + (c - a) \in 0 .. MaxChars + 1
  BY <1>2
<1>3. mem' \in [0 .. Capacity - 1 -> 0 .. MaxChars + 1]
  BY <1>1, <1>2
<1>4. ASSUME NEW c \in 0 .. a + k - 1 PROVE mem'[c] = c + 1
  <2>1. c \in 0 .. Capacity - 1
    BY <1>4
  <2>2. CASE c < a
    BY <1>1, <2>1, <2>2
  <2>3. CASE a <= c
    BY <1>1, <1>4, <2>1, <2>3
  <2>. QED BY <2>2, <2>3
<1>. QED BY <1>3, <1>4

(* ... and storing anything in the garbage buffer, which changes nothing   *)
(* in the array.                                                           *)
LEMMA StoreOutside ==
  ASSUME CstrAssumption, NEW a \in Nat, NEW k \in Nat, NEW first \in Nat,
         mem \in [0 .. Capacity - 1 -> 0 .. MaxChars + 1],
         a >= Garbage, Store(a, k, first)
  PROVE  mem' = mem
<1>. USE DEF CstrAssumption, Garbage
<1>1. mem' = [c \in 0 .. Capacity - 1 |->
                IF a <= c /\ c < a + k THEN first + (c - a) ELSE mem[c]]
  BY DEF Store
<1>2. \A c \in 0 .. Capacity - 1 : ~(a <= c)
  OBVIOUS
<1>. QED BY <1>1, <1>2

LEMMA InvFacts ==
  ASSUME CstrAssumption, IInv
  PROVE  /\ ClientInv
         /\ Mark \in Nat /\ Mark <= end /\ pos <= Mark
         /\ asked \in Nat /\ asked <= MaxChars /\ todo \in Nat
         /\ asked - todo + 1 \in Nat
         /\ good => end <= Capacity - 1
         /\ ~good => Mark >= Garbage
  BY OutbufAssumption
     DEF IInv, TypeOK, ClientTypeOK, WindowInMemory, WindowRespected, ClientInv,
         LoopState, Mark, CstrAssumption, Garbage

(* Every step of the client preserves the invariant.                       *)
LEMMA ClientKeepsInv == ASSUME CstrAssumption, IInv, Client PROVE IInv'
<1>. USE OutbufAssumption DEF CstrAssumption
<1>1. /\ ClientInv /\ Mark \in Nat /\ Mark <= end /\ pos <= Mark
      /\ asked \in Nat /\ todo \in Nat /\ NextChar \in Nat
      /\ good => end <= Capacity - 1
      /\ ~good => Mark >= Garbage
  BY InvFacts DEF NextChar
<1>2. /\ ClientInv' /\ UNCHANGED <<end, good>> /\ asked <= asked'
      /\ \E k \in Nat : Placed(k)
  BY <1>1, ClientStep DEF Client
<1>3. RecycleState' /\ pos <= pos'
  BY <1>1, RecyclesLate DEF Client
<1>4. UNCHANGED <<it, results, moves>>
  BY DEF Client, cstr
<1>5. PICK k \in Nat : Placed(k)
  BY <1>2
<1>6. /\ Mark' = Mark + k /\ Mark + k <= end
      /\ Store(Mark, k, NextChar) \/ (k = 0 /\ UNCHANGED mem)
      /\ NextChar + k <= asked' + 1
      /\ good => asked' + todo = asked + todo' + k
  BY <1>5, Zenon DEF Placed
<1>7. asked' \in Nat /\ todo' \in Nat /\ asked' <= MaxChars
  BY <1>2 DEF ClientInv, ClientTypeOK
<1>8. mem \in [0 .. Capacity - 1 -> 0 .. MaxChars + 1]
  BY DEF IInv, TypeOK
<1>9. CASE good
  <2>1. Mark + todo = asked /\ \A c \in 0 .. Mark - 1 : mem[c] = c + 1
    BY <1>9 DEF IInv, InPlace
  <2>0. asked' + todo = asked + todo' + k /\ end <= Capacity - 1
    BY <1>1, <1>6, <1>9, Zenon
  <2>2. NextChar = Mark + 1 /\ Mark + k <= MaxChars /\ Mark + k <= Capacity - 1
    <3>1. NextChar = Mark + 1
      BY <1>1, <2>1 DEF NextChar
    <3>2. end \in Nat /\ Mark + k <= end
      BY <1>1, <1>6 DEF ClientInv, ClientTypeOK
    <3>. QED BY <1>1, <1>7, <2>0, <2>1, <3>1, <3>2
  <2>3. /\ mem' \in [0 .. Capacity - 1 -> 0 .. MaxChars + 1]
        /\ \A c \in 0 .. Mark + k - 1 : mem'[c] = c + 1
    <3>1. CASE Store(Mark, k, NextChar)
      <4>1. Store(Mark, k, Mark + 1)
        BY <2>2, <3>1
      <4>. QED BY <1>1, <1>8, <2>1, <2>2, <4>1, StoreInside
    <3>2. CASE k = 0 /\ UNCHANGED mem
      BY <1>1, <1>8, <2>1, <3>2
    <3>. QED BY <1>6, <3>1, <3>2
  <2>4. Mark' + todo' = asked'
    <3>1. Mark' = Mark + k
      BY <1>6
    <3>2. asked' + todo = asked + todo' + k /\ Mark + todo = asked
      BY <2>0, <2>1
    <3>3. Mark \in Nat /\ asked \in Nat /\ todo \in Nat
      BY <1>1
    <3>4. \A t, a \in Nat : a + todo = asked + t + k => (Mark + k) + t = a
      BY <3>2, <3>3
    <3>5. (Mark + k) + todo' = asked'
      BY <1>7, <3>2, <3>4
    <3>. QED BY <3>1, <3>5, Zenon
  <2>5. good' /\ InPlace'
    <3>1. \A c \in 0 .. Mark' - 1 : mem'[c] = c + 1
      <4>1. Mark' - 1 = Mark + k - 1
        BY <1>1, <1>6
      <4>. QED BY <2>3, <4>1
    <3>2. good'
      BY <1>2, <1>9, Zenon
    <3>. QED BY <2>4, <3>1, <3>2, Zenon DEF InPlace
  <2>6. TypeOK'
    BY <1>2, <1>4, <2>3 DEF IInv, TypeOK, ClientInv
  <2>7. LoopState' /\ WindowInMemory'
    <3>1. good' /\ end' = Capacity - 1 - moves'
      BY <1>2, <1>4, <1>9 DEF IInv, WindowInMemory
    <3>. QED BY <1>2, <3>1 DEF WindowInMemory, ClientInv
  <2>8. LostLate' /\ ResultsTrue'
    BY <1>4, <1>9, <2>5 DEF IInv, LostLate, ResultsTrue
  <2>. QED BY <1>3, <2>5, <2>6, <2>7, <2>8 DEF IInv
<1>10. CASE ~good
  <2>1. mem' = mem
    BY <1>1, <1>6, <1>8, <1>10, StoreOutside
  <2>2. TypeOK'
    BY <1>2, <1>4, <1>8, <2>1 DEF IInv, TypeOK, ClientInv
  <2>3. LoopState' /\ WindowInMemory'
    <3>1. Garbage <= pos /\ end = Garbage + MinSize /\ pos \in Nat /\ pos' \in Nat
      BY <1>1, <1>2, <1>10 DEF IInv, WindowInMemory, ClientInv, ClientTypeOK
    <3>2. Garbage <= pos'
      BY <1>3, <3>1 DEF Garbage
    <3>. QED BY <1>2, <1>4, <1>10, <3>1, <3>2 DEF WindowInMemory, ClientInv, Garbage
  <2>4. InPlace'
    BY <1>1, <1>2, <1>4, <1>7, <1>10, <2>1 DEF IInv, InPlace
  <2>5. LostLate'
    <3>1. it \in Nat /\ it <= asked
      BY <1>10 DEF IInv, InPlace
    <3>. QED BY <1>1, <1>2, <1>4, <1>7, <1>10, <3>1 DEF IInv, LostLate
  <2>6. ResultsTrue'
    BY <1>2, <1>4, <1>10, <2>1 DEF IInv, ResultsTrue
  <2>. QED BY <1>3, <2>2, <2>3, <2>4, <2>5, <2>6 DEF IInv
<1>. QED BY <1>9, <1>10

(* recycle(): what the array holds up to pos is now what it holds for      *)
(* good, and it is shorter than what was asked for.                        *)
LEMMA RecycleKeepsInv == ASSUME CstrAssumption, IInv, Recycle PROVE IInv'
<1>. USE OutbufAssumption DEF CstrAssumption
<1>1. /\ ClientInv /\ Mark = pos /\ pos \in Nat /\ pos <= end /\ ret \in Loops
      /\ asked \in Nat /\ todo \in Nat /\ asked <= MaxChars
      /\ pos + MinSize > end /\ todo > 0 /\ pc = "recycle"
  BY InvFacts DEF IInv, Recycle, LoopState, RecycleState, Mark
<1>2. /\ it' = OutputEnd /\ good' = FALSE
      /\ end' = (IF good THEN Garbage + MinSize ELSE end)
      /\ pos' = Garbage
      /\ pc' = ret
      /\ UNCHANGED <<mem, results, moves, asked, ret, todo, unit, dit, dend>>
  BY DEF Recycle, RecycleReturns, ToGarbage
<1>3. end' = Garbage + MinSize
  BY <1>2 DEF IInv, WindowInMemory
<1>4. TypeOK' /\ LoopState' /\ WindowInMemory' /\ RecycleState'
  <2>1. it' \in Nat
    BY <1>1, <1>2 DEF OutputEnd, IInv, TypeOK
  <2>2. ClientTypeOK'
    <3>1. pos' \in Nat /\ end' \in Nat /\ good' \in BOOLEAN /\ pc' \in Loops
      <4>1. pos' \in Nat /\ end' \in Nat
        BY <1>2, <1>3 DEF Garbage
      <4>. QED BY <1>1, <1>2, <4>1
    <3>2. ClientTypeOK
      BY <1>1 DEF ClientInv
    <3>. QED BY <1>2, <3>1, <3>2 DEF ClientTypeOK
  <2>3. TypeOK'
    BY <1>2, <2>1, <2>2 DEF IInv, TypeOK
  <2>4. LoopState' /\ RecycleState'
    BY <1>1, <1>2 DEF ClientInv, LoopState, RecycleState, Loops
  <2>5. WindowInMemory'
    BY <1>1, <1>2, <1>3
       DEF WindowInMemory, WindowRespected, ClientInv, ClientTypeOK, LoopState, Loops, Size, Garbage
  <2>. QED BY <2>3, <2>4, <2>5
<1>5. CASE good
  <2>1. /\ it' = pos /\ pos < asked /\ end = Capacity - 1 - moves /\ moves \in Nat
        /\ \A c \in 0 .. pos - 1 : mem[c] = c + 1
    BY <1>1, <1>2, <1>5 DEF OutputEnd, IInv, InPlace, WindowInMemory, TypeOK
  <2>2. InPlace'
    BY <1>1, <1>2, <2>1 DEF InPlace
  <2>3. LostLate'
    BY <1>1, <1>2, <2>1 DEF LostLate
  <2>4. ResultsTrue'
    BY <1>2, <1>5 DEF IInv, ResultsTrue
  <2>. QED BY <1>4, <2>2, <2>3, <2>4 DEF IInv
<1>6. CASE ~good
  <2>1. it' = it
    BY <1>2, <1>6 DEF OutputEnd
  <2>2. InPlace' /\ LostLate' /\ ResultsTrue'
    BY <1>2, <1>6, <2>1 DEF IInv, InPlace, LostLate, ResultsTrue
  <2>. QED BY <1>4, <2>2 DEF IInv
<1>. QED BY <1>5, <1>6

(* finish() writes the terminator at the end of what is in place.          *)
LEMMA FinishKeepsInv == ASSUME CstrAssumption, IInv, Finish PROVE IInv'
<1>. USE OutbufAssumption DEF CstrAssumption
<1>. DEFINE r == [ptr |-> it', truncated |-> ~good, asked |-> asked]
<1>1. /\ ClientInv /\ Mark = pos /\ pos \in Nat /\ pos <= end /\ pc = "idle" /\ todo = 0
      /\ asked \in Nat /\ asked <= MaxChars /\ moves \in Nat
      /\ results \in Seq(ResultSet)
      /\ mem \in [0 .. Capacity - 1 -> 0 .. MaxChars + 1]
  BY InvFacts DEF IInv, TypeOK, Finish, LoopState, Mark
<1>2. /\ it' = OutputEnd /\ good' = FALSE /\ pos' = Garbage /\ end' = Garbage + MinSize
      /\ mem' = [mem EXCEPT ![it'] = NUL]
      /\ results' = Append(results, r)
      /\ UNCHANGED <<moves, asked, pc, ret, todo, unit, dit, dend>>
  BY DEF Finish, ToGarbage, client
<1>3. /\ it' \in 0 .. Capacity - 1 /\ it' <= asked
      /\ \A c \in 0 .. it' - 1 : mem[c] = c + 1
  <2>1. CASE good
    <3>1. pos + todo = asked /\ \A c \in 0 .. pos - 1 : mem[c] = c + 1
      BY <1>1, <2>1 DEF IInv, InPlace
    <3>2. it' = pos /\ end = Capacity - 1 - moves
      BY <1>2, <2>1 DEF OutputEnd, IInv, WindowInMemory
    <3>. QED BY <1>1, <3>1, <3>2
  <2>2. CASE ~good
    <3>1. it' = it
      BY <1>2, <2>2 DEF OutputEnd
    <3>. QED BY <2>2, <3>1 DEF IInv, InPlace
  <2>. QED BY <2>1, <2>2
<1>4. r \in ResultSet
  BY <1>1, <1>3 DEF ResultSet
<1>5. /\ results' \in Seq(ResultSet) /\ results' # <<>>
      /\ DOMAIN results' = 1 .. Len(results) + 1
      /\ \A i \in 1 .. Len(results) : results'[i] = results[i]
      /\ results'[Len(results) + 1] = r
  <2>. HIDE DEF r
  <2>. QED BY <1>1, <1>2, <1>4, AppendProperties
<1>6. mem' \in [0 .. Capacity - 1 -> 0 .. MaxChars + 1] /\ mem'[it'] = NUL
  BY <1>1, <1>2, <1>3 DEF NUL
<1>7. \A c \in 0 .. it' - 1 : mem'[c] = c + 1
  <2>1. it' \in Nat /\ it' <= Capacity - 1
    BY <1>3
  <2>2. ASSUME NEW c \in 0 .. it' - 1 PROVE mem'[c] = c + 1
    <3>0. \A p \in Nat : \A d \in 0 .. p - 1 :
            p <= Capacity - 1 => d \in 0 .. Capacity - 1 /\ d # p
      OBVIOUS
    <3>1. c \in 0 .. Capacity - 1 /\ c # it'
      BY <2>1, <3>0, Zenon
    <3>2. mem'[c] = mem[c]
      BY <1>1, <1>2, <3>1, Zenon
    <3>3. mem[c] = c + 1
      BY <1>3
    <3>. QED BY <3>2, <3>3, Zenon
  <2>. QED BY <2>2
<1>8. TypeOK' /\ LoopState' /\ RecycleState' /\ WindowInMemory'
  <2>1. pos' \in Nat /\ end' \in Nat /\ Garbage \in Nat
    BY <1>2 DEF Garbage
  <2>2. ClientTypeOK /\ LoopState
    BY <1>1 DEF ClientInv
  <2>3. ClientTypeOK'
    BY <1>2, <2>1, <2>2 DEF ClientTypeOK
  <2>4. TypeOK'
    BY <1>1, <1>2, <1>3, <1>5, <1>6, <2>3 DEF TypeOK
  <2>5. LoopState' /\ RecycleState'
    BY <1>1, <1>2, <2>2 DEF LoopState, RecycleState
  <2>6. WindowInMemory'
    BY <1>1, <1>2, <2>1 DEF WindowInMemory, WindowRespected, Loops
  <2>. QED BY <2>4, <2>5, <2>6
<1>9. InPlace'
  BY <1>2, <1>3, <1>7 DEF InPlace
<1>10. LostLate'
  BY <1>5 DEF LostLate
<1>11. ResultsTrue'
  <2>1. CASE results = <<>>
    <3>1. Len(results) = 0 /\ results'[1] = r /\ DOMAIN results' = {1}
      BY <1>5, <2>1
    <3>2. r.ptr = it' /\ r.asked = asked /\ (r.truncated <=> ~good)
      OBVIOUS
    <3>3. CASE good
      <4>1. pos + todo = asked
        BY <1>1, <3>3 DEF IInv, InPlace
      <4>2. it' = asked
        BY <1>1, <1>2, <3>3, <4>1 DEF OutputEnd
      <4>. QED BY <1>2, <1>6, <3>1, <3>2, <3>3, <4>2 DEF ResultsTrue
    <3>4. CASE ~good
      <4>1. it' = it /\ it < asked /\ it + MinSize > Capacity - 1 - moves /\ it \in Nat
        BY <1>2, <2>1, <3>4 DEF OutputEnd, IInv, LostLate, InPlace
      <4>2. it' # asked /\ it' + MinSize > Capacity - 1 - moves'
        BY <1>1, <1>2, <4>1
      <4>. QED BY <1>2, <1>6, <3>1, <3>2, <3>4, <4>2 DEF ResultsTrue
    <3>. QED BY <3>3, <3>4
  <2>2. CASE results # <<>>
    <3>1. /\ ~good /\ it' = it
          /\ \A i \in DOMAIN results : results[i].ptr = it
          /\ results[1].truncated <=> it # results[1].asked
          /\ results[1].truncated => it + MinSize > Capacity - 1 - moves
      BY <1>2, <2>2 DEF IInv, ResultsTrue, OutputEnd
    <3>2. Len(results) \in Nat \ {0} /\ DOMAIN results = 1 .. Len(results)
      BY <1>1, <2>2
    <3>3. results'[1] = results[1]
      BY <1>5, <3>2
    <3>4. r.ptr = it
      BY <3>1
    <3>5. \A i \in DOMAIN results' : results'[i].ptr = it'
      <4>1. TAKE i \in DOMAIN results'
      <4>2. CASE i \in 1 .. Len(results)
        BY <1>5, <3>1, <3>2, <4>2
      <4>3. CASE i = Len(results) + 1
        BY <1>5, <3>1, <3>4, <4>3
      <4>. QED BY <1>5, <3>2, <4>1, <4>2, <4>3
    <3>. QED BY <1>2, <1>6, <3>1, <3>3, <3>5 DEF ResultsTrue
  <2>. QED BY <2>1, <2>2
<1>. QED BY <1>8, <1>9, <1>10, <1>11 DEF IInv

(* A move takes one cell away from a window that has one.                  *)
LEMMA MoveKeepsInv == ASSUME CstrAssumption, IInv, Move PROVE IInv'
<1>. USE OutbufAssumption DEF CstrAssumption
<1>1. /\ ClientInv /\ pos \in Nat /\ end \in Nat /\ pos < end /\ pc = "idle" /\ good
      /\ moves \in Nat /\ end = Capacity - 1 - moves /\ results = <<>>
  BY InvFacts DEF IInv, TypeOK, Move, ClientInv, ClientTypeOK, WindowInMemory, ResultsTrue
<1>2. /\ moves' = moves + 1 /\ end' = end - 1 /\ it' = NoCell
      /\ UNCHANGED <<mem, pos, good, results, asked, pc, ret, todo, unit, dit, dend>>
  BY DEF Move, client
<1>3. end' \in Nat /\ pos' <= end' /\ end' = Capacity - 1 - moves' /\ it' \in Nat /\ moves' \in Nat
  BY <1>1, <1>2 DEF NoCell
<1>4. TypeOK' /\ LoopState' /\ RecycleState'
  <2>1. ClientTypeOK'
    BY <1>1, <1>2, <1>3 DEF ClientInv, ClientTypeOK
  <2>2. TypeOK'
    BY <1>2, <1>3, <2>1 DEF IInv, TypeOK
  <2>. QED BY <1>1, <1>2, <2>2 DEF ClientInv, LoopState, RecycleState
<1>5. WindowInMemory'
  BY <1>1, <1>2, <1>3 DEF WindowInMemory, WindowRespected, Loops
<1>6. InPlace' /\ LostLate' /\ ResultsTrue'
  BY <1>1, <1>2 DEF IInv, InPlace, LostLate, ResultsTrue, Mark
<1>. QED BY <1>4, <1>5, <1>6 DEF IInv

LEMMA InitInv == ASSUME CstrAssumption PROVE Init => IInv
<1>. SUFFICES ASSUME Init PROVE IInv
  OBVIOUS
<1>. USE OutbufAssumption DEF CstrAssumption
<1>1. Unwritten \in 0 .. MaxChars + 1 /\ NoCell \in Nat /\ Room \in Nat
  BY DEF Unwritten, NoCell, Room
<1>2. TypeOK /\ LoopState /\ RecycleState
  BY <1>1 DEF Init, ClientInit, TypeOK, ClientTypeOK, LoopState, RecycleState
<1>3. WindowInMemory
  BY <1>1 DEF Init, ClientInit, WindowInMemory, WindowRespected, Loops, Room
<1>4. InPlace /\ LostLate /\ ResultsTrue
  BY DEF Init, ClientInit, InPlace, LostLate, ResultsTrue, Mark
<1>. QED BY <1>2, <1>3, <1>4 DEF IInv

LEMMA NextKeepsInv == ASSUME CstrAssumption PROVE IInv /\ [Next]_vars => IInv'
<1>. SUFFICES ASSUME IInv, [Next]_vars PROVE IInv'
  OBVIOUS
<1>1. CASE Client
  BY <1>1, ClientKeepsInv
<1>2. CASE Recycle
  BY <1>2, RecycleKeepsInv
<1>3. CASE Finish
  BY <1>3, FinishKeepsInv
<1>4. CASE Move
  BY <1>4, MoveKeepsInv
<1>5. CASE UNCHANGED vars
  BY <1>5 DEF vars, outbuf, client, cstr, IInv, TypeOK, ClientTypeOK, LoopState, RecycleState,
     WindowInMemory, WindowRespected, InPlace, LostLate, ResultsTrue, Mark, Size
<1>. QED BY <1>1, <1>2, <1>3, <1>4, <1>5 DEF Next

(* The invariant holds in every state.                                     *)
THEOREM Invariance == ASSUME CstrAssumption PROVE Spec => []IInv
<1>1. Init => IInv
  BY InitInv
<1>2. IInv /\ [Next]_vars => IInv'
  BY NextKeepsInv
<1>. QED BY <1>1, <1>2, PTL DEF Spec

(* What the invariant says about the array a user sees.                    *)
LEMMA InvImplies ==
  IInv => WindowInMemory /\ Terminated /\ TruncatedMeansLoss /\ TruncatedLate
<1>. SUFFICES ASSUME IInv PROVE Terminated /\ TruncatedMeansLoss /\ TruncatedLate
  BY DEF IInv
<1>1. ASSUME results # <<>>
      PROVE  /\ ~good /\ mem[it] = NUL /\ results[1].ptr = it
             /\ \A i \in DOMAIN results : results[i].ptr = it
             /\ it \in DOMAIN mem /\ \A c \in 0 .. it - 1 : mem[c] = c + 1
  <2>1. 1 \in DOMAIN results
    BY <1>1 DEF IInv, TypeOK
  <2>2. /\ ~good /\ mem[it] = NUL
        /\ \A i \in DOMAIN results : results[i].ptr = it
    BY <1>1 DEF IInv, ResultsTrue
  <2>3. it \in DOMAIN mem /\ \A c \in 0 .. it - 1 : mem[c] = c + 1
    BY <2>2 DEF IInv, InPlace, TypeOK
  <2>. QED BY <2>1, <2>2, <2>3
<1>2. Terminated
  BY <1>1 DEF Terminated
<1>3. TruncatedMeansLoss /\ TruncatedLate
  BY <1>1 DEF IInv, ResultsTrue, TruncatedMeansLoss, TruncatedLate
<1>. QED BY <1>2, <1>3

(* No loop, after any recycle(), finish() or move, stores outside the      *)
(* array, on the cell kept for the terminator, or outside the garbage      *)
(* buffer.                                                                 *)
THEOREM WindowSafe == ASSUME CstrAssumption PROVE Spec => []WindowInMemory
<1>1. Spec => []IInv
  BY Invariance
<1>. QED BY <1>1, InvImplies, PTL

(* finish() leaves a terminated string of the characters asked for first,  *)
(* and nothing printed later changes it.                                   *)
THEOREM StaysTerminated == ASSUME CstrAssumption PROVE Spec => []Terminated
<1>1. Spec => []IInv
  BY Invariance
<1>. QED BY <1>1, InvImplies, PTL

(* truncated means that a character was lost, and a lost character that    *)
(* finish() says truncated.                                                *)
THEOREM TruncatedExact == ASSUME CstrAssumption PROVE Spec => []TruncatedMeansLoss
<1>1. Spec => []IInv
  BY Invariance
<1>. QED BY <1>1, InvImplies, PTL

(* Text is lost only when less than min_size_after_recycle() cells of the  *)
(* array were left for it.                                                 *)
THEOREM LostOnlyWhenFull == ASSUME CstrAssumption PROVE Spec => []TruncatedLate
<1>1. Spec => []IInv
  BY Invariance
<1>. QED BY <1>1, InvImplies, PTL

(* What the user finds in the array is a beginning of the output.          *)
LEMMA InPlaceIsUpto ==
  ASSUME NEW n \in Nat, NEW m, \A c \in 0 .. n - 1 : m[c] = c + 1
  PROVE  [i \in 1 .. n |-> m[i - 1]] = Sink!Upto(n)
<1>1. ASSUME NEW i \in 1 .. n PROVE m[i - 1] = i
  <2>1. i - 1 \in 0 .. n - 1 /\ (i - 1) + 1 = i
    OBVIOUS
  <2>. QED BY <2>1
<1>. QED BY <1>1 DEF Sink!Upto

LEMMA ReceivedInOrder == InPlace => Received = IF good THEN <<>> ELSE Sink!Upto(it)
<1>. SUFFICES ASSUME InPlace, ~good PROVE [i \in 1 .. it |-> mem[i - 1]] = Sink!Upto(it)
  BY DEF Received
<1>1. it \in Nat /\ \A c \in 0 .. it - 1 : mem[c] = c + 1
  BY DEF InPlace
<1>. QED BY <1>1, InPlaceIsUpto

(* The same of the next state.                                             *)
LEMMA ReceivedInOrderNext == InPlace' => Received' = IF good' THEN <<>> ELSE Sink!Upto(it')
<1>. SUFFICES ASSUME InPlace', ~good'
     PROVE  [i \in 1 .. it' |-> mem'[i - 1]] = Sink!Upto(it')
  BY DEF Received
<1>1. it' \in Nat /\ \A c \in 0 .. it' - 1 : mem'[c] = c + 1
  BY DEF InPlace
<1>. QED BY <1>1, InPlaceIsUpto

LEMMA InitRefines == Init => Sink!Init
BY DEF Init, ClientInit, Sink!Init, Received, Success

LEMMA ClientRefines == ASSUME CstrAssumption, IInv, Client PROVE Sink!Ask
<1>1. IInv' /\ ClientInv
  BY ClientKeepsInv, InvFacts
<1>2. /\ asked' \in Nat /\ asked <= asked' /\ UNCHANGED <<good, it, results>>
  BY <1>1, ClientStep DEF Client, cstr, ClientInv, ClientTypeOK
<1>3. Received' = Received
  BY <1>1, <1>2, ReceivedInOrder, ReceivedInOrderNext, Zenon DEF IInv
<1>. QED BY <1>1, <1>2, <1>3 DEF Sink!Ask, Success, ClientInv, ClientTypeOK

(* The first recycle() hands over what is in the array; a later one does   *)
(* nothing.                                                                *)
LEMMA RecycleRefines ==
  ASSUME CstrAssumption, IInv, Recycle PROVE Sink!Deliver \/ UNCHANGED Sink!vars
<1>1. IInv' /\ pos \in Nat /\ asked \in Nat
  BY RecycleKeepsInv, InvFacts DEF ClientInv, ClientTypeOK
<1>2. it' = (IF good THEN pos ELSE it) /\ ~good' /\ UNCHANGED <<asked, results>>
  BY DEF Recycle, RecycleReturns, OutputEnd
<1>3. Received' = Sink!Upto(it')
  BY <1>1, <1>2, ReceivedInOrderNext, Zenon DEF IInv
<1>4. Success' = Success
  BY <1>2 DEF Success
<1>5. CASE good
  <2>1. Received = <<>>
    BY <1>5 DEF Received
  <2>2. Received' = Sink!Upto(pos)
    BY <1>2, <1>3, <1>5, Zenon
  <2>3. pos \in Len(Received) .. asked
    <3>1. pos <= asked
      <4>1. Mark = pos /\ todo \in Nat
        BY InvFacts DEF Recycle, Mark, ClientInv, ClientTypeOK
      <4>2. Mark + todo = asked
        BY <1>5 DEF IInv, InPlace
      <4>. QED BY <1>1, <4>1, <4>2
    <3>. QED BY <1>1, <2>1, <3>1
  <2>4. good' \in BOOLEAN
    BY <1>1 DEF IInv, TypeOK, ClientTypeOK
  <2>. QED BY <1>2, <1>4, <1>5, <2>2, <2>3, <2>4 DEF Sink!Deliver
<1>6. CASE ~good
  <2>1. Received' = Received
    BY <1>2, <1>3, <1>6, ReceivedInOrder, Zenon DEF IInv
  <2>2. good' = good
    BY <1>1, <1>2, <1>6 DEF IInv, TypeOK, ClientTypeOK
  <2>. QED BY <1>2, <1>4, <2>1, <2>2 DEF Sink!vars
<1>. QED BY <1>5, <1>6

LEMMA FinishRefines == ASSUME CstrAssumption, IInv, Finish PROVE Sink!Finish
<1>. DEFINE r == [ptr |-> it', truncated |-> ~good, asked |-> asked]
<1>1. /\ IInv' /\ pos \in Nat /\ asked \in Nat /\ Mark = pos /\ todo = 0
      /\ results \in Seq(ResultSet)
  BY FinishKeepsInv, InvFacts DEF ClientInv, ClientTypeOK, LoopState, Finish, Mark, IInv, TypeOK
<1>2. /\ it' = (IF good THEN pos ELSE it) /\ good' = FALSE /\ asked' = asked
      /\ results' = Append(results, r)
  BY DEF Finish, OutputEnd, client
<1>3. Received' = Sink!Upto(it')
  BY <1>1, <1>2, ReceivedInOrderNext, Zenon DEF IInv
<1>4. Success' = IF good THEN "yes" ELSE "no"
  <2>1. r \in ResultSet
    <3>1. results' \in Seq(ResultSet)
      BY <1>1 DEF IInv, TypeOK
    <3>2. it' \in 0 .. Capacity - 1 /\ asked \in 0 .. MaxChars
      BY <1>1, <1>2 DEF IInv, InPlace, TypeOK, ClientTypeOK
    <3>. QED BY <1>1, <3>2 DEF ResultSet, IInv, TypeOK, ClientTypeOK
  <2>2. results' # <<>> /\ results'[Len(results')] = r
    <3>. HIDE DEF r
    <3>. QED BY <1>1, <1>2, <2>1, AppendProperties
  <2>3. r.truncated = ~good
    OBVIOUS
  <2>4. Success' = IF r.truncated THEN "no" ELSE "yes"
    <3>. HIDE DEF r
    <3>. QED BY <2>2, Zenon DEF Success
  <2>. QED BY <2>3, <2>4, Zenon
<1>5. CASE good
  <2>1. Received = <<>> /\ Received' = Sink!Upto(asked)
    <3>1. pos = asked
      BY <1>1, <1>5 DEF IInv, InPlace
    <3>. QED BY <1>2, <1>3, <1>5, <3>1, Zenon DEF Received
  <2>2. asked \in Len(Received) .. asked
    BY <1>1, <2>1
  <2>. QED BY <1>2, <1>4, <1>5, <2>1, <2>2 DEF Sink!Finish
<1>6. CASE ~good
  <2>1. Received' = Received
    BY <1>2, <1>3, <1>6, ReceivedInOrder, Zenon DEF IInv
  <2>. QED BY <1>2, <1>4, <1>6, <2>1 DEF Sink!Finish
<1>. QED BY <1>5, <1>6

LEMMA NextRefines ==
  ASSUME CstrAssumption PROVE IInv /\ [Next]_vars => [Sink!Next]_Sink!vars
<1>. SUFFICES ASSUME IInv, [Next]_vars PROVE [Sink!Next]_Sink!vars
  OBVIOUS
<1>1. CASE Client
  BY <1>1, ClientRefines DEF Sink!Next
<1>2. CASE Recycle
  BY <1>2, RecycleRefines DEF Sink!Next
<1>3. CASE Finish
  BY <1>3, FinishRefines DEF Sink!Next
<1>4. CASE Move
  BY <1>4 DEF Move, client, Received, Success, Sink!vars
<1>5. CASE UNCHANGED vars
  BY <1>5 DEF vars, outbuf, client, cstr, Received, Success, Sink!vars
<1>. QED BY <1>1, <1>2, <1>3, <1>4, <1>5 DEF Next

(* Nothing reaches the array out of order or after the writer became bad,  *)
(* and finish() denies truncation only for complete output.                *)
THEOREM Implements == ASSUME CstrAssumption PROVE Spec => DeliversInOrder
<1>1. Init => Sink!Init
  BY InitRefines
<1>2. IInv /\ [Next]_vars => [Sink!Next]_Sink!vars
  BY NextRefines
<1>. QED BY <1>1, <1>2, Invariance, PTL DEF Spec, DeliversInOrder, Sink!Spec
=============================================================================
