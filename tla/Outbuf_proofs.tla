---------------------------- MODULE Outbuf_proofs ----------------------------
(***************************************************************************)
(* What holds of the client's loops on every destination: for every size   *)
(* of the window, every width of a code point, and any number of           *)
(* characters.                                                             *)
(***************************************************************************)
EXTENDS Outbuf, TLAPS

USE OutbufAssumption

(* The part of the invariant that is about positions and loops only.       *)
ClientInv == ClientTypeOK /\ LoopState /\ WindowRespected

(* The next k characters are put right where the ones before them end,     *)
(* inside the window, and are k of those the client is waiting for.        *)
Placed(k) ==
  /\ Store(Mark, k, NextChar) \/ (k = 0 /\ UNCHANGED mem)
  /\ Mark' = Mark + k
  /\ Mark + k <= end
  /\ NextChar + k <= asked' + 1
  /\ good => asked' + todo = asked + todo' + k

(* Storing characters of the output keeps the buffer's type ...            *)
LEMMA StoreTyped ==
  ASSUME NEW a \in Nat, NEW k \in Nat, NEW first \in Nat,
         mem \in [0 .. MinSize - 1 -> 0 .. MaxChars],
         first + k <= MaxChars + 1,
         Store(a, k, first)
  PROVE  mem' \in [0 .. MinSize - 1 -> 0 .. MaxChars]
<1>1. ASSUME NEW c \in 0 .. MinSize - 1, a <= c, c < a + k
      PROVE  first + (c - a) \in 0 .. MaxChars
  BY <1>1, OutbufAssumption
<1>. QED BY <1>1 DEF Store

(* ... and when they come next where the ones before them end, the run of  *)
(* consecutive characters in the buffer grows.                             *)
LEMMA StoreNext ==
  ASSUME NEW a \in Nat, NEW k \in Nat, NEW n \in Nat,
         mem \in [0 .. MinSize - 1 -> 0 .. MaxChars],
         a + k <= MinSize,
         \A c \in 0 .. a - 1 : mem[c] = n + c + 1,
         Store(a, k, n + a + 1)
  PROVE  \A c \in 0 .. a + k - 1 : mem'[c] = n + c + 1
<1>1. mem' = [c \in 0 .. MinSize - 1 |->
                IF a <= c /\ c < a + k THEN (n + a + 1) + (c - a) ELSE mem[c]]
  BY DEF Store
<1>2. TAKE c \in 0 .. a + k - 1
<1>3. c \in 0 .. MinSize - 1
  BY OutbufAssumption
<1>4. CASE c < a
  BY <1>1, <1>3, <1>4
<1>5. CASE a <= c
  BY <1>1, <1>3, <1>5
<1>. QED BY <1>4, <1>5

(* Whole(u) is a number of cells of the window.                            *)
LEMMA WholeFits ==
  ASSUME NEW u \in Nat \ {0}, Size \in Nat
  PROVE  Whole(u) \in Nat /\ Whole(u) <= Size
<1>1. ASSUME NEW s \in Nat PROVE (s \div u) * u \in Nat /\ (s \div u) * u <= s
  OBVIOUS
<1>. QED BY <1>1 DEF Whole

(* Each operation of the client and each iteration of its loops keeps the  *)
(* positions in order, leaves end and good to the destination, and places  *)
(* characters nowhere but next in the window.                              *)
THEOREM ClientStep ==
  ASSUME ClientInv, Start \/ Continue
  PROVE  /\ ClientInv'
         /\ UNCHANGED <<end, good>>
         /\ asked <= asked'
         /\ \E k \in Nat : Placed(k)
<1>. DEFINE Goal(k) == /\ ClientInv'
                       /\ UNCHANGED <<end, good>>
                       /\ asked <= asked'
                       /\ Placed(k)
<1>. USE DEF ClientInv, ClientTypeOK, LoopState, WindowRespected, Mark, Size,
             Loops, Placed, NextChar, Place, CallRecycle, Return, Ask
<1>0. Size \in Nat /\ pos + Size = end
  OBVIOUS
<1>1. ASSUME NEW n \in 0 .. MaxChars, Write(n) PROVE \E k \in Nat : Goal(k)
  <2>1. CASE pos + n <= end
    <3>0. /\ Store(pos, n, asked + 1) /\ pos' = pos + n
          /\ UNCHANGED <<pc, ret, todo, end, good, unit, dit, dend>>
          /\ pc = "idle" /\ asked' = asked + n /\ asked + n <= MaxChars /\ n \in Nat
      BY <1>0, <1>1, <2>1 DEF Write
    <3>1. ClientInv'
      BY <1>0, <2>1, <3>0
    <3>2. Placed(n)
      BY <1>0, <2>1, <3>0
    <3>. QED BY <1>0, <3>0, <3>1, <3>2
  <2>2. CASE pos + n > end
    <3>0. /\ Store(pos, Size, asked + 1) /\ pos' = pos + Size
          /\ UNCHANGED <<end, good, unit, dit, dend>>
          /\ pc = "idle" /\ asked' = asked + n /\ asked + n <= MaxChars /\ n \in Nat
          /\ \/ todo' = n - Size /\ pc' = "recycle" /\ ret' = "write"
             \/ ~good /\ todo' = 0 /\ pc' = "idle" /\ ret' = ret
      BY <1>0, <1>1, <2>2 DEF Write
    <3>1. ClientInv'
      BY <1>0, <2>2, <3>0
    <3>2. Placed(Size)
      BY <1>0, <2>2, <3>0
    <3>3. UNCHANGED <<end, good>> /\ asked <= asked'
      BY <3>0
    <3>. QED BY <1>0, <3>1, <3>2, <3>3
  <2>. QED BY <1>1, <2>1, <2>2 DEF Write
<1>2. ASSUME NEW n \in 0 .. MaxChars, Fill(n) PROVE \E k \in Nat : Goal(k)
  <2>1. CASE n <= Size
    <3>0. /\ Store(pos, n, asked + 1) /\ pos' = pos + n
          /\ UNCHANGED <<pc, ret, todo, end, good, unit, dit, dend>>
          /\ pc = "idle" /\ asked' = asked + n /\ asked + n <= MaxChars /\ n \in Nat
      BY <1>0, <1>2, <2>1 DEF Fill
    <3>1. ClientInv'
      BY <1>0, <2>1, <3>0
    <3>2. Placed(n)
      BY <1>0, <2>1, <3>0
    <3>. QED BY <1>0, <3>0, <3>1, <3>2
  <2>2. CASE n > Size
    <3>0. /\ Store(pos, Size, asked + 1) /\ pos' = pos + Size
          /\ UNCHANGED <<end, good, unit, dit, dend>>
          /\ pc = "idle" /\ asked' = asked + n /\ asked + n <= MaxChars /\ n \in Nat
          /\ todo' = n - Size /\ pc' = "recycle" /\ ret' = "fill"
      BY <1>0, <1>2, <2>2 DEF Fill
    <3>1. ClientInv'
      BY <1>0, <2>2, <3>0
    <3>2. Placed(Size)
      BY <1>0, <2>2, <3>0
    <3>. QED BY <1>0, <3>0, <3>1, <3>2
  <2>. QED BY <1>2, <2>1, <2>2 DEF Fill
<1>3. ASSUME Put PROVE \E k \in Nat : Goal(k)
  <2>1. CASE pos # end
    <3>0. /\ Store(pos, 1, asked + 1) /\ pos' = pos + 1
          /\ UNCHANGED <<pc, ret, todo, end, good, unit, dit, dend>>
          /\ pc = "idle" /\ asked' = asked + 1 /\ asked + 1 <= MaxChars
      BY <1>0, <1>3, <2>1 DEF Put
    <3>1. ClientInv'
      BY <1>0, <2>1, <3>0
    <3>2. Placed(1)
      BY <1>0, <2>1, <3>0
    <3>. QED BY <1>0, <3>0, <3>1, <3>2
  <2>2. CASE pos = end
    <3>0. /\ UNCHANGED <<mem, pos, end, good, unit, dit, dend>>
          /\ pc = "idle" /\ asked' = asked + 1 /\ asked + 1 <= MaxChars
          /\ todo' = 1 /\ pc' = "recycle" /\ ret' = "put"
      BY <1>0, <1>3, <2>2 DEF Put
    <3>1. ClientInv'
      BY <1>0, <2>2, <3>0
    <3>2. Placed(0)
      BY <1>0, <2>2, <3>0
    <3>. QED BY <1>0, <3>0, <3>1, <3>2
  <2>. QED BY <1>3, <2>1, <2>2 DEF Put
<1>4. ASSUME NEW u \in 2 .. MaxUnit, NEW copies \in 0 .. MaxChars,
             Repeat(copies, u)
      PROVE  \E k \in Nat : Goal(k)
  <2>0. copies * u \in Nat /\ u \in 1 .. MaxUnit /\ Whole(u) \in Nat /\ Whole(u) <= Size
    BY <1>0, WholeFits
  <2>1. CASE copies * u <= Size
    <3>0. /\ Store(pos, copies * u, asked + 1) /\ pos' = pos + copies * u
          /\ UNCHANGED <<pc, ret, todo, end, good, dit, dend>> /\ unit' = u
          /\ pc = "idle" /\ asked' = asked + copies * u /\ asked + copies * u <= MaxChars
      BY <1>0, <1>4, <2>1 DEF Repeat
    <3>1. ClientInv'
      BY <1>0, <2>1, <3>0
    <3>2. Placed(copies * u)
      BY <1>0, <2>1, <3>0
    <3>. QED BY <1>0, <3>0, <3>1, <3>2
  <2>2. CASE copies * u > Size
    <3>0. /\ Store(pos, Whole(u), asked + 1) /\ pos' = pos + Whole(u)
          /\ UNCHANGED <<end, good, dit, dend>> /\ unit' = u
          /\ pc = "idle" /\ asked' = asked + copies * u /\ asked + copies * u <= MaxChars
          /\ todo' = copies * u - Whole(u) /\ pc' = "recycle" /\ ret' = "repeat"
      BY <1>0, <1>4, <2>2, <2>0 DEF Repeat
    <3>1. ClientInv'
      BY <1>0, <2>2, <3>0, <2>0
    <3>2. Placed(Whole(u))
      BY <1>0, <2>2, <3>0, <2>0
    <3>. QED BY <1>0, <3>0, <3>1, <3>2, <2>0
  <2>. QED BY <1>4, <2>1, <2>2 DEF Repeat
<1>5. ASSUME NEW n \in 1 .. MinSize, Direct(n) PROVE \E k \in Nat : Goal(k)
  <2>1. CASE pos + n <= end
    <3>0. /\ Store(pos, n, asked + 1) /\ pos' = pos + n
          /\ UNCHANGED <<pc, ret, todo, end, good, unit, dit, dend>>
          /\ pc = "idle" /\ asked' = asked + n /\ asked + n <= MaxChars /\ n \in Nat
      BY <1>0, <1>5, <2>1 DEF Direct
    <3>1. ClientInv'
      BY <1>0, <2>1, <3>0
    <3>2. Placed(n)
      BY <1>0, <2>1, <3>0
    <3>. QED BY <1>0, <3>0, <3>1, <3>2
  <2>2. CASE pos + n > end
    <3>0. /\ UNCHANGED <<mem, pos, end, good, unit, dit, dend>>
          /\ pc = "idle" /\ asked' = asked + n /\ asked + n <= MaxChars /\ n \in Nat
          /\ todo' = n /\ pc' = "recycle" /\ ret' = "direct"
      BY <1>0, <1>5, <2>2 DEF Direct
    <3>1. ClientInv'
      BY <1>0, <2>2, <3>0
    <3>2. Placed(0)
      BY <1>0, <2>2, <3>0
    <3>. QED BY <1>0, <3>0, <3>1, <3>2
  <2>. QED BY <1>5, <2>1, <2>2 DEF Direct
<1>6. ASSUME Transcode PROVE \E k \in Nat : Goal(k)
  <2>0. /\ UNCHANGED <<mem, pos, end, good, asked, ret, todo, unit>>
        /\ pc = "idle" /\ pc' = "transcode"
        /\ dit' = pos /\ dend' = end
    BY <1>0, <1>6 DEF Transcode, outbuf
  <2>1. ClientInv'
    BY <1>0, <2>0
  <2>2. Placed(0)
    BY <1>0, <2>0
  <2>. QED BY <1>0, <2>0, <2>1, <2>2
<1>7. ASSUME WriteContinue PROVE \E k \in Nat : Goal(k)
  <2>1. CASE todo <= Size
    <3>0. /\ Store(pos, todo, NextChar) /\ pos' = pos + todo
          /\ UNCHANGED <<asked, ret, end, good, unit, dit, dend>>
          /\ pc = "write" /\ pc' = "idle" /\ todo' = 0
      BY <1>0, <1>7, <2>1 DEF WriteContinue
    <3>1. ClientInv'
      BY <1>0, <2>1, <3>0
    <3>2. Placed(todo)
      BY <1>0, <2>1, <3>0
    <3>. QED BY <1>0, <3>0, <3>1, <3>2
  <2>2. CASE todo > Size
    <3>0. /\ Store(pos, Size, NextChar) /\ pos' = pos + Size
          /\ UNCHANGED <<asked, end, good, unit, dit, dend>>
          /\ pc = "write"
          /\ \/ todo' = todo - Size /\ pc' = "recycle" /\ ret' = "write"
             \/ ~good /\ todo' = 0 /\ pc' = "idle" /\ ret' = ret
      BY <1>0, <1>7, <2>2 DEF WriteContinue
    <3>1. ClientInv'
      BY <1>0, <2>2, <3>0
    <3>2. Placed(Size)
      BY <1>0, <2>2, <3>0
    <3>3. UNCHANGED <<end, good>> /\ asked <= asked'
      BY <3>0
    <3>. QED BY <1>0, <3>1, <3>2, <3>3
  <2>. QED BY <1>7, <2>1, <2>2 DEF WriteContinue
<1>8. ASSUME PutContinue PROVE \E k \in Nat : Goal(k)
  <2>0. /\ Store(pos, 1, NextChar) /\ pos' = pos + 1
        /\ UNCHANGED <<asked, ret, end, good, unit, dit, dend>>
        /\ pc = "put" /\ pc' = "idle" /\ todo' = 0
    BY <1>0, <1>8 DEF PutContinue
  <2>1. ClientInv'
    BY <1>0, <2>0
  <2>2. Placed(1)
    BY <1>0, <2>0
  <2>. QED BY <1>0, <2>0, <2>1, <2>2
<1>9. ASSUME FillContinue PROVE \E k \in Nat : Goal(k)
  <2>1. CASE ~good
    <3>0. /\ UNCHANGED <<mem, pos, asked, ret, end, good, unit, dit, dend>>
          /\ pc = "fill" /\ pc' = "idle" /\ todo' = 0
      BY <1>0, <1>9, <2>1 DEF FillContinue
    <3>1. ClientInv'
      BY <1>0, <2>1, <3>0
    <3>2. Placed(0)
      BY <1>0, <2>1, <3>0
    <3>. QED BY <1>0, <3>0, <3>1, <3>2
  <2>2. CASE good /\ todo <= Size
    <3>0. /\ Store(pos, todo, NextChar) /\ pos' = pos + todo
          /\ UNCHANGED <<asked, ret, end, good, unit, dit, dend>>
          /\ pc = "fill" /\ pc' = "idle" /\ todo' = 0
      BY <1>0, <1>9, <2>2 DEF FillContinue
    <3>1. ClientInv'
      BY <1>0, <2>2, <3>0
    <3>2. Placed(todo)
      BY <1>0, <2>2, <3>0
    <3>. QED BY <1>0, <3>0, <3>1, <3>2
  <2>3. CASE good /\ todo > Size
    <3>0. /\ Store(pos, Size, NextChar) /\ pos' = pos + Size
          /\ UNCHANGED <<asked, end, good, unit, dit, dend>>
          /\ pc = "fill" /\ todo' = todo - Size /\ pc' = "recycle" /\ ret' = "fill"
      BY <1>0, <1>9, <2>3 DEF FillContinue
    <3>1. ClientInv'
      BY <1>0, <2>3, <3>0
    <3>2. Placed(Size)
      BY <1>0, <2>3, <3>0
    <3>. QED BY <1>0, <3>0, <3>1, <3>2
  <2>. QED BY <1>9, <2>1, <2>2, <2>3 DEF FillContinue
<1>10. ASSUME RepeatContinue PROVE \E k \in Nat : Goal(k)
  <2>0. Whole(unit) \in Nat /\ Whole(unit) <= Size
    BY <1>0, WholeFits
  <2>1. CASE todo <= Whole(unit)
    <3>0. /\ Store(pos, todo, NextChar) /\ pos' = pos + todo
          /\ UNCHANGED <<asked, ret, end, good, unit, dit, dend>>
          /\ pc = "repeat" /\ pc' = "idle" /\ todo' = 0
      BY <1>0, <1>10, <2>1, <2>0 DEF RepeatContinue
    <3>1. ClientInv'
      BY <1>0, <2>1, <3>0, <2>0
    <3>2. Placed(todo)
      BY <1>0, <2>1, <3>0, <2>0
    <3>. QED BY <1>0, <3>0, <3>1, <3>2, <2>0
  <2>2. CASE todo > Whole(unit)
    <3>0. /\ Store(pos, Whole(unit), NextChar) /\ pos' = pos + Whole(unit)
          /\ UNCHANGED <<asked, end, good, unit, dit, dend>>
          /\ pc = "repeat" /\ todo' = todo - Whole(unit) /\ pc' = "recycle" /\ ret' = "repeat"
      BY <1>0, <1>10, <2>2, <2>0 DEF RepeatContinue
    <3>1. ClientInv'
      BY <1>0, <2>2, <3>0, <2>0
    <3>2. Placed(Whole(unit))
      BY <1>0, <2>2, <3>0, <2>0
    <3>. QED BY <1>0, <3>0, <3>1, <3>2, <2>0
  <2>. QED BY <1>10, <2>1, <2>2 DEF RepeatContinue
<1>11. ASSUME DirectContinue PROVE \E k \in Nat : Goal(k)
  <2>0. /\ Store(pos, todo, NextChar) /\ pos' = pos + todo
        /\ UNCHANGED <<asked, ret, end, good, unit, dit, dend>>
        /\ pc = "direct" /\ pc' = "idle" /\ todo' = 0
    BY <1>0, <1>11 DEF DirectContinue
  <2>1. ClientInv'
    BY <1>0, <2>0
  <2>2. Placed(todo)
    BY <1>0, <2>0
  <2>. QED BY <1>0, <2>0, <2>1, <2>2
<1>12. ASSUME NEW n \in 1 .. MaxUnit, Emit(n) PROVE \E k \in Nat : Goal(k)
  <2>1. CASE dit + n <= dend
    <3>0. /\ Store(dit, n, asked + 1) /\ dit' = dit + n
          /\ UNCHANGED <<pos, pc, ret, todo, dend, end, good, unit>>
          /\ pc = "transcode" /\ asked' = asked + n /\ asked + n <= MaxChars /\ n \in Nat
      BY <1>0, <1>12, <2>1 DEF Emit
    <3>1. ClientInv'
      BY <1>0, <2>1, <3>0
    <3>2. Placed(n)
      BY <1>0, <2>1, <3>0
    <3>. QED BY <1>0, <3>0, <3>1, <3>2
  <2>2. CASE dit + n > dend
    <3>0. /\ pos' = dit /\ n <= MinSize
          /\ UNCHANGED <<mem, end, good, unit, dit, dend>>
          /\ pc = "transcode" /\ asked' = asked + n /\ asked + n <= MaxChars /\ n \in Nat
          /\ todo' = n /\ pc' = "recycle" /\ ret' = "emit"
      BY <1>0, <1>12, <2>2 DEF Emit
    <3>1. ClientInv'
      BY <1>0, <2>2, <3>0
    <3>2. Placed(0)
      BY <1>0, <2>2, <3>0
    <3>. QED BY <1>0, <3>0, <3>1, <3>2
  <2>. QED BY <1>12, <2>1, <2>2 DEF Emit
<1>13. ASSUME EmitContinue PROVE \E k \in Nat : Goal(k)
  <2>1. CASE ~good
    <3>0. /\ UNCHANGED <<mem, pos, asked, ret, end, good, unit, dit, dend>>
          /\ pc = "emit" /\ pc' = "idle" /\ todo' = 0
      BY <1>0, <1>13, <2>1 DEF EmitContinue
    <3>1. ClientInv'
      BY <1>0, <2>1, <3>0
    <3>2. Placed(0)
      BY <1>0, <2>1, <3>0
    <3>. QED BY <1>0, <3>0, <3>1, <3>2
  <2>2. CASE good
    <3>0. /\ Store(pos, todo, NextChar) /\ dit' = pos + todo /\ dend' = end
          /\ UNCHANGED <<pos, asked, ret, end, good, unit>>
          /\ pc = "emit" /\ pc' = "transcode" /\ todo' = 0
      BY <1>0, <1>13, <2>2 DEF EmitContinue
    <3>1. ClientInv'
      BY <1>0, <2>2, <3>0
    <3>2. Placed(todo)
      BY <1>0, <2>2, <3>0
    <3>. QED BY <1>0, <3>0, <3>1, <3>2
  <2>. QED BY <1>13, <2>1, <2>2 DEF EmitContinue
<1>14. ASSUME EndTranscode PROVE \E k \in Nat : Goal(k)
  <2>0. /\ pos' = dit
        /\ UNCHANGED <<mem, asked, ret, todo, end, good, unit, dit, dend>>
        /\ pc = "transcode" /\ pc' = "idle"
    BY <1>0, <1>14 DEF EndTranscode
  <2>1. ClientInv'
    BY <1>0, <2>0
  <2>2. Placed(0)
    BY <1>0, <2>0
  <2>. QED BY <1>0, <2>0, <2>1, <2>2
<1>. QED
  BY <1>1, <1>2, <1>3, <1>4, <1>5, <1>6, <1>7, <1>8, <1>9, <1>10, <1>11,
     <1>12, <1>13, <1>14 DEF Start, Continue

(* A loop asks for another window only when less than one ensured piece is *)
(* left of this one, and when it still has something to place.             *)
RecycleState == pc = "recycle" => pos + MinSize > end /\ todo > 0

(* Every loop recycles late, and none moves pos back.                      *)
THEOREM RecyclesLate ==
  ASSUME ClientInv, Start \/ Continue
  PROVE  RecycleState' /\ pos <= pos'
<1>. USE DEF ClientInv, ClientTypeOK, LoopState, WindowRespected, RecycleState, Size,
             Loops, Place, CallRecycle, Return, Ask
<1>0. Size \in Nat /\ pos + Size = end
  OBVIOUS
<1>1. ASSUME NEW n \in 0 .. MaxChars, Write(n) PROVE RecycleState' /\ pos <= pos'
  BY <1>0, <1>1 DEF Write
<1>2. ASSUME NEW n \in 0 .. MaxChars, Fill(n) PROVE RecycleState' /\ pos <= pos'
  BY <1>0, <1>2 DEF Fill
<1>3. ASSUME Put PROVE RecycleState' /\ pos <= pos'
  BY <1>0, <1>3 DEF Put
<1>4. ASSUME NEW s \in Nat, NEW u \in Nat \ {0}
      PROVE  (s \div u) * u \in Nat /\ (s \div u) * u <= s /\ s < (s \div u) * u + u
  OBVIOUS
<1>5. ASSUME NEW u \in 1 .. MaxUnit
      PROVE  Whole(u) \in Nat /\ Whole(u) <= Size /\ Size < Whole(u) + MinSize
  BY <1>0, <1>4 DEF Whole
<1>6. ASSUME NEW u \in 2 .. MaxUnit, NEW copies \in 0 .. MaxChars, Repeat(copies, u)
      PROVE  RecycleState' /\ pos <= pos'
  <2>1. copies * u \in Nat
    OBVIOUS
  <2>2. Whole(u) \in Nat /\ Whole(u) <= Size /\ Size < Whole(u) + MinSize
    BY <1>5
  <2>3. CASE copies * u <= Size
    BY <1>0, <1>6, <2>1, <2>3 DEF Repeat
  <2>4. CASE copies * u > Size
    BY <1>0, <1>6, <2>1, <2>2, <2>4 DEF Repeat
  <2>. QED BY <1>0, <2>1, <2>3, <2>4
<1>7. ASSUME NEW n \in 1 .. MinSize, Direct(n) PROVE RecycleState' /\ pos <= pos'
  BY <1>0, <1>7 DEF Direct
<1>8. ASSUME Transcode PROVE RecycleState' /\ pos <= pos'
  BY <1>8 DEF Transcode, outbuf
<1>9. ASSUME WriteContinue PROVE RecycleState' /\ pos <= pos'
  BY <1>0, <1>9 DEF WriteContinue
<1>10. ASSUME PutContinue PROVE RecycleState' /\ pos <= pos'
  BY <1>10 DEF PutContinue
<1>11. ASSUME FillContinue PROVE RecycleState' /\ pos <= pos'
  BY <1>0, <1>11 DEF FillContinue
<1>12. ASSUME RepeatContinue PROVE RecycleState' /\ pos <= pos'
  <2>1. Whole(unit) \in Nat /\ Whole(unit) <= Size /\ Size < Whole(unit) + MinSize
    BY <1>5
  <2>. QED BY <1>0, <1>12, <2>1 DEF RepeatContinue
<1>13. ASSUME DirectContinue PROVE RecycleState' /\ pos <= pos'
  BY <1>13 DEF DirectContinue
<1>14. ASSUME NEW n \in 1 .. MaxUnit, Emit(n) PROVE RecycleState' /\ pos <= pos'
  BY <1>14 DEF Emit
<1>15. ASSUME EmitContinue PROVE RecycleState' /\ pos <= pos'
  BY <1>15 DEF EmitContinue
<1>16. ASSUME EndTranscode PROVE RecycleState' /\ pos <= pos'
  BY <1>16 DEF EndTranscode
<1>. QED
  BY <1>1, <1>2, <1>3, <1>6, <1>7, <1>8, <1>9, <1>10, <1>11, <1>12, <1>13,
     <1>14, <1>15, <1>16 DEF Start, Continue
=============================================================================
