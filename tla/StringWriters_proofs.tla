------------------------- MODULE StringWriters_proofs -------------------------
(***************************************************************************)
(* The string writers keep every character in its place and give back what *)
(* was asked for, unless an append threw, for every size of the buffer and *)
(* of the string, every width of a code point, and any number of           *)
(* characters, of exceptions and of calls of finish().                     *)
(***************************************************************************)
EXTENDS StringWriters, Outbuf_proofs, SequenceTheorems, FiniteSetTheorems

(* The first p cells of m hold the characters after the first n ones ...   *)
Run(m, p, n) == \A c \in 0 .. p - 1 : m[c] = n + c + 1

(* ... or at least some that are rising and come before next.              *)
Rising(m, p, next) ==
  /\ \A c \in 0 .. p - 1 : 0 < m[c] /\ m[c] < next
  /\ \A c, d \in 0 .. p - 1 : c < d => m[c] < m[d]

(* What a writer with a buffer has: the beginning of the output in the     *)
(* string and, while good, the rest in the buffer or still with the loop.  *)
Collected ==
  /\ \E n \in Nat : /\ str = Prefix(n)
                    /\ good => n + Mark + todo = asked /\ Run(mem, Mark, n)
  /\ ~good /\ given = <<>> => threw
  /\ good => given = <<>>
  /\ StrSize = MinSize /\ end = MinSize

(* What a pre-sized string holds.                                          *)
InPlace ==
  /\ good /\ str = <<>>
  /\ ~threw => Mark + todo = asked /\ Run(mem, Mark, 0)
  /\ Rising(mem, Mark, NextChar)
  /\ given # <<>> => pc = "idle"

Given == [str: Seq(Nat), asked: Nat]

TypeOK ==
  /\ ClientTypeOK
  /\ StrSize \in Nat /\ mem \in [0 .. StrSize - 1 -> 0 .. MaxChars]
  /\ writer \in Buffering \cup {"pre_sized"}
  /\ threw \in BOOLEAN
  /\ given \in Seq(Given)

(* The inductive invariant.                                                *)
IInv ==
  /\ TypeOK /\ LoopState /\ WindowInMemory
  /\ writer \in Buffering => Collected
  /\ writer = "pre_sized" => InPlace
  /\ FinishGivesAll

LEMMA SizeOfInterval == ASSUME NEW n \in Nat PROVE Cardinality(0 .. n - 1) = n
<1>1. Cardinality(0 .. n - 1) = IF 0 > n - 1 THEN 0 ELSE (n - 1) - 0 + 1
  BY FS_Interval
<1>. QED BY <1>1

(* Storing the characters that come next.                                  *)
LEMMA StoreTypedIn ==
  ASSUME NEW N \in Nat, NEW a \in Nat, NEW k \in Nat, NEW first \in Nat,
         mem \in [0 .. N - 1 -> 0 .. MaxChars],
         first + k <= MaxChars + 1, Store(a, k, first)
  PROVE  mem' \in [0 .. N - 1 -> 0 .. MaxChars]
<1>1. ASSUME NEW c \in 0 .. N - 1, a <= c, c < a + k
      PROVE  first + (c - a) \in 0 .. MaxChars
  BY <1>1, OutbufAssumption
<1>. QED BY <1>1 DEF Store

(* m is the buffer after Store: the k characters from first, put at a.     *)
Stored(m, a, k, first) ==
  m = [c \in DOMAIN mem |-> IF a <= c /\ c < a + k THEN first + (c - a)
                                                   ELSE mem[c]]

LEMMA StoreRun ==
  ASSUME NEW N \in Nat, NEW a \in Nat, NEW k \in Nat, NEW n \in Nat, NEW first \in Nat, NEW m,
         mem \in [0 .. N - 1 -> 0 .. MaxChars], a + k <= N,
         Run(mem, a, n), first = n + a + 1, Stored(m, a, k, first)
  PROVE  Run(m, a + k, n)
<1>0. m = [d \in 0 .. N - 1 |->
             IF a <= d /\ d < a + k THEN first + (d - a) ELSE mem[d]]
  BY DEF Stored
<1>1. \A c \in 0 .. a + k - 1 : m[c] = IF c < a THEN mem[c] ELSE first + (c - a)
  <2>. SUFFICES ASSUME NEW c \in 0 .. a + k - 1
                PROVE  m[c] = IF c < a THEN mem[c] ELSE first + (c - a)
    OBVIOUS
  <2>1. c \in 0 .. N - 1
    OBVIOUS
  <2>2. CASE c < a
    BY <1>0, <2>1, <2>2
  <2>3. CASE a <= c
    BY <1>0, <2>1, <2>3
  <2>. QED BY <2>2, <2>3
<1>2. \A c \in 0 .. a + k - 1 : m[c] = n + c + 1
  BY <1>1 DEF Run
<1>3. Run(m, a + k, n)
  BY <1>2 DEF Run
<1>. QED BY <1>3

LEMMA StoreRising ==
  ASSUME NEW N \in Nat, NEW a \in Nat, NEW k \in Nat, NEW n \in Nat \ {0}, NEW m,
         mem \in [0 .. N - 1 -> 0 .. MaxChars], a + k <= N,
         Rising(mem, a, n), Stored(m, a, k, n)
  PROVE  Rising(m, a + k, n + k)
<1>0. m = [d \in 0 .. N - 1 |->
             IF a <= d /\ d < a + k THEN n + (d - a) ELSE mem[d]]
  BY DEF Stored
<1>1. \A c \in 0 .. a + k - 1 : m[c] = IF c < a THEN mem[c] ELSE n + (c - a)
  <2>. SUFFICES ASSUME NEW c \in 0 .. a + k - 1
                PROVE  m[c] = IF c < a THEN mem[c] ELSE n + (c - a)
    OBVIOUS
  <2>1. c \in 0 .. N - 1
    OBVIOUS
  <2>2. CASE c < a
    BY <1>0, <2>1, <2>2
  <2>3. CASE a <= c
    BY <1>0, <2>1, <2>3
  <2>. QED BY <2>2, <2>3
<1>2. \A c \in 0 .. a - 1 : mem[c] \in Nat /\ 0 < mem[c] /\ mem[c] < n
  BY OutbufAssumption DEF Rising
<1>3. ASSUME NEW c \in 0 .. a + k - 1 PROVE 0 < m[c] /\ m[c] < n + k
  BY <1>1, <1>2
<1>4. ASSUME NEW c \in 0 .. a + k - 1, NEW d \in 0 .. a + k - 1, c < d
      PROVE  m[c] < m[d]
  <2>1. CASE d < a
    BY <1>1, <1>4, <2>1 DEF Rising
  <2>2. CASE a <= d
    <3>1. m[d] = n + (d - a)
      BY <1>1, <2>2
    <3>2. CASE c < a
      BY <1>1, <1>2, <2>2, <3>1, <3>2
    <3>3. CASE a <= c
      BY <1>1, <1>4, <3>1, <3>3
    <3>. QED BY <3>2, <3>3
  <2>. QED BY <2>1, <2>2
<1>5. Rising(m, a + k, n + k)
  BY <1>3, <1>4 DEF Rising
<1>. QED BY <1>5

(* Appending the buffer to a beginning of the output.                      *)
LEMMA PrefixSeq ==
  ASSUME NEW n \in Nat PROVE Prefix(n) \in Seq(Nat) /\ Len(Prefix(n)) = n
BY DEF Prefix

LEMMA AppendContinues ==
  ASSUME NEW n \in Nat, NEW p \in Nat, NEW m, Run(m, p, n)
  PROVE  Prefix(n) \o [i \in 1 .. p |-> m[i - 1]] = Prefix(n + p)
<1>. DEFINE b == [i \in 1 .. p |-> n + i]
<1>1. [i \in 1 .. p |-> m[i - 1]] = b
  <2>1. ASSUME NEW i \in 1 .. p PROVE m[i - 1] = n + i
    <3>1. i - 1 \in 0 .. p - 1 /\ n + (i - 1) + 1 = n + i
      OBVIOUS
    <3>. QED BY <3>1 DEF Run
  <2>. QED BY <2>1
<1>2. b \in Seq(Nat) /\ Len(b) = p
  <2>1. \A i \in 1 .. p : n + i \in Nat
    OBVIOUS
  <2>. QED BY <2>1, IsASeq
<1>3. \A i \in 1 .. p : b[i] = n + i
  OBVIOUS
<1>4. Prefix(n) \in Seq(Nat) /\ Len(Prefix(n)) = n /\ \A i \in 1 .. n : Prefix(n)[i] = i
  BY DEF Prefix
<1>5. Prefix(n + p) \in Seq(Nat) /\ Len(Prefix(n + p)) = n + p
      /\ \A i \in 1 .. n + p : Prefix(n + p)[i] = i
  BY DEF Prefix
<1>. DEFINE s == Prefix(n)
<1>6. /\ s \o b \in Seq(Nat)
      /\ Len(s \o b) = n + p
      /\ \A i \in 1 .. n + p : (s \o b)[i] = IF i <= n THEN s[i] ELSE b[i - n]
  <2>. HIDE DEF b, s
  <2>1. s \in Seq(Nat) /\ Len(s) = n
    BY <1>4 DEF s
  <2>. QED BY <1>2, <2>1, ConcatProperties
<1>7. \A i \in 1 .. n + p : (s \o b)[i] = i
  <2>. HIDE DEF b, s
  <2>1. ASSUME NEW i \in 1 .. n + p PROVE (s \o b)[i] = i
    <3>1. CASE i <= n
      <4>1. i \in 1 .. n
        BY <3>1
      <4>2. s[i] = i
        BY <1>4, <4>1 DEF s
      <4>. QED BY <1>6, <3>1, <4>2
    <3>2. CASE i > n
      <4>1. i - n \in 1 .. p /\ ~(i <= n) /\ n + (i - n) = i
        BY <3>2
      <4>2. b[i - n] = i
        BY <1>3, <4>1
      <4>3. (s \o b)[i] = b[i - n]
        BY <1>6, <4>1
      <4>. QED BY <4>2, <4>3
    <3>3. i <= n \/ i > n
      OBVIOUS
    <3>. QED BY <3>1, <3>2, <3>3
  <2>. QED BY <2>1
<1>8. s \o b = Prefix(n + p)
  <2>. HIDE DEF b, s
  <2>. QED BY <1>5, <1>6, <1>7, SeqEqual
<1>. QED BY <1>1, <1>8

LEMMA InvFacts ==
  ASSUME IInv
  PROVE  /\ ClientInv
         /\ Mark \in Nat /\ Mark <= end /\ end <= StrSize /\ end \in Nat /\ StrSize \in Nat
         /\ asked \in Nat /\ todo \in Nat /\ todo <= asked /\ pos \in Nat
         /\ NextChar \in Nat \ {0}
<1>1. ClientInv
  BY DEF IInv, TypeOK, WindowInMemory, ClientInv
<1>2. /\ Mark \in Nat /\ Mark <= end /\ end <= StrSize /\ end \in Nat /\ StrSize \in Nat
      /\ asked \in Nat /\ todo \in Nat /\ todo <= asked /\ pos \in Nat
  BY OutbufAssumption
     DEF IInv, TypeOK, ClientTypeOK, LoopState, WindowInMemory, WindowRespected, Mark
<1>. QED BY <1>1, <1>2 DEF NextChar

(* Every step of the client preserves the invariant.                       *)
LEMMA ClientKeepsInv == ASSUME IInv, Client PROVE IInv'
<1>1. /\ ClientInv /\ Mark \in Nat /\ Mark <= end /\ end <= StrSize
      /\ end \in Nat /\ StrSize \in Nat
      /\ NextChar \in Nat \ {0} /\ asked \in Nat /\ todo \in Nat /\ todo <= asked
  BY InvFacts
<1>2. /\ ClientInv' /\ UNCHANGED <<end, good>> /\ asked <= asked'
      /\ \E k \in Nat : Placed(k)
  BY <1>1, ClientStep DEF Client
<1>3. UNCHANGED <<writer, str, given, threw>>
  BY DEF Client, string
<1>4. PICK k \in Nat : Placed(k)
  BY <1>2
<1>5. Mark' = Mark + k /\ Mark + k <= end
  BY <1>4, Zenon DEF Placed
<1>6. Store(Mark, k, NextChar) \/ (k = 0 /\ UNCHANGED mem)
  BY <1>4, Zenon DEF Placed
<1>7. NextChar + k <= asked' + 1
  BY <1>4, Zenon DEF Placed
<1>8. good => asked' + todo = asked + todo' + k
  BY <1>4, Zenon DEF Placed
<1>9. PICK b \in Nat, u \in Nat : asked' = b /\ todo' = u /\ b <= MaxChars
  BY <1>2, OutbufAssumption DEF ClientInv, ClientTypeOK
<1>10. mem \in [0 .. StrSize - 1 -> 0 .. MaxChars] /\ Mark + k <= StrSize
  BY <1>1, <1>5 DEF IInv, TypeOK
<1>11. mem' \in [0 .. StrSize - 1 -> 0 .. MaxChars]
  <2>1. CASE Store(Mark, k, NextChar)
    <3>1. NextChar + k <= b + 1
      BY <1>7, <1>9
    <3>2. NextChar + k <= MaxChars + 1
      BY <1>1, <1>9, <3>1, OutbufAssumption
    <3>. QED BY <1>1, <1>10, <2>1, <3>2, StoreTypedIn
  <2>2. CASE k = 0 /\ UNCHANGED mem
    BY <1>10, <2>2
  <2>. QED BY <1>6, <2>1, <2>2
<1>12. StrSize' = StrSize
  BY <1>10, <1>11 DEF StrSize
<1>13. TypeOK' /\ LoopState' /\ WindowInMemory'
  <2>1. end' <= StrSize'
    BY <1>1, <1>2, <1>12
  <2>. QED BY <1>1, <1>2, <1>3, <1>11, <1>12, <2>1 DEF IInv, TypeOK, ClientInv, WindowInMemory
<1>14. ASSUME good, NEW n \in Nat, n + Mark + todo = asked, Run(mem, Mark, n)
       PROVE  n + Mark' + todo' = asked' /\ Run(mem', Mark', n)
  <2>1. b + todo = asked + u + k
    BY <1>8, <1>9, <1>14
  <2>2. n + (Mark + k) + u = b
    BY <1>1, <1>14, <2>1
  <2>3. Run(mem', Mark + k, n)
    <3>1. NextChar = n + Mark + 1
      BY <1>1, <1>14 DEF NextChar
    <3>2. CASE Store(Mark, k, NextChar)
      <4>1. Stored(mem', Mark, k, NextChar)
        BY <3>2 DEF Store, Stored
      <4>. QED BY <1>1, <1>10, <1>14, <3>1, <4>1, StoreRun
    <3>3. CASE k = 0 /\ UNCHANGED mem
      <4>1. Mark + k = Mark
        BY <1>1, <3>3
      <4>. QED BY <1>14, <3>3, <4>1
    <3>. QED BY <1>6, <3>2, <3>3
  <2>. QED BY <1>5, <1>9, <2>2, <2>3
<1>15. writer \in Buffering => Collected'
  <2>1. SUFFICES ASSUME writer \in Buffering PROVE Collected'
    OBVIOUS
  <2>2. PICK n \in Nat : str = Prefix(n) /\ (good => n + Mark + todo = asked /\ Run(mem, Mark, n))
    BY <2>1 DEF IInv, Collected
  <2>3. good => n + Mark' + todo' = asked' /\ Run(mem', Mark', n)
    BY <1>14, <2>2
  <2>4. str' = Prefix(n) /\ (good' => n + Mark' + todo' = asked' /\ Run(mem', Mark', n))
    BY <1>2, <1>3, <2>2, <2>3
  <2>5. /\ (~good' /\ given' = <<>> => threw') /\ (good' => given' = <<>>)
        /\ StrSize' = MinSize /\ end' = MinSize
    BY <1>2, <1>3, <1>12, <2>1 DEF IInv, Collected
  <2>. QED BY <2>4, <2>5 DEF Collected
<1>16. writer = "pre_sized" => InPlace'
  <2>1. SUFFICES ASSUME writer = "pre_sized" PROVE InPlace'
    OBVIOUS
  <2>2. good /\ str = <<>> /\ Rising(mem, Mark, NextChar)
        /\ (~threw => Mark + todo = asked /\ Run(mem, Mark, 0))
    BY <2>1 DEF IInv, InPlace
  <2>3. ~threw' => Mark' + todo' = asked' /\ Run(mem', Mark', 0)
    <3>1. SUFFICES ASSUME ~threw PROVE Mark' + todo' = asked' /\ Run(mem', Mark', 0)
      BY <1>3
    <3>2. 0 + Mark + todo = asked
      BY <1>1, <2>2, <3>1
    <3>3. 0 + Mark' + todo' = asked' /\ Run(mem', Mark', 0)
      BY <1>14, <2>2, <3>1, <3>2
    <3>4. 0 + (Mark + k) + u = b => (Mark + k) + u = b
      BY <1>1
    <3>. QED BY <1>5, <1>9, <3>3, <3>4
  <2>4. NextChar' = NextChar + k
    <3>1. b + todo = asked + u + k
      BY <1>8, <1>9, <2>2
    <3>2. NextChar' = b - u + 1
      BY <1>9 DEF NextChar
    <3>3. b - u + 1 = (asked - todo + 1) + k
      BY <1>1, <3>1
    <3>. QED BY <3>2, <3>3 DEF NextChar
  <2>5. Rising(mem', Mark + k, NextChar + k)
    <3>1. CASE Store(Mark, k, NextChar)
      <4>1. Stored(mem', Mark, k, NextChar)
        BY <3>1 DEF Store, Stored
      <4>. QED BY <1>1, <1>10, <2>2, <4>1, StoreRising
    <3>2. CASE k = 0 /\ UNCHANGED mem
      <4>1. Mark + k = Mark /\ NextChar + k = NextChar
        BY <1>1, <3>2
      <4>. QED BY <2>2, <3>2, <4>1
    <3>. QED BY <1>6, <3>1, <3>2
  <2>6. good' /\ str' = <<>>
    BY <1>2, <1>3, <2>2
  <2>7. Rising(mem', Mark', NextChar')
    BY <1>5, <2>4, <2>5
  <2>8. given' = <<>>
    BY <1>3, <2>1 DEF Client, Usable, Buffering
  <2>. QED BY <2>3, <2>6, <2>7, <2>8 DEF InPlace
<1>17. FinishGivesAll'
  BY <1>3 DEF IInv, FinishGivesAll, Prefix
<1>. QED BY <1>3, <1>13, <1>15, <1>16, <1>17 DEF IInv

(* recycle() of a writer with a buffer: the string takes the buffer, or    *)
(* the append throws and the writer is bad from then on.                   *)
LEMMA BufferAppended ==
  ASSUME NEW n \in Nat, str = Prefix(n), pos \in Nat, Run(mem, pos, n)
  PROVE  str \o Buffered = Prefix(n + pos)
BY AppendContinues DEF Buffered

LEMMA RecycleBufferingKeepsInv == ASSUME IInv, RecycleBuffering PROVE IInv'
<1>1. /\ pc = "recycle" /\ writer \in Buffering /\ pos' = 0
      /\ UNCHANGED <<mem, end, writer, given, asked, unit, dit, dend, ret>>
  BY DEF RecycleBuffering, Reset, RecycleReturns, RecycleThrows, Return
<1>2. \/ ~good /\ UNCHANGED <<good, str, threw, todo>> /\ pc' = ret
      \/ good /\ str' = str \o Buffered /\ UNCHANGED <<good, threw, todo>> /\ pc' = ret
      \/ good /\ good' = FALSE /\ threw' = TRUE /\ UNCHANGED str /\ pc' = "idle" /\ todo' = 0
  BY DEF RecycleBuffering, RecycleReturns, RecycleThrows, Return
<1>3. /\ asked \in Nat /\ todo \in Nat /\ pos \in Nat /\ ClientTypeOK /\ LoopState
      /\ Mark = pos /\ ret \in Loops
  BY <1>1, InvFacts DEF IInv, TypeOK, LoopState, Mark
<1>4. PICK n \in Nat : str = Prefix(n) /\ (good => n + Mark + todo = asked /\ Run(mem, Mark, n))
  BY <1>1 DEF IInv, Collected
<1>5. /\ StrSize = MinSize /\ end = MinSize /\ StrSize' = StrSize
      /\ (~good /\ given = <<>> => threw) /\ (good => given = <<>>)
  BY <1>1 DEF IInv, Collected, StrSize
<1>6. /\ pc' \in Loops \cup {"idle"} /\ todo' \in 0 .. MaxChars
      /\ \/ todo' = todo /\ pc' = ret
         \/ todo' = 0 /\ pc' = "idle"
  <2>1. todo \in 0 .. MaxChars /\ 0 \in 0 .. MaxChars
    BY <1>3, OutbufAssumption DEF ClientTypeOK
  <2>. QED BY <1>2, <1>3, <2>1
<1>7. good' \in BOOLEAN /\ threw' \in BOOLEAN
  BY <1>2 DEF IInv, TypeOK, ClientTypeOK
<1>8. TypeOK'
  <2>1. ClientTypeOK'
    BY <1>1, <1>3, <1>6, <1>7 DEF ClientTypeOK
  <2>. QED BY <1>1, <1>5, <1>7, <2>1 DEF IInv, TypeOK
<1>9. LoopState'
  BY <1>1, <1>3, <1>6 DEF LoopState, Loops
<1>10. WindowInMemory'
  <2>1. MinSize \in Nat /\ MinSize >= 1
    BY OutbufAssumption
  <2>2. ret \in {"put", "direct", "emit"} => todo <= MinSize
    BY <1>1, <1>3 DEF LoopState
  <2>3. end' = MinSize /\ StrSize' = MinSize /\ pos' = 0
    BY <1>1, <1>5
  <2>4. CASE pc' = ret /\ todo' = todo
    BY <1>3, <2>1, <2>2, <2>3, <2>4 DEF WindowInMemory, WindowRespected, Size, Loops
  <2>5. CASE pc' = "idle"
    BY <2>1, <2>3, <2>5 DEF WindowInMemory, WindowRespected, Loops
  <2>. QED BY <1>6, <2>4, <2>5
<1>11. Collected'
  <2>1. Mark' = 0
    BY <1>1, <1>6 DEF Mark, Loops
  <2>2. CASE ~good /\ UNCHANGED <<good, str, threw, todo>>
    BY <1>1, <1>4, <1>5, <2>2 DEF Collected, Prefix
  <2>3. CASE good /\ str' = str \o Buffered /\ UNCHANGED <<good, threw, todo>>
    <3>1. n + pos + todo = asked /\ Run(mem, pos, n)
      BY <1>3, <1>4, <2>3
    <3>2. str' = Prefix(n + pos)
      BY <1>3, <1>4, <2>3, <3>1, BufferAppended
    <3>3. n + pos \in Nat /\ (n + pos) + 0 + todo = asked
      BY <1>3, <3>1
    <3>4. (n + pos) + Mark' + todo' = asked'
      BY <1>1, <2>1, <2>3, <3>3
    <3>5. Run(mem', Mark', n + pos)
      BY <2>1 DEF Run
    <3>6. good' /\ given' = <<>>
      BY <1>1, <1>5, <2>3
    <3>7. \E q \in Nat : str' = Prefix(q)' /\ (good' => q + Mark' + todo' = asked' /\ Run(mem', Mark', q))
      BY <3>2, <3>3, <3>4, <3>5 DEF Prefix
    <3>. QED BY <1>1, <1>5, <3>6, <3>7 DEF Collected
  <2>4. CASE good /\ good' = FALSE /\ threw' = TRUE /\ UNCHANGED str
    BY <1>1, <1>4, <1>5, <2>4 DEF Collected, Prefix
  <2>. QED BY <1>2, <2>2, <2>3, <2>4
<1>12. FinishGivesAll'
  <2>1. ~threw' => ~threw
    BY <1>2
  <2>. QED BY <1>1, <2>1 DEF IInv, FinishGivesAll, Prefix
<1>. QED BY <1>1, <1>8, <1>9, <1>10, <1>11, <1>12 DEF IInv, Buffering

(* recycle() of a pre-sized string: cells are appended and the window is   *)
(* moved over them, or the append throws and the loop is left.             *)
LEMMA RecyclePreSizedKeepsInv == ASSUME IInv, RecyclePreSized PROVE IInv'
<1>1. /\ pc = "recycle" /\ writer = "pre_sized"
      /\ UNCHANGED <<pos, good, writer, str, given, asked, unit, dit, dend, ret>>
  BY DEF RecyclePreSized, RecycleReturns, RecycleThrows, Return
<1>2. \/ mem' = Appended(More) /\ end' = pos + More /\ UNCHANGED <<threw, todo>> /\ pc' = ret
      \/ threw' = TRUE /\ UNCHANGED <<mem, end>> /\ pc' = "idle" /\ todo' = 0
  BY DEF RecyclePreSized, RecycleReturns, RecycleThrows, Return
<1>3. /\ asked \in Nat /\ todo \in Nat /\ todo <= asked /\ pos \in Nat /\ pos <= end
      /\ end <= StrSize /\ end \in Nat
      /\ StrSize \in Nat /\ ClientTypeOK /\ LoopState /\ Mark = pos /\ ret \in Loops
      /\ mem \in [0 .. StrSize - 1 -> 0 .. MaxChars]
      /\ NextChar \in Nat \ {0}
  BY <1>1, InvFacts DEF IInv, TypeOK, LoopState, Mark
<1>4. InPlace
  BY <1>1 DEF IInv
<1>5. /\ pc' \in Loops \cup {"idle"} /\ todo' \in 0 .. MaxChars
      /\ \/ todo' = todo /\ pc' = ret
         \/ todo' = 0 /\ pc' = "idle"
  <2>1. todo \in 0 .. MaxChars /\ 0 \in 0 .. MaxChars
    BY <1>3, OutbufAssumption DEF ClientTypeOK
  <2>. QED BY <1>2, <1>3, <2>1
<1>6. LoopState' /\ Mark' = pos
  BY <1>1, <1>3, <1>5 DEF LoopState, Loops, Mark
<1>7. /\ StrSize' \in Nat /\ mem' \in [0 .. StrSize' - 1 -> 0 .. MaxChars]
      /\ end' \in Nat /\ end' <= StrSize' /\ pos <= end'
      /\ \A c \in 0 .. pos - 1 : mem'[c] = mem[c]
      /\ pc' = ret => \E e \in Nat : end' = e /\ e - pos >= MinSize
  <2>1. CASE mem' = Appended(More) /\ end' = pos + More
    <3>1. PICK m \in Nat : m = More /\ m >= MinSize
      BY <1>3, OutbufAssumption DEF More
    <3>2. DOMAIN mem = 0 .. StrSize - 1
      BY <1>3
    <3>3. PICK z \in Nat : z = StrSize + m
      BY <1>3
    <3>4. mem' = [c \in 0 .. z - 1 |-> IF c \in 0 .. StrSize - 1 THEN mem[c] ELSE 0]
      <4>1. z - 1 = StrSize + More - 1
        BY <1>3, <3>1, <3>3
      <4>. QED BY <2>1, <3>2, <4>1, Zenon DEF Appended
    <3>5. StrSize' = z
      <4>1. DOMAIN mem' = 0 .. z - 1
        BY <3>4
      <4>. QED BY <4>1, SizeOfInterval DEF StrSize
    <3>6. mem' \in [0 .. z - 1 -> 0 .. MaxChars]
      <4>1. \A c \in 0 .. StrSize - 1 : mem[c] \in 0 .. MaxChars
        BY <1>3
      <4>2. 0 \in 0 .. MaxChars
        BY OutbufAssumption
      <4>. QED BY <3>4, <4>1, <4>2
    <3>7. \A c \in 0 .. pos - 1 : mem'[c] = mem[c]
      <4>1. \A c \in 0 .. pos - 1 : c \in 0 .. StrSize - 1 /\ c \in 0 .. z - 1
        BY <1>3, <3>1, <3>3
      <4>. QED BY <3>4, <4>1
    <3>8. pos + m \in Nat /\ pos + m <= z /\ pos <= pos + m /\ (pos + m) - pos >= MinSize
      BY <1>3, <3>1, <3>3, OutbufAssumption
    <3>9. end' = pos + m
      BY <2>1, <3>1
    <3>10. end' \in Nat /\ end' <= StrSize' /\ pos <= end'
      BY <3>5, <3>8, <3>9
    <3>11. \E e \in Nat : end' = e /\ e - pos >= MinSize
      BY <3>8, <3>9
    <3>12. StrSize' \in Nat /\ mem' \in [0 .. StrSize' - 1 -> 0 .. MaxChars]
      BY <3>5, <3>6
    <3>. QED BY <3>7, <3>10, <3>11, <3>12
  <2>2. CASE UNCHANGED <<mem, end>> /\ pc' = "idle"
    <3>1. StrSize' = StrSize
      BY <2>2 DEF StrSize
    <3>2. pc' # ret
      BY <1>3, <2>2 DEF Loops
    <3>. QED BY <1>3, <2>2, <3>1, <3>2
  <2>. QED BY <1>2, <2>1, <2>2
<1>8. TypeOK'
  <2>1. ClientTypeOK'
    BY <1>1, <1>3, <1>5, <1>7 DEF ClientTypeOK
  <2>2. threw' \in BOOLEAN
    BY <1>2 DEF IInv, TypeOK
  <2>. QED BY <1>1, <1>7, <2>1, <2>2 DEF IInv, TypeOK
<1>9. WindowInMemory'
  <2>1. MinSize \in Nat /\ MinSize >= 1
    BY OutbufAssumption
  <2>2. ret \in {"put", "direct", "emit"} => todo <= MinSize
    BY <1>1, <1>3 DEF LoopState
  <2>3. PICK e \in Nat, q \in Nat : end' = e /\ pos' = q /\ q = pos
    BY <1>1, <1>3, <1>7
  <2>4. CASE pc' = ret /\ todo' = todo
    <3>1. e - q >= MinSize /\ q <= e
      BY <1>3, <1>7, <2>3, <2>4
    <3>2. todo <= MinSize => q + todo <= e
      BY <1>3, <2>1, <3>1
    <3>. QED BY <1>3, <1>7, <2>2, <2>3, <2>4, <3>1, <3>2
             DEF WindowInMemory, WindowRespected, Size, Loops
  <2>5. CASE pc' = "idle"
    BY <1>7, <2>3, <2>5 DEF WindowInMemory, WindowRespected, Loops
  <2>. QED BY <1>5, <2>4, <2>5
<1>10. InPlace'
  <2>1. good' /\ str' = <<>>
    BY <1>1, <1>4 DEF InPlace
  <2>2. ~threw' => Mark' + todo' = asked' /\ Run(mem', Mark', 0)
    <3>1. SUFFICES ASSUME ~threw' PROVE Mark' + todo' = asked' /\ Run(mem', Mark', 0)
      OBVIOUS
    <3>2. threw' = threw /\ todo' = todo
      BY <1>2, <3>1
    <3>3. pos + todo = asked /\ Run(mem, pos, 0)
      BY <1>3, <1>4, <3>1, <3>2 DEF InPlace
    <3>4. Run(mem', pos, 0)
      BY <1>7, <3>3 DEF Run
    <3>. QED BY <1>1, <1>6, <3>2, <3>3, <3>4
  <2>3. Rising(mem', Mark', NextChar')
    <3>1. PICK n \in Nat : NextChar' = n /\ NextChar <= n
      <4>1. PICK u \in Nat : todo' = u /\ u <= todo
        BY <1>3, <1>5
      <4>2. NextChar' = asked - u + 1
        BY <1>1, <4>1 DEF NextChar
      <4>3. asked - u + 1 \in Nat /\ asked - todo + 1 <= asked - u + 1
        BY <1>3, <4>1
      <4>. QED BY <4>2, <4>3 DEF NextChar
    <3>2. Rising(mem, pos, NextChar)
      BY <1>3, <1>4 DEF InPlace
    <3>3. \A c \in 0 .. pos - 1 : mem[c] \in Nat
      BY <1>3, OutbufAssumption
    <3>4. Rising(mem, pos, n)
      BY <1>3, <3>1, <3>2, <3>3 DEF Rising
    <3>5. Rising(mem', pos, n)
      BY <1>7, <3>4 DEF Rising
    <3>. QED BY <1>6, <3>1, <3>5
  <2>4. given' = <<>>
    BY <1>1, <1>4 DEF InPlace
  <2>. QED BY <2>1, <2>2, <2>3, <2>4 DEF InPlace
<1>11. FinishGivesAll'
  <2>1. ~threw' => ~threw
    BY <1>2
  <2>. QED BY <1>1, <2>1 DEF IInv, FinishGivesAll, Prefix
<1>. QED BY <1>1, <1>6, <1>8, <1>9, <1>10, <1>11 DEF IInv, Buffering

(* finish() hands over what the string holds.                              *)
LEMMA HandsOver ==
  ASSUME NEW g, g \in Seq(Given), NEW r \in Given,
         given = g, given' = Append(g, r)
  PROVE  /\ given' \in Seq(Given) /\ given' # <<>>
         /\ given'[1] = IF given = <<>> THEN r ELSE given[1]
<1>1. Append(g, r) \in Seq(Given) /\ Len(Append(g, r)) = Len(g) + 1 /\ Len(g) \in Nat
  BY AppendProperties
<1>2. CASE g = <<>>
  <2>1. Append(g, r)[1] = r
    BY <1>2
  <2>. QED BY <1>1, <1>2, <2>1
<1>3. CASE g # <<>>
  <2>1. Len(g) > 0
    BY <1>3, EmptySeq
  <2>2. 1 \in 1 .. Len(g)
    BY <1>1, <2>1
  <2>3. Append(g, r)[1] = g[1]
    BY <2>2, AppendProperties
  <2>. QED BY <1>1, <1>3, <2>3
<1>. QED BY <1>2, <1>3

LEMMA FinishBufferingKeepsInv == ASSUME IInv, FinishBuffering PROVE IInv'
<1>1. /\ pc = "idle" /\ writer \in Buffering /\ good' = FALSE
      /\ UNCHANGED <<mem, pos, end, writer, client>>
  BY DEF FinishBuffering
<1>2. UNCHANGED <<asked, todo, unit, pc, ret, dit, dend>>
  BY <1>1 DEF client
<1>3. PICK n \in Nat : str = Prefix(n) /\ (good => n + Mark + todo = asked /\ Run(mem, Mark, n))
  BY <1>1 DEF IInv, Collected
<1>4. StrSize = MinSize /\ end = MinSize /\ StrSize' = StrSize
      /\ (~good /\ given = <<>> => threw)
  BY <1>1 DEF IInv, Collected, StrSize
<1>5. Mark = pos /\ pos \in Nat /\ todo = 0 /\ asked \in Nat
  BY <1>1, InvFacts DEF Mark, IInv, LoopState
<1>6. ClientTypeOK' /\ LoopState' /\ WindowInMemory'
  BY <1>1, <1>2, <1>4
     DEF IInv, TypeOK, ClientTypeOK, LoopState, WindowInMemory, WindowRespected, Size
<1>. DEFINE final == IF good THEN str \o Buffered ELSE str
<1>7. PICK f \in Nat : final = Prefix(f) /\ (good => f = asked)
  <2>1. CASE good
    <3>1. n + pos + todo = asked /\ Run(mem, pos, n)
      BY <1>3, <1>5, <2>1
    <3>2. final = Prefix(n + pos)
      BY <1>3, <1>5, <2>1, <3>1, BufferAppended
    <3>3. n + pos \in Nat /\ n + pos = asked
      BY <1>5, <3>1
    <3>. QED BY <3>2, <3>3
  <2>2. CASE ~good
    BY <1>3, <2>2
  <2>. QED BY <2>1, <2>2
<1>. HIDE DEF final
<1>8. CASE given' = Append(given, [str |-> final, asked |-> asked])
           /\ str' = (IF writer = "maker" THEN <<>> ELSE final) /\ UNCHANGED threw
  <2>1. given \in Seq(Given) /\ [str |-> final, asked |-> asked] \in Given
    BY <1>5, <1>7, PrefixSeq DEF IInv, TypeOK, Given
  <2>2. /\ given' \in Seq(Given) /\ given' # <<>>
        /\ given'[1] = IF given = <<>> THEN [str |-> final, asked |-> asked] ELSE given[1]
    BY <1>8, <2>1, HandsOver
  <2>3. TypeOK'
    BY <1>1, <1>4, <1>6, <1>8, <2>2 DEF IInv, TypeOK
  <2>4. Collected'
    <3>1. <<>> = Prefix(0)
      BY DEF Prefix
    <3>2. \E q \in Nat : str' = Prefix(q)
      BY <1>7, <1>8, <3>1
    <3>. QED BY <1>1, <1>4, <2>2, <3>2 DEF Collected, Prefix
  <2>5. FinishGivesAll'
    <3>1. CASE given # <<>>
      BY <1>1, <1>8, <2>2, <3>1 DEF IInv, FinishGivesAll, Prefix
    <3>2. CASE given = <<>>
      <4>1. given'[1].str = final /\ given'[1].asked = asked
        BY <2>2, <3>2
      <4>2. Len(Prefix(f)) = f
        BY PrefixSeq
      <4>3. final = Prefix(Len(final))
        BY <1>7, <4>2
      <4>4. ~threw => final = Prefix(asked)
        BY <1>4, <1>7, <3>2
      <4>5. threw' = threw
        BY <1>8
      <4>. QED BY <4>1, <4>3, <4>4, <4>5 DEF FinishGivesAll, Prefix
    <3>. QED BY <3>1, <3>2
  <2>. QED BY <1>1, <1>6, <2>3, <2>4, <2>5 DEF IInv, Buffering
<1>9. CASE good /\ threw' = TRUE /\ UNCHANGED <<str, given>>
  <2>1. TypeOK'
    BY <1>1, <1>4, <1>6, <1>9 DEF IInv, TypeOK
  <2>2. Collected'
    BY <1>1, <1>3, <1>4, <1>9 DEF Collected, Prefix
  <2>3. FinishGivesAll'
    BY <1>1, <1>9 DEF IInv, FinishGivesAll, Prefix
  <2>. QED BY <1>1, <1>6, <2>1, <2>2, <2>3 DEF IInv, Buffering
<1>10. \/ given' = Append(given, [str |-> final, asked |-> asked])
          /\ str' = (IF writer = "maker" THEN <<>> ELSE final) /\ UNCHANGED threw
       \/ good /\ threw' = TRUE /\ UNCHANGED <<str, given>>
  BY DEF FinishBuffering, final
<1>. QED BY <1>8, <1>9, <1>10

LEMMA FinishPreSizedKeepsInv == ASSUME IInv, FinishPreSized PROVE IInv'
<1>1. /\ pc = "idle" /\ writer = "pre_sized" /\ given = <<>>
      /\ given' = <<[str |-> Buffered, asked |-> asked]>>
      /\ UNCHANGED <<outbuf, client, writer, str, threw>>
  BY DEF FinishPreSized
<1>2. UNCHANGED <<mem, pos, end, good, asked, todo, unit, pc, ret, dit, dend>>
  BY <1>1 DEF outbuf, client
<1>3. /\ Mark = pos /\ pos \in Nat /\ todo = 0 /\ asked \in Nat /\ InPlace
      /\ pos <= StrSize /\ StrSize \in Nat /\ mem \in [0 .. StrSize - 1 -> 0 .. MaxChars]
  BY <1>1, InvFacts DEF Mark, IInv, TypeOK, LoopState
<1>4. Buffered \in Seq(Nat)
  <2>1. \A i \in 1 .. pos : i - 1 \in 0 .. StrSize - 1
    BY <1>3
  <2>2. \A i \in 1 .. pos : mem[i - 1] \in Nat
    BY <1>3, <2>1, OutbufAssumption
  <2>. QED BY <1>3, <2>2, IsASeq DEF Buffered
<1>5. [str |-> Buffered, asked |-> asked] \in Given
  BY <1>3, <1>4 DEF Given
<1>6. given' \in Seq(Given) /\ given'[1] = [str |-> Buffered, asked |-> asked]
  BY <1>1, <1>5
<1>7. TypeOK' /\ LoopState' /\ WindowInMemory'
  BY <1>1, <1>2, <1>6
     DEF IInv, TypeOK, StrSize, ClientTypeOK, LoopState, WindowInMemory, WindowRespected, Size
<1>8. InPlace'
  BY <1>1, <1>2, <1>3 DEF InPlace, Mark, NextChar, Run, Rising
<1>9. FinishGivesAll'
  <2>1. ASSUME ~threw PROVE Buffered = Prefix(asked)
    <3>1. pos + 0 = asked /\ Run(mem, pos, 0)
      BY <1>3, <2>1 DEF InPlace
    <3>2. pos = asked
      BY <1>3, <3>1
    <3>3. \A i \in 1 .. pos : i - 1 \in 0 .. pos - 1 /\ 0 + (i - 1) + 1 = i
      BY <1>3
    <3>4. \A i \in 1 .. pos : mem[i - 1] = i
      BY <3>1, <3>3 DEF Run
    <3>. QED BY <3>2, <3>4 DEF Buffered, Prefix
  <2>. QED BY <1>1, <1>2, <1>6, <2>1 DEF FinishGivesAll, Buffering, Prefix
<1>. QED BY <1>1, <1>7, <1>8, <1>9 DEF IInv, Buffering

LEMMA InitInv == ASSUME StringAssumption PROVE Init => IInv
<1>. SUFFICES ASSUME Init PROVE IInv
  OBVIOUS
<1>1. /\ pos = 0 /\ good = TRUE /\ str = <<>> /\ given = <<>> /\ threw = FALSE
      /\ ClientInit
  BY DEF Init
<1>2. PICK n \in Nat : /\ mem = [c \in 0 .. n - 1 |-> 0] /\ end = n
                       /\ writer \in Buffering \cup {"pre_sized"}
                       /\ writer \in Buffering => n = MinSize
  <2>1. CASE InitBuffering
    BY <2>1, OutbufAssumption DEF InitBuffering
  <2>2. CASE InitPreSized
    BY <2>2 DEF InitPreSized, StringAssumption, Buffering
  <2>. QED BY <2>1, <2>2 DEF Init
<1>3. StrSize = n
  <2>1. DOMAIN mem = 0 .. n - 1
    BY <1>2
  <2>. QED BY <2>1, SizeOfInterval DEF StrSize
<1>4. mem \in [0 .. StrSize - 1 -> 0 .. MaxChars] /\ StrSize \in Nat
  <2>1. 0 \in 0 .. MaxChars
    BY OutbufAssumption
  <2>. QED BY <1>2, <1>3, <2>1
<1>5. ClientTypeOK /\ LoopState /\ WindowInMemory /\ Mark = 0 /\ NextChar = 1
  BY <1>1, <1>2, <1>3, OutbufAssumption
     DEF ClientInit, ClientTypeOK, LoopState, WindowInMemory, WindowRespected, Mark,
         NextChar, Loops
<1>6. TypeOK
  <2>1. given \in Seq(Given)
    BY <1>1
  <2>2. threw \in BOOLEAN
    BY <1>1, Zenon
  <2>3. writer \in Buffering \cup {"pre_sized"}
    BY <1>2, Zenon
  <2>. QED BY <1>4, <1>5, <2>1, <2>2, <2>3, Zenon DEF TypeOK
<1>7. writer \in Buffering => Collected
  <2>1. str = Prefix(0)
    BY <1>1 DEF Prefix
  <2>2. 0 + Mark + todo = asked /\ Run(mem, Mark, 0)
    BY <1>1, <1>5 DEF ClientInit, Run
  <2>. QED BY <1>1, <1>2, <1>3, <2>1, <2>2 DEF Collected
<1>8. writer = "pre_sized" => InPlace
  BY <1>1, <1>5 DEF InPlace, ClientInit, Run, Rising
<1>9. FinishGivesAll
  BY <1>1 DEF FinishGivesAll
<1>. QED BY <1>5, <1>6, <1>7, <1>8, <1>9 DEF IInv

LEMMA NextKeepsInv == IInv /\ [Next]_vars => IInv'
<1>. SUFFICES ASSUME IInv, [Next]_vars PROVE IInv'
  OBVIOUS
<1>1. CASE Client
  BY <1>1, ClientKeepsInv
<1>2. CASE RecycleBuffering
  BY <1>2, RecycleBufferingKeepsInv
<1>3. CASE RecyclePreSized
  BY <1>3, RecyclePreSizedKeepsInv
<1>4. CASE FinishBuffering
  BY <1>4, FinishBufferingKeepsInv
<1>5. CASE FinishPreSized
  BY <1>5, FinishPreSizedKeepsInv
<1>6. CASE UNCHANGED vars
  <2>1. UNCHANGED <<mem, pos, end, good, asked, todo, unit, pc, ret, dit, dend,
                    writer, str, given, threw>>
    BY <1>6 DEF vars, outbuf, client, string
  <2>. QED BY <2>1
       DEF IInv, TypeOK, ClientTypeOK, LoopState, WindowInMemory, WindowRespected, Size,
           StrSize, Collected, InPlace, Mark, NextChar, Run, Rising, FinishGivesAll, Prefix
<1>. QED BY <1>1, <1>2, <1>3, <1>4, <1>5, <1>6 DEF Next, Recycle

(* The invariant holds in every state.                                     *)
THEOREM Invariance == ASSUME StringAssumption PROVE Spec => []IInv
<1>1. Init => IInv
  BY InitInv
<1>2. IInv /\ [Next]_vars => IInv'
  BY NextKeepsInv
<1>. QED BY <1>1, <1>2, PTL DEF Spec

(* What the invariant says about the string a user sees.                   *)
LEMMA InvImplies == IInv => WindowInMemory /\ NothingOverwritten /\ FinishGivesAll
<1>. SUFFICES ASSUME IInv PROVE NothingOverwritten
  BY DEF IInv
<1>. SUFFICES ASSUME writer = "pre_sized", NEW c \in 0 .. pos - 1, NEW d \in 0 .. pos - 1,
                     c < d
              PROVE  0 < mem[c] /\ mem[c] < mem[d]
  BY DEF NothingOverwritten
<1>1. Rising(mem, Mark, NextChar)
  BY DEF IInv, InPlace
<1>2. pos <= Mark /\ pos \in Nat /\ Mark \in Nat
  BY InvFacts DEF Mark, ClientInv, WindowRespected
<1>3. c \in 0 .. Mark - 1 /\ d \in 0 .. Mark - 1
  BY <1>2
<1>. QED BY <1>1, <1>3 DEF Rising

(* The window of a string writer stays inside its buffer or its string,    *)
(* whatever the size a pre-sized string was created with.                  *)
THEOREM WindowSafe == ASSUME StringAssumption PROVE Spec => []WindowInMemory
<1>1. Spec => []IInv
  BY Invariance
<1>. QED BY <1>1, InvImplies, PTL

(* Growing a pre-sized string keeps what was written.                      *)
THEOREM GrowsInPlace == ASSUME StringAssumption PROVE Spec => []NothingOverwritten
<1>1. Spec => []IInv
  BY Invariance
<1>. QED BY <1>1, InvImplies, PTL

(* finish() gives everything that was asked for, in order, unless an       *)
(* append threw.                                                           *)
THEOREM GivesAll == ASSUME StringAssumption PROVE Spec => []FinishGivesAll
<1>1. Spec => []IInv
  BY Invariance
<1>. QED BY <1>1, InvImplies, PTL

-----------------------------------------------------------------------------
(* The string as the user sees it is a beginning of the output, and no     *)
(* more than was asked for while the writer takes characters.              *)
LEMMA ReceivedIsUpto ==
  ASSUME IInv PROVE \E n \in Nat : Received = Sink!Upto(n) /\ (good /\ Usable => n <= asked)
<1>1. asked \in Nat /\ todo \in Nat /\ Mark \in Nat
  BY InvFacts
<1>2. <<>> = Sink!Upto(0) /\ 0 <= asked
  BY <1>1 DEF Sink!Upto
<1>3. CASE writer \in Buffering
  <2>1. PICK n \in Nat : str = Prefix(n) /\ (good => n + Mark + todo = asked)
    BY <1>3 DEF IInv, Collected
  <2>2. str = Sink!Upto(n) /\ (good => n <= asked)
    BY <1>1, <2>1 DEF Prefix, Sink!Upto
  <2>3. CASE Received = str
    BY <2>2, <2>3
  <2>4. CASE Received = given[1].str /\ given # <<>>
    <3>1. ~good
      BY <1>3, <2>4 DEF IInv, Collected
    <3>2. given[1].str = Prefix(Len(given[1].str)) /\ Len(given[1].str) \in Nat
      <4>1. given[1] \in Given
        BY <2>4 DEF IInv, TypeOK
      <4>. QED BY <1>3, <2>4, <4>1 DEF IInv, FinishGivesAll, Given
    <3>3. given[1].str = Sink!Upto(Len(given[1].str))
      BY <3>2, Zenon DEF Prefix, Sink!Upto
    <3>. QED BY <2>4, <3>1, <3>2, <3>3
  <2>5. Received = str \/ (Received = given[1].str /\ given # <<>>)
    BY <1>3 DEF Received, Buffering
  <2>. QED BY <2>3, <2>4, <2>5
<1>4. CASE writer = "pre_sized"
  <2>1. CASE given # <<>> /\ ~threw
    <3>1. Received = given[1].str /\ ~Usable
      BY <1>4, <2>1 DEF Received, Usable, Buffering
    <3>2. given[1].str = Prefix(given[1].asked)
      BY <2>1 DEF IInv, FinishGivesAll
    <3>3. given[1].asked \in Nat
      <4>1. given[1] \in Given
        BY <2>1 DEF IInv, TypeOK
      <4>. QED BY <4>1 DEF Given
    <3>4. Received = Sink!Upto(given[1].asked)
      BY <3>1, <3>2, Zenon DEF Prefix, Sink!Upto
    <3>. QED BY <3>1, <3>3, <3>4
  <2>2. CASE ~(given # <<>> /\ ~threw)
    <3>1. Received = <<>>
      BY <1>4, <2>2 DEF Received
    <3>. QED BY <1>2, <3>1
  <2>. QED BY <2>1, <2>2
<1>. QED BY <1>3, <1>4 DEF IInv, TypeOK

LEMMA InitRefines == Init => Sink!Init
BY DEF Init, InitBuffering, InitPreSized, ClientInit, Received, Usable, Sink!Init

LEMMA ClientRefines == ASSUME IInv, Client PROVE Sink!Ask
<1>1. asked' \in Nat /\ asked <= asked' /\ good' = good
  BY InvFacts, ClientStep DEF Client, ClientInv, ClientTypeOK
<1>2. UNCHANGED <<writer, str, given, threw>>
  BY DEF Client, string
<1>3. Received' = Received /\ Usable' = Usable
  BY <1>2 DEF Received, Usable
<1>. QED BY <1>1, <1>3 DEF Sink!Ask

(* What a step delivers is a longer beginning of the output.               *)
LEMMA Delivered ==
  ASSUME IInv, good, Usable, NEW k \in Nat, Received' = Sink!Upto(k), k <= asked,
         \A n \in Nat : Received = Sink!Upto(n) => n <= k,
         asked' = asked, good' \in BOOLEAN
  PROVE  Sink!Deliver
<1>1. PICK n \in Nat : Received = Sink!Upto(n)
  BY ReceivedIsUpto
<1>2. Len(Received) = n
  BY <1>1 DEF Sink!Upto
<1>3. asked \in Nat
  BY InvFacts
<1>4. k \in Len(Received) .. asked
  BY <1>1, <1>2, <1>3
<1>5. (good' /\ Usable') \in BOOLEAN
  BY Zenon
<1>. QED BY <1>4, <1>5, Zenon DEF Sink!Deliver

LEMMA UptoInjective ==
  ASSUME NEW n \in Nat, NEW k \in Nat, Sink!Upto(n) = Sink!Upto(k) PROVE n = k
<1>1. Len(Sink!Upto(n)) = n /\ Len(Sink!Upto(k)) = k
  BY DEF Sink!Upto
<1>. QED BY <1>1

(* A step that delivers nothing, whatever becomes of the writer.           *)
LEMMA NothingDelivered ==
  ASSUME IInv, good, Usable, Received' = Received, asked' = asked, good' \in BOOLEAN
  PROVE  Sink!Deliver
<1>1. PICK n \in Nat : Received = Sink!Upto(n) /\ n <= asked
  BY ReceivedIsUpto
<1>2. ASSUME NEW q \in Nat, Received = Sink!Upto(q) PROVE q <= n
  <2>1. Sink!Upto(q) = Sink!Upto(n)
    BY <1>1, <1>2
  <2>2. q = n
    BY <2>1, UptoInjective
  <2>. QED BY <2>2
<1>. QED BY <1>1, <1>2, Delivered

LEMMA RecycleRefines ==
  ASSUME IInv, Recycle PROVE Sink!Deliver \/ UNCHANGED Sink!vars
<1>1. UNCHANGED <<asked, writer, given>> /\ Usable' = Usable
  BY DEF Recycle, RecycleBuffering, RecyclePreSized, RecycleReturns, RecycleThrows, Usable
<1>2. asked \in Nat /\ todo \in Nat /\ pos \in Nat /\ good \in BOOLEAN
  BY InvFacts DEF ClientInv, ClientTypeOK
<1>3. CASE RecyclePreSized
  <2>1. writer = "pre_sized" /\ UNCHANGED <<good, str>> /\ pc = "recycle"
    BY <1>3 DEF RecyclePreSized
  <2>2. given = <<>>
    BY <2>1 DEF IInv, InPlace
  <2>3. Received = <<>> /\ Received' = <<>>
    BY <1>1, <2>1, <2>2 DEF Received
  <2>. QED BY <1>1, <2>1, <2>3 DEF Sink!vars
<1>4. CASE RecycleBuffering /\ ~good
  <2>1. UNCHANGED <<good, str, threw>>
    BY <1>4 DEF RecycleBuffering
  <2>2. Received' = Received
    BY <1>1, <2>1 DEF Received
  <2>. QED BY <1>1, <2>1, <2>2 DEF Sink!vars
<1>5. CASE RecycleBuffering /\ good
  <2>1. /\ pc = "recycle" /\ writer \in Buffering /\ Usable
        /\ \/ str' = str \o Buffered /\ UNCHANGED good
           \/ good' = FALSE /\ UNCHANGED str
    BY <1>5 DEF RecycleBuffering, Usable
  <2>2. Mark = pos
    BY <2>1 DEF Mark
  <2>3. given = <<>>
    BY <1>5, <2>1 DEF IInv, Collected
  <2>4. Received = str /\ Received' = str'
    BY <1>1, <2>1, <2>3 DEF Received, Buffering
  <2>5. CASE str' = str \o Buffered /\ UNCHANGED good
    <3>1. PICK n \in Nat : str = Prefix(n) /\ n + pos + todo = asked /\ Run(mem, pos, n)
      BY <1>5, <2>1, <2>2 DEF IInv, Collected
    <3>2. str' = Prefix(n + pos)
      BY <1>2, <2>5, <3>1, BufferAppended
    <3>3. Received = Sink!Upto(n) /\ Received' = Sink!Upto(n + pos)
      BY <2>4, <3>1, <3>2, Zenon DEF Prefix, Sink!Upto
    <3>4. n + pos \in Nat /\ n + pos <= asked /\ n <= n + pos
      BY <1>2, <3>1
    <3>5. ASSUME NEW q \in Nat, Received = Sink!Upto(q) PROVE q <= n + pos
      <4>1. q = n
        BY <3>3, <3>5, UptoInjective
      <4>. QED BY <3>4, <4>1
    <3>. QED BY <1>1, <1>2, <1>5, <2>1, <2>5, <3>3, <3>4, <3>5, Delivered
  <2>6. CASE good' = FALSE /\ UNCHANGED str
    BY <1>1, <1>5, <2>1, <2>4, <2>6, NothingDelivered
  <2>. QED BY <2>1, <2>5, <2>6
<1>. QED BY <1>3, <1>4, <1>5 DEF Recycle

(* The first finish() delivers the rest.  (success stays "none": a string  *)
(* writer reports nothing.)                                                *)
LEMMA FinishBufferingRefines ==
  ASSUME IInv, FinishBuffering PROVE Sink!Deliver \/ UNCHANGED Sink!vars
<1>. DEFINE final == IF good THEN str \o Buffered ELSE str
            r == [str |-> final, asked |-> asked]
<1>1. /\ pc = "idle" /\ writer \in Buffering /\ good' = FALSE /\ Usable /\ Usable'
      /\ UNCHANGED <<asked, writer>>
      /\ \/ /\ given' = Append(given, r)
            /\ str' = (IF writer = "maker" THEN <<>> ELSE final)
         \/ good /\ UNCHANGED <<str, given>>
  BY DEF FinishBuffering, Usable, client
<1>2. asked \in Nat /\ pos \in Nat /\ todo = 0 /\ Mark = pos /\ good \in BOOLEAN
  BY <1>1, InvFacts DEF ClientInv, ClientTypeOK, LoopState, Mark
<1>3. PICK n \in Nat : str = Prefix(n) /\ (good => n + pos = asked /\ Run(mem, pos, n))
  <2>1. PICK n \in Nat : str = Prefix(n) /\ (good => n + Mark + todo = asked /\ Run(mem, Mark, n))
    BY <1>1 DEF IInv, Collected
  <2>2. good => n + pos = asked
    BY <1>2, <2>1
  <2>. QED BY <1>2, <2>1, <2>2
<1>4. good => final = Prefix(asked) /\ n <= asked
  <2>. SUFFICES ASSUME good PROVE final = Prefix(asked) /\ n <= asked
    OBVIOUS
  <2>1. str \o Buffered = Prefix(n + pos)
    BY <1>2, <1>3, BufferAppended
  <2>2. n <= asked
    BY <1>2, <1>3
  <2>. QED BY <1>3, <2>1, <2>2
<1>5. good => given = <<>>
  BY <1>1 DEF IInv, Collected
<1>6. final \in Seq(Nat)
  BY <1>2, <1>3, <1>4, PrefixSeq
<1>. HIDE DEF final
<1>7. CASE /\ given' = Append(given, r)
           /\ str' = (IF writer = "maker" THEN <<>> ELSE final)
  <2>1. given \in Seq(Given) /\ r \in Given
    BY <1>2, <1>6 DEF IInv, TypeOK, Given
  <2>2. given' # <<>> /\ given'[1] = IF given = <<>> THEN r ELSE given[1]
    <3>. HIDE DEF r
    <3>. QED BY <1>7, <2>1, HandsOver
  <2>3. Received' = IF writer = "maker" /\ given # <<>> THEN given[1].str ELSE final
    BY <1>1, <1>7, <2>2 DEF Received, Buffering
  <2>4. CASE good
    <3>1. Received = Sink!Upto(n) /\ Received' = Sink!Upto(asked)
      <4>1. Received = str /\ Received' = final
        BY <1>1, <1>5, <2>3, <2>4 DEF Received, Buffering
      <4>. QED BY <1>3, <1>4, <2>4, <4>1, Zenon DEF Prefix, Sink!Upto
    <3>2. ASSUME NEW q \in Nat, Received = Sink!Upto(q) PROVE q <= asked
      <4>1. q = n
        BY <3>1, <3>2, UptoInjective
      <4>. QED BY <1>4, <2>4, <4>1
    <3>3. asked' = asked /\ good' \in BOOLEAN /\ Usable
      BY <1>1, Zenon
    <3>4. asked <= asked
      BY <1>2
    <3>. QED BY <1>2, <2>4, <3>1, <3>2, <3>3, <3>4, Delivered
  <2>5. CASE ~good
    <3>1. final = str
      BY <2>5 DEF final
    <3>2. Received = IF writer = "maker" /\ given # <<>> THEN given[1].str ELSE str
      BY <1>1 DEF Received, Buffering
    <3>4. Received' = Received
      BY <2>3, <3>1, <3>2, Zenon
    <3>3. good' = good
      BY <1>1, <1>2, <2>5
    <3>. QED BY <1>1, <3>3, <3>4 DEF Sink!vars
  <2>. QED BY <2>4, <2>5
<1>8. CASE good /\ UNCHANGED <<str, given>>
  <2>1. Received' = Received
    BY <1>1, <1>5, <1>8 DEF Received, Buffering
  <2>. QED BY <1>1, <1>8, <2>1, NothingDelivered
<1>. QED BY <1>1, <1>7, <1>8

LEMMA FinishPreSizedRefines == ASSUME IInv, FinishPreSized PROVE Sink!Deliver
<1>1. /\ writer = "pre_sized" /\ given = <<>> /\ Usable /\ pc = "idle"
      /\ given' = <<[str |-> Buffered, asked |-> asked]>>
      /\ UNCHANGED <<outbuf, client, writer, str, threw>>
  BY DEF FinishPreSized, Usable
<1>2. /\ UNCHANGED <<asked, good>> /\ good \in BOOLEAN /\ good /\ asked \in Nat
      /\ FinishGivesAll'
  BY <1>1, InvFacts, FinishPreSizedKeepsInv
     DEF outbuf, client, IInv, InPlace, ClientInv, ClientTypeOK
<1>3. Received = <<>>
  BY <1>1 DEF Received
<1>4. CASE threw
  <2>1. Received' = Received
    BY <1>1, <1>3, <1>4 DEF Received
  <2>. QED BY <1>1, <1>2, <2>1, NothingDelivered
<1>5. CASE ~threw
  <2>1. Received' = given'[1].str
    BY <1>1, <1>5 DEF Received, Buffering
  <2>2. given'[1].str = Prefix(asked)
    BY <1>1, <1>2, <1>5 DEF FinishGivesAll, Prefix
  <2>3. Received' = Sink!Upto(asked) /\ Received = Sink!Upto(0)
    BY <1>3, <2>1, <2>2 DEF Prefix, Sink!Upto
  <2>4. ASSUME NEW q \in Nat, Received = Sink!Upto(q) PROVE q <= asked
    <3>1. q = 0
      BY <2>3, <2>4, UptoInjective
    <3>. QED BY <1>2, <3>1
  <2>. QED BY <1>1, <1>2, <2>3, <2>4, Delivered
<1>. QED BY <1>4, <1>5

LEMMA NextRefines == IInv /\ [Next]_vars => [Sink!Next]_Sink!vars
<1>. SUFFICES ASSUME IInv, [Next]_vars PROVE [Sink!Next]_Sink!vars
  OBVIOUS
<1>1. CASE Client
  BY <1>1, ClientRefines DEF Sink!Next
<1>2. CASE Recycle
  BY <1>2, RecycleRefines DEF Sink!Next
<1>3. CASE FinishBuffering
  BY <1>3, FinishBufferingRefines DEF Sink!Next
<1>4. CASE FinishPreSized
  BY <1>4, FinishPreSizedRefines DEF Sink!Next
<1>5. CASE UNCHANGED vars
  BY <1>5 DEF vars, outbuf, client, string, Received, Usable, Sink!vars
<1>. QED BY <1>1, <1>2, <1>3, <1>4, <1>5 DEF Next

(* Nothing reaches the string out of order, or after an exception or       *)
(* finish().                                                               *)
THEOREM Implements == ASSUME StringAssumption PROVE Spec => DeliversInOrder
<1>1. Init => Sink!Init
  BY InitRefines
<1>2. IInv /\ [Next]_vars => [Sink!Next]_Sink!vars
  BY NextRefines
<1>. QED BY <1>1, <1>2, Invariance, PTL DEF Spec, DeliversInOrder, Sink!Spec
=============================================================================
