------------------------ MODULE StreambufWriter_proofs ------------------------
(***************************************************************************)
(* What basic_streambuf_writer keeps of its promises when sputn throws,    *)
(* wherever it throws and however often: NothingTwice and CountNotTooHigh. *)
(* (FlushingWriters_proofs is about a streambuf whose sputn does not.)     *)
(***************************************************************************)
EXTENDS StreambufWriter, Outbuf_proofs, SequenceTheorems

(* What a good outbuf has in its buffer are characters of the output in    *)
(* order, all of them after the ones that arrived and before the next one. *)
Ahead(s, m, p, next) ==
  /\ \A i \in DOMAIN s : s[i] < next
  /\ \A c \in 0 .. p - 1 : 0 < m[c] /\ m[c] < next
  /\ \A c, d \in 0 .. p - 1 : c < d => m[c] < m[d]
  /\ \A i \in DOMAIN s : \A c \in 0 .. p - 1 : s[i] < m[c]

BufferAhead == Ahead(sink, mem, Mark, NextChar)

(* The inductive invariant.                                                *)
ThrowInv ==
  /\ mem \in [0 .. MinSize - 1 -> 0 .. MaxChars]
  /\ sink \in Seq(1 .. MaxChars) /\ count \in Nat
  /\ ClientTypeOK /\ LoopState /\ WindowInMemory
  /\ NothingTwice /\ CountNotTooHigh
  /\ good => BufferAhead

LEMMA ThrowFacts ==
  ASSUME ThrowInv
  PROVE  /\ ClientInv
         /\ Len(sink) \in Nat
         /\ Mark \in Nat /\ Mark <= MinSize
         /\ asked \in Nat /\ todo \in Nat /\ NextChar \in Nat
  BY OutbufAssumption
     DEF ThrowInv, ClientTypeOK, WindowInMemory, WindowRespected, ClientInv,
         LoopState, Mark, NextChar

(* Characters stored next to the ones in the buffer stay in order.         *)
LEMMA StoreAhead ==
  ASSUME NEW s \in Seq(1 .. MaxChars), NEW a \in Nat, NEW k \in Nat, NEW n \in Nat \ {0},
         mem \in [0 .. MinSize - 1 -> 0 .. MaxChars],
         a + k <= MinSize, Ahead(s, mem, a, n), Store(a, k, n)
  PROVE  Ahead(s, mem', a + k, n + k)
<1>1. mem' = [c \in 0 .. MinSize - 1 |->
                IF a <= c /\ c < a + k THEN n + (c - a) ELSE mem[c]]
  BY DEF Store
<1>2. ASSUME NEW c \in 0 .. a + k - 1
      PROVE  mem'[c] = IF c < a THEN mem[c] ELSE n + (c - a)
  <2>1. c \in 0 .. MinSize - 1
    BY OutbufAssumption
  <2>2. CASE c < a
    BY <1>1, <2>1, <2>2
  <2>3. CASE a <= c
    BY <1>1, <2>1, <2>3
  <2>. QED BY <2>2, <2>3
<1>3. /\ \A c \in 0 .. a - 1 : mem[c] \in Nat /\ 0 < mem[c] /\ mem[c] < n
      /\ \A i \in DOMAIN s : s[i] \in Nat /\ s[i] < n
  BY OutbufAssumption DEF Ahead
<1>4. ASSUME NEW c \in 0 .. a + k - 1 PROVE 0 < mem'[c] /\ mem'[c] < n + k
  BY <1>2, <1>3
<1>5. ASSUME NEW c \in 0 .. a + k - 1, NEW d \in 0 .. a + k - 1, c < d
      PROVE  mem'[c] < mem'[d]
  <2>1. CASE d < a
    BY <1>2, <1>5, <2>1 DEF Ahead
  <2>2. CASE a <= d
    <3>1. mem'[d] = n + (d - a)
      BY <1>2, <2>2
    <3>2. CASE c < a
      BY <1>2, <1>3, <2>2, <3>1, <3>2
    <3>3. CASE a <= c
      BY <1>2, <1>5, <3>1, <3>3
    <3>. QED BY <3>2, <3>3
  <2>. QED BY <2>1, <2>2
<1>6. ASSUME NEW i \in DOMAIN s, NEW c \in 0 .. a + k - 1 PROVE s[i] < mem'[c]
  <2>1. CASE c < a
    BY <1>2, <2>1 DEF Ahead
  <2>2. CASE a <= c
    BY <1>2, <1>3, <2>2
  <2>. QED BY <2>1, <2>2
<1>7. \A i \in DOMAIN s : s[i] < n + k
  BY <1>3
<1>. DEFINE m == mem'
<1>8. Ahead(s, m, a + k, n + k)
  <2>. HIDE DEF m
  <2>1. /\ \A c \in 0 .. a + k - 1 : 0 < m[c] /\ m[c] < n + k
        /\ \A c, d \in 0 .. a + k - 1 : c < d => m[c] < m[d]
        /\ \A i \in DOMAIN s : \A c \in 0 .. a + k - 1 : s[i] < m[c]
    BY <1>4, <1>5, <1>6 DEF m
  <2>. QED BY <1>7, <2>1 DEF Ahead
<1>. QED BY <1>8

(* Every step of the client preserves the invariant.                       *)
LEMMA ClientKeepsThrowInv == ASSUME ThrowInv, Client PROVE ThrowInv'
<1>1. /\ ClientInv /\ Len(sink) \in Nat /\ Mark \in Nat /\ Mark <= MinSize
      /\ NextChar \in Nat /\ asked \in Nat /\ todo \in Nat
  BY ThrowFacts
<1>2. /\ ClientInv' /\ UNCHANGED <<end, good>> /\ asked <= asked'
      /\ \E k \in Nat : Placed(k)
  BY <1>1, ClientStep DEF Client
<1>3. UNCHANGED <<sink, count, results>>
  BY DEF Client, flushing
<1>4. PICK k \in Nat : Placed(k)
  BY <1>2
<1>5. Mark' = Mark + k /\ Mark + k <= end
  BY <1>4, Zenon DEF Placed
<1>11. Store(Mark, k, NextChar) \/ (k = 0 /\ UNCHANGED mem)
  BY <1>4, Zenon DEF Placed
<1>12. NextChar + k <= asked' + 1
  BY <1>4, Zenon DEF Placed
<1>13. good => asked' + todo = asked + todo' + k
  BY <1>4, Zenon DEF Placed
<1>6. asked' \in Nat /\ todo' \in Nat /\ asked' <= MaxChars
  BY <1>2, OutbufAssumption DEF ClientInv, ClientTypeOK
<1>7. mem \in [0 .. MinSize - 1 -> 0 .. MaxChars] /\ end = MinSize
  BY DEF ThrowInv, WindowInMemory
<1>8. mem' \in [0 .. MinSize - 1 -> 0 .. MaxChars]
  <2>1. CASE Store(Mark, k, NextChar)
    <3>0. \A n, a \in Nat : a <= MaxChars /\ n + k <= a + 1 => n + k <= MaxChars + 1
      BY OutbufAssumption
    <3>1. NextChar + k <= MaxChars + 1
      BY <1>1, <1>6, <1>12, <3>0, Zenon
    <3>. QED BY <1>1, <1>7, <2>1, <3>1, StoreTyped
  <2>2. CASE k = 0 /\ UNCHANGED mem
    BY <1>7, <2>2
  <2>. QED BY <1>11, <2>1, <2>2
<1>9. ASSUME good PROVE BufferAhead'
  <2>0. BufferAhead /\ asked' + todo = asked + todo' + k
    BY <1>9, <1>13, Zenon DEF ThrowInv
  <2>1. NextChar' = NextChar + k /\ 0 < NextChar
    <3>1. \A a, t, b, u \in Nat : b + t = a + u + k => b - u + 1 = (a - t + 1) + k
      OBVIOUS
    <3>2. \A a, t \in Nat : t <= a => 0 < a - t + 1
      OBVIOUS
    <3>3. todo <= asked
      BY <1>1 DEF ClientInv, LoopState
    <3>4. 0 < NextChar
      BY <1>1, <3>2, <3>3, Zenon DEF NextChar
    <3>5. NextChar' = NextChar + k
      <4>1. PICK b \in Nat, u \in Nat : asked' = b /\ todo' = u
        BY <1>6
      <4>2. b + todo = asked + u + k
        BY <2>0, <4>1
      <4>3. b - u + 1 = (asked - todo + 1) + k
        BY <1>1, <3>1, <4>2
      <4>4. NextChar' = b - u + 1
        BY <4>1 DEF NextChar
      <4>. QED BY <4>3, <4>4 DEF NextChar
    <3>. QED BY <3>4, <3>5
  <2>2. Ahead(sink, mem', Mark + k, NextChar + k)
    <3>1. Ahead(sink, mem, Mark, NextChar) /\ sink \in Seq(1 .. MaxChars)
      BY <2>0 DEF BufferAhead, ThrowInv
    <3>2. CASE Store(Mark, k, NextChar)
      <4>1. Mark + k <= MinSize /\ NextChar \in Nat \ {0}
        BY <1>1, <1>5, <1>7, <2>1
      <4>. QED BY <1>1, <1>7, <3>1, <3>2, <4>1, StoreAhead
    <3>3. CASE k = 0 /\ UNCHANGED mem
      <4>1. Mark + k = Mark /\ NextChar + k = NextChar
        BY <1>1, <3>3
      <4>. QED BY <3>1, <3>3, <4>1
    <3>. QED BY <1>11, <3>2, <3>3
  <2>3. sink' = sink /\ Mark' = Mark + k /\ NextChar' = NextChar + k
    BY <1>3, <1>5, <2>1
  <2>. QED BY <2>2, <2>3, Zenon DEF BufferAhead
<1>10. good' => BufferAhead'
  BY <1>2, <1>9, Zenon
<1>. QED BY <1>2, <1>3, <1>8, <1>10
         DEF ThrowInv, ClientInv, WindowInMemory, NothingTwice, CountNotTooHigh

(* What arrives of the buffer arrives in order, after what arrived before. *)
LEMMA TakeOrdered ==
  ASSUME ThrowInv, good, pc # "transcode", NEW k \in 0 .. pos,
         sink' = sink \o Buffered(k)
  PROVE  /\ sink' \in Seq(1 .. MaxChars) /\ Len(sink') = Len(sink) + k
         /\ NothingTwice'
         /\ \A i \in DOMAIN sink' : sink'[i] < NextChar
<1>. DEFINE L == Len(sink)
            b == Buffered(k)
<1>1. /\ L \in Nat /\ pos \in Nat /\ pos <= MinSize /\ Mark = pos /\ k \in Nat /\ k <= pos
      /\ sink \in Seq(1 .. MaxChars) /\ NextChar \in Nat
      /\ mem \in [0 .. MinSize - 1 -> 0 .. MaxChars]
  BY ThrowFacts, OutbufAssumption DEF ThrowInv, ClientInv, ClientTypeOK, Mark
<1>2. BufferAhead
  BY DEF ThrowInv
<1>3. \A i \in 1 .. k : i - 1 \in 0 .. pos - 1 /\ i - 1 \in 0 .. MinSize - 1
  BY <1>1, OutbufAssumption
<1>4. b = [i \in 1 .. k |-> mem[i - 1]]
  BY DEF Buffered
<1>5. \A i \in 1 .. k : mem[i - 1] \in 1 .. MaxChars
  BY <1>1, <1>2, <1>3, OutbufAssumption DEF BufferAhead, Ahead
<1>6. b \in Seq(1 .. MaxChars) /\ Len(b) = k
  <2>. HIDE DEF b
  <2>1. [i \in 1 .. k |-> mem[i - 1]] \in Seq(1 .. MaxChars)
    BY <1>1, <1>5, IsASeq
  <2>. QED BY <1>1, <1>4, <2>1
<1>7. /\ sink' \in Seq(1 .. MaxChars) /\ Len(sink') = L + k
      /\ \A i \in 1 .. L + k : sink'[i] = IF i <= L THEN sink[i] ELSE b[i - L]
  <2>. HIDE DEF b
  <2>1. sink' = sink \o b
    BY DEF b
  <2>2. /\ sink \o b \in Seq(1 .. MaxChars)
        /\ Len(sink \o b) = Len(sink) + Len(b)
        /\ \A i \in 1 .. Len(sink) + Len(b) : (sink \o b)[i] =
             IF i <= Len(sink) THEN sink[i] ELSE b[i - Len(sink)]
    BY <1>1, <1>6, ConcatProperties
  <2>. QED BY <1>6, <2>1, <2>2
<1>8. /\ DOMAIN sink' = 1 .. L + k /\ DOMAIN sink = 1 .. L
      /\ \A i \in 1 .. L : sink[i] \in Nat
  BY <1>1, <1>7, OutbufAssumption
<1>9. \A i \in 1 .. L + k : i > L =>
        sink'[i] = mem[i - L - 1] /\ i - L - 1 \in 0 .. pos - 1
  <2>. HIDE DEF b, L
  <2>1. ASSUME NEW i \in 1 .. L + k, i > L
        PROVE  sink'[i] = mem[i - L - 1] /\ i - L - 1 \in 0 .. pos - 1
    <3>1. i - L \in 1 .. k /\ i - L - 1 \in 0 .. pos - 1 /\ ~(i <= L)
      BY <1>1, <2>1
    <3>2. sink'[i] = b[i - L]
      BY <1>7, <3>1
    <3>. QED BY <1>4, <3>1, <3>2
  <2>. QED BY <2>1
<1>10. \A i \in 1 .. L + k : i <= L => sink'[i] = sink[i] /\ i \in 1 .. L
  <2>. HIDE DEF b, L
  <2>. QED BY <1>1, <1>7
<1>. HIDE DEF b, L
<1>0. \A i \in 1 .. L + k : i \in Nat /\ (i <= L \/ i > L) /\ ~(i <= L /\ i > L)
  BY <1>1
<1>11. ASSUME NEW i \in 1 .. L + k, NEW j \in 1 .. L + k, i < j
       PROVE  sink'[i] < sink'[j]
  <2>1. CASE j <= L
    <3>1. i <= L
      BY <1>1, <1>11, <2>1
    <3>2. sink[i] < sink[j]
      BY <1>8, <1>10, <1>11, <2>1, <3>1 DEF ThrowInv, NothingTwice
    <3>. QED BY <1>10, <2>1, <3>1, <3>2
  <2>2. CASE i <= L /\ j > L
    BY <1>1, <1>2, <1>8, <1>9, <1>10, <2>2 DEF BufferAhead, Ahead
  <2>3. CASE i > L
    <3>1. j > L /\ i - L - 1 < j - L - 1
      BY <1>1, <1>11, <2>3
    <3>. QED BY <1>1, <1>2, <1>9, <2>3, <3>1 DEF BufferAhead, Ahead
  <2>. QED BY <1>0, <2>1, <2>2, <2>3
<1>12. ASSUME NEW i \in 1 .. L + k PROVE sink'[i] < NextChar
  <2>1. CASE i <= L
    BY <1>2, <1>8, <1>10, <2>1 DEF BufferAhead, Ahead
  <2>2. CASE i > L
    BY <1>1, <1>2, <1>9, <2>2 DEF BufferAhead, Ahead
  <2>. QED BY <1>0, <2>1, <2>2
<1>. QED BY <1>7, <1>8, <1>11, <1>12 DEF NothingTwice, L

(* After a flush the buffer is empty, so that only what arrived counts.    *)
LEMMA EmptyAhead ==
  ASSUME ThrowInv, \A i \in DOMAIN sink' : sink'[i] \in Nat /\ sink'[i] < NextChar,
         pos' = 0, pc' # "transcode", asked' = asked, todo' = todo \/ todo' = 0
  PROVE  BufferAhead'
<1>1. asked \in Nat /\ todo \in Nat /\ todo <= asked
  BY ThrowFacts DEF ClientInv, LoopState
<1>2. PICK n \in Nat : NextChar' = n /\ NextChar <= n /\ NextChar \in Nat
  <2>1. PICK u \in Nat : todo' = u /\ u <= todo
    BY <1>1
  <2>2. NextChar' = asked - u + 1
    BY <2>1 DEF NextChar
  <2>3. asked - u + 1 \in Nat /\ asked - todo + 1 \in Nat /\ asked - todo + 1 <= asked - u + 1
    BY <1>1, <2>1
  <2>. QED BY <2>2, <2>3 DEF NextChar
<1>3. Mark' = 0
  BY DEF Mark
<1>4. \A i \in DOMAIN sink' : sink'[i] < n
  BY <1>2
<1>. DEFINE s == sink'
            m == mem'
<1>5. Ahead(s, m, 0, n)
  <2>1. \A i \in DOMAIN s : s[i] < n
    BY <1>4
  <2>. HIDE DEF s, m
  <2>. QED BY <2>1 DEF Ahead
<1>. QED BY <1>2, <1>3, <1>5, Zenon DEF BufferAhead

(* What recycle() and finish() share: the buffer is given up, and some of  *)
(* its first characters arrived if the outbuf was good.                    *)
LEMMA GiveUpKeepsThrowInv ==
  ASSUME ThrowInv, pc \in {"idle", "recycle"},
         pos' = 0, UNCHANGED <<mem, end, asked, unit, dit, dend>>,
         good' \in BOOLEAN, good' => good,
         \/ UNCHANGED <<sink, count>>
         \/ good /\ \E k \in 0 .. pos : /\ sink' = sink \o Buffered(k)
                                        /\ count' \in {count, count + k},
         \/ pc' = ret /\ pc = "recycle" /\ UNCHANGED <<ret, todo>>
         \/ pc' = "idle" /\ todo' = 0 /\ UNCHANGED ret
  PROVE  ThrowInv'
<1>1. /\ Len(sink) \in Nat /\ count \in Nat /\ count <= Len(sink)
      /\ sink \in Seq(1 .. MaxChars) /\ end = MinSize
  BY ThrowFacts DEF ThrowInv, CountNotTooHigh, WindowInMemory
<1>2. /\ sink' \in Seq(1 .. MaxChars) /\ NothingTwice'
      /\ count' \in Nat /\ CountNotTooHigh'
      /\ good => \A i \in DOMAIN sink' : sink'[i] < NextChar
  <2>1. CASE UNCHANGED <<sink, count>>
    BY <2>1 DEF ThrowInv, NothingTwice, CountNotTooHigh, BufferAhead, Ahead
  <2>2. CASE good /\ \E k \in 0 .. pos : /\ sink' = sink \o Buffered(k)
                                         /\ count' \in {count, count + k}
    <3>1. PICK k \in 0 .. pos : sink' = sink \o Buffered(k) /\ count' \in {count, count + k}
      BY <2>2
    <3>2. /\ sink' \in Seq(1 .. MaxChars) /\ Len(sink') = Len(sink) + k
          /\ NothingTwice' /\ \A i \in DOMAIN sink' : sink'[i] < NextChar
      BY <2>2, <3>1, TakeOrdered
    <3>3. k \in Nat
      BY <3>1 DEF ThrowInv, ClientTypeOK
    <3>4. PICK n \in Nat : count' = n /\ n <= Len(sink) + k
      BY <1>1, <3>1, <3>3
    <3>. QED BY <3>2, <3>4 DEF CountNotTooHigh
  <2>. QED BY <2>1, <2>2
<1>3. ClientTypeOK /\ LoopState /\ pos <= end
  BY DEF ThrowInv, WindowInMemory, WindowRespected
<1>4. pc' \in Loops \cup {"idle"} /\ pc' # "transcode" /\ todo' \in 0 .. MaxChars
  <2>1. todo \in 0 .. MaxChars /\ 0 \in 0 .. MaxChars
    BY <1>3, OutbufAssumption DEF ClientTypeOK
  <2>. QED BY <1>3, <2>1 DEF LoopState, Loops
<1>5. ClientTypeOK'
  BY <1>3, <1>4 DEF ClientTypeOK
<1>6. LoopState'
  <2>1. CASE pc' = ret /\ pc = "recycle" /\ UNCHANGED <<ret, todo>>
    BY <1>3, <2>1 DEF LoopState, Loops
  <2>2. CASE pc' = "idle" /\ todo' = 0 /\ UNCHANGED ret
    <3>1. asked \in Nat
      BY ThrowFacts
    <3>. QED BY <2>2, <3>1 DEF LoopState, Loops
  <2>. QED BY <2>1, <2>2
<1>7. WindowInMemory'
  <2>1. CASE pc' = ret /\ pc = "recycle" /\ UNCHANGED <<ret, todo>>
    <3>1. MinSize \in Nat /\ MinSize >= 1
      BY OutbufAssumption
    <3>2. ret \in {"put", "direct", "emit"} => todo <= MinSize
      BY <1>3, <2>1 DEF LoopState
    <3>3. todo \in Nat
      BY ThrowFacts
    <3>. QED BY <1>1, <1>4, <2>1, <3>1, <3>2, <3>3
             DEF WindowInMemory, WindowRespected, Size
  <2>2. CASE pc' = "idle" /\ todo' = 0 /\ UNCHANGED ret
    BY <1>1, <2>2, OutbufAssumption DEF WindowInMemory, WindowRespected, Loops
  <2>. QED BY <2>1, <2>2
<1>8. good' => BufferAhead'
  <2>1. ASSUME good PROVE BufferAhead'
    <3>1. \A i \in DOMAIN sink' : sink'[i] \in Nat /\ sink'[i] < NextChar
      BY <1>2, <2>1, OutbufAssumption
    <3>2. asked' = asked /\ (todo' = todo \/ todo' = 0)
      OBVIOUS
    <3>. QED BY <1>4, <3>1, <3>2, EmptyAhead
  <2>. QED BY <2>1
<1>9. mem' \in [0 .. MinSize - 1 -> 0 .. MaxChars]
  BY DEF ThrowInv
<1>. QED BY <1>2, <1>5, <1>6, <1>7, <1>8, <1>9 DEF ThrowInv

LEMMA NextKeepsThrowInv == ThrowInv /\ [Next]_vars => ThrowInv'
<1>. SUFFICES ASSUME ThrowInv, [Next]_vars PROVE ThrowInv'
  OBVIOUS
<1>1. CASE Client
  BY <1>1, ClientKeepsThrowInv
<1>2. CASE Recycle
  <2>1. pc = "recycle" /\ pos' = 0 /\ UNCHANGED <<mem, end, asked, unit, dit, dend, ret>>
    BY <1>2 DEF Recycle, Reset, Flushed, Sputn, SputnThrows, RecycleReturns, RecycleThrows,
                Return
  <2>4. good' \in BOOLEAN /\ (good' => good)
    <3>1. good \in BOOLEAN
      BY DEF ThrowInv, ClientTypeOK
    <3>2. good' = good \/ (good /\ \E k \in 0 .. pos : good' = (k = pos))
      BY <1>2, Zenon DEF Recycle, Flushed
    <3>3. CASE good' = good
      BY <3>1, <3>3
    <3>4. CASE good /\ \E k \in 0 .. pos : good' = (k = pos)
      <4>1. PICK k \in 0 .. pos : good' = (k = pos)
        BY <3>4
      <4>2. (k = pos) \in BOOLEAN
        OBVIOUS
      <4>. QED BY <3>4, <4>1, <4>2
    <3>. QED BY <3>2, <3>3, <3>4
  <2>2. \/ UNCHANGED <<sink, count>>
        \/ good /\ \E k \in 0 .. pos : /\ sink' = sink \o Buffered(k)
                                       /\ count' \in {count, count + k}
    BY <1>2 DEF Recycle, Flushed, Sputn, Take, SputnThrows
  <2>3. \/ pc' = ret /\ pc = "recycle" /\ UNCHANGED <<ret, todo>>
        \/ pc' = "idle" /\ todo' = 0 /\ UNCHANGED ret
    BY <1>2 DEF Recycle, SputnThrows, RecycleReturns, RecycleThrows, Return
  <2>. QED BY <2>1, <2>2, <2>3, <2>4, GiveUpKeepsThrowInv
<1>3. CASE Finish
  <2>1. /\ pc = "idle" /\ pos' = 0 /\ UNCHANGED <<mem, end, asked, unit, dit, dend, ret>>
        /\ good' \in BOOLEAN /\ ~good' /\ pc' = "idle" /\ todo' = 0
    BY <1>3 DEF Finish, MayFinish, Reset, Sputn, SputnThrows, RecycleThrows, Return, client,
                ThrowInv, LoopState
  <2>2. \/ UNCHANGED <<sink, count>>
        \/ good /\ \E k \in 0 .. pos : /\ sink' = sink \o Buffered(k)
                                       /\ count' \in {count, count + k}
    BY <1>3 DEF Finish, Sputn, Take, SputnThrows
  <2>. QED BY <2>1, <2>2, GiveUpKeepsThrowInv
<1>4. CASE UNCHANGED vars
  BY <1>4 DEF vars, outbuf, client, flushing, ThrowInv, ClientTypeOK, LoopState,
              WindowInMemory, WindowRespected, NothingTwice, CountNotTooHigh,
              BufferAhead, Ahead, Mark, NextChar, Size, Loops
<1>. QED BY <1>1, <1>2, <1>3, <1>4 DEF Next

(* What a client that looks at asked and good() sees of a step.            *)
LEMMA StepSeen ==
  ASSUME ThrowInv, [Next]_vars
  PROVE  \/ asked' \in Nat /\ asked <= asked' /\ good' = good
         \/ good /\ good' \in BOOLEAN /\ asked' = asked
<1>1. asked \in Nat /\ good \in BOOLEAN
  BY ThrowFacts DEF ThrowInv, ClientTypeOK
<1>2. CASE Client
  <2>1. ClientInv /\ Mark \in Nat /\ Mark <= MinSize
    BY ThrowFacts
  <2>2. ClientInv' /\ UNCHANGED good /\ asked <= asked'
    BY <1>2, <2>1, ClientStep DEF Client
  <2>3. asked' \in Nat
    BY <2>2, OutbufAssumption DEF ClientInv, ClientTypeOK
  <2>. QED BY <2>2, <2>3
<1>3. CASE Recycle \/ Finish
  <2>1. asked' = asked
    BY <1>3 DEF Recycle, Finish, Flushed, Sputn, SputnThrows, RecycleReturns,
                RecycleThrows, Return, client
  <2>2. good' = good \/ (good /\ \E k \in 0 .. pos : good' = (k = pos)) \/ good' = FALSE
    BY <1>3, Zenon DEF Recycle, Finish, Flushed
  <2>3. CASE good' = good
    <3>1. asked <= asked
      BY <1>1
    <3>. QED BY <1>1, <2>1, <2>3, <3>1
  <2>4. CASE good /\ \E k \in 0 .. pos : good' = (k = pos)
    <3>1. PICK k \in 0 .. pos : good' = (k = pos)
      BY <2>4
    <3>2. (k = pos) \in BOOLEAN
      OBVIOUS
    <3>. QED BY <2>1, <2>4, <3>1, <3>2
  <2>5. CASE good' = FALSE
    <3>1. CASE good
      <4>1. good' \in BOOLEAN
        BY <2>5
      <4>. QED BY <2>1, <3>1, <4>1
    <3>2. CASE ~good
      <4>1. good' = good
        BY <1>1, <2>5, <3>2
      <4>. QED BY <2>3, <4>1
    <3>. QED BY <3>1, <3>2
  <2>. QED BY <2>2, <2>3, <2>4, <2>5
<1>4. CASE UNCHANGED vars
  <2>1. asked' = asked /\ good' = good
    BY <1>4 DEF vars, outbuf, client
  <2>2. asked <= asked
    BY <1>1
  <2>. QED BY <1>1, <2>1, <2>2
<1>. QED BY <1>2, <1>3, <1>4 DEF Next

LEMMA InitThrowInv == Init => ThrowInv
  BY OutbufAssumption
     DEF Init, ClientInit, ThrowInv, ClientTypeOK, LoopState, WindowInMemory,
         WindowRespected, NothingTwice, CountNotTooHigh, BufferAhead, Ahead, Mark, Size, Loops

(* The invariant holds in every state, whether or not sputn throws.        *)
THEOREM ThrowInvariance == Spec => []ThrowInv
<1>. QED BY InitThrowInv, NextKeepsThrowInv, PTL DEF Spec

LEMMA ThrowInvImplies == ThrowInv => WindowInMemory /\ NothingTwice /\ CountNotTooHigh
  BY DEF ThrowInv

(* After an exception of sputn no loop steps out of the buffer either.     *)
THEOREM WindowSafeThrowing == Spec => []WindowInMemory
<1>. QED BY ThrowInvImplies, ThrowInvariance, PTL

(* No character arrives twice or out of order, however often sputn throws  *)
(* and the client goes on.                                                 *)
THEOREM ArrivesOnce == Spec => []NothingTwice
<1>. QED BY ThrowInvImplies, ThrowInvariance, PTL

(* result::count never exceeds what arrived.                               *)
THEOREM CountBounded == Spec => []CountNotTooHigh
<1>. QED BY ThrowInvImplies, ThrowInvariance, PTL
=============================================================================
