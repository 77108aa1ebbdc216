------------------------ MODULE FlushingWriters_proofs ------------------------
(***************************************************************************)
(* An outbuf that is a narrow_cfile_writer, a wide_cfile_writer or a       *)
(* basic_streambuf_writer keeps its promises for every buffer size, every  *)
(* width of a code point, every number of characters and of calls of       *)
(* finish(), and wherever fwrite, fputwc or sputn stops short.             *)
(*                                                                         *)
(* The lemmas up to the first line speak of the steps the three classes    *)
(* share: the client's, the flush of the buffer, and finish().             *)
(***************************************************************************)
EXTENDS FlushingWriters, Outbuf_proofs, SequenceTheorems

(* What the results say of the calls of finish(): after the first one the  *)
(* outbuf is bad, and that one told the truth.                             *)
ResultsTrue ==
  results # <<>> =>
    /\ ~good
    /\ results[1].success <=> results[1].count = results[1].asked

(* The inductive invariant.  NothingLostWhileGood is what carries the      *)
(* promise of finish() across recycle(): it accounts for every character   *)
(* asked for, the ones a loop still holds included.                        *)
IInv ==
  /\ TypeOK
  /\ LoopState
  /\ WindowInMemory
  /\ NothingLostWhileGood
  /\ CountIsExact
  /\ ResultsTrue

(* The invariant implies the client's, and Mark is a place in the buffer.  *)
LEMMA InvFacts ==
  ASSUME IInv
  PROVE  /\ ClientInv
         /\ Len(sink) \in Nat
         /\ Mark \in Nat /\ Mark <= MinSize
         /\ asked - todo + 1 \in Nat
  BY OutbufAssumption
     DEF IInv, TypeOK, ClientTypeOK, WindowInMemory, WindowRespected, ClientInv,
         LoopState, Mark

(* Every step of the client preserves the invariant.                       *)
LEMMA ClientKeepsInv == ASSUME IInv, Client PROVE IInv'
<1>1. /\ ClientInv /\ Len(sink) \in Nat /\ Mark \in Nat /\ Mark <= MinSize
      /\ NextChar \in Nat
  BY InvFacts DEF NextChar
<1>2. /\ ClientInv' /\ UNCHANGED <<end, good>> /\ asked <= asked'
      /\ \E k \in Nat : Placed(k)
  BY <1>1, ClientStep DEF Client
<1>3. UNCHANGED <<sink, count, results>>
  BY DEF Client, flushing
<1>4. PICK k \in Nat : Placed(k)
  BY <1>2
<1>5. Mark' = Mark + k /\ Mark + k <= end
  BY <1>4, Zenon DEF Placed
<1>6. Store(Mark, k, NextChar) \/ (k = 0 /\ UNCHANGED mem)
  BY <1>4, Zenon DEF Placed
<1>7. NextChar + k <= asked' + 1
  BY <1>4, Zenon DEF Placed
<1>8. good => asked' + todo = asked + todo' + k
  BY <1>4, Zenon DEF Placed
<1>9. asked \in Nat /\ todo \in Nat /\ asked' \in Nat /\ todo' \in Nat /\ asked' <= MaxChars
  BY <1>1, <1>2, OutbufAssumption DEF ClientInv, ClientTypeOK
<1>10. /\ mem' \in [0 .. MinSize - 1 -> 0 .. MaxChars]
       /\ good => \A c \in 0 .. Mark' - 1 : mem'[c] = Len(sink) + c + 1
  <2>1. mem \in [0 .. MinSize - 1 -> 0 .. MaxChars] /\ end = MinSize
    BY DEF IInv, TypeOK, WindowInMemory
  <2>2. good => /\ NextChar = Len(sink) + Mark + 1
                /\ \A c \in 0 .. Mark - 1 : mem[c] = Len(sink) + c + 1
    BY <1>1, <1>9 DEF IInv, NothingLostWhileGood, NextChar
  <2>3. CASE Store(Mark, k, NextChar)
    <3>1. Mark + k <= MinSize /\ NextChar + k <= MaxChars + 1
      BY <1>1, <1>5, <1>7, <1>9, <2>1, OutbufAssumption
    <3>2. mem' \in [0 .. MinSize - 1 -> 0 .. MaxChars]
      BY <1>1, <2>1, <2>3, <3>1, StoreTyped
    <3>3. ASSUME good PROVE \A c \in 0 .. Mark + k - 1 : mem'[c] = Len(sink) + c + 1
      <4>1. Store(Mark, k, Len(sink) + Mark + 1)
        BY <2>2, <2>3, <3>3
      <4>2. \A c \in 0 .. Mark - 1 : mem[c] = Len(sink) + c + 1
        BY <2>2, <3>3
      <4>. QED BY <1>1, <2>1, <3>1, <4>1, <4>2, StoreNext
    <3>4. Mark' - 1 = Mark + k - 1
      BY <1>1, <1>5
    <3>5. good => \A c \in 0 .. Mark' - 1 : mem'[c] = Len(sink) + c + 1
      BY <3>3, <3>4
    <3>. QED BY <3>2, <3>5
  <2>4. CASE k = 0 /\ UNCHANGED mem
    <3>1. Mark' = Mark
      BY <1>1, <1>5, <2>4
    <3>. QED BY <1>1, <2>1, <2>2, <2>4, <3>1
  <2>. QED BY <1>6, <2>3, <2>4
<1>11. TypeOK'
  BY <1>2, <1>3, <1>10 DEF IInv, TypeOK, ClientInv
<1>12. LoopState' /\ WindowInMemory'
  BY <1>2 DEF IInv, WindowInMemory, ClientInv
<1>13. NothingLostWhileGood'
  <2>1. good' => Len(sink') + Mark' + todo' = asked'
    <3>1. good => Len(sink) + Mark + todo = asked
      BY DEF IInv, NothingLostWhileGood
    <3>2. good' = good /\ sink' = sink
      BY <1>2, <1>3
    <3>3. Len(sink) \in Nat /\ Mark \in Nat
      BY <1>1
    <3>4. good => Len(sink) + (Mark + k) + todo' = asked'
      BY <1>8, <1>9, <3>1, <3>3
    <3>. QED BY <1>5, <3>2, <3>4
  <2>2. ~good' /\ results' = <<>> => Len(sink') < asked'
    BY <1>1, <1>2, <1>3, <1>9 DEF IInv, NothingLostWhileGood
  <2>. QED BY <1>2, <1>3, <1>10, <2>1, <2>2 DEF IInv, NothingLostWhileGood, Prefix
<1>14. CountIsExact' /\ ResultsTrue'
  BY <1>2, <1>3 DEF IInv, CountIsExact, ResultsTrue
<1>. QED BY <1>11, <1>12, <1>13, <1>14 DEF IInv

(* What arrives when the first k characters of the buffer are taken        *)
(* continues what has arrived before.                                      *)
LEMMA TakeContinues ==
  ASSUME IInv, good, pc # "transcode", NEW k \in 0 .. pos, Take(k)
  PROVE  /\ sink' = Prefix(Len(sink) + k)
         /\ sink' \in Seq(1 .. MaxChars)
         /\ Len(sink') = Len(sink) + k
         /\ count' = Len(sink')
         /\ Len(sink) + pos + todo = asked
<1>. DEFINE L == Len(sink)
<1>1. /\ L \in Nat /\ pos \in Nat /\ todo \in Nat /\ asked \in Nat /\ asked <= MaxChars
      /\ sink \in Seq(1 .. MaxChars)
  BY InvFacts, OutbufAssumption DEF IInv, TypeOK, ClientInv, ClientTypeOK
<1>2. L + pos + todo = asked /\ \A c \in 0 .. pos - 1 : mem[c] = L + c + 1
  BY DEF IInv, NothingLostWhileGood, Mark
<1>3. k \in Nat /\ k <= pos /\ L + k <= MaxChars
  BY <1>1, <1>2, OutbufAssumption
<1>4. /\ Buffered(k) \in Seq(1 .. MaxChars)
      /\ Len(Buffered(k)) = k
      /\ \A i \in 1 .. k : Buffered(k)[i] = L + i
  <2>1. \A i \in 1 .. k : mem[i - 1] = L + i
    BY <1>1, <1>2, <1>3
  <2>2. \A i \in 1 .. k : L + i \in 1 .. MaxChars
    BY <1>1, <1>3, OutbufAssumption
  <2>3. Buffered(k) = [i \in 1 .. k |-> L + i]
    BY <2>1 DEF Buffered
  <2>. HIDE DEF L
  <2>4. [i \in 1 .. k |-> L + i] \in Seq(1 .. MaxChars)
    BY <1>3, <2>2, IsASeq
  <2>. QED BY <1>3, <2>3, <2>4
<1>5. Prefix(L + k) \in Seq(1 .. MaxChars) /\ Len(Prefix(L + k)) = L + k
  <2>. HIDE DEF L
  <2>1. \A i \in 1 .. L + k : i \in 1 .. MaxChars
    BY <1>1, <1>3, OutbufAssumption
  <2>2. [i \in 1 .. L + k |-> i] \in Seq(1 .. MaxChars)
    BY <1>1, <1>3, <2>1, IsASeq
  <2>. QED BY <1>1, <1>3, <2>2 DEF Prefix
<1>6. /\ sink' \in Seq(1 .. MaxChars) /\ Len(sink') = L + k
      /\ \A i \in 1 .. L + k : sink'[i] = IF i <= L THEN sink[i] ELSE Buffered(k)[i - L]
  <2>. DEFINE b == Buffered(k)
  <2>1. b \in Seq(1 .. MaxChars) /\ Len(b) = k /\ sink' = sink \o b
    BY <1>4 DEF Take
  <2>. HIDE DEF b
  <2>2. /\ sink \o b \in Seq(1 .. MaxChars)
        /\ Len(sink \o b) = Len(sink) + Len(b)
        /\ \A i \in 1 .. Len(sink) + Len(b) : (sink \o b)[i] =
             IF i <= Len(sink) THEN sink[i] ELSE b[i - Len(sink)]
    BY <1>1, <2>1, ConcatProperties
  <2>. QED BY <2>1, <2>2 DEF b
<1>7. \A i \in 1 .. L + k : sink'[i] = Prefix(L + k)[i]
  <2>1. \A i \in 1 .. L : sink[i] = i
    BY DEF IInv, NothingLostWhileGood, Prefix
  <2>. HIDE DEF L
  <2>. QED BY <1>1, <1>3, <1>4, <1>6, <2>1 DEF Prefix
<1>8. sink' = Prefix(L + k)
  BY <1>5, <1>6, <1>7, SeqEqual
<1>9. count' = L + k
  BY DEF Take, IInv, CountIsExact
<1>. QED BY <1>2, <1>6, <1>8, <1>9

(* A recycle() that finds the outbuf good hands over the buffer, or the    *)
(* first k characters of it and makes the outbuf bad.                      *)
LEMMA FlushKeepsInv ==
  ASSUME IInv, pc = "recycle", good, NEW k \in 0 .. pos, Take(k),
         good' = (k = pos), pos' = 0, UNCHANGED <<mem, end, results>>,
         RecycleReturns
  PROVE  IInv'
<1>1. /\ sink' = Prefix(Len(sink')) /\ sink' \in Seq(1 .. MaxChars)
      /\ Len(sink') = Len(sink) + k /\ count' = Len(sink')
      /\ Len(sink) + pos + todo = asked
  BY TakeContinues
<1>2. /\ Len(sink) \in Nat /\ pos \in Nat /\ todo \in Nat /\ asked \in Nat
      /\ k \in Nat /\ k <= pos /\ results = <<>> /\ end = MinSize
  BY InvFacts DEF IInv, ResultsTrue, ClientInv, ClientTypeOK, WindowInMemory
<1>3. LoopState' /\ WindowInMemory' /\ ClientTypeOK'
  BY <1>2, OutbufAssumption
     DEF IInv, TypeOK, WindowInMemory, WindowRespected, LoopState, ClientTypeOK,
         RecycleReturns, Size, Loops
<1>4. TypeOK'
  BY <1>1, <1>2, <1>3 DEF IInv, TypeOK
<1>5. pc' # "transcode" /\ Mark' = 0
  BY DEF IInv, LoopState, RecycleReturns, Loops, Mark
<1>6. NothingLostWhileGood'
  <2>0. (good' => k = pos) /\ (~good' => k # pos) /\ asked' = asked /\ todo' = todo
    BY Zenon DEF RecycleReturns
  <2>1. good' => Len(sink') + Mark' + todo' = asked'
    BY <1>1, <1>2, <1>5, <2>0
  <2>2. \A c \in 0 .. Mark' - 1 : mem'[c] = Len(sink') + c + 1
    BY <1>5
  <2>3. ~good' => Len(sink') < asked'
    BY <1>1, <1>2, <2>0
  <2>. QED BY <1>1, <2>1, <2>2, <2>3 DEF NothingLostWhileGood
<1>7. CountIsExact' /\ ResultsTrue'
  BY <1>1, <1>2 DEF CountIsExact, ResultsTrue
<1>. QED BY <1>3, <1>4, <1>6, <1>7 DEF IInv

(* A recycle() of a bad outbuf opens the window again and drops its        *)
(* content.                                                                *)
LEMMA DropKeepsInv ==
  ASSUME IInv, pc = "recycle", ~good, pos' = 0,
         UNCHANGED <<good, sink, count, mem, end, results>>,
         RecycleReturns
  PROVE  IInv'
<1>1. LoopState' /\ WindowInMemory' /\ ClientTypeOK'
  BY OutbufAssumption
     DEF IInv, TypeOK, WindowInMemory, WindowRespected, LoopState, ClientTypeOK,
         RecycleReturns, Size, Loops
<1>2. TypeOK'
  BY <1>1 DEF IInv, TypeOK, RecycleReturns
<1>3. NothingLostWhileGood' /\ CountIsExact' /\ ResultsTrue'
  BY DEF IInv, NothingLostWhileGood, CountIsExact, ResultsTrue, Prefix, RecycleReturns
<1>. QED BY <1>1, <1>2, <1>3 DEF IInv

(* What finish() does to the outbuf and reports, whether or not the class  *)
(* also resets pos.                                                        *)
Finished ==
  /\ MayFinish
  /\ good' = FALSE
  /\ pos' \in {0, pos}
  /\ \/ ~good /\ UNCHANGED <<sink, count>> /\ Report(FALSE)
     \/ good /\ \E k \in 0 .. pos : Take(k) /\ Report(k = pos)
  /\ UNCHANGED <<mem, end, client>>

(* The first finish() reports what happened; later ones change nothing     *)
(* of it.                                                                  *)
LEMMA FinishKeepsInv == ASSUME IInv, Finished PROVE IInv'
<1>. DEFINE Result == [count: Nat, success: BOOLEAN, asked: 0 .. MaxChars,
                       wasGood: BOOLEAN]
<1>1. /\ ClientInv /\ Len(sink) \in Nat /\ pos \in Nat /\ asked \in 0 .. MaxChars
      /\ pc = "idle" /\ todo = 0 /\ end = MinSize /\ results \in Seq(Result)
      /\ count = Len(sink)
  BY InvFacts DEF Finished, MayFinish, IInv, TypeOK, LoopState, WindowInMemory, ClientInv,
                  ClientTypeOK, CountIsExact
<1>2. LoopState' /\ WindowInMemory' /\ ClientTypeOK'
  <2>1. /\ pos' = 0 \/ pos' = pos
        /\ good' = FALSE /\ end' = end
        /\ UNCHANGED <<asked, pc, ret, todo, unit, dit, dend>>
    BY DEF Finished, client
  <2>2. LoopState' /\ ClientTypeOK'
    <3>1. LoopState /\ ClientTypeOK
      BY <1>1 DEF ClientInv
    <3>2. LoopState'
      BY <1>1, <2>1, <3>1 DEF LoopState
    <3>3. pos' \in Nat
      BY <1>1, <2>1
    <3>. QED BY <2>1, <3>1, <3>2, <3>3 DEF ClientTypeOK, Loops
  <2>3. pos <= end /\ end \in Nat
    BY <1>1 DEF ClientInv, ClientTypeOK, WindowRespected
  <2>4. WindowRespected'
    BY <1>1, <2>1, <2>3 DEF WindowRespected, Loops
  <2>. QED BY <1>1, <2>1, <2>2, <2>4 DEF WindowInMemory
<1>3. /\ sink' = Prefix(Len(sink')) /\ sink' \in Seq(1 .. MaxChars)
      /\ count' = Len(sink') /\ count' \in Nat /\ count <= count'
      /\ \E b \in BOOLEAN : Report(b) /\ (results = <<>> => (b <=> count' = asked))
  <2>1. CASE ~good
    <3>1. sink' = sink /\ count' = count /\ Report(FALSE)
      BY <2>1 DEF Finished
    <3>2. results = <<>> => count # asked
      BY <1>1, <2>1 DEF IInv, NothingLostWhileGood
    <3>3. Report(FALSE) /\ (results = <<>> => (FALSE <=> count' = asked))
      BY <3>1, <3>2
    <3>4. sink = Prefix(Len(sink)) /\ sink \in Seq(1 .. MaxChars)
      BY DEF IInv, TypeOK, NothingLostWhileGood
    <3>5. \E b \in BOOLEAN : Report(b) /\ (results = <<>> => (b <=> count' = asked))
      BY <3>3, Zenon
    <3>. QED BY <1>1, <3>1, <3>4, <3>5
  <2>2. CASE good
    <3>1. PICK k \in 0 .. pos : Take(k) /\ Report(k = pos)
      BY <2>2 DEF Finished
    <3>2. /\ sink' = Prefix(Len(sink')) /\ sink' \in Seq(1 .. MaxChars)
          /\ Len(sink') = Len(sink) + k /\ count' = Len(sink')
          /\ Len(sink) + pos = asked
      <4>. HIDE DEF Result
      <4>. QED BY <1>1, <2>2, <3>1, TakeContinues
    <3>3. (k = pos) <=> count' = asked
      BY <1>1, <3>2
    <3>4. \E b \in BOOLEAN : Report(b) /\ (results = <<>> => (b <=> count' = asked))
      BY <3>1, <3>3, Zenon
    <3>5. count' \in Nat /\ count <= count'
      BY <1>1, <3>2
    <3>. QED BY <3>2, <3>4, <3>5
  <2>. QED BY <2>1, <2>2
<1>4. PICK b \in BOOLEAN : Report(b) /\ (results = <<>> => (b <=> count' = asked))
  BY <1>3
<1>5. DEFINE r == [count |-> count', success |-> b, asked |-> asked, wasGood |-> good]
<1>6. r \in Result /\ results' = Append(results, r)
  BY <1>1, <1>3, <1>4 DEF Report, ClientInv, ClientTypeOK
<1>7. /\ results' \in Seq(Result) /\ results' # <<>>
      /\ \A i \in DOMAIN results' :
           \/ i \in DOMAIN results /\ results'[i] = results[i]
           \/ results'[i] = r
      /\ results'[1] = IF results = <<>> THEN r ELSE results[1]
  <2>. HIDE DEF r, Result
  <2>1. results' \in Seq(Result) /\ results' # <<>>
    BY <1>1, <1>6
  <2>2. Len(results) \in Nat /\ Len(results') = Len(results) + 1
    BY <1>1, <1>6
  <2>3. \A i \in 1 .. Len(results') :
          results'[i] = IF i <= Len(results) THEN results[i] ELSE r
    BY <1>1, <1>6, <2>2
  <2>4. results = <<>> <=> Len(results) = 0
    BY <1>1
  <2>. QED BY <1>1, <2>1, <2>2, <2>3, <2>4
<1>8. TypeOK'
  BY <1>2, <1>3, <1>7 DEF IInv, TypeOK, Finished
<1>9. NothingLostWhileGood'
  BY <1>3, <1>7 DEF NothingLostWhileGood, Finished
<1>10. CountIsExact'
  <2>1. \A i \in DOMAIN results' : results'[i].count <= count'
    <3>1. TAKE i \in DOMAIN results'
    <3>2. CASE results'[i] = r
      BY <1>3, <3>2
    <3>3. CASE i \in DOMAIN results /\ results'[i] = results[i]
      <4>1. results[i] \in Result
        <5>. HIDE DEF Result
        <5>. QED BY <1>1, <3>3
      <4>2. results[i].count <= count
        BY <3>3 DEF IInv, CountIsExact
      <4>. QED BY <1>1, <1>3, <3>3, <4>1, <4>2
    <3>. QED BY <1>7, <3>1, <3>2, <3>3
  <2>. QED BY <1>3, <2>1 DEF CountIsExact
<1>11. ResultsTrue'
  BY <1>4, <1>7 DEF IInv, ResultsTrue, Finished
<1>. QED BY <1>2, <1>8, <1>9, <1>10, <1>11 DEF IInv

(* What the invariant says of the initial state, of steps that change      *)
(* nothing, and of the properties the runs check.                          *)
LEMMA InitInv == Init => IInv
  BY OutbufAssumption
     DEF Init, ClientInit, IInv, TypeOK, ClientTypeOK, LoopState, WindowInMemory,
         WindowRespected, NothingLostWhileGood, CountIsExact, ResultsTrue, Mark, Size,
         Loops, Prefix

LEMMA StutterKeepsInv == ASSUME IInv, UNCHANGED vars PROVE IInv'
  BY DEF vars, outbuf, client, flushing, IInv, TypeOK, ClientTypeOK, LoopState,
         WindowInMemory, WindowRespected, NothingLostWhileGood, CountIsExact,
         ResultsTrue, Mark, Size, Loops, Prefix

LEMMA InvImplies ==
  IInv => /\ TypeOK /\ WindowInMemory /\ NothingLostWhileGood
          /\ CountIsExact /\ SuccessMeansComplete
  BY DEF IInv, ResultsTrue, SuccessMeansComplete

-----------------------------------------------------------------------------
(* Every step is one that OrderedSink allows, or changes nothing that the  *)
(* destination's user sees.                                                *)
LEMMA InitRefines == Init => Sink!Init
  BY DEF Init, ClientInit, Sink!Init

LEMMA StutterRefines == UNCHANGED vars => UNCHANGED Sink!vars
  BY DEF vars, outbuf, client, flushing, Sink!vars

LEMMA ClientRefines == ASSUME IInv, Client PROVE Sink!Ask
<1>1. asked <= asked' /\ ClientInv' /\ good' = good
  BY InvFacts, ClientStep DEF Client
<1>2. asked' \in Nat
  BY <1>1, OutbufAssumption DEF ClientInv, ClientTypeOK
<1>3. UNCHANGED <<sink, results>>
  BY DEF Client, flushing
<1>. QED BY <1>1, <1>2, <1>3, InvFacts DEF Sink!Ask, IInv, TypeOK, ClientTypeOK

LEMMA FlushRefines ==
  ASSUME IInv, pc = "recycle", good, NEW k \in 0 .. pos, Take(k),
         good' = (k = pos), UNCHANGED <<asked, results>>
  PROVE  Sink!Deliver
<1>1. sink' = Prefix(Len(sink) + k) /\ Len(sink) + pos + todo = asked
  BY TakeContinues
<1>2. /\ Len(sink) \in Nat /\ pos \in Nat /\ todo \in Nat /\ k \in Nat /\ k <= pos
  BY InvFacts DEF ClientInv, ClientTypeOK
<1>3. Len(sink) + k \in Len(sink) .. asked
  BY <1>1, <1>2
<1>4. good' \in BOOLEAN
  BY Zenon
<1>. QED BY <1>1, <1>3, <1>4 DEF Sink!Deliver, Sink!Upto, Prefix

LEMMA FinishRefines == ASSUME IInv, Finished PROVE Sink!Finish
<1>. DEFINE Result == [count: Nat, success: BOOLEAN, asked: 0 .. MaxChars,
                       wasGood: BOOLEAN]
            Said(b) == IF b THEN "yes" ELSE "no"
            Success == IF results = <<>> THEN "none"
                       ELSE Said(results[Len(results)].success)
<1>1. /\ results \in Seq(Result) /\ Len(sink) \in Nat /\ pos \in Nat /\ asked \in Nat
      /\ todo = 0 /\ pc = "idle"
  BY InvFacts, OutbufAssumption
     DEF IInv, TypeOK, LoopState, ClientInv, ClientTypeOK, Finished, MayFinish
<1>2. ASSUME NEW b \in BOOLEAN, Report(b) PROVE Success' = Said(b)
  <2>. DEFINE r == [count |-> count', success |-> b, asked |-> asked, wasGood |-> good]
  <2>1. results' = Append(results, r) /\ r.success = b
    BY <1>2 DEF Report
  <2>. HIDE DEF r, Result
  <2>2. Len(results') = Len(results) + 1 /\ results'[Len(results')] = r /\ results' # <<>>
    BY <1>1, <2>1
  <2>. QED BY <2>1, <2>2
<1>3. /\ \/ good /\ \E k \in Len(sink) .. asked : sink' = Sink!Upto(k)
         \/ ~good /\ UNCHANGED sink
      /\ Success' \in {"yes", "no"}
      /\ Success' = "yes" => good /\ sink' = Sink!Upto(asked)
  <2>1. CASE ~good
    <3>1. sink' = sink /\ Report(FALSE)
      BY <2>1 DEF Finished
    <3>. HIDE DEF Success
    <3>2. Success' = "no"
      BY <1>2, <3>1
    <3>. QED BY <2>1, <3>1, <3>2
  <2>2. CASE good
    <3>1. PICK k \in 0 .. pos : Take(k) /\ Report(k = pos)
      BY <2>2 DEF Finished
    <3>2. sink' = Prefix(Len(sink) + k) /\ Len(sink) + pos = asked
      <4>. HIDE DEF Result, Success
      <4>. QED BY <1>1, <2>2, <3>1, TakeContinues
    <3>3. Len(sink) + k \in Len(sink) .. asked
      BY <1>1, <3>2
    <3>. HIDE DEF Success
    <3>4. Success' = Said(k = pos)
      BY <1>2, <3>1, Zenon
    <3>5. Success' \in {"yes", "no"} /\ (Success' = "yes" => k = pos)
      BY <3>4
    <3>. QED BY <2>2, <3>2, <3>3, <3>5 DEF Prefix, Sink!Upto
  <2>. QED BY <2>1, <2>2
<1>4. good' = FALSE /\ asked' = asked
  BY DEF Finished, client
<1>. QED BY <1>3, <1>4 DEF Sink!Finish

-----------------------------------------------------------------------------
(* recycle() of each class is one of the two kinds of step above ...       *)
Flushes ==
  /\ pc = "recycle"
  /\ \/ /\ ~good
        /\ UNCHANGED <<good, sink, count>>
     \/ /\ good
        /\ \E k \in 0 .. pos : Take(k) /\ good' = (k = pos)
  /\ pos' = 0
  /\ UNCHANGED <<mem, end, results>>
  /\ RecycleReturns

LEMMA RecycleFlushes == AnyRecycle => Flushes
<1>1. Narrow!Recycle => Flushes
  BY DEF Narrow!Recycle, Narrow!Reset, Narrow!Fwrite, Narrow!Take, Narrow!Buffered,
         Narrow!RecycleReturns, Flushes, Take, Buffered, RecycleReturns
<1>2. Wide!Recycle => Flushes
  BY DEF Wide!Recycle, Wide!Flush, Wide!Reset, Wide!Fputwc, Wide!Take, Wide!Buffered,
         Wide!RecycleReturns, Flushes, Take, Buffered, RecycleReturns
<1>3. Streambuf!Recycle => Flushes
  BY DEF Streambuf!Recycle, Streambuf!Reset, Streambuf!Flushed, Streambuf!Sputn,
         Streambuf!SputnThrows, Streambuf!Take, Streambuf!Buffered,
         Streambuf!RecycleReturns, Flushes, Take, Buffered, RecycleReturns
<1>. QED BY <1>1, <1>2, <1>3 DEF AnyRecycle

(* ... and finish() does and reports the same in all of them, except that  *)
(* that of narrow_cfile_writer leaves pos alone.                           *)
LEMMA FinishFinishes == AnyFinish => Finished
<1>1. Narrow!Finish => Finished
  BY DEF Narrow!Finish, Narrow!MayFinish, Narrow!Take, Narrow!Buffered, Narrow!Report,
         Narrow!client, Finished, MayFinish, Take, Buffered, Report, client
<1>2. Wide!Finish => Finished
  BY DEF Wide!Finish, Wide!MayFinish, Wide!Reset, Wide!Take, Wide!Buffered, Wide!Report,
         Wide!client, Finished, MayFinish, Take, Buffered, Report, client
<1>3. Streambuf!Finish => Finished
  BY DEF Streambuf!Finish, Streambuf!MayFinish, Streambuf!Reset, Streambuf!Sputn,
         Streambuf!SputnThrows, Streambuf!Take, Streambuf!Buffered, Streambuf!Report,
         Streambuf!client, Finished, MayFinish, Take, Buffered, Report, client
<1>. QED BY <1>1, <1>2, <1>3 DEF AnyFinish

LEMMA FlushesKeepsInv == ASSUME IInv, Flushes PROVE IInv'
<1>1. CASE ~good
  BY <1>1, DropKeepsInv DEF Flushes
<1>2. CASE good
  BY <1>2, FlushKeepsInv DEF Flushes
<1>. QED BY <1>1, <1>2

(* The invariant is inductive, whatever class the outbuf is of.            *)
LEMMA NextKeepsInv == IInv /\ [AnyNext]_anyVars => IInv'
<1>1. ASSUME IInv, Client PROVE IInv'
  BY <1>1, ClientKeepsInv
<1>2. ASSUME IInv, AnyRecycle PROVE IInv'
  BY <1>2, RecycleFlushes, FlushesKeepsInv
<1>3. ASSUME IInv, AnyFinish PROVE IInv'
  BY <1>3, FinishFinishes, FinishKeepsInv
<1>4. ASSUME IInv, UNCHANGED anyVars PROVE IInv'
  BY <1>4, StutterKeepsInv DEF anyVars
<1>. QED BY <1>1, <1>2, <1>3, <1>4 DEF AnyNext

(* Every step is one of OrderedSink, or changes nothing of it.             *)
LEMMA NextRefines == IInv /\ [AnyNext]_anyVars => [Sink!Next]_Sink!vars
<1>1. ASSUME IInv, Client PROVE Sink!Next
  BY <1>1, ClientRefines DEF Sink!Next
<1>2. ASSUME IInv, AnyRecycle PROVE [Sink!Next]_Sink!vars
  <2>1. Flushes
    BY <1>2, RecycleFlushes
  <2>2. CASE ~good
    BY <2>1, <2>2 DEF Flushes, RecycleReturns, Sink!vars
  <2>3. CASE good
    BY <1>2, <2>1, <2>3, FlushRefines DEF Flushes, RecycleReturns, Sink!Next
  <2>. QED BY <2>2, <2>3
<1>3. ASSUME IInv, AnyFinish PROVE Sink!Next
  BY <1>3, FinishFinishes, FinishRefines DEF Sink!Next
<1>4. ASSUME UNCHANGED anyVars PROVE UNCHANGED Sink!vars
  BY <1>4, StutterRefines DEF anyVars
<1>. QED BY <1>1, <1>2, <1>3, <1>4 DEF AnyNext

-----------------------------------------------------------------------------
(* The invariant holds in every state.                                     *)
THEOREM Invariance == AnySpec => []IInv
<1>1. AnyInit => IInv
  BY InitInv DEF AnyInit
<1>. QED BY <1>1, NextKeepsInv, PTL DEF AnySpec

(* Type correctness of the buffer, the client and the results.             *)
THEOREM TypeCorrect == AnySpec => []TypeOK
  BY Invariance, InvImplies, PTL

(* No loop of the library, in any order and after any failure of the       *)
(* destination, steps out of the buffer of the three classes.              *)
THEOREM WindowSafe == AnySpec => []WindowInMemory
  BY Invariance, InvImplies, PTL

(* As long as good() holds, no character that was asked for is missing.    *)
THEOREM NothingLost == AnySpec => []NothingLostWhileGood
  BY Invariance, InvImplies, PTL

(* result::count is what the destination accepted.                         *)
THEOREM CountExact == AnySpec => []CountIsExact
  BY Invariance, InvImplies, PTL

(* result::success of the first finish() holds exactly when the FILE or    *)
(* streambuf got everything asked for.                                     *)
THEOREM SuccessHonest == AnySpec => []SuccessMeansComplete
  BY Invariance, InvImplies, PTL

(* The three classes implement OrderedSink: characters arrive in order,    *)
(* once, without gaps, and none after a failure or after finish().         *)
THEOREM Implements == AnySpec => DeliversInOrder
<1>1. AnyInit => Sink!Init
  BY InitRefines DEF AnyInit
<1>. QED BY <1>1, NextRefines, Invariance, PTL DEF AnySpec, DeliversInOrder, Sink!Spec
=============================================================================
