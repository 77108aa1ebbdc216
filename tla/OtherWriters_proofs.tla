-------------------------- MODULE OtherWriters_proofs --------------------------
(***************************************************************************)
(* What CstrWriter_proofs, StringWriters_proofs and StreambufWriter_proofs *)
(* show of each class holds of an outbuf whatever class it is of: the      *)
(* properties of OtherWriters, for every value of its constants.           *)
(***************************************************************************)
EXTENDS OtherWriters, TLAPS

CstrP == INSTANCE CstrWriter_proofs
StringP == INSTANCE StringWriters_proofs
StreambufP == INSTANCE StreambufWriter_proofs WITH MayThrow <- TRUE

-----------------------------------------------------------------------------
(* The class and the module of its proofs are two instances of the same    *)
(* definitions: their steps and their properties agree.                    *)
LEMMA CstrSameLoops == (Cstr!Start \/ Cstr!Continue) <=> (CstrP!Start \/ CstrP!Continue)
  BY DEF
         Cstr!Start, CstrP!Start, Cstr!Continue, CstrP!Continue,
         Cstr!client, CstrP!client, Cstr!Write, CstrP!Write, Cstr!Fill,
         CstrP!Fill, Cstr!Put, CstrP!Put, Cstr!Repeat, CstrP!Repeat,
         Cstr!Direct, CstrP!Direct, Cstr!Transcode, CstrP!Transcode,
         Cstr!WriteContinue, CstrP!WriteContinue, Cstr!PutContinue,
         CstrP!PutContinue, Cstr!FillContinue, CstrP!FillContinue,
         Cstr!RepeatContinue, CstrP!RepeatContinue, Cstr!DirectContinue,
         CstrP!DirectContinue, Cstr!Emit, CstrP!Emit, Cstr!EmitContinue,
         CstrP!EmitContinue, Cstr!EndTranscode, CstrP!EndTranscode,
         Cstr!Ask, CstrP!Ask, Cstr!Place, CstrP!Place, Cstr!Size,
         CstrP!Size, Cstr!CallRecycle, CstrP!CallRecycle, Cstr!Return,
         CstrP!Return, Cstr!Whole, CstrP!Whole, Cstr!outbuf, CstrP!outbuf,
         Cstr!NextChar, CstrP!NextChar, Cstr!Store, CstrP!Store

LEMMA CstrSame ==
  /\ Cstr!Init <=> CstrP!Init
  /\ Cstr!Next <=> CstrP!Next
<1>1. Cstr!Init <=> CstrP!Init
  BY DEF
         Cstr!Init, CstrP!Init, Cstr!Unwritten, CstrP!Unwritten, Cstr!Room,
         CstrP!Room, Cstr!NoCell, CstrP!NoCell, Cstr!ClientInit,
         CstrP!ClientInit
<1>2. Cstr!Next <=> CstrP!Next
  BY CstrSameLoops DEF
         Cstr!Next, CstrP!Next, Cstr!Client, CstrP!Client, Cstr!Recycle,
         CstrP!Recycle, Cstr!Finish, CstrP!Finish, Cstr!Move, CstrP!Move,
         Cstr!cstr, CstrP!cstr, Cstr!OutputEnd, CstrP!OutputEnd,
         Cstr!Garbage, CstrP!Garbage, Cstr!ToGarbage, CstrP!ToGarbage,
         Cstr!RecycleReturns, CstrP!RecycleReturns, Cstr!NUL, CstrP!NUL,
         Cstr!NoCell, CstrP!NoCell, Cstr!client, CstrP!client, Cstr!Size,
         CstrP!Size, Cstr!Return, CstrP!Return, Cstr!outbuf, CstrP!outbuf,
         Cstr!NextChar, CstrP!NextChar, Cstr!Store, CstrP!Store
<1>. QED BY <1>1, <1>2

LEMMA CstrSameProperties ==

  /\ Cstr!WindowInMemory <=> CstrP!WindowInMemory
  /\ Cstr!Terminated <=> CstrP!Terminated
  /\ Cstr!TruncatedMeansLoss <=> CstrP!TruncatedMeansLoss
  /\ Cstr!TruncatedLate <=> CstrP!TruncatedLate
  BY DEF
         Cstr!WindowInMemory, CstrP!WindowInMemory, Cstr!Terminated,
         CstrP!Terminated, Cstr!TruncatedMeansLoss,
         CstrP!TruncatedMeansLoss, Cstr!TruncatedLate, CstrP!TruncatedLate,
         Cstr!WindowRespected, CstrP!WindowRespected, Cstr!Garbage,
         CstrP!Garbage, Cstr!NUL, CstrP!NUL, Cstr!Loops, CstrP!Loops,
         Cstr!Size, CstrP!Size

LEMMA StringSameLoops == (String!Start \/ String!Continue) <=> (StringP!Start \/ StringP!Continue)
  BY DEF
         String!Start, StringP!Start, String!Continue, StringP!Continue,
         String!client, StringP!client, String!outbuf, StringP!outbuf,
         String!Write, StringP!Write, String!Fill, StringP!Fill, String!Put,
         StringP!Put, String!Repeat, StringP!Repeat, String!Direct,
         StringP!Direct, String!Transcode, StringP!Transcode,
         String!WriteContinue, StringP!WriteContinue, String!PutContinue,
         StringP!PutContinue, String!FillContinue, StringP!FillContinue,
         String!RepeatContinue, StringP!RepeatContinue,
         String!DirectContinue, StringP!DirectContinue, String!Emit,
         StringP!Emit, String!EmitContinue, StringP!EmitContinue,
         String!EndTranscode, StringP!EndTranscode, String!Ask, StringP!Ask,
         String!Place, StringP!Place, String!Size, StringP!Size,
         String!CallRecycle, StringP!CallRecycle, String!Return,
         StringP!Return, String!Whole, StringP!Whole, String!NextChar,
         StringP!NextChar, String!Store, StringP!Store

LEMMA StringSame ==
  /\ String!Init <=> StringP!Init
  /\ String!Next <=> StringP!Next
<1>1. String!Init <=> StringP!Init
  BY DEF
         String!Init, StringP!Init, String!InitBuffering,
         StringP!InitBuffering, String!InitPreSized, StringP!InitPreSized,
         String!ClientInit, StringP!ClientInit, String!Buffering,
         StringP!Buffering
<1>2. String!Next <=> StringP!Next
  BY StringSameLoops DEF
         String!Next, StringP!Next, String!Client, StringP!Client,
         String!Recycle, StringP!Recycle, String!FinishBuffering,
         StringP!FinishBuffering, String!FinishPreSized,
         StringP!FinishPreSized, String!Usable, StringP!Usable,
         String!string, StringP!string, String!RecycleBuffering,
         StringP!RecycleBuffering, String!RecyclePreSized,
         StringP!RecyclePreSized, String!Buffering, StringP!Buffering,
         String!Buffered, StringP!Buffered, String!Reset, StringP!Reset,
         String!RecycleReturns, StringP!RecycleReturns,
         String!RecycleThrows, StringP!RecycleThrows, String!Appended,
         StringP!Appended, String!More, StringP!More, String!StrSize,
         StringP!StrSize, String!Cardinality, StringP!Cardinality,
         String!client, StringP!client, String!outbuf, StringP!outbuf,
         String!Size, StringP!Size, String!Return, StringP!Return,
         String!NextChar, StringP!NextChar, String!Store, StringP!Store
<1>. QED BY <1>1, <1>2

LEMMA StringSameProperties ==

  /\ String!WindowInMemory <=> StringP!WindowInMemory
  /\ String!NothingOverwritten <=> StringP!NothingOverwritten
  /\ String!FinishGivesAll <=> StringP!FinishGivesAll
  BY DEF
         String!WindowInMemory, StringP!WindowInMemory,
         String!NothingOverwritten, StringP!NothingOverwritten,
         String!FinishGivesAll, StringP!FinishGivesAll,
         String!WindowRespected, StringP!WindowRespected, String!StrSize,
         StringP!StrSize, String!Prefix, StringP!Prefix, String!Buffering,
         StringP!Buffering, String!Loops, StringP!Loops, String!Size,
         StringP!Size, String!Cardinality, StringP!Cardinality

LEMMA StreambufSameLoops == (Streambuf!Start \/ Streambuf!Continue) <=> (StreambufP!Start \/ StreambufP!Continue)
  BY DEF
         Streambuf!Start, StreambufP!Start, Streambuf!Continue,
         StreambufP!Continue, Streambuf!client, StreambufP!client,
         Streambuf!Write, StreambufP!Write, Streambuf!Fill, StreambufP!Fill,
         Streambuf!Put, StreambufP!Put, Streambuf!Repeat, StreambufP!Repeat,
         Streambuf!Direct, StreambufP!Direct, Streambuf!Transcode,
         StreambufP!Transcode, Streambuf!WriteContinue,
         StreambufP!WriteContinue, Streambuf!PutContinue,
         StreambufP!PutContinue, Streambuf!FillContinue,
         StreambufP!FillContinue, Streambuf!RepeatContinue,
         StreambufP!RepeatContinue, Streambuf!DirectContinue,
         StreambufP!DirectContinue, Streambuf!Emit, StreambufP!Emit,
         Streambuf!EmitContinue, StreambufP!EmitContinue,
         Streambuf!EndTranscode, StreambufP!EndTranscode, Streambuf!Ask,
         StreambufP!Ask, Streambuf!Place, StreambufP!Place, Streambuf!Size,
         StreambufP!Size, Streambuf!CallRecycle, StreambufP!CallRecycle,
         Streambuf!Return, StreambufP!Return, Streambuf!Whole,
         StreambufP!Whole, Streambuf!outbuf, StreambufP!outbuf,
         Streambuf!NextChar, StreambufP!NextChar, Streambuf!Store,
         StreambufP!Store

LEMMA StreambufSame ==
  /\ Streambuf!Init <=> StreambufP!Init
  /\ Streambuf!Next <=> StreambufP!Next
<1>1. Streambuf!Init <=> StreambufP!Init
  BY DEF
         Streambuf!Init, StreambufP!Init, Streambuf!ClientInit,
         StreambufP!ClientInit
<1>2. Streambuf!Next <=> StreambufP!Next
  BY StreambufSameLoops DEF
         Streambuf!Next, StreambufP!Next, Streambuf!Client,
         StreambufP!Client, Streambuf!Recycle, StreambufP!Recycle,
         Streambuf!Finish, StreambufP!Finish, Streambuf!flushing,
         StreambufP!flushing, Streambuf!Reset, StreambufP!Reset,
         Streambuf!RecycleReturns, StreambufP!RecycleReturns,
         Streambuf!Flushed, StreambufP!Flushed, Streambuf!SputnThrows,
         StreambufP!SputnThrows, Streambuf!MayFinish, StreambufP!MayFinish,
         Streambuf!Report, StreambufP!Report, Streambuf!Sputn,
         StreambufP!Sputn, Streambuf!Buffered, StreambufP!Buffered,
         Streambuf!RecycleThrows, StreambufP!RecycleThrows, Streambuf!Take,
         StreambufP!Take, Streambuf!client, StreambufP!client,
         Streambuf!Size, StreambufP!Size, Streambuf!Return,
         StreambufP!Return, Streambuf!outbuf, StreambufP!outbuf,
         Streambuf!NextChar, StreambufP!NextChar, Streambuf!Store,
         StreambufP!Store
<1>. QED BY <1>1, <1>2

LEMMA StreambufSameProperties ==

  /\ Streambuf!WindowInMemory <=> StreambufP!WindowInMemory
  /\ Streambuf!NothingTwice <=> StreambufP!NothingTwice
  /\ Streambuf!CountNotTooHigh <=> StreambufP!CountNotTooHigh
  BY DEF
         Streambuf!WindowInMemory, StreambufP!WindowInMemory,
         Streambuf!NothingTwice, StreambufP!NothingTwice,
         Streambuf!CountNotTooHigh, StreambufP!CountNotTooHigh,
         Streambuf!WindowRespected, StreambufP!WindowRespected,
         Streambuf!Loops, StreambufP!Loops, Streambuf!Size, StreambufP!Size
-----------------------------------------------------------------------------
LEMMA Assumptions ==
  /\ CstrP!CstrAssumption
  /\ StringP!StringAssumption
  /\ StreambufP!FlushingAssumption
  BY OtherWritersAssumption
     DEF Cstr!CstrAssumption, CstrP!CstrAssumption,
         String!StringAssumption, StringP!StringAssumption,
         Streambuf!FlushingAssumption, StreambufP!FlushingAssumption

(* The inductive invariant: that of the class.                             *)
IInv ==
  /\ writer \in StringClasses \cup {"cstr", "streambuf"}
  /\ writer = "cstr" => CstrP!IInv
  /\ writer \in StringClasses => StringP!IInv
  /\ writer = "streambuf" => StreambufP!ThrowInv

LEMMA InitInv == Init => IInv
<1>. SUFFICES ASSUME Init PROVE IInv
  OBVIOUS
<1>1. CASE writer = "cstr" /\ Cstr!Init
  <2>1. CstrP!IInv
    BY <1>1, CstrSame, Assumptions, CstrP!InitInv, OutbufAssumption
  <2>. QED BY <1>1, <2>1 DEF IInv, StringClasses
<1>2. CASE writer \in StringClasses /\ String!Init
  <2>1. StringP!IInv
    BY <1>2, StringSame, Assumptions, StringP!InitInv, OutbufAssumption
  <2>. QED BY <1>2, <2>1 DEF IInv, StringClasses
<1>3. CASE writer = "streambuf" /\ Streambuf!Init
  <2>1. StreambufP!ThrowInv
    BY <1>3, StreambufSame, Assumptions, StreambufP!InitThrowInv, OutbufAssumption
  <2>. QED BY <1>3, <2>1 DEF IInv, StringClasses
<1>. QED BY <1>1, <1>2, <1>3 DEF Init

LEMMA NextKeepsInv == IInv /\ [Next]_vars => IInv'
<1>. SUFFICES ASSUME IInv, [Next]_vars PROVE IInv'
  OBVIOUS
<1>1. CASE AsCstr(Cstr!Next)
  <2>1. writer = "cstr" /\ writer' = "cstr" /\ CstrP!Next
    BY <1>1, CstrSame DEF AsCstr
  <2>2. CstrP!IInv'
    BY <2>1, Assumptions, CstrP!NextKeepsInv, OutbufAssumption DEF IInv
  <2>. QED BY <2>1, <2>2 DEF IInv, StringClasses
<1>2. CASE AsString(String!Next)
  <2>1. writer \in StringClasses /\ StringP!Next
    BY <1>2, StringSame DEF AsString
  <2>2. StringP!IInv'
    BY <2>1, StringP!NextKeepsInv, OutbufAssumption DEF IInv
  <2>3. writer' = writer
    BY <2>1 DEF StringP!Next, StringP!Client, StringP!string, StringP!Recycle,
                StringP!RecycleBuffering, StringP!RecyclePreSized,
                StringP!FinishBuffering, StringP!FinishPreSized
  <2>. QED BY <2>1, <2>2, <2>3 DEF IInv, StringClasses
<1>3. CASE AsStreambuf(Streambuf!Next)
  <2>1. writer = "streambuf" /\ writer' = "streambuf" /\ StreambufP!Next
    BY <1>3, StreambufSame DEF AsStreambuf
  <2>2. StreambufP!ThrowInv'
    BY <2>1, Assumptions, StreambufP!NextKeepsThrowInv, OutbufAssumption DEF IInv
  <2>. QED BY <2>1, <2>2 DEF IInv, StringClasses
<1>4. CASE UNCHANGED vars
  <2>1. writer' = writer
    BY <1>4 DEF vars
  <2>2. writer = "cstr" => CstrP!IInv'
    <3>1. UNCHANGED CstrP!vars
      BY <1>4 DEF vars, ofCstr, outbuf, client, CstrP!vars, CstrP!cstr, CstrP!outbuf,
                  CstrP!client
    <3>. QED BY <3>1, Assumptions, CstrP!NextKeepsInv, OutbufAssumption DEF IInv
  <2>3. writer \in StringClasses => StringP!IInv'
    <3>1. UNCHANGED StringP!vars
      BY <1>4 DEF vars, ofString, outbuf, client, StringP!vars, StringP!string,
                  StringP!outbuf, StringP!client
    <3>. QED BY <3>1, StringP!NextKeepsInv, OutbufAssumption DEF IInv
  <2>4. writer = "streambuf" => StreambufP!ThrowInv'
    <3>1. UNCHANGED StreambufP!vars
      BY <1>4 DEF vars, ofStreambuf, outbuf, client, StreambufP!vars,
                  StreambufP!flushing, StreambufP!outbuf, StreambufP!client
    <3>. QED BY <3>1, Assumptions, StreambufP!NextKeepsThrowInv, OutbufAssumption DEF IInv
  <2>. QED BY <2>1, <2>2, <2>3, <2>4 DEF IInv
<1>. QED BY <1>1, <1>2, <1>3, <1>4 DEF Next

(* The invariant holds in every state.                                     *)
THEOREM Invariance == FairSpec => []IInv
<1>. QED BY InitInv, NextKeepsInv, PTL DEF FairSpec

LEMMA CstrInv ==
  IInv => (writer = "cstr" => /\ Cstr!WindowInMemory /\ Cstr!Terminated
                              /\ Cstr!TruncatedMeansLoss /\ Cstr!TruncatedLate)
  BY CstrP!InvImplies, CstrSameProperties, OutbufAssumption DEF IInv

LEMMA StringInv ==
  IInv => (writer \in StringClasses =>
             /\ String!WindowInMemory /\ String!NothingOverwritten
             /\ String!FinishGivesAll)
  BY StringP!InvImplies, StringSameProperties, OutbufAssumption DEF IInv

LEMMA StreambufInv ==
  IInv => (writer = "streambuf" => /\ Streambuf!WindowInMemory
                                   /\ Streambuf!NothingTwice
                                   /\ Streambuf!CountNotTooHigh)
  BY Assumptions, StreambufP!ThrowInvImplies, StreambufSameProperties, OutbufAssumption DEF IInv

(* No loop of the library, after any recycle(), finish(), move or          *)
(* exception, stores outside the memory meant for it: the array without    *)
(* the cell for the terminator, the garbage buffer, the string, the buffer.*)
THEOREM WindowSafe == FairSpec => []WindowInMemory
<1>1. IInv => WindowInMemory
  BY CstrInv, StringInv, StreambufInv DEF WindowInMemory
<1>. QED BY <1>1, Invariance, PTL

(* finish() leaves a terminated string of the characters asked for first,  *)
(* and nothing printed later changes it.                                   *)
THEOREM StaysTerminated == FairSpec => []Terminated
<1>1. IInv => Terminated
  BY CstrInv DEF Terminated
<1>. QED BY <1>1, Invariance, PTL

(* truncated means that a character was lost, and a lost character that    *)
(* finish() says truncated.                                                *)
THEOREM TruncatedExact == FairSpec => []TruncatedMeansLoss
<1>1. IInv => TruncatedMeansLoss
  BY CstrInv DEF TruncatedMeansLoss
<1>. QED BY <1>1, Invariance, PTL

(* Text is lost only when less than min_size_after_recycle() cells of the  *)
(* array were left for it.                                                 *)
THEOREM LostOnlyWhenFull == FairSpec => []TruncatedLate
<1>1. IInv => TruncatedLate
  BY CstrInv DEF TruncatedLate
<1>. QED BY <1>1, Invariance, PTL

(* Growing a pre-sized string, whatever size the preview gave it, keeps    *)
(* what was written in its place.                                          *)
THEOREM GrowsInPlace == FairSpec => []NothingOverwritten
<1>1. IInv => NothingOverwritten
  BY StringInv DEF NothingOverwritten
<1>. QED BY <1>1, Invariance, PTL

(* finish() of a string writer gives everything that was asked for, in     *)
(* order, unless an append threw.                                          *)
THEOREM GivesAll == FairSpec => []FinishGivesAll
<1>1. IInv => FinishGivesAll
  BY StringInv DEF FinishGivesAll
<1>. QED BY <1>1, Invariance, PTL

(* No character arrives twice or out of order at a streambuf, however      *)
(* often sputn throws and the client goes on.                              *)
THEOREM ArrivesOnce == FairSpec => []NothingTwice
<1>1. IInv => NothingTwice
  BY StreambufInv DEF NothingTwice
<1>. QED BY <1>1, Invariance, PTL

(* result::count of a streambuf writer never exceeds what arrived.         *)
THEOREM CountBounded == FairSpec => []CountNotTooHigh
<1>1. IInv => CountNotTooHigh
  BY StreambufInv DEF CountNotTooHigh
<1>. QED BY <1>1, Invariance, PTL

-----------------------------------------------------------------------------
(* The abstract destination of a class is that of the composition.         *)
LEMMA CstrSink ==
  ASSUME writer = "cstr", writer' = "cstr", [CstrP!Sink!Next]_CstrP!Sink!vars
  PROVE  [Sink!Next]_Sink!vars
<1>1. Received = CstrP!Received /\ Received' = CstrP!Received'
  BY DEF Received, StringClasses, Cstr!Received, CstrP!Received
<1>2. Cstr!Success = CstrP!Success /\ Cstr!Success' = CstrP!Success'
  BY DEF Cstr!Success, CstrP!Success
<1>3. writer \notin StringClasses /\ writer' \notin StringClasses
  BY DEF StringClasses
<1>. QED BY <1>1, <1>2, <1>3
     DEF Sink!Next, Sink!Ask, Sink!Deliver, Sink!Finish, Sink!Upto, Sink!vars,
         CstrP!Sink!Next, CstrP!Sink!Ask, CstrP!Sink!Deliver, CstrP!Sink!Finish,
         CstrP!Sink!Upto, CstrP!Sink!vars

LEMMA StringSink ==
  ASSUME writer \in StringClasses, writer' = writer,
         [StringP!Sink!Next]_StringP!Sink!vars
  PROVE  [Sink!Next]_Sink!vars
<1>1. writer \in StringClasses /\ writer' \in StringClasses /\ writer # "cstr"
  BY DEF StringClasses
<1>2. Received = StringP!Received /\ Received' = StringP!Received'
  BY <1>1 DEF Received, StringClasses, String!Received, StringP!Received
<1>3. String!Usable = StringP!Usable /\ String!Usable' = StringP!Usable'
  BY DEF String!Usable, StringP!Usable, String!Buffering, StringP!Buffering
<1>. QED BY <1>1, <1>2, <1>3
     DEF Sink!Next, Sink!Ask, Sink!Deliver, Sink!Finish, Sink!Upto, Sink!vars,
         StringP!Sink!Next, StringP!Sink!Ask, StringP!Sink!Deliver,
         StringP!Sink!Finish, StringP!Sink!Upto, StringP!Sink!vars

(* An object of a streambuf writer counts as a destination that receives   *)
(* nothing: only that it stays bad is said of it.                          *)
LEMMA StreambufSink ==
  ASSUME writer = "streambuf", writer' = "streambuf",
         StreambufP!ThrowInv, [StreambufP!Next]_StreambufP!vars
  PROVE  [Sink!Next]_Sink!vars
<1>1. Received = <<>> /\ Received' = <<>>
  BY DEF Received, StringClasses
<1>2. writer \notin StringClasses /\ writer' \notin StringClasses
  BY DEF StringClasses
<1>3. \/ asked' \in Nat /\ asked <= asked' /\ good' = good
      \/ good /\ good' \in BOOLEAN /\ asked' = asked
  BY Assumptions, StreambufP!StepSeen, OutbufAssumption
<1>4. CASE asked' \in Nat /\ asked <= asked' /\ good' = good
  BY <1>1, <1>2, <1>4 DEF Sink!Next, Sink!Ask
<1>5. CASE good /\ good' \in BOOLEAN /\ asked' = asked
  <2>1. asked \in Nat
    BY Assumptions, StreambufP!ThrowFacts, OutbufAssumption
  <2>2. \E k \in Len(<<>>) .. asked : <<>> = Sink!Upto(k)
    <3>1. 0 \in Len(<<>>) .. asked /\ <<>> = Sink!Upto(0)
      BY <2>1 DEF Sink!Upto
    <3>. QED BY <3>1
  <2>3. \E k \in Len(Received) .. asked : Received' = Sink!Upto(k)
    BY <1>1, <2>2
  <2>4. (good /\ (writer \in StringClasses => String!Usable))' = good'
    <3>1. good' \in BOOLEAN
      BY <1>5
    <3>. QED BY <1>2, <3>1
  <2>. QED BY <1>2, <1>5, <2>3, <2>4, Zenon DEF Sink!Next, Sink!Deliver
<1>. QED BY <1>3, <1>4, <1>5

LEMMA InitRefines == Init => Sink!Init
<1>. SUFFICES ASSUME Init PROVE Sink!Init
  OBVIOUS
<1>1. asked = 0 /\ good = TRUE
  BY DEF Init, Cstr!Init, Cstr!ClientInit, String!Init, String!InitBuffering,
         String!InitPreSized, String!ClientInit, Streambuf!Init, Streambuf!ClientInit
<1>2. CASE writer = "cstr" /\ Cstr!Init
  BY <1>1, <1>2 DEF Sink!Init, Received, StringClasses, Cstr!Init, Cstr!Received,
                    Cstr!Success
<1>3. CASE writer \in StringClasses /\ String!Init
  BY <1>1, <1>3 DEF Sink!Init, Received, StringClasses, String!Init,
                    String!InitBuffering, String!InitPreSized, String!Received,
                    String!Usable, String!Buffering
<1>4. CASE writer = "streambuf"
  BY <1>1, <1>4 DEF Sink!Init, Received, StringClasses
<1>. QED BY <1>2, <1>3, <1>4 DEF Init

LEMMA NextRefines == IInv /\ [Next]_vars => [Sink!Next]_Sink!vars
<1>. SUFFICES ASSUME IInv, [Next]_vars PROVE [Sink!Next]_Sink!vars
  OBVIOUS
<1>1. writer' = writer
  BY DEF Next, AsCstr, AsString, AsStreambuf, vars, String!Next, String!Client,
         String!string, String!Recycle, String!RecycleBuffering,
         String!RecyclePreSized, String!FinishBuffering, String!FinishPreSized
<1>2. CASE writer = "cstr"
  <2>1. [CstrP!Next]_CstrP!vars
    <3>1. CASE AsCstr(Cstr!Next)
      BY <3>1, CstrSame DEF AsCstr
    <3>2. CASE UNCHANGED vars
      BY <3>2 DEF vars, ofCstr, outbuf, client, CstrP!vars, CstrP!cstr, CstrP!outbuf,
                  CstrP!client
    <3>. QED BY <1>2, <3>1, <3>2 DEF Next, AsString, AsStreambuf, StringClasses
  <2>2. [CstrP!Sink!Next]_CstrP!Sink!vars
    BY <1>2, <2>1, Assumptions, CstrP!NextRefines, OutbufAssumption DEF IInv
  <2>. QED BY <1>1, <1>2, <2>2, CstrSink
<1>3. CASE writer \in StringClasses
  <2>1. [StringP!Next]_StringP!vars
    <3>1. CASE AsString(String!Next)
      BY <3>1, StringSame DEF AsString
    <3>2. CASE UNCHANGED vars
      BY <3>2 DEF vars, ofString, outbuf, client, StringP!vars, StringP!string,
                  StringP!outbuf, StringP!client
    <3>. QED BY <1>3, <3>1, <3>2 DEF Next, AsCstr, AsStreambuf, StringClasses
  <2>2. [StringP!Sink!Next]_StringP!Sink!vars
    BY <1>3, <2>1, Assumptions, StringP!NextRefines, OutbufAssumption DEF IInv
  <2>. QED BY <1>1, <1>3, <2>2, StringSink
<1>4. CASE writer = "streambuf"
  <2>1. [StreambufP!Next]_StreambufP!vars
    <3>1. CASE AsStreambuf(Streambuf!Next)
      BY <3>1, StreambufSame DEF AsStreambuf
    <3>2. CASE UNCHANGED vars
      BY <3>2 DEF vars, ofStreambuf, outbuf, client, StreambufP!vars,
                  StreambufP!flushing, StreambufP!outbuf, StreambufP!client
    <3>. QED BY <1>4, <3>1, <3>2 DEF Next, AsCstr, AsString, StringClasses
  <2>. QED BY <1>1, <1>4, <2>1, StreambufSink DEF IInv
<1>. QED BY <1>2, <1>3, <1>4 DEF IInv

(* A C string or a string receives what was asked for in order and without *)
(* gaps, nothing after a failure or after finish(), and truncated is       *)
(* denied only for complete output, whatever the class of the outbuf.      *)
THEOREM Implements == FairSpec => DeliversInOrder
<1>. QED BY InitRefines, NextRefines, Invariance, PTL
         DEF FairSpec, DeliversInOrder, Sink!Spec
=============================================================================
