---------------------------- MODULE OtherWriters ----------------------------
(***************************************************************************)
(* The outbuf classes that module FlushingWriters leaves out: a C string   *)
(* writer, which gives up when its array is full, the three string writers *)
(* with a string whose append may throw, and a streambuf writer whose      *)
(* sputn may throw.  As there, the dynamic type of the outbuf is fixed     *)
(* when it is created and decides which recycle() the loops run.           *)
(***************************************************************************)
EXTENDS Outbuf, Sequences

CONSTANTS Capacity, Sizes, MaxFinishes, MaxMoves

VARIABLES
  writer,                   (* the dynamic type                            *)
  it, moves,                (* of a C string writer                        *)
  str, given, threw,        (* of a string writer                          *)
  sink, count,              (* of a streambuf writer                       *)
  results                   (* of a C string or a streambuf writer         *)

ofCstr == <<it, moves>>
ofString == <<str, given, threw>>
ofStreambuf == <<sink, count>>
vars == <<outbuf, client, writer, ofCstr, ofString, ofStreambuf, results>>

Cstr == INSTANCE CstrWriter
String == INSTANCE StringWriters
Streambuf == INSTANCE StreambufWriter WITH MayThrow <- TRUE

ASSUME OtherWritersAssumption ==
  /\ Cstr!CstrAssumption
  /\ String!StringAssumption
  /\ Streambuf!FlushingAssumption

StringClasses == {"appender", "maker", "pre_sized"}

UnusedCstr == it = Cstr!NoCell /\ moves = 0
UnusedString == str = <<>> /\ given = <<>> /\ threw = FALSE
UnusedStreambuf == sink = <<>> /\ count = 0

Init ==
  \/ writer = "cstr" /\ Cstr!Init /\ UnusedString /\ UnusedStreambuf
  \/ writer \in StringClasses /\ String!Init /\ UnusedCstr /\ UnusedStreambuf /\ results = <<>>
  \/ writer = "streambuf" /\ Streambuf!Init /\ UnusedCstr /\ UnusedString

(* A step of an object of each class.                                      *)
AsCstr(Step) == writer = "cstr" /\ Step /\ UNCHANGED <<writer, ofString, ofStreambuf>>
AsString(Step) == writer \in StringClasses /\ Step /\ UNCHANGED <<ofCstr, ofStreambuf, results>>
AsStreambuf(Step) == writer = "streambuf" /\ Step /\ UNCHANGED <<writer, ofCstr, ofString>>

Next == AsCstr(Cstr!Next) \/ AsString(String!Next) \/ AsStreambuf(Streambuf!Next)

(* The virtual call.                                                       *)
Recycle ==
  \/ AsCstr(Cstr!Recycle)
  \/ AsString(String!Recycle)
  \/ AsStreambuf(Streambuf!Recycle)

Carry == Continue /\ UNCHANGED <<writer, ofCstr, ofString, ofStreambuf, results>>

(* One thread runs a printer: it does not stop in the middle of a loop.    *)
FairSpec == Init /\ [][Next]_vars /\ WF_vars(Carry) /\ WF_vars(Recycle)

-----------------------------------------------------------------------------
(* The window of every class is in the memory meant for it: the array and  *)
(* then the garbage buffer, the string with its latest size, the buffer in *)
(* the object.                                                             *)
WindowInMemory ==
  /\ writer = "cstr" => Cstr!WindowInMemory
  /\ writer \in StringClasses => String!WindowInMemory
  /\ writer = "streambuf" => Streambuf!WindowInMemory

(* finish() of a C string writer leaves the beginning of the output, with  *)
(* the NUL behind it inside the array, and nothing moves or changes it.    *)
Terminated == writer = "cstr" => Cstr!Terminated

(* It says truncated exactly when a character was lost ...                 *)
TruncatedMeansLoss == writer = "cstr" => Cstr!TruncatedMeansLoss

(* ... and not before the array is as good as full.                        *)
TruncatedLate == writer = "cstr" => Cstr!TruncatedLate

(* Growing a pre-sized string keeps what was written, in its place.        *)
NothingOverwritten == writer \in StringClasses => String!NothingOverwritten

(* finish() of a string writer gives everything asked for unless an append *)
(* threw, and then, if it buffers, a beginning of it.                      *)
FinishGivesAll == writer \in StringClasses => String!FinishGivesAll

(* An exception of sputn may cost characters, but none arrives twice or    *)
(* out of order, ...                                                       *)
NothingTwice == writer = "streambuf" => Streambuf!NothingTwice

(* ... and the count never exceeds what arrived.                           *)
CountNotTooHigh == writer = "streambuf" => Streambuf!CountNotTooHigh

(* Every operation comes to its end or is left by an exception, also on    *)
(* the garbage buffer and after an exception that the client caught.       *)
OperationsEnd == pc # "idle" ~> pc = "idle"

Received ==
  CASE writer = "cstr" -> Cstr!Received
    [] writer \in StringClasses -> String!Received
    [] writer = "streambuf" -> <<>>

Sink == INSTANCE OrderedSink WITH
  received <- Received,
  open <- good /\ (writer \in StringClasses => String!Usable),
  success <- IF writer = "cstr" THEN Cstr!Success ELSE "none"

(* Characters reach the array or the string in order and without gaps, and *)
(* none after a failure or after finish(); a C string writer denies        *)
(* truncation only for complete output.  (A streambuf that throws leaves   *)
(* gaps and is left out: NothingTwice says what holds of it.)              *)
DeliversInOrder == Sink!Spec
=============================================================================
