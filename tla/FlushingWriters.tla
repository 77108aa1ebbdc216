--------------------------- MODULE FlushingWriters ---------------------------
(***************************************************************************)
(* An outbuf whose dynamic type is narrow_cfile_writer, wide_cfile_writer  *)
(* or basic_streambuf_writer.  The loops of module Outbuf know only the    *)
(* base class: recycle() is virtual, and the type of the object, fixed     *)
(* when it is created, decides which one runs.  The streambuf is one whose *)
(* sputn does not throw; one whose sputn does is in module OtherWriters.   *)
(***************************************************************************)
EXTENDS FlushingWriter

VARIABLE writer  (* the dynamic type                                       *)

Narrow == INSTANCE NarrowCfileWriter
Wide == INSTANCE WideCfileWriter
Streambuf == INSTANCE StreambufWriter WITH MayThrow <- FALSE

AnyInit == Init /\ writer \in {"narrow", "wide", "streambuf"}

(* recycle(), and finish(), of the class the object has.                   *)
AnyRecycle ==
  \/ writer = "narrow" /\ Narrow!Recycle
  \/ writer = "wide" /\ Wide!Recycle
  \/ writer = "streambuf" /\ Streambuf!Recycle

AnyFinish ==
  \/ writer = "narrow" /\ Narrow!Finish
  \/ writer = "wide" /\ Wide!Finish
  \/ writer = "streambuf" /\ Streambuf!Finish

AnyNext == (Client \/ AnyRecycle \/ AnyFinish) /\ UNCHANGED writer

anyVars == <<vars, writer>>

(* One thread runs a printer: it does not stop in the middle of a loop.    *)
AnySpec ==
  /\ AnyInit /\ [][AnyNext]_anyVars
  /\ WF_anyVars(Continue /\ UNCHANGED <<flushing, writer>>)
  /\ WF_anyVars(AnyRecycle /\ UNCHANGED writer)
=============================================================================
