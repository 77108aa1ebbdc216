--------------------------- MODULE BufferedEncoder ---------------------------
(***************************************************************************)
(* decode_encode (detail/facets/encoding.hpp): when no transcoder goes     *)
(* from one encoding to another directly, the source is decoded to UTF-32  *)
(* into a buffered_encoder, an outbuf of MiniSize code points whose        *)
(* recycle() encodes them into the real destination.  Two outbufs are at   *)
(* work: the decoder's loop runs on the mini buffer, the encoder's loop,   *)
(* which is the Transcode of module Outbuf, on the destination, an outbuf  *)
(* of any of the classes of FlushingWriters, which may fail at any         *)
(* recycle().                                                              *)
(*                                                                         *)
(* A code point is identified by its place in the source.  When the        *)
(* destination is bad the encoder's recycle() drops what was decoded, but  *)
(* stays good: the decoder reads its source to the end.                    *)
(***************************************************************************)
EXTENDS FlushingWriters, MiniBuffer

VARIABLES
  stage,     (* where decode_encode is; "throw" when it was left by one    *)
  mini,      (* _mini_buffer: the code points decoded and not encoded yet  *)
  mpos,      (* pos() of the buffered_encoder                              *)
  mgood,     (* good() of the buffered_encoder                             *)
  batch,     (* the code points transcode() is encoding                    *)
  held,      (* the code point decoded before the recycle(); 0: none       *)
  widths,    (* for each code point decoded, its code units in the output  *)
  units,     (* their sum                                                  *)
  encoded    (* history: the code points handed to the destination         *)

encoder == <<stage, mini, mpos, mgood, batch, held, widths, units, encoded>>
allVars == <<anyVars, encoder>>

EncoderInit ==
  /\ AnyInit
  /\ stage = "idle"
  /\ mini = [c \in 0 .. MiniSize - 1 |-> 0]
  /\ mpos = 0 /\ mgood = TRUE
  /\ batch = <<>> /\ held = 0
  /\ widths = <<>> /\ units = 0 /\ encoded = <<>>

Begin ==
  /\ stage = "idle" /\ pc = "idle"
  /\ stage' = "decode"
  /\ UNCHANGED <<anyVars, mini, mpos, mgood, batch, held, widths, units, encoded>>

(* One more code point of the source, w code units long in the output.     *)
Read(w) ==
  /\ units + w <= MaxChars
  /\ units' = units + w
  /\ widths' = Append(widths, w)

(* The next code point is decoded; STRF_CHECK_DEST finds room for it.      *)
Decode(w) ==
  /\ stage = "decode"
  /\ mpos < MiniSize
  /\ Read(w)
  /\ mini' = [mini EXCEPT ![mpos] = Len(widths')]
  /\ mpos' = mpos + 1
  /\ UNCHANGED <<anyVars, stage, mgood, batch, held, encoded>>

(* Two mutants of the next definition: the window is not opened again; the *)
(* test of the destination is inverted.                                    *)
EncoderRecycleFull ==
  /\ mpos' = mpos
  /\ IF mpos # 0 /\ good
     THEN mgood' = FALSE /\ batch' = [i \in 1 .. mpos |-> mini[i - 1]]
     ELSE UNCHANGED <<mgood, batch>>

EncoderRecycleDropping ==
  /\ mpos' = 0
  /\ IF mpos # 0 /\ ~good
     THEN mgood' = FALSE /\ batch' = [i \in 1 .. mpos |-> mini[i - 1]]
     ELSE UNCHANGED <<mgood, batch>>

(* buffered_encoder::recycle(): the window is opened again first; then the *)
(* code points are encoded, unless the destination is bad.                 *)
EncoderRecycle ==
  /\ mpos' = 0
  /\ IF mpos # 0 /\ good
     THEN mgood' = FALSE /\ batch' = [i \in 1 .. mpos |-> mini[i - 1]]
     ELSE UNCHANGED <<mgood, batch>>

(* The next code point is decoded and there is no room for it.             *)
DecodeIntoFull(w) ==
  /\ stage = "decode"
  /\ mpos = MiniSize
  /\ Read(w)
  /\ held' = Len(widths')
  /\ EncoderRecycle
  /\ stage' = IF good THEN "encode" ELSE "resume"
  /\ UNCHANGED <<anyVars, mini, encoded>>

(* The rest of STRF_CHECK_DEST: since the buffered_encoder is good after   *)
(* its recycle(), the decoder stores the code point it was holding.        *)
Resume ==
  /\ stage = "resume"
  /\ mgood
  /\ mini' = [mini EXCEPT ![mpos] = held]
  /\ mpos' = mpos + 1
  /\ held' = 0
  /\ stage' = "decode"
  /\ UNCHANGED <<anyVars, mgood, batch, widths, units, encoded>>

(* A mutant: finish() forgets what is in the buffer.                       *)
EncoderFinishEmpty ==
  /\ stage = "decode"
  /\ stage' = "done" /\ mgood' = FALSE
  /\ UNCHANGED <<anyVars, mini, mpos, batch, held, widths, units, encoded>>

(* finish(), at the end of the source: like recycle(), but the outbuf      *)
(* stays bad.                                                              *)
EncoderFinish ==
  /\ stage = "decode"
  /\ IF mpos # 0 /\ good
     THEN /\ stage' = "finish"
          /\ batch' = [i \in 1 .. mpos |-> mini[i - 1]]
          /\ UNCHANGED mgood
     ELSE stage' = "done" /\ mgood' = FALSE /\ UNCHANGED batch
  /\ UNCHANGED <<anyVars, mini, mpos, held, widths, units, encoded>>

(* The source is invalid and the policy is to stop: an exception leaves    *)
(* the decoder, and finish() is not called.                                *)
DecoderThrows ==
  /\ stage = "decode"
  /\ stage' = "throw"
  /\ UNCHANGED <<anyVars, mini, mpos, mgood, batch, held, widths, units, encoded>>

-----------------------------------------------------------------------------
(* transcode() from UTF-32 into the destination.                           *)
Encoding == stage \in {"encode", "finish"}

BeginEncode ==
  /\ Encoding /\ batch # <<>>
  /\ Transcode
  /\ UNCHANGED <<flushing, writer, encoder>>

Encode ==
  /\ Encoding /\ batch # <<>>
  /\ Emit(widths[Head(batch)])
  /\ batch' = Tail(batch)
  /\ encoded' = Append(encoded, Head(batch))
  /\ UNCHANGED <<flushing, writer, stage, mini, mpos, mgood, held, widths, units>>

(* A mutant: the pointer into the source is advanced once more after       *)
(* recycle().                                                              *)
EncodeContinueSkipping ==
  /\ Encoding
  /\ EmitContinue
  /\ batch' = IF good THEN SubSeq(batch, 2, Len(batch)) ELSE <<>>
  /\ UNCHANGED <<flushing, writer, stage, mini, mpos, mgood, held, widths, units, encoded>>

(* EmitContinue leaves transcode() when the destination has become bad:    *)
(* the rest of the batch is dropped.                                       *)
EncodeContinue ==
  /\ Encoding
  /\ EmitContinue
  /\ batch' = IF good THEN batch ELSE <<>>
  /\ UNCHANGED <<flushing, writer, stage, mini, mpos, mgood, held, widths, units, encoded>>

EndEncode ==
  /\ Encoding /\ batch = <<>>
  /\ EndTranscode
  /\ UNCHANGED <<flushing, writer, encoder>>

(* The destination's encoding has no such character and the policy is to   *)
(* stop: what was encoded before it counts (advance_to), then an exception *)
(* leaves both loops, and the buffered_encoder stays bad.                  *)
EncoderThrows ==
  /\ Encoding /\ batch # <<>>
  /\ EndTranscode
  /\ stage' = "throw"
  /\ UNCHANGED <<flushing, writer, mini, mpos, mgood, batch, held, widths, units, encoded>>

(* transcode() has returned to recycle() or to finish().                   *)
EncodeReturns ==
  /\ Encoding /\ batch = <<>> /\ pc = "idle"
  /\ IF stage = "encode" THEN stage' = "resume" /\ mgood' = TRUE
                         ELSE stage' = "done" /\ mgood' = FALSE
  /\ UNCHANGED <<anyVars, mini, mpos, batch, held, widths, units, encoded>>

(* The caller finishes the destination afterwards.                         *)
Close ==
  /\ stage \in {"done", "throw"}
  /\ AnyFinish
  /\ UNCHANGED <<writer, encoder>>

Step ==
  \/ \E w \in 1 .. MaxUnit : Decode(w) \/ DecodeIntoFull(w)
  \/ Resume \/ EncoderFinish \/ DecoderThrows
  \/ BeginEncode \/ Encode \/ EncodeContinue \/ EndEncode
  \/ EncoderThrows \/ EncodeReturns
  \/ (AnyRecycle /\ UNCHANGED <<writer, encoder>>)

EncoderNext == Begin \/ Step \/ Close

EncoderSpec == EncoderInit /\ [][EncoderNext]_allVars

-----------------------------------------------------------------------------
(* The mini buffer is never overrun, and its recycle() leaves it good and  *)
(* with room for the code point the decoder is holding: the decoder never  *)
(* leaves its source unread.                                               *)
MiniWindow == mpos <= MiniSize /\ (stage = "resume" => mgood /\ mpos < MiniSize)

(* The code points reach the destination in the order of the source, none  *)
(* twice and none skipped, across any number of recycle() calls of either  *)
(* outbuf.                                                                 *)
EncodedInOrder == encoded = Prefix(Len(encoded))

(* When decode_encode returns and the destination is good, everything that *)
(* was decoded has been encoded, also what finish() found in the buffer.   *)
NothingLeftBehind ==
  stage = "done" /\ good => Len(encoded) = Len(widths) /\ asked = units

(* An exception costs at most what was in the mini buffer and the code     *)
(* point the decoder was holding.                                          *)
LossAtThrow ==
  stage = "throw" /\ good => Len(widths) - Len(encoded) <= MiniSize + 1
=============================================================================
