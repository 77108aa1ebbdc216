----------------------------- MODULE Encodings -----------------------------
(***************************************************************************)
(* A call of transcode (detail/facets/encoding.hpp), looked at on one of   *)
(* two levels: what text it writes, over every pair of encodings, the      *)
(* level of module Transcoding; or how the code points that a              *)
(* decode_encode has to buffer get through the windows of two outbufs, the *)
(* level of module BufferedEncoder.  The two share no variable: which      *)
(* characters there are does not depend on where the windows end.          *)
(***************************************************************************)
EXTENDS BufferedEncoder, Transcoding

VARIABLE level  (* "text" or "windows"                                     *)

callVars == <<level, textVars, allVars>>

(* On either level the other's variables keep one value.                   *)
UnusedText ==
  /\ job = [from |-> "utf32", to |-> "utf32", src |-> <<>>, after |-> 0,
            lax |-> FALSE, stop |-> FALSE]
  /\ TextBegins

UnusedWindows == EncoderInit /\ writer = "narrow"

CallInit ==
  \/ level = "text" /\ TextInit /\ UnusedWindows
  \/ level = "windows" /\ EncoderInit /\ UnusedText

CallNext ==
  \/ level = "text" /\ TextNext /\ UNCHANGED <<level, allVars>>
  \/ level = "windows" /\ EncoderNext /\ UNCHANGED <<level, textVars>>

CallSpec == CallInit /\ [][CallNext]_callVars
=============================================================================
