----------------------------- MODULE ByteDecoder -----------------------------
(***************************************************************************)
(* single_byte_encoding::to_utf32 (detail/single_byte_encodings.hpp) on a  *)
(* string appender or a string maker.  It copies pos and end to dest_it    *)
(* and dest_end as the other transcoders do, but each round also calls     *)
(* ensure(1) on the outbuf, whose pos is behind dest_it and whose recycle  *)
(* the copies do not see.                                                  *)
(***************************************************************************)
EXTENDS StringWriters

BeginDecode ==
  /\ pc = "idle" /\ asked < MaxChars
  /\ pc' = "ensure"
  /\ dit' = pos /\ dend' = end
  /\ UNCHANGED <<outbuf, asked, ret, todo, unit, string>>

(* A round for one more byte starts with ob.ensure(1).                     *)
Ensure ==
  /\ pc = "ensure"
  /\ asked < MaxChars
  /\ asked' = asked + 1
  /\ \/ pos < end /\ pc' = "check_dest" /\ UNCHANGED ret
     \/ pos = end /\ CallRecycle("check_dest")
  /\ UNCHANGED <<outbuf, todo, unit, dit, dend, string>>

(* STRF_CHECK_DEST finds room, or recycles.                                *)
CheckDest ==
  /\ pc = "check_dest"
  /\ \/ dit # dend /\ pc' = "store" /\ UNCHANGED <<pos, ret>>
     \/ dit = dend /\ pos' = dit /\ CallRecycle("read_again")
  /\ UNCHANGED <<mem, end, good, asked, todo, unit, dit, dend, string>>

ReadAgain ==
  /\ pc = "read_again"
  /\ IF good THEN pc' = "store" /\ dit' = pos /\ dend' = end
             ELSE pc' = "idle" /\ UNCHANGED <<dit, dend>>
  /\ UNCHANGED <<outbuf, asked, ret, todo, unit, string>>

StoreChar ==
  /\ pc = "store"
  /\ Store(dit, 1, asked)
  /\ dit' = dit + 1
  /\ pc' = "ensure"
  /\ UNCHANGED <<pos, end, good, asked, ret, todo, unit, dend, string>>

(* The end of the source, or an invalid byte and the policy to stop: the   *)
(* byte is then not among those asked for.                                 *)
EndDecode ==
  /\ pc = "ensure"
  /\ pos' = dit
  /\ pc' = "idle"
  /\ UNCHANGED <<mem, end, good, asked, ret, todo, unit, dit, dend, string>>

DecoderInit == Init /\ writer \in Buffering

(* Other arguments are printed before and after the bytes.                 *)
DecoderNext ==
  \/ Next
  \/ BeginDecode \/ Ensure \/ CheckDest \/ ReadAgain \/ StoreChar \/ EndDecode

DecoderSpec == DecoderInit /\ [][DecoderNext]_vars

-----------------------------------------------------------------------------
(* What finish() gives is the text, also with bytes of a single-byte       *)
(* encoding in it.  (The comparisons of test/single_byte_encodings.cpp.)   *)
DecodedOnce == given # <<>> /\ ~threw => given[1].str = Prefix(given[1].asked)
=============================================================================
