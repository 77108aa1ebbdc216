----------------------------- MODULE MiniBuffer -----------------------------
(***************************************************************************)
(* The buffer of a buffered_encoder (detail/facets/encoding.hpp), between  *)
(* the two transcoders of a decode_encode.                                 *)
(***************************************************************************)
EXTENDS Naturals

CONSTANT MiniSize  (* mini_buffer32_size: 16 in the code                   *)

ASSUME MiniBufferAssumption == MiniSize \in Nat \ {0}

=============================================================================
