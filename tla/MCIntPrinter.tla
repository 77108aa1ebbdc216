---------------------------- MODULE MCIntPrinter ----------------------------
EXTENDS IntPrinter

(* Groups of one size, several, and a last group that is not repeated.     *)
MCGroupings == {<<1>>, <<3>>, <<1, 2>>, <<2, 1>>, <<1, 1, 0>>, <<3, 0>>}
=============================================================================
