----------------------------- MODULE MCParser2 -----------------------------
(* Parser2 with the values of the .cfg file: messages of length 3 are as   *)
(* long as the decoder of an instrument, and shorter than all others.      *)
EXTENDS Parser2

MCcomputeLength == [type \in Types |-> IF type = "Instrument" THEN 1 ELSE 2]
=============================================================================
