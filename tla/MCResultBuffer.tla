--------------------------- MODULE MCResultBuffer ---------------------------
(***************************************************************************)
(* Instances of ResultBuffer for TLC.  Records of 5 and 6 bytes ("0|a||"   *)
(* is the shortest real one) in a buffer of 20 bytes: up to three fit, the*)
(* room left takes every value around result_len + 2.  Answers fill what   *)
(* is left, or the whole buffer, to the last byte, or are empty.           *)
(***************************************************************************)
EXTENDS ResultBuffer

MCResultLens  == {5, 6}
MCAnswers     == {0, 4, 6, 20}
MCOtherErrors == {-2, 3}
NegativeErrors == {-2}

=============================================================================
