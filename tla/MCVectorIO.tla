----------------------------- MODULE MCVectorIO -----------------------------
(***************************************************************************)
(* Four-bit words.  Vectors of up to three segments, one more than         *)
(* UIO_MAXIOV allows, with lengths around zero, the limit and the sign bit.*)
(***************************************************************************)
EXTENDS VectorIO

Lengths == {0, 1, 2, 3, Half - 1, Half, 2 * Half - 1}

MCUserVectors ==
  UNION {[1 .. n -> Lengths] : n \in 0 .. 3} \cup {<<1, 1, 1, 1>>}

MCPositions == {-Half, -5, -3, -1, 0, Half - 5, Half - 3, Half - 1}
=============================================================================
