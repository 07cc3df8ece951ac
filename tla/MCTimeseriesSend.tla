--------------------------- MODULE MCTimeseriesSend ---------------------------
(***************************************************************************)
(* Instances of TimeseriesSend.  A payload of 12 bytes takes one, two or   *)
(* three entries of these sizes; 9 just fails to fit into an empty one,    *)
(* 8 just fits, 0 is an entry without values.                              *)
(***************************************************************************)
EXTENDS TimeseriesSend, TLC

AllSizes == {Unencodable, 0, 2, 3, 5, 8, 9}

SmallSizes == {2, 3, 5, 8}

Symmetry == Permutations(Request)
=============================================================================
