------------------------- MODULE MCThingsboardClient -------------------------
(***************************************************************************)
(* Model-checking instances of ThingsboardClient: the threads, blocks and  *)
(* sockets are model values, given in the .cfg files.                      *)
(***************************************************************************)
EXTENDS ThingsboardClient, TLC

\* Application threads, blocks and sockets are interchangeable.  Used in runs
\* that check safety only.
Symmetry == Permutations(AppThread) \cup Permutations(Request)
=============================================================================
