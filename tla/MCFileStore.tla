---------------------------- MODULE MCFileStore ----------------------------
(***************************************************************************)
(* Two requests have been answered and fill their array, so that the third *)
(* append makes room for four, the fourth stores in place, and the fifth   *)
(* grows the array again; a restart begins from nothing.  The request r0   *)
(* is about to append, and two more may come.                              *)
(***************************************************************************)
EXTENDS FileStore, TLC

CONSTANTS e1, e2, r0, Active

MCRequests == {e1, e2, r0} \cup Active
MCEarlier == <<e1, e2>>

Symmetry == Permutations(Active) \cup Permutations(Contents)
=============================================================================
