--------------------------- MODULE MCSubscriptions ---------------------------
(***************************************************************************)
(* Two subscriptions to one topic, and a stream.  One buffer holds a       *)
(* single message and is soon full, in the others two messages wait.       *)
(***************************************************************************)
EXTENDS Subscriptions, TLC

CONSTANTS p1, p2, w

MCBufSize == [h \in {p1, p2, w} |-> IF h = p1 THEN 1 ELSE 2]

(* For two readers and no stream.                                          *)
MCBufSizes == [h \in Puts |-> IF h = p1 THEN 1 ELSE 2]

(* The requests are alike, and so are the messages of other nodes; no      *)
(* liveness is checked with them.                                          *)
MCSymmetry == Permutations(Gets) \cup Permutations(Remote)
=============================================================================
