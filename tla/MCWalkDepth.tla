---------------------------- MODULE MCWalkDepth ----------------------------
(***************************************************************************)
(* The DAG root -> a, b; a -> c; b -> c, d; d -> c, where c is reached at  *)
(* two depths and over three nodes, walked with and without Concurrency.   *)
(***************************************************************************)
EXTENDS WalkDepth, TLC

CONSTANTS root, a, b, c, d

MCCids == {root, a, b, c, d}
MCLinks ==
  (root :> <<a, b>>) @@ (a :> <<c>>) @@ (b :> <<c, d>>)
    @@ (c :> <<>>) @@ (d :> <<c>>)

Opts(before, skipRoot, handlers) ==
  { [before |-> before, skipRoot |-> skipRoot, handlers |-> handlers,
     concurrency |-> n] : n \in {0, Cardinality(Workers)} }

(* No handler, one that may tolerate any error, one that reports missing   *)
(* nodes, one that tolerates them on a walk that follows another, and two  *)
(* handlers combined.                                                      *)
MCOptions ==
  Opts({}, FALSE, <<>>) \cup Opts({}, FALSE, <<"onError">>)
    \cup Opts({}, FALSE, <<"onMissing">>)
    \cup Opts({c}, TRUE, <<"ignoreMissing">>)
    \cup Opts({}, FALSE, <<"ignoreMissing", "onMissing">>)
=============================================================================
