----------------------------- MODULE MCDagNames -----------------------------
(***************************************************************************)
(* A DAG of depth two: top -> mid -> leaf.                                 *)
(***************************************************************************)
EXTENDS DagNames, TLC

CONSTANTS top, mid, leaf

MCNodes == {top, mid, leaf}
MCLinks == (top :> {mid}) @@ (mid :> {leaf}) @@ (leaf :> {})
=============================================================================
