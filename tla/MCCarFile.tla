----------------------------- MODULE MCCarFile -----------------------------
(***************************************************************************)
(* Roots a, b and c, which share c: a -> c; b -> c, d; d -> c, e.          *)
(***************************************************************************)
EXTENDS CarFile, TLC

CONSTANTS a, b, c, d, e

MCCids == {a, b, c, d, e}
MCLinks ==
  (a :> <<c>>) @@ (b :> <<c, d>>) @@ (c :> <<>>) @@ (d :> <<c, e>>)
    @@ (e :> <<>>)
MCRoots == <<a, b, c>>
=============================================================================
