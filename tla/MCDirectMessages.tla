------------------------- MODULE MCDirectMessages -------------------------
(***************************************************************************)
(* Nodes a and b are both configured with the DID da, whose record names   *)
(* only one of them at a time; c has the DID dc.                           *)
(***************************************************************************)
EXTENDS DirectMessages, TLC

CONSTANTS a, b, c, da, dc, web

MCNodes == {a, b, c}
MCDids == {da, dc, web}
MCEnsDids == {da, dc}
MCConfigDid == (a :> da) @@ (b :> da) @@ (c :> dc)
MCInitEns == (da :> a) @@ (dc :> c) @@ (web :> NoKey)

(* Requests are interchangeable: nothing orders them.                      *)
Symmetry == Permutations(Requests)
=============================================================================
