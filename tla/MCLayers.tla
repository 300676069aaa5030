------------------------------ MODULE MCLayers ------------------------------
(* A base layer, a layer on it, and one on that which is too deep.   *)
EXTENDS LayerStore, TLC

CONSTANTS base, top, deep

Chain == {base, top, deep}
ParentOf == (base :> NoLayer) @@ (top :> base) @@ (deep :> top)

Symmetry == Permutations(Proc) \cup Permutations(Handle) \cup Permutations(CacheID)
=============================================================================
