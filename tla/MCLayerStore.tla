---------------------------- MODULE MCLayerStore -----------------------------
(***************************************************************************)
(* Model checking of LayerStore: two pulls of an image of two layers, of   *)
(* which each downloads one at a time; and one pull of an image that has   *)
(* the same layer twice.                                                   *)
(***************************************************************************)
EXTENDS LayerStore, TLC
CONSTANTS p1, p2, base, top, conf
TwoLayers == <<base, top>>
SameLayerTwice == <<base, base>>
Symmetry == Permutations({p1, p2})
==============================================================================
