------------------------- MODULE MCBackgroundQueue -------------------------
(* Small instances of BackgroundQueue for TLC.                             *)
EXTENDS BackgroundQueue, TLC

CONSTANTS r1, r2, g1, g2, g3, w1, w2

Symmetry == Permutations(Gateways) \cup Permutations(Workers)
            \cup Permutations(Ids)
=============================================================================
