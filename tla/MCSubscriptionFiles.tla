------------------------- MODULE MCSubscriptionFiles -------------------------
(* One element with two files, or one with one file.                       *)
EXTENDS SubscriptionProperties, TLC

CONSTANTS a, b

OneBlock == {{a, b}}
OneFile  == {{a}}

FileSymmetry == Permutations({a, b})
=============================================================================
