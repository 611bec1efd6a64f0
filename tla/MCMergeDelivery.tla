--------------------------- MODULE MCMergeDelivery ---------------------------
(* MergeDelivery on a small instance. *)
EXTENDS MergeDelivery, TLC

CONSTANTS main, dev, h1, h2

OneKey == {<<main, h1>>}

=============================================================================
