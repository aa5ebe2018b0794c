------------------------------ MODULE MCTxPool ------------------------------
(* a and b spend the same key image, a also refers to an output of c, and c  *)
(* is valid before the hard fork only.                                       *)
EXTENDS TxPool

MCKI == [a |-> {"i", "j"}, b |-> {"i"}, c |-> {"k"}]
MCNeeds == [a |-> {"c"}, b |-> {}, c |-> {}]
MCWeight == [a |-> 1, b |-> 1, c |-> 2]
MCFeeRate == [a |-> 2, b |-> 1, c |-> 1]
MCNicValid == [a |-> {1, 2}, b |-> {1, 2}, c |-> {1}]
=============================================================================
