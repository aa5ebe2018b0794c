------------------------------ MODULE MCMiner ------------------------------
(* The miner with both kinds of control at once. *)
EXTENDS Miner

MCBoth == {[do_background |-> TRUE, threads_count |-> 0]}
=============================================================================
