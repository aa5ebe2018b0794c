------------------------------- MODULE MCSync -------------------------------
(* An honest peer p, slow at times, and a peer q with a block that fails
   verification and one above it. *)
EXTENDS BlockSync, TLC

CONSTANTS p, q, b1, b2, b3, c2, c3

MCPeerChain == p :> <<b1, b2, b3>> @@ q :> <<b1, c2, c3>>
MCPeerStored == p :> {1, 2, 3} @@ q :> {1, 2, 3}
MCTip == p :> 3 @@ q :> 3
MCMaxIds == p :> 3 @@ q :> 2
=============================================================================
