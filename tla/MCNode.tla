------------------------------- MODULE MCNode -------------------------------
(***************************************************************************)
(* What the node learns from the network: the download of the chain from   *)
(* an honest peer p, slow at times, and a peer q with a block that fails   *)
(* and one above it; the pool with two transactions that spend the same    *)
(* key image and come by every relay method; and a network whose forks     *)
(* need votes.  The three share no state here, so a behaviour is one of    *)
(* `part' alone.                                                           *)
(***************************************************************************)
EXTENDS TxPool, HardFork, BlockSync

CONSTANTS p, q, b1, b2, b3, c2, c3

MCPeerChain == p :> <<b1, b2, b3>> @@ q :> <<b1, c2, c3>>
MCPeerStored == p :> {1, 2, 3} @@ q :> {1, 2, 3}
MCTip == p :> 3 @@ q :> 3
MCMaxIds == p :> 3 @@ q :> 2

MCKI == [a |-> {"i", "j"}, b |-> {"i"}]
MCNeeds == [a |-> {}, b |-> {}]
MCWeight == [a |-> 2, b |-> 1]
MCFeeRate == [a |-> 2, b |-> 1]
MCNicValid == [a |-> {1, 2}, b |-> {1}]

MCVotedForks == << [version |-> 1, height |-> 1, threshold |-> 0],
                   [version |-> 2, height |-> 2, threshold |-> 50],
                   [version |-> 3, height |-> 3, threshold |-> 100] >>

VARIABLE part
nodeVars == <<part, syncVars, vars, forkVars>>

NodeInit ==
  /\ SyncInit /\ Init /\ ForkInit
  /\ part = "votes" \/ (part \in {"sync", "pool"} /\ heights = Forks)

NodeNext ==
  /\ UNCHANGED part
  /\ \/ part = "sync" /\ SyncNext /\ UNCHANGED <<vars, forkVars>>
     \/ part = "pool" /\ Next /\ UNCHANGED <<syncVars, forkVars>>
     \/ part = "votes" /\ ForkNext /\ UNCHANGED <<syncVars, vars>>

\* SyncFairness, in the behaviours of that part
NodeFairness ==
  /\ \A c \in Conns : WF_syncVars(part = "sync" /\ Works(c))
  /\ WF_syncVars(span_overdue)
NodeSpec == NodeInit /\ [][NodeNext]_nodeVars /\ NodeFairness

\* Every variable has its type, and m_sync_lock one owner, who alone has a span
\* in hand.
NodeTypeOK == SyncTypeOK /\ TypeOK
=============================================================================
