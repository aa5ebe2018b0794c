---------------------------- MODULE MCBlockchain ----------------------------
(* Small trees of blocks for Blockchain. *)
EXTENDS Blockchain, TLC

CONSTANTS g, a1, a2, a3, a4, b2, b3, b4, c3, d1, t1, t2

\* From a1 two branches leave, the second with a fork of its own; d1 is a rival
\* of a1.
MCParent == a1 :> g @@ a2 :> a1 @@ a3 :> a2 @@ a4 :> a3 @@ b2 :> a1 @@ b3 :> b2
            @@ b4 :> b3 @@ c3 :> b2 @@ d1 :> g

MCLine ==
  LET line[b \in Blocks] == IF b = g THEN <<g>> ELSE Append(line[MCParent[b]], b) IN line

MCWork ==
  LET work[b \in Blocks] == Difficulty[b] + (IF b = g THEN 0 ELSE work[MCParent[b]])
  IN work

\* The shorter chain may have more work, and two of different length the same.
MCDifficulty ==
  [b \in Blocks |-> CASE b = d1 -> 4 [] b \in {a2, a3, b4, c3} -> 2 [] OTHER -> 1]

\* c3 has the transaction of a2 and another one that conflicts with it.
MCTxsOf == [b \in Blocks |-> CASE b \in {a2, b4} -> <<t1>> [] b = b3 -> <<t2>>
                               [] b = c3 -> <<t1, t2>> [] OTHER -> <<>>]

\* Blocks that fail at different places of handle_block_to_main_chain.
MCFlaw == [b \in Blocks |-> CASE b = b4 -> "inputs" [] b = c3 -> "key_image"
                              [] b = a4 -> "reward" [] OTHER -> "none"]
InputsFlaw == [b \in Blocks |-> IF b = b4 THEN "inputs" ELSE "none"]
PointsFlaw == [b \in Blocks |-> CASE b = c3 -> "key_image" [] b = b4 -> "header"
                                  [] OTHER -> "none"]
NoFlaw == [b \in Blocks |-> "none"]

NoPoints == {}
HighPoint == {[height |-> 3, id |-> b3]}
TwoPoints == {[height |-> 3, id |-> b3], [height |-> 4, id |-> b4]}
=============================================================================
