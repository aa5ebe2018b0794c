----------------------------- MODULE ForkChoice -----------------------------
(***************************************************************************)
(* What the blockchain promises when blocks are neither popped by the user *)
(* nor checkpointed: the main chain is replaced, as a whole, by valid      *)
(* chains that have more work; it is made durable from time to time, and   *)
(* when something goes wrong the durable one comes back.                   *)
(***************************************************************************)
EXTENDS Naturals, Sequences

CONSTANTS Blocks, Genesis, Line, Work, Flaw

VARIABLES
  main,     \* the main chain
  durable   \* the one on disk

WorkOf(chain) == Work[chain[Len(chain)]]

IsValid(b) == \A i \in 1..Len(Line[b]) : Flaw[Line[b][i]] = "none"

Init == main = <<Genesis>> /\ durable = main

\* A block arrives that extends the main chain or makes another one the best.
Adopt ==
  \E b \in Blocks :
    /\ IsValid(b) /\ Work[b] > WorkOf(main)
    /\ main' = Line[b] /\ UNCHANGED durable

Commit == durable' = main /\ UNCHANGED main

\* The process stops, or a batch is aborted.
Lose == main' = durable /\ UNCHANGED durable

Next == Adopt \/ Commit \/ Lose

Spec == Init /\ [][Next]_<<main, durable>>
=============================================================================
