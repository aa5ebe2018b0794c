----------------------------- MODULE MCServices -----------------------------
(***************************************************************************)
(* Parts of the daemon that the others rely on: the thread pool with one   *)
(* worker and two callers whose jobs nest; the miner; the download queue   *)
(* with two peers whose chains fork, the first of which is pruned; and the *)
(* table of forks, without votes as on the networks of hardforks.cpp.      *)
(* They share no state, so a behaviour is one of `part' alone.             *)
(***************************************************************************)
EXTENDS ThreadPool, Miner, BlockQueue, HardFork, TLC

CONSTANTS w1, ca, cb, ja, a1, d, la, jb, jb1, jb2, p, q, b1, b2, b3, c2, c3

\* ca submits a1, which waits for a leaf job, and a detached job; the jobs of cb
\* are nested three deep.
MCSubs == ja :> <<a1, d>> @@ a1 :> <<la>> @@ d :> << >> @@ la :> << >>
          @@ jb :> <<jb1>> @@ jb1 :> <<jb2>> @@ jb2 :> << >>
MCCallOf == [j \in {ja, a1, d, la} |-> ca] @@ [j \in {jb, jb1, jb2} |-> cb]

\* One way of steering the miner in each of its two parts.
MCOptions == {[do_background |-> TRUE, threads_count |-> 1], [do_background |-> FALSE, threads_count |-> 0]}

MCPeerChain == p :> <<b1, b2, b3>> @@ q :> <<b1, c2, c3>>
MCPeerStored == p :> {1, 3} @@ q :> {1, 2, 3}
MCLocalStored == {1, 2}

MCForks == << [version |-> 1, height |-> 1, threshold |-> 0],
              [version |-> 2, height |-> 2, threshold |-> 0],
              [version |-> 3, height |-> 4, threshold |-> 0] >>

VARIABLE part
servicesVars == <<part, poolVars, minerVars, queueVars, forkVars>>

ServicesInit ==
  /\ PoolInit /\ MinerInit /\ QueueInit /\ ForkInit
  /\ \/ part = "background" /\ heights = Forks
     \/ part = "forks" /\ m_is_background_mining_started
     \/ part \in {"threads", "autodetect", "queue"} /\ heights = Forks /\ m_is_background_mining_started

ServicesNext ==
  /\ UNCHANGED part
  /\ \/ part = "threads" /\ PoolNext /\ UNCHANGED <<minerVars, queueVars, forkVars>>
     \/ part \in {"background", "autodetect"} /\ MinerNext /\ UNCHANGED <<poolVars, queueVars, forkVars>>
        /\ IF part = "background" THEN m_threads_autodetect' = 0 ELSE rpc' # "start background"
     \/ part = "queue" /\ QueueNext /\ UNCHANGED <<poolVars, minerVars, forkVars>>
     \/ part = "forks" /\ ForkNext /\ UNCHANGED <<poolVars, minerVars, queueVars>>

\* PoolFairness and MinerFairness; the miner has nothing to do before a start.
ServicesFairness == (\A t \in Threads : WF_poolVars(part = "threads" /\ PoolStep(t))) /\ MinerFairness
ServicesSpec == ServicesInit /\ [][ServicesNext]_servicesVars /\ ServicesFairness

\* Every variable has its type, and what the code counts by hand in unsigned
\* numbers (the jobs of a waiter, the versions in the window) is exact.
ServicesConsistent == PoolTypeOK /\ QueueTypeOK /\ ForkTypeOK /\ NumExact /\ WindowSound
=============================================================================
