--------------------------- MODULE ServicesProofs ---------------------------
(***************************************************************************)
(* Proofs about the services of the daemon that own threads: the thread    *)
(* pool (ThreadPool) and the miner (Miner).  For each of them an inductive *)
(* invariant is proved to hold in every reachable state, for any threads,  *)
(* jobs and bounds, and the properties the runs check follow from it.      *)
(***************************************************************************)
EXTENDS MCServices, BlockQueueProofs, HardForkProofs, FiniteSetTheorems, SequenceTheorems, TLAPS

-----------------------------------------------------------------------------
(* The thread pool *)

\* Where jobs are: queued in qs, or on one of the stacks st, in a routine of one
\* of the kinds bs that is at one of pcs; in any routine, in one that run()
\* called, and in one that has not come to its dec() yet.
Bys == {"call", "run", "inline"}
Going == {"body", "flush", "block"}
InQueue(qs, j) == \E n \in 1..Len(qs) : qs[n] = j
Held(st, j, bs, pcs) == \E t \in Threads : \E i \in 1..Len(st[t]) :
  st[t][i].job = j /\ st[t][i].by \in bs /\ st[t][i].pc \in pcs
OnStack(st, j) == Held(st, j, Bys, Going \cup {"leave"})
OnRun(st, j) == Held(st, j, {"run"}, Going \cup {"leave"})
Unfinished(st, j) == Held(st, j, Bys, Going)
UnfinishedRun(st, j) == Held(st, j, {"run"}, Going)

Child(k, j) == \E m \in 1..Len(Subs[k]) : Subs[k][m] = j

\* A job is in one place only.
QueueUnique(qs) == \A m, n \in 1..Len(qs) : qs[m] = qs[n] => m = n
StacksUnique(st) == \A t, u \in Threads : \A i \in 1..Len(st[t]), k \in 1..Len(st[u]) :
  st[t][i].job = st[u][k].job => t = u /\ i = k
Apart(qs, st) == \A j \in Jobs : ~(InQueue(qs, j) /\ OnStack(st, j))

\* A routine is where its kind can be: the call below everything in the stack
\* of its caller, one run by submit() above the body that submits it, and one
\* run by run() at the bottom of a worker's stack or above a wait().
FrameOK(s, t, i) ==
  /\ s[i].at \in 1..Len(Subs[s[i].job]) + 1
  /\ s[i].by = "call" <=> (t \in Callers /\ i = 1)
  /\ s[i].by = "call" => s[i].pc # "leave" /\ s[i].job = Top(t)
  /\ s[i].by = "inline" => /\ i > 1 /\ s[i].pc # "leave"
                           /\ s[i - 1].pc = "body" /\ s[i - 1].at <= Len(Subs[s[i - 1].job])
                           /\ s[i].job = Subs[s[i - 1].job][s[i - 1].at]
  /\ s[i].by = "run" => HasParent(s[i].job) /\ (i > 1 => s[i - 1].pc = "flush")
Shape(st) == \A t \in Threads : \A i \in 1..Len(st[t]) : FrameOK(st[t], t, i)

\* The jobs B that were ever begun: with a job its submitter, and so back to
\* the call of a caller; not the children of a job that is queued, nor those a
\* body has yet to submit, nor the call a caller has yet to make.
Rooted(B) ==
  /\ \A j \in B : HasParent(j) => Parent(j) \in B
  /\ \A S \in SUBSET B : S # {} => \E j \in S : ~HasParent(j) \/ Parent(j) \notin S
Unsubmitted(B, s, i) == s[i].pc = "body" =>
  \A m \in s[i].at..Len(Subs[s[i].job]) : (m > s[i].at \/ i = Len(s)) => Subs[s[i].job][m] \notin B
Reached(B, qs, st) == \A j \in Jobs : InQueue(qs, j) \/ OnStack(st, j) => j \in B
QueueFresh(B, qs) == \A j \in Jobs : InQueue(qs, j) => HasParent(j) /\ \A c \in B : ~Child(j, c)
BodiesFresh(B, st) == \A t \in Threads : \A i \in 1..Len(st[t]) : Unsubmitted(B, st[t], i)
CallsFresh(B, st, res) == \A t \in Callers : st[t] = << >> /\ res[t] = "none" => Top(t) \notin B
Begun(B, qs, st, res) ==
  /\ Rooted(B) /\ Reached(B, qs, st) /\ QueueFresh(B, qs)
  /\ BodiesFresh(B, st) /\ CallsFresh(B, st, res)

\* The children of k that its waiter counts.
Counts(k, qs, st) == {s \in Jobs \ Detached : Child(k, s) /\ (InQueue(qs, s) \/ UnfinishedRun(st, s))}

\* An error of the call c is on its way to the caller.
Carried(st, fl, c) == \E t \in Threads : \E i \in 1..Len(st[t]) :
  /\ st[t][i].pc # "leave" /\ st[t][i].job \notin Detached /\ CallOf[st[t][i].job] = c
  /\ st[t][i].thrown \/ fl[st[t][i].job]
Thrower(th, c) == \E j \in th : CallOf[j] = c

PoolTypes ==
  /\ queue \in Seq(Jobs) /\ running \in BOOLEAN /\ asleep \subseteq Workers /\ exited \subseteq Workers
  /\ stack \in [Threads -> Seq(Frame)]
  /\ num \in [Jobs -> Int] /\ active \in Int /\ failed \in [Jobs -> BOOLEAN]
  /\ result \in [Callers -> {"none", "ok", "failed"}] /\ threw \subseteq Jobs
PlacesOK == QueueUnique(queue) /\ StacksUnique(stack) /\ Apart(queue, stack) /\ Shape(stack)
BegunOK == \E B \in SUBSET Jobs : Begun(B, queue, stack, result)
CountsOK ==
  /\ \A k \in Jobs : num[k] = Cardinality(Counts(k, queue, stack))
  /\ active = Cardinality({j \in Jobs : OnRun(stack, j)})
AliveOK == \A k \in Jobs : \A s \in Counts(k, queue, stack) : Unfinished(stack, k)
ReturnedOK == \A t \in Callers : result[t] # "none" => stack[t] = << >>
SleepOK ==
  /\ \A w \in asleep : stack[w] = << >>
  /\ running /\ asleep # {} => Len(queue) <= Cardinality({w \in Workers \ asleep : stack[w] = << >>})
ErrorsOK ==
  /\ \A j \in threw \ Detached : result[CallOf[j]] = "failed" \/ Carried(stack, failed, CallOf[j])
  /\ \A t \in Threads : \A i \in 1..Len(stack[t]) : stack[t][i].thrown => Thrower(threw, CallOf[stack[t][i].job])
  /\ \A k \in Jobs : failed[k] => Thrower(threw, CallOf[k])
  /\ \A t \in Callers : result[t] = "failed" => Thrower(threw, t)
PoolInv == PoolTypes /\ PlacesOK /\ BegunOK /\ CountsOK /\ AliveOK /\ ReturnedOK /\ SleepOK /\ ErrorsOK

\* The tree of jobs: what a caller calls, and who submits what.
LEMMA TopFacts ==
  ASSUME NEW t \in Callers
  PROVE  Top(t) \in Jobs /\ CallOf[Top(t)] = t /\ ~HasParent(Top(t))
BY PoolAssumption DEF Top

\* A job is submitted by one job only, at one place of its body.
LEMMA SubFacts ==
  ASSUME NEW k \in Jobs, NEW m \in 1..Len(Subs[k])
  PROVE  /\ Subs[k] \in Seq(Jobs) /\ Len(Subs[k]) \in Nat /\ DOMAIN Subs[k] = 1..Len(Subs[k])
         /\ Subs[k][m] \in Jobs /\ Child(k, Subs[k][m])
         /\ \A l \in Jobs : \A n \in 1..Len(Subs[l]) : Subs[l][n] = Subs[k][m] => l = k /\ n = m
<1>1. \A l \in Jobs : Subs[l] \in Seq(Jobs)
  BY PoolAssumption
<1>2. \A l \in Jobs : Len(Subs[l]) \in Nat /\ DOMAIN Subs[l] = 1..Len(Subs[l])
  BY <1>1
<1>3. \A l \in Jobs : \A n \in 1..Len(Subs[l]) : Subs[l][n] = Subs[k][m] => l = k /\ n = m
  <2>1. \A i, j \in Jobs : \A a \in DOMAIN Subs[i], b \in DOMAIN Subs[j] :
          Subs[i][a] = Subs[j][b] => i = j /\ a = b
    BY PoolAssumption
  <2> QED
    BY <1>2, <2>1
<1>4. Subs[k][m] \in Jobs
  BY <1>1, <1>2
<1>5. Child(k, Subs[k][m])
  BY DEF Child
<1> QED
  BY <1>1, <1>2, <1>3, <1>4, <1>5

\* A child has one parent, which is of the same call and has a waiter.
LEMMA ChildFacts ==
  ASSUME NEW k \in Jobs, NEW j, Child(k, j)
  PROVE  /\ j \in Jobs /\ HasParent(j) /\ Parent(j) = k /\ CallOf[j] = CallOf[k] /\ k \notin Detached
         /\ \A l \in Jobs : Child(l, j) => l = k
<1>1. PICK m \in 1..Len(Subs[k]) : Subs[k][m] = j
  BY DEF Child
<1>2. /\ DOMAIN Subs[k] = 1..Len(Subs[k]) /\ j \in Jobs /\ Subs[k] \in Seq(Jobs)
      /\ \A l \in Jobs : \A n \in 1..Len(Subs[l]) : Subs[l][n] = j => l = k
  BY <1>1, SubFacts
<1>3. \A l \in Jobs : DOMAIN Subs[l] = 1..Len(Subs[l])
  BY PoolAssumption
<1>4. HasParent(j)
  BY <1>1, <1>2 DEF HasParent
<1>5. Parent(j) = k
  BY <1>1, <1>2, <1>3 DEF Parent
<1>6. CallOf[j] = CallOf[k]
  BY <1>1, <1>2, PoolAssumption
<1>7. k \notin Detached
  <2>1. Subs[k] # << >>
    BY <1>1, <1>2
  <2> QED
    BY <2>1, PoolAssumption
<1> QED
  BY <1>2, <1>4, <1>5, <1>6, <1>7 DEF Child

\* The parent of a job submits it.
LEMMA ParentFacts ==
  ASSUME NEW j, HasParent(j)
  PROVE  Parent(j) \in Jobs /\ Child(Parent(j), j)
<1>1. PICK k \in Jobs : \E i \in DOMAIN Subs[k] : Subs[k][i] = j
  BY DEF HasParent
<1>2. Parent(j) \in Jobs /\ \E i \in DOMAIN Subs[Parent(j)] : Subs[Parent(j)][i] = j
  BY <1>1 DEF Parent
<1>3. DOMAIN Subs[Parent(j)] = 1..Len(Subs[Parent(j)])
  BY <1>2, PoolAssumption
<1> QED
  BY <1>2, <1>3 DEF Child

\* A job is begun by its submitter, or by its caller: the begun jobs stay
\* rooted in calls.
LEMMA RootedGrows ==
  ASSUME NEW B \in SUBSET Jobs, Rooted(B), NEW s \in Jobs, s \notin B,
         HasParent(s) => Parent(s) \in B
  PROVE  /\ B \cup {s} \in SUBSET Jobs /\ Rooted(B \cup {s})
         /\ \A c \in B \cup {s} : ~Child(s, c)
<1>1. \A j \in B \cup {s} : HasParent(j) => Parent(j) \in B \cup {s}
  BY DEF Rooted
<1>2. ASSUME NEW S \in SUBSET (B \cup {s}), S # {}
      PROVE  \E j \in S : ~HasParent(j) \/ Parent(j) \notin S
  <2>1. CASE S \subseteq {s}
    BY <2>1, <1>2
  <2>2. CASE S \ {s} # {}
    <3>1. PICK j \in S \ {s} : ~HasParent(j) \/ Parent(j) \notin S \ {s}
      BY <2>2 DEF Rooted
    <3>2. j \in B
      BY <3>1
    <3>3. HasParent(j) => Parent(j) # s
      BY <3>2 DEF Rooted
    <3> QED
      BY <3>1, <3>3
  <2> QED
    BY <2>1, <2>2
<1>3. ASSUME NEW c \in B \cup {s}, Child(s, c) PROVE FALSE
  <2>1. HasParent(c) /\ Parent(c) = s
    BY <1>3, ChildFacts
  <2> QED
    BY <2>1 DEF Rooted
<1> QED
  BY <1>1, <1>2, <1>3 DEF Rooted

-----------------------------------------------------------------------------
\* What the three ways of changing a stack do, place by place.
Pushed(st, st2, t, f) ==
  /\ st \in [Threads -> Seq(Frame)] /\ st2 \in [Threads -> Seq(Frame)] /\ t \in Threads /\ f \in Frame
  /\ Len(st2[t]) = Len(st[t]) + 1 /\ st2[t][Len(st[t]) + 1] = f
  /\ \A i \in 1..Len(st[t]) : st2[t][i] = st[t][i]
  /\ \A u \in Threads : u # t => st2[u] = st[u]
Changed(st, st2, t, f) ==
  /\ st \in [Threads -> Seq(Frame)] /\ st2 \in [Threads -> Seq(Frame)] /\ t \in Threads /\ f \in Frame
  /\ st[t] # << >> /\ Len(st2[t]) = Len(st[t]) /\ st2[t][Len(st[t])] = f
  /\ \A i \in 1..Len(st[t]) - 1 : st2[t][i] = st[t][i]
  /\ \A u \in Threads : u # t => st2[u] = st[u]
Popped(st, st2, t) ==
  /\ st \in [Threads -> Seq(Frame)] /\ st2 \in [Threads -> Seq(Frame)] /\ t \in Threads
  /\ st[t] # << >> /\ Len(st2[t]) = Len(st[t]) - 1
  /\ \A i \in 1..Len(st[t]) - 1 : st2[t][i] = st[t][i]
  /\ \A u \in Threads : u # t => st2[u] = st[u]

\* Push adds a routine on top ...
LEMMA PushPushes ==
  ASSUME NEW st \in [Threads -> Seq(Frame)], NEW t \in Threads, NEW f \in Frame
  PROVE  Pushed(st, [st EXCEPT ![t] = Append(@, f)], t, f)
<1> DEFINE st2 == [st EXCEPT ![t] = Append(@, f)]
<1>1. st[t] \in Seq(Frame) /\ st2[t] = Append(st[t], f)
  OBVIOUS
<1>2. st2 \in [Threads -> Seq(Frame)]
  BY <1>1
<1>3. \A u \in Threads : u # t => st2[u] = st[u]
  OBVIOUS
<1> HIDE DEF st2
<1> QED
  BY <1>1, <1>2, <1>3 DEF Pushed

\* ... SetCur replaces the innermost one ...
LEMMA SetChanges ==
  ASSUME NEW st \in [Threads -> Seq(Frame)], NEW t \in Threads, NEW f \in Frame, st[t] # << >>
  PROVE  Changed(st, [st EXCEPT ![t][Len(st[t])] = f], t, f)
<1> DEFINE st2 == [st EXCEPT ![t][Len(st[t])] = f]
<1>1. st[t] \in Seq(Frame) /\ st2[t] = [st[t] EXCEPT ![Len(st[t])] = f]
  OBVIOUS
<1>2. Len(st[t]) \in 1..Len(st[t])
  BY <1>1
<1>3. st2[t] \in Seq(Frame) /\ Len(st2[t]) = Len(st[t]) /\ st2[t][Len(st[t])] = f
      /\ \A i \in 1..Len(st[t]) - 1 : st2[t][i] = st[t][i]
  BY <1>1, <1>2
<1>4. st2 \in [Threads -> Seq(Frame)]
  BY <1>3
<1>5. \A u \in Threads : u # t => st2[u] = st[u]
  OBVIOUS
<1> HIDE DEF st2
<1> QED
  BY <1>3, <1>4, <1>5 DEF Changed

\* ... and Pop takes it off.
LEMMA PopPops ==
  ASSUME NEW st \in [Threads -> Seq(Frame)], NEW t \in Threads, st[t] # << >>
  PROVE  Popped(st, [st EXCEPT ![t] = Pop(@)], t)
<1> DEFINE st2 == [st EXCEPT ![t] = Pop(@)]
<1>1. st[t] \in Seq(Frame) /\ st2[t] = Pop(st[t])
  OBVIOUS
<1>2. Len(st[t]) >= 1 /\ Len(st[t]) \in Nat
  BY <1>1
<1>3. st2[t] \in Seq(Frame) /\ Len(st2[t]) = Len(st[t]) - 1
      /\ \A i \in 1..Len(st[t]) - 1 : st2[t][i] = st[t][i]
  <2> DEFINE n == Len(st[t]) - 1
  <2>1. 1 \in Int /\ n \in Nat /\ \A i \in 1..n : st[t][i] \in Frame
    BY <1>1, <1>2
  <2> HIDE DEF n
  <2>2. /\ SubSeq(st[t], 1, n) \in Seq(Frame)
        /\ Len(SubSeq(st[t], 1, n)) = IF 1 <= n THEN n - 1 + 1 ELSE 0
        /\ \A i \in 1..n - 1 + 1 : SubSeq(st[t], 1, n)[i] = st[t][1 + i - 1]
    BY <2>1, SubSeqProperties
  <2>3. Len(SubSeq(st[t], 1, n)) = n /\ \A i \in 1..n : SubSeq(st[t], 1, n)[i] = st[t][i]
    BY <2>1, <2>2
  <2> QED
    BY <1>1, <2>2, <2>3 DEF Pop, n
<1>4. st2 \in [Threads -> Seq(Frame)]
  BY <1>3
<1>5. \A u \in Threads : u # t => st2[u] = st[u]
  OBVIOUS
<1> SUFFICES Popped(st, st2, t)
  OBVIOUS
<1> HIDE DEF st2
<1> QED
  BY <1>3, <1>4, <1>5 DEF Popped

\* The places of the stacks before and after.
LEMMA PushPlaces ==
  ASSUME NEW st, NEW st2, NEW t, NEW f, Pushed(st, st2, t, f)
  PROVE  /\ \A u \in Threads : \A i \in 1..Len(st[u]) : i \in 1..Len(st2[u]) /\ st2[u][i] = st[u][i]
         /\ \A u \in Threads : \A i \in 1..Len(st2[u]) :
              \/ i \in 1..Len(st[u]) /\ st2[u][i] = st[u][i]
              \/ u = t /\ i = Len(st[t]) + 1 /\ st2[u][i] = f
         /\ Len(st[t]) + 1 \in 1..Len(st2[t]) /\ st2[t][Len(st[t]) + 1] = f
<1>1. \A u \in Threads : Len(st[u]) \in Nat /\ Len(st2[u]) \in Nat
  BY DEF Pushed
<1>2. \A u \in Threads : \A i \in 1..Len(st[u]) : i \in 1..Len(st2[u]) /\ st2[u][i] = st[u][i]
  <2> SUFFICES ASSUME NEW u \in Threads, NEW i \in 1..Len(st[u]) PROVE i \in 1..Len(st2[u]) /\ st2[u][i] = st[u][i]
    OBVIOUS
  <2>1. CASE u = t
    BY <2>1, <1>1 DEF Pushed
  <2>2. CASE u # t
    BY <2>2 DEF Pushed
  <2> QED
    BY <2>1, <2>2
<1>3. ASSUME NEW u \in Threads, NEW i \in 1..Len(st2[u])
      PROVE  \/ i \in 1..Len(st[u]) /\ st2[u][i] = st[u][i]
             \/ u = t /\ i = Len(st[t]) + 1 /\ st2[u][i] = f
  <2>1. CASE u = t
    BY <2>1, <1>1 DEF Pushed
  <2>2. CASE u # t
    BY <2>2 DEF Pushed
  <2> QED
    BY <2>1, <2>2
<1>4. Len(st[t]) + 1 \in 1..Len(st2[t]) /\ st2[t][Len(st[t]) + 1] = f
  BY <1>1 DEF Pushed
<1> QED
  BY <1>2, <1>3, <1>4

\* A changed top leaves every other place as it was.
LEMMA ChangePlaces ==
  ASSUME NEW st, NEW st2, NEW t, NEW f, Changed(st, st2, t, f)
  PROVE  /\ Len(st[t]) \in Nat \ {0}
         /\ \A u \in Threads : Len(st2[u]) = Len(st[u])
         /\ \A u \in Threads : \A i \in 1..Len(st[u]) :
              \/ st2[u][i] = st[u][i] /\ (u # t \/ i # Len(st[t]))
              \/ u = t /\ i = Len(st[t]) /\ st2[u][i] = f
         /\ Len(st[t]) \in 1..Len(st[t]) /\ st2[t][Len(st[t])] = f
<1>1. \A u \in Threads : Len(st[u]) \in Nat /\ Len(st2[u]) \in Nat
  BY DEF Changed
<1>2. Len(st[t]) # 0
  BY DEF Changed
<1>3. ASSUME NEW u \in Threads
      PROVE  /\ Len(st2[u]) = Len(st[u])
             /\ \A i \in 1..Len(st[u]) : \/ st2[u][i] = st[u][i] /\ (u # t \/ i # Len(st[t]))
                                         \/ u = t /\ i = Len(st[t]) /\ st2[u][i] = f
  <2>1. CASE u = t
    BY <2>1, <1>1 DEF Changed
  <2>2. CASE u # t
    BY <2>2 DEF Changed
  <2> QED
    BY <2>1, <2>2
<1>4. Len(st[t]) \in Nat \ {0} /\ Len(st[t]) \in 1..Len(st[t]) /\ st2[t][Len(st[t])] = f
  BY <1>1, <1>2 DEF Changed
<1> QED
  BY <1>3, <1>4

\* A pop leaves every place but the top as it was.
LEMMA PopPlaces ==
  ASSUME NEW st, NEW st2, NEW t, Popped(st, st2, t)
  PROVE  /\ Len(st[t]) \in Nat \ {0} /\ Len(st[t]) \in 1..Len(st[t])
         /\ \A u \in Threads : \A i \in 1..Len(st2[u]) :
              i \in 1..Len(st[u]) /\ st2[u][i] = st[u][i] /\ (u # t \/ i # Len(st[t]))
         /\ \A u \in Threads : \A i \in 1..Len(st[u]) :
              \/ i \in 1..Len(st2[u]) /\ st2[u][i] = st[u][i]
              \/ u = t /\ i = Len(st[t])
<1>1. \A u \in Threads : Len(st[u]) \in Nat /\ Len(st2[u]) \in Nat
  BY DEF Popped
<1>2. Len(st[t]) # 0
  BY DEF Popped
<1>3. ASSUME NEW u \in Threads
      PROVE  /\ \A i \in 1..Len(st2[u]) :
                  i \in 1..Len(st[u]) /\ st2[u][i] = st[u][i] /\ (u # t \/ i # Len(st[t]))
             /\ \A i \in 1..Len(st[u]) : \/ i \in 1..Len(st2[u]) /\ st2[u][i] = st[u][i]
                                         \/ u = t /\ i = Len(st[t])
  <2>1. CASE u = t
    BY <2>1, <1>1, <1>2 DEF Popped
  <2>2. CASE u # t
    BY <2>2 DEF Popped
  <2> QED
    BY <2>1, <2>2
<1>4. Len(st[t]) \in Nat \ {0} /\ Len(st[t]) \in 1..Len(st[t])
  BY <1>1, <1>2 DEF Popped
<1> QED
  BY <1>3, <1>4

\* A push adds its job.
LEMMA PushEffects ==
  ASSUME NEW st, NEW st2, NEW t, NEW f, Pushed(st, st2, t, f), NEW j, NEW bs, NEW pcs
  PROVE  Held(st2, j, bs, pcs) <=> Held(st, j, bs, pcs) \/ (j = f.job /\ f.by \in bs /\ f.pc \in pcs)
<1> t \in Threads
  BY DEF Pushed
<1>1. /\ \A u \in Threads : \A i \in 1..Len(st[u]) : i \in 1..Len(st2[u]) /\ st2[u][i] = st[u][i]
      /\ \A u \in Threads : \A i \in 1..Len(st2[u]) :
           \/ i \in 1..Len(st[u]) /\ st2[u][i] = st[u][i]
           \/ u = t /\ i = Len(st[t]) + 1 /\ st2[u][i] = f
      /\ Len(st[t]) + 1 \in 1..Len(st2[t]) /\ st2[t][Len(st[t]) + 1] = f
  BY PushPlaces
<1>2. ASSUME Held(st2, j, bs, pcs) PROVE Held(st, j, bs, pcs) \/ (j = f.job /\ f.by \in bs /\ f.pc \in pcs)
  BY <1>1, <1>2 DEF Held
<1>3. ASSUME Held(st, j, bs, pcs) PROVE Held(st2, j, bs, pcs)
  BY <1>1, <1>3 DEF Held
<1>4. ASSUME j = f.job /\ f.by \in bs /\ f.pc \in pcs PROVE Held(st2, j, bs, pcs)
  BY <1>1, <1>4 DEF Held
<1> QED
  BY <1>2, <1>3, <1>4

\* A change of a routine that goes on changes nothing of that ...
LEMMA ChangeEffects ==
  ASSUME NEW st, NEW st2, NEW t, NEW f, Changed(st, st2, t, f), NEW j, NEW bs, NEW pcs,
         f.job = st[t][Len(st[t])].job, f.by = st[t][Len(st[t])].by,
         f.pc \in pcs <=> st[t][Len(st[t])].pc \in pcs
  PROVE  Held(st2, j, bs, pcs) <=> Held(st, j, bs, pcs)
<1>1. /\ \A u \in Threads : Len(st2[u]) = Len(st[u])
      /\ \A u \in Threads : \A i \in 1..Len(st[u]) :
            \/ st2[u][i] = st[u][i]
            \/ u = t /\ i = Len(st[t]) /\ st2[u][i] = f
  BY ChangePlaces
<1>2. \A u \in Threads : \A i \in 1..Len(st[u]) :
        /\ st2[u][i].job = st[u][i].job /\ st2[u][i].by = st[u][i].by
        /\ st2[u][i].pc \in pcs <=> st[u][i].pc \in pcs
  BY <1>1
<1>3. ASSUME Held(st2, j, bs, pcs) PROVE Held(st, j, bs, pcs)
  BY <1>1, <1>2, <1>3 DEF Held
<1>4. ASSUME Held(st, j, bs, pcs) PROVE Held(st2, j, bs, pcs)
  BY <1>1, <1>2, <1>4 DEF Held
<1> QED
  BY <1>3, <1>4

\* ... one that has come to its end in run() is no longer waited for ...
LEMMA LeaveEffects ==
  ASSUME NEW st, NEW st2, NEW t, NEW f, Changed(st, st2, t, f), NEW j, NEW bs, NEW pcs, StacksUnique(st),
         f.job = st[t][Len(st[t])].job, f.pc \notin pcs
  PROVE  Held(st2, j, bs, pcs) <=> Held(st, j, bs, pcs) /\ j # f.job
<1> t \in Threads
  BY DEF Changed
<1>1. /\ Len(st[t]) \in 1..Len(st[t])
      /\ \A u \in Threads : Len(st2[u]) = Len(st[u])
      /\ \A u \in Threads : \A i \in 1..Len(st[u]) :
            \/ st2[u][i] = st[u][i] /\ (u # t \/ i # Len(st[t]))
            \/ u = t /\ i = Len(st[t]) /\ st2[u][i] = f
  BY ChangePlaces
<1>2. \A u \in Threads : \A i \in 1..Len(st[u]) : st[u][i].job = f.job <=> u = t /\ i = Len(st[t])
  BY <1>1 DEF StacksUnique
<1>3. ASSUME Held(st2, j, bs, pcs) PROVE Held(st, j, bs, pcs) /\ j # f.job
  BY <1>1, <1>2, <1>3 DEF Held
<1>4. ASSUME Held(st, j, bs, pcs), j # f.job PROVE Held(st2, j, bs, pcs)
  BY <1>1, <1>2, <1>4 DEF Held
<1> QED
  BY <1>3, <1>4

\* ... and a pop takes its job away.
LEMMA PopEffects ==
  ASSUME NEW st, NEW st2, NEW t, Popped(st, st2, t), NEW j, NEW bs, NEW pcs, StacksUnique(st)
  PROVE  Held(st2, j, bs, pcs) <=> Held(st, j, bs, pcs) /\ j # st[t][Len(st[t])].job
<1> DEFINE g == st[t][Len(st[t])]
<1> t \in Threads
  BY DEF Popped
<1>1. /\ Len(st[t]) \in 1..Len(st[t])
      /\ \A u \in Threads : \A i \in 1..Len(st2[u]) :
            i \in 1..Len(st[u]) /\ st2[u][i] = st[u][i] /\ (u # t \/ i # Len(st[t]))
      /\ \A u \in Threads : \A i \in 1..Len(st[u]) :
            \/ i \in 1..Len(st2[u]) /\ st2[u][i] = st[u][i]
            \/ u = t /\ i = Len(st[t])
  BY PopPlaces
<1>2. \A u \in Threads : \A i \in 1..Len(st[u]) : st[u][i].job = g.job <=> u = t /\ i = Len(st[t])
  BY <1>1 DEF StacksUnique
<1> HIDE DEF g
<1>3. ASSUME Held(st2, j, bs, pcs) PROVE Held(st, j, bs, pcs) /\ j # g.job
  BY <1>1, <1>2, <1>3 DEF Held
<1>4. ASSUME Held(st, j, bs, pcs), j # g.job PROVE Held(st2, j, bs, pcs)
  BY <1>1, <1>2, <1>4 DEF Held
<1> QED
  BY <1>3, <1>4 DEF g

\* Jobs stay in one place each.
LEMMA PushUnique ==
  ASSUME NEW st, NEW st2, NEW t, NEW f, Pushed(st, st2, t, f), StacksUnique(st), ~OnStack(st, f.job)
  PROVE  StacksUnique(st2)
<1>1. /\ \A u \in Threads : \A i \in 1..Len(st2[u]) :
           \/ i \in 1..Len(st[u]) /\ st2[u][i] = st[u][i] /\ st2[u][i].job # f.job
           \/ u = t /\ i = Len(st[t]) + 1 /\ st2[u][i] = f
  <2>1. \A u \in Threads : \A i \in 1..Len(st[u]) : st[u][i].job # f.job
    <3>1. \A u \in Threads : \A i \in 1..Len(st[u]) : st[u][i] \in Frame
      BY DEF Pushed
    <3> QED
      BY <3>1 DEF OnStack, Held, Frame, Bys, Going
  <2> QED
    BY <2>1, PushPlaces
<1> SUFFICES ASSUME NEW u \in Threads, NEW v \in Threads, NEW i \in 1..Len(st2[u]), NEW k \in 1..Len(st2[v]),
                    st2[u][i].job = st2[v][k].job
             PROVE  u = v /\ i = k
  BY DEF StacksUnique
<1>2. \/ i \in 1..Len(st[u]) /\ st2[u][i] = st[u][i] /\ st2[u][i].job # f.job
      \/ u = t /\ i = Len(st[t]) + 1 /\ st2[u][i] = f
  BY <1>1
<1>3. \/ k \in 1..Len(st[v]) /\ st2[v][k] = st[v][k] /\ st2[v][k].job # f.job
      \/ v = t /\ k = Len(st[t]) + 1 /\ st2[v][k] = f
  BY <1>1
<1>4. CASE i \in 1..Len(st[u]) /\ st2[u][i] = st[u][i] /\ k \in 1..Len(st[v]) /\ st2[v][k] = st[v][k]
  <2>1. st[u][i].job = st[v][k].job
    BY <1>4
  <2> QED
    BY <1>4, <2>1 DEF StacksUnique
<1> QED
  BY <1>2, <1>3, <1>4

\* A change of the top keeps jobs in one place.
LEMMA ChangeUnique ==
  ASSUME NEW st, NEW st2, NEW t, NEW f, Changed(st, st2, t, f), StacksUnique(st), f.job = st[t][Len(st[t])].job
  PROVE  StacksUnique(st2)
<1>1. /\ \A u \in Threads : Len(st2[u]) = Len(st[u])
      /\ \A u \in Threads : \A i \in 1..Len(st[u]) : st2[u][i].job = st[u][i].job
  BY ChangePlaces
<1> QED
  BY <1>1 DEF StacksUnique

\* So does a pop.
LEMMA PopUnique ==
  ASSUME NEW st, NEW st2, NEW t, Popped(st, st2, t), StacksUnique(st)
  PROVE  StacksUnique(st2)
<1>1. \A u \in Threads : \A i \in 1..Len(st2[u]) : i \in 1..Len(st[u]) /\ st2[u][i] = st[u][i]
  BY PopPlaces
<1> SUFFICES ASSUME NEW u \in Threads, NEW v \in Threads, NEW i \in 1..Len(st2[u]), NEW k \in 1..Len(st2[v]),
                    st2[u][i].job = st2[v][k].job
             PROVE  u = v /\ i = k
  BY DEF StacksUnique
<1>2. /\ i \in 1..Len(st[u]) /\ st2[u][i] = st[u][i]
      /\ k \in 1..Len(st[v]) /\ st2[v][k] = st[v][k]
  BY <1>1
<1>3. st[u][i].job = st[v][k].job
  BY <1>2
<1> QED
  BY <1>2, <1>3 DEF StacksUnique

\* Whether a routine is where it can be depends on it and on the one below.
LEMMA FrameLocal ==
  ASSUME NEW s, NEW s2, NEW t, NEW i, FrameOK(s, t, i), s2[i] = s[i], i > 1 => s2[i - 1] = s[i - 1]
  PROVE  FrameOK(s2, t, i)
BY DEF FrameOK

\* A push keeps the shape of the stacks if the new top fits.
LEMMA PushShape ==
  ASSUME NEW st, NEW st2, NEW t, NEW f, Pushed(st, st2, t, f), Shape(st), FrameOK(st2[t], t, Len(st[t]) + 1)
  PROVE  Shape(st2)
<1> SUFFICES ASSUME NEW u \in Threads, NEW i \in 1..Len(st2[u]) PROVE FrameOK(st2[u], u, i)
  BY DEF Shape
<1>1. /\ \A k \in 1..Len(st[u]) : k \in 1..Len(st2[u]) /\ st2[u][k] = st[u][k]
      /\ i \in 1..Len(st[u]) \/ (u = t /\ i = Len(st[t]) + 1)
  BY PushPlaces
<1>2. CASE i \in 1..Len(st[u])
  <2>1. Len(st[u]) \in Nat
    BY DEF Pushed
  <2>2. FrameOK(st[u], u, i) /\ st2[u][i] = st[u][i] /\ (i > 1 => st2[u][i - 1] = st[u][i - 1])
    BY <1>1, <1>2, <2>1 DEF Shape
  <2> QED
    BY <2>2, FrameLocal
<1> QED
  BY <1>1, <1>2

\* A change of the top keeps it if the kind of the routine stays.
LEMMA ChangeShape ==
  ASSUME NEW st, NEW st2, NEW t, NEW f, Changed(st, st2, t, f), Shape(st),
         f.job = st[t][Len(st[t])].job, f.by = st[t][Len(st[t])].by,
         f.at \in 1..Len(Subs[f.job]) + 1, f.by # "run" => f.pc # "leave"
  PROVE  Shape(st2)
<1> SUFFICES ASSUME NEW u \in Threads, NEW i \in 1..Len(st2[u]) PROVE FrameOK(st2[u], u, i)
  BY DEF Shape
<1>0. t \in Threads /\ Len(st[u]) \in Nat /\ Len(st[t]) \in Nat
  BY DEF Changed
<1>1. /\ Len(st2[u]) = Len(st[u])
      /\ \A k \in 1..Len(st[u]) :
              \/ st2[u][k] = st[u][k] /\ (u # t \/ k # Len(st[t]))
              \/ u = t /\ k = Len(st[t]) /\ st2[u][k] = f
  BY ChangePlaces
<1>2. FrameOK(st[u], u, i)
  BY <1>1 DEF Shape
<1>3. i > 1 => st2[u][i - 1] = st[u][i - 1]
  BY <1>0, <1>1
<1>4. CASE st2[u][i] = st[u][i]
  BY <1>2, <1>3, <1>4, FrameLocal
<1>5. CASE u = t /\ i = Len(st[t]) /\ st2[u][i] = f
  BY <1>0, <1>2, <1>3, <1>5 DEF FrameOK
<1> QED
  BY <1>1, <1>4, <1>5

\* A pop keeps it.
LEMMA PopShape ==
  ASSUME NEW st, NEW st2, NEW t, Popped(st, st2, t), Shape(st)
  PROVE  Shape(st2)
<1> SUFFICES ASSUME NEW u \in Threads, NEW i \in 1..Len(st2[u]) PROVE FrameOK(st2[u], u, i)
  BY DEF Shape
<1>1. Len(st2[u]) \in Nat /\ \A k \in 1..Len(st2[u]) : k \in 1..Len(st[u]) /\ st2[u][k] = st[u][k]
  BY PopPlaces DEF Popped
<1>2. FrameOK(st[u], u, i) /\ st2[u][i] = st[u][i] /\ (i > 1 => st2[u][i - 1] = st[u][i - 1])
  BY <1>1 DEF Shape
<1> QED
  BY <1>2, FrameLocal

\* Which stacks are empty.
LEMMA PushEmpty ==
  ASSUME NEW st, NEW st2, NEW t, NEW f, Pushed(st, st2, t, f)
  PROVE  st2[t] # << >> /\ \A u \in Threads : st2[u] = << >> <=> st[u] = << >> /\ u # t
<1>1. Len(st2[t]) # 0
  BY DEF Pushed
<1> QED
  BY <1>1 DEF Pushed

\* A change empties no stack and fills none.
LEMMA ChangeEmpty ==
  ASSUME NEW st, NEW st2, NEW t, NEW f, Changed(st, st2, t, f)
  PROVE  st2[t] # << >> /\ st[t] # << >> /\ \A u \in Threads : st2[u] = << >> <=> st[u] = << >>
<1>1. Len(st2[t]) # 0
  BY ChangePlaces DEF Changed
<1> QED
  BY <1>1 DEF Changed

\* A pop fills no stack.
LEMMA PopEmpty ==
  ASSUME NEW st, NEW st2, NEW t, Popped(st, st2, t)
  PROVE  st[t] # << >> /\ \A u \in Threads : st[u] = << >> => st2[u] = << >> /\ u # t
BY DEF Popped

\* Frames are at one of the places a frame has.
LEMMA FramesHeld ==
  ASSUME NEW st \in [Threads -> Seq(Frame)], NEW t \in Threads, NEW i \in 1..Len(st[t])
  PROVE  st[t][i] \in Frame /\ st[t][i].job \in Jobs /\ OnStack(st, st[t][i].job)
<1>1. st[t][i] \in Frame
  OBVIOUS
<1>2. st[t][i].job \in Jobs /\ st[t][i].by \in Bys /\ st[t][i].pc \in Going \cup {"leave"}
  BY <1>1 DEF Frame, Bys, Going
<1> QED
  BY <1>1, <1>2 DEF OnStack, Held

\* A routine that goes on leaves what is begun as it is ...
LEMMA BegunChange ==
  ASSUME NEW B, NEW qs, NEW st, NEW st2, NEW res, NEW t, NEW f, Begun(B, qs, st, res), Changed(st, st2, t, f),
         f.job = st[t][Len(st[t])].job, f.by = st[t][Len(st[t])].by,
         \/ f.pc # "body"
         \/ st[t][Len(st[t])].pc = "body" /\ f.at > st[t][Len(st[t])].at
  PROVE  Begun(B, qs, st2, res)
<1> DEFINE n == Len(st[t])
           g == st[t][n]
<1>0. t \in Threads /\ f \in Frame /\ g \in Frame /\ g.at \in Nat /\ f.at \in Nat
  <2>1. t \in Threads /\ f \in Frame /\ n \in 1..Len(st[t])
    BY ChangePlaces DEF Changed
  <2>2. g \in Frame
    BY <2>1 DEF Changed
  <2> QED
    BY <2>1, <2>2 DEF Frame
<1>1. Reached(B, qs, st2)
  <2>1. f.pc \in Going \cup {"leave"} /\ g.pc \in Going \cup {"leave"}
    BY <1>0 DEF Frame, Going
  <2>2. \A j \in Jobs : OnStack(st2, j) <=> OnStack(st, j)
    BY <2>1, ChangeEffects DEF OnStack
  <2> QED
    BY <2>2 DEF Begun, Reached
<1>2. BodiesFresh(B, st2)
  <2> SUFFICES ASSUME NEW u \in Threads, NEW i \in 1..Len(st2[u]) PROVE Unsubmitted(B, st2[u], i)
    BY DEF BodiesFresh
  <2>1. /\ Len(st2[u]) = Len(st[u])
        /\ \/ st2[u][i] = st[u][i]
           \/ u = t /\ i = Len(st[t]) /\ st2[u][i] = f
    BY ChangePlaces
  <2>2. Unsubmitted(B, st[u], i)
    BY <2>1 DEF Begun, BodiesFresh
  <2>3. CASE st2[u][i] = st[u][i]
    BY <2>1, <2>2, <2>3 DEF Unsubmitted
  <2>4. CASE u = t /\ i = Len(st[t]) /\ st2[u][i] = f
    BY <2>1, <2>2, <2>4, <1>0 DEF Unsubmitted
  <2> QED
    BY <2>1, <2>3, <2>4
<1>3. CallsFresh(B, st2, res)
  BY ChangeEmpty DEF Begun, CallsFresh, Threads
<1> QED
  BY <1>1, <1>2, <1>3 DEF Begun

\* ... a job that its submitter queues is begun ...
LEMMA BegunEnqueue ==
  ASSUME NEW B \in SUBSET Jobs, NEW qs, NEW q2, NEW st, NEW res, Begun(B, qs, st, res),
         NEW s \in Jobs, s \notin B, HasParent(s), Parent(s) \in B, ~InQueue(qs, Parent(s)),
         \A j \in Jobs : InQueue(q2, j) <=> InQueue(qs, j) \/ j = s,
         \A u \in Threads : \A i \in 1..Len(st[u]) : st[u][i].pc = "body" =>
           \A m \in st[u][i].at..Len(Subs[st[u][i].job]) : Subs[st[u][i].job][m] # s
  PROVE  B \cup {s} \in SUBSET Jobs /\ Begun(B \cup {s}, q2, st, res)
<1>1. Rooted(B \cup {s}) /\ \A c \in B \cup {s} : ~Child(s, c)
  BY RootedGrows DEF Begun
<1>2. Reached(B \cup {s}, q2, st)
  BY DEF Begun, Reached
<1>3. QueueFresh(B \cup {s}, q2)
  <2> SUFFICES ASSUME NEW j \in Jobs, InQueue(q2, j) PROVE HasParent(j) /\ \A c \in B \cup {s} : ~Child(j, c)
    BY DEF QueueFresh
  <2>1. CASE j = s
    BY <1>1, <2>1
  <2>2. CASE InQueue(qs, j)
    <3>1. HasParent(j) /\ \A c \in B : ~Child(j, c)
      BY <2>2 DEF Begun, QueueFresh
    <3>2. ~Child(j, s)
      BY <2>2, ChildFacts
    <3> QED
      BY <3>1, <3>2
  <2> QED
    BY <2>1, <2>2
<1>4. BodiesFresh(B \cup {s}, st)
  <2> SUFFICES ASSUME NEW u \in Threads, NEW i \in 1..Len(st[u]) PROVE Unsubmitted(B \cup {s}, st[u], i)
    BY DEF BodiesFresh
  <2>1. Unsubmitted(B, st[u], i)
    BY DEF Begun, BodiesFresh
  <2> QED
    BY <2>1 DEF Unsubmitted
<1>5. CallsFresh(B \cup {s}, st, res)
  BY TopFacts DEF Begun, CallsFresh
<1> QED
  BY <1>1, <1>2, <1>3, <1>4, <1>5 DEF Begun

\* ... and so is one that it runs itself, and the one a caller calls ...
LEMMA BegunStart ==
  ASSUME NEW B \in SUBSET Jobs, NEW qs, NEW st, NEW st2, NEW res, NEW t, NEW f, Begun(B, qs, st, res),
         Pushed(st, st2, t, f), f.job \notin B, f.pc = "body", f.at = 1,
         HasParent(f.job) => Parent(f.job) \in B /\ ~InQueue(qs, Parent(f.job)),
         \A u \in Callers : u # t => Top(u) # f.job,
         \A u \in Threads : \A i \in 1..Len(st[u]) : st[u][i].pc = "body" =>
           \A m \in st[u][i].at..Len(Subs[st[u][i].job]) :
             Subs[st[u][i].job][m] = f.job => u = t /\ i = Len(st[u]) /\ m = st[u][i].at
  PROVE  B \cup {f.job} \in SUBSET Jobs /\ Begun(B \cup {f.job}, qs, st2, res)
<1> DEFINE s == f.job
<1>0. s \in Jobs /\ t \in Threads /\ f \in Frame /\ f.by \in Bys /\ f.pc \in Going
  BY DEF Pushed, Frame, Bys, Going
<1> HIDE DEF s
<1>1. Rooted(B \cup {s}) /\ \A c \in B \cup {s} : ~Child(s, c)
  BY <1>0, RootedGrows DEF Begun, s
<1>2. Reached(B \cup {s}, qs, st2)
  BY PushEffects DEF Begun, Reached, OnStack, s
<1>3. QueueFresh(B \cup {s}, qs)
  <2> SUFFICES ASSUME NEW j \in Jobs, InQueue(qs, j) PROVE HasParent(j) /\ \A c \in B \cup {s} : ~Child(j, c)
    BY DEF QueueFresh
  <2>1. HasParent(j) /\ \A c \in B : ~Child(j, c)
    BY DEF Begun, QueueFresh
  <2>2. ~Child(j, s)
    BY ChildFacts DEF s
  <2> QED
    BY <2>1, <2>2
<1>4. BodiesFresh(B \cup {s}, st2)
  <2> SUFFICES ASSUME NEW u \in Threads, NEW i \in 1..Len(st2[u]) PROVE Unsubmitted(B \cup {s}, st2[u], i)
    BY DEF BodiesFresh
  <2>0. Len(st[t]) \in Nat /\ Len(st[u]) \in Nat /\ Len(st2[t]) = Len(st[t]) + 1 /\ (u # t => st2[u] = st[u])
    BY <1>0 DEF Pushed
  <2>1. \/ i \in 1..Len(st[u]) /\ st2[u][i] = st[u][i]
        \/ u = t /\ i = Len(st[t]) + 1 /\ st2[u][i] = f
    BY PushPlaces
  <2>2. CASE i \in 1..Len(st[u]) /\ st2[u][i] = st[u][i]
    <3>1. Unsubmitted(B, st[u], i)
      BY <2>2 DEF Begun, BodiesFresh
    <3> SUFFICES ASSUME st[u][i].pc = "body", NEW m \in st[u][i].at..Len(Subs[st[u][i].job]),
                        m > st[u][i].at \/ i = Len(st2[u])
                 PROVE  Subs[st[u][i].job][m] \notin B \cup {s}
      BY <2>2 DEF Unsubmitted
    <3>2. m > st[u][i].at \/ (i = Len(st[u]) /\ u # t)
      BY <2>0, <2>2
    <3>3. Subs[st[u][i].job][m] \notin B
      BY <3>1, <3>2 DEF Unsubmitted
    <3>4. Subs[st[u][i].job][m] # s
      <4>1. st[u][i] \in Frame
        BY <2>2 DEF Pushed
      <4>2. st[u][i].at \in Nat
        BY <4>1 DEF Frame
      <4> QED
        BY <2>2, <3>2, <4>2 DEF s
    <3> QED
      BY <3>3, <3>4
  <2>3. CASE u = t /\ i = Len(st[t]) + 1 /\ st2[u][i] = f
    <3>1. \A m \in 1..Len(Subs[s]) : Child(s, Subs[s][m])
      BY DEF Child
    <3> QED
      BY <2>3, <3>1, <1>1 DEF Unsubmitted, s
  <2> QED
    BY <2>1, <2>2, <2>3
<1>5. CallsFresh(B \cup {s}, st2, res)
  BY PushEmpty DEF Begun, CallsFresh, s, Threads
<1> QED
  BY <1>0, <1>1, <1>2, <1>3, <1>4, <1>5 DEF Begun, s

\* ... and one taken from the queue was.
LEMMA BegunTake ==
  ASSUME NEW B \in SUBSET Jobs, NEW qs, NEW q2, NEW st, NEW st2, NEW res, NEW t, NEW f, Begun(B, qs, st, res),
         Pushed(st, st2, t, f), InQueue(qs, f.job), f.pc = "body", f.at = 1,
         \A j \in Jobs : InQueue(q2, j) => InQueue(qs, j)
  PROVE  Begun(B, q2, st2, res)
<1>0. f.job \in Jobs /\ t \in Threads /\ f \in Frame
  BY DEF Pushed, Frame
<1>1. f.job \in B /\ \A c \in B : ~Child(f.job, c)
  BY <1>0 DEF Begun, Reached, QueueFresh
<1>2. Reached(B, q2, st2)
  BY <1>1, PushEffects DEF Begun, Reached, OnStack
<1>3. QueueFresh(B, q2)
  BY DEF Begun, QueueFresh
<1>4. BodiesFresh(B, st2)
  <2> SUFFICES ASSUME NEW u \in Threads, NEW i \in 1..Len(st2[u]) PROVE Unsubmitted(B, st2[u], i)
    BY DEF BodiesFresh
  <2>0. Len(st[t]) \in Nat /\ Len(st[u]) \in Nat /\ Len(st2[t]) = Len(st[t]) + 1 /\ (u # t => st2[u] = st[u])
    BY <1>0 DEF Pushed
  <2>1. \/ i \in 1..Len(st[u]) /\ st2[u][i] = st[u][i]
        \/ u = t /\ i = Len(st[t]) + 1 /\ st2[u][i] = f
    BY PushPlaces
  <2>2. CASE i \in 1..Len(st[u]) /\ st2[u][i] = st[u][i]
    <3>1. Unsubmitted(B, st[u], i)
      BY <2>2 DEF Begun, BodiesFresh
    <3> QED
      BY <2>0, <2>2, <3>1 DEF Unsubmitted
  <2>3. CASE u = t /\ i = Len(st[t]) + 1 /\ st2[u][i] = f
    <3>1. \A m \in 1..Len(Subs[f.job]) : Child(f.job, Subs[f.job][m])
      BY DEF Child
    <3> QED
      BY <2>3, <3>1, <1>1 DEF Unsubmitted
  <2> QED
    BY <2>1, <2>2, <2>3
<1>5. CallsFresh(B, st2, res)
  BY PushEmpty DEF Begun, CallsFresh, Threads
<1> QED
  BY <1>2, <1>3, <1>4, <1>5 DEF Begun

\* A pop that uncovers no body, of a thread that has no call to make.
LEMMA BegunPop ==
  ASSUME NEW B, NEW qs, NEW st, NEW st2, NEW res, NEW res2, NEW t, Begun(B, qs, st, res), Popped(st, st2, t),
         StacksUnique(st),
         Len(st[t]) > 1 => st[t][Len(st[t]) - 1].pc # "body",
         \A u \in Callers : u # t => res2[u] = res[u],
         t \in Callers /\ Len(st[t]) = 1 => res2[t] # "none"
  PROVE  Begun(B, qs, st2, res2)
<1> USE DEF Begun
<1>1. Reached(B, qs, st2)
  BY PopEffects DEF Reached, OnStack
<1>2. BodiesFresh(B, st2)
  <2> SUFFICES ASSUME NEW u \in Threads, NEW i \in 1..Len(st2[u]) PROVE Unsubmitted(B, st2[u], i)
    BY DEF BodiesFresh
  <2>0. Len(st[t]) \in Nat /\ Len(st2[t]) = Len(st[t]) - 1 /\ (u # t => st2[u] = st[u])
    BY DEF Popped
  <2>1. i \in 1..Len(st[u]) /\ st2[u][i] = st[u][i]
    BY PopPlaces
  <2>2. Unsubmitted(B, st[u], i)
    BY <2>1 DEF BodiesFresh
  <2> QED
    BY <2>0, <2>1, <2>2 DEF Unsubmitted
<1>3. ASSUME NEW u \in Callers, st2[u] = << >>, res2[u] = "none"
      PROVE  Top(u) \notin B
  <2>1. u # t
    <3>1. u = t => Len(st[t]) = 1
      <4>1. u = t => Len(st2[t]) = 0
        BY <1>3
      <4> QED
        BY <4>1, PopPlaces DEF Popped
    <3> QED
      BY <3>1, <1>3
  <2>2. st[u] = << >> /\ res[u] = "none"
    BY <2>1, <1>3 DEF Popped, Threads
  <2> QED
    BY <2>2 DEF CallsFresh
<1> QED
  BY <1>1, <1>2, <1>3 DEF CallsFresh

\* submit() puts a job at one of the ends of the queue ...
LEMMA EnqueueFacts ==
  ASSUME NEW qs \in Seq(Jobs), NEW s \in Jobs
  PROVE  LET q2 == IF s \in Leaf THEN <<s>> \o qs ELSE Append(qs, s)
         IN  /\ q2 \in Seq(Jobs) /\ Len(q2) = Len(qs) + 1
             /\ \A j : InQueue(q2, j) <=> InQueue(qs, j) \/ j = s
             /\ QueueUnique(qs) /\ ~InQueue(qs, s) => QueueUnique(q2)
<1> DEFINE q2 == IF s \in Leaf THEN <<s>> \o qs ELSE Append(qs, s)
           at == IF s \in Leaf THEN 1 ELSE Len(qs) + 1
           to == [n \in 1..Len(qs) |-> IF s \in Leaf THEN n + 1 ELSE n]
<1>1. q2 \in Seq(Jobs) /\ Len(q2) = Len(qs) + 1
  OBVIOUS
<1>2. /\ at \in 1..Len(q2) /\ q2[at] = s
      /\ \A n \in 1..Len(qs) : to[n] \in 1..Len(q2) /\ q2[to[n]] = qs[n]
      /\ \A n \in 1..Len(q2) : n = at \/ \E m \in 1..Len(qs) : n = to[m]
  <2>1. CASE s \in Leaf
    <3>1. q2 = <<s>> \o qs /\ at = 1 /\ \A n \in 1..Len(qs) : to[n] = n + 1
      BY <2>1
    <3>2. \A n \in 1..Len(qs) : q2[n + 1] = qs[n]
      BY <3>1
    <3>3. q2[1] = s /\ Len(qs) \in Nat
      BY <3>1
    <3> HIDE DEF q2, at, to
    <3>4. ASSUME NEW n \in 1..Len(q2), n # 1 PROVE \E m \in 1..Len(qs) : n = to[m]
      <4>1. n - 1 \in 1..Len(qs) /\ n = to[n - 1]
        BY <1>1, <3>1, <3>3, <3>4
      <4> QED
        BY <4>1
    <3> QED
      BY <1>1, <3>1, <3>2, <3>3, <3>4
  <2>2. CASE s \notin Leaf
    <3>1. q2 = Append(qs, s) /\ at = Len(qs) + 1 /\ \A n \in 1..Len(qs) : to[n] = n
      BY <2>2
    <3>2. \A n \in 1..Len(qs) : q2[n] = qs[n]
      BY <3>1
    <3>3. q2[Len(qs) + 1] = s /\ Len(qs) \in Nat
      BY <3>1
    <3> HIDE DEF q2, at, to
    <3>4. ASSUME NEW n \in 1..Len(q2), n # Len(qs) + 1 PROVE \E m \in 1..Len(qs) : n = to[m]
      <4>1. n \in 1..Len(qs) /\ n = to[n]
        BY <1>1, <3>1, <3>3, <3>4
      <4> QED
        BY <4>1
    <3> QED
      BY <1>1, <3>1, <3>2, <3>3, <3>4
  <2> QED
    BY <2>1, <2>2
<1> SUFFICES /\ q2 \in Seq(Jobs) /\ Len(q2) = Len(qs) + 1
             /\ \A j : InQueue(q2, j) <=> InQueue(qs, j) \/ j = s
             /\ QueueUnique(qs) /\ ~InQueue(qs, s) => QueueUnique(q2)
  OBVIOUS
<1> HIDE DEF q2, at, to
<1>3. \A j : InQueue(q2, j) <=> InQueue(qs, j) \/ j = s
  BY <1>2 DEF InQueue
<1>4. ASSUME QueueUnique(qs), ~InQueue(qs, s) PROVE QueueUnique(q2)
  <2> SUFFICES ASSUME NEW m \in 1..Len(q2), NEW n \in 1..Len(q2), q2[m] = q2[n] PROVE m = n
    BY DEF QueueUnique
  <2>1. \A k \in 1..Len(qs) : qs[k] # s
    BY <1>4 DEF InQueue
  <2> QED
    BY <1>2, <1>4, <2>1, SMTT(30) DEF QueueUnique
<1> QED
  BY <1>1, <1>3, <1>4

\* ... and run() takes the first.
LEMMA DequeueFacts ==
  ASSUME NEW qs \in Seq(Jobs), qs # << >>, QueueUnique(qs)
  PROVE  /\ Head(qs) \in Jobs /\ Tail(qs) \in Seq(Jobs) /\ Len(Tail(qs)) = Len(qs) - 1
         /\ QueueUnique(Tail(qs)) /\ ~InQueue(Tail(qs), Head(qs))
         /\ \A j : InQueue(qs, j) <=> InQueue(Tail(qs), j) \/ j = Head(qs)
<1>1. Len(qs) \in Nat \ {0}
  OBVIOUS
<1>2. /\ Head(qs) = qs[1] /\ Head(qs) \in Jobs /\ Tail(qs) \in Seq(Jobs) /\ Len(Tail(qs)) = Len(qs) - 1
      /\ \A n \in 1..Len(qs) - 1 : Tail(qs)[n] = qs[n + 1]
  BY HeadTailProperties
<1> DEFINE q2 == Tail(qs)
<1>3. \A n \in 1..Len(q2) : n + 1 \in 1..Len(qs) /\ q2[n] = qs[n + 1] /\ n + 1 # 1
  BY <1>1, <1>2
<1>4. \A n \in 1..Len(qs) : n = 1 \/ (n - 1 \in 1..Len(q2) /\ q2[n - 1] = qs[n])
  BY <1>1, <1>2
<1>5. 1 \in 1..Len(qs)
  BY <1>1
<1> HIDE DEF q2
<1>6. QueueUnique(q2)
  <2> SUFFICES ASSUME NEW m \in 1..Len(q2), NEW n \in 1..Len(q2), q2[m] = q2[n] PROVE m = n
    BY DEF QueueUnique
  <2>1. m + 1 = n + 1
    BY <1>3 DEF QueueUnique
  <2> QED
    BY <2>1
<1>7. ~InQueue(q2, Head(qs))
  BY <1>2, <1>3, <1>5 DEF InQueue, QueueUnique
<1>8. \A j : InQueue(qs, j) <=> InQueue(q2, j) \/ j = Head(qs)
  BY <1>2, <1>3, <1>4, <1>5 DEF InQueue
<1> QED
  BY <1>2, <1>6, <1>7, <1>8 DEF q2

\* What is counted is finite.
LEMMA CountsFinite ==
  ASSUME NEW k, NEW qs, NEW st
  PROVE  /\ IsFiniteSet(Counts(k, qs, st)) /\ Cardinality(Counts(k, qs, st)) \in Nat
         /\ IsFiniteSet({j \in Jobs : OnRun(st, j)}) /\ Cardinality({j \in Jobs : OnRun(st, j)}) \in Nat
<1>1. Counts(k, qs, st) \subseteq Jobs /\ {j \in Jobs : OnRun(st, j)} \subseteq Jobs /\ IsFiniteSet(Jobs)
  BY PoolAssumption DEF Counts
<1> QED
  BY <1>1, FS_Subset, FS_CardinalityType

\* An error that is carried stays carried, unless the routine that carries it
\* ends.
LEMMA CarriedPush ==
  ASSUME NEW st, NEW st2, NEW t, NEW f, Pushed(st, st2, t, f), NEW fl, NEW c, Carried(st, fl, c)
  PROVE  Carried(st2, fl, c)
BY PushPlaces DEF Carried

\* A change of the top keeps it.
LEMMA CarriedChange ==
  ASSUME NEW st, NEW st2, NEW t, NEW f, Changed(st, st2, t, f), NEW fl, NEW c, Carried(st, fl, c),
         f.job = st[t][Len(st[t])].job, f.pc # "leave", st[t][Len(st[t])].thrown => f.thrown
  PROVE  Carried(st2, fl, c)
<1>0. PICK u \in Threads : \E i \in 1..Len(st[u]) :
        /\ st[u][i].pc # "leave" /\ st[u][i].job \notin Detached /\ CallOf[st[u][i].job] = c
        /\ st[u][i].thrown \/ fl[st[u][i].job]
  BY DEF Carried
<1>1. PICK i \in 1..Len(st[u]) :
        /\ st[u][i].pc # "leave" /\ st[u][i].job \notin Detached /\ CallOf[st[u][i].job] = c
        /\ st[u][i].thrown \/ fl[st[u][i].job]
  BY <1>0
<1>2. i \in 1..Len(st2[u]) /\ (st2[u][i] = st[u][i] \/ (u = t /\ i = Len(st[t]) /\ st2[u][i] = f))
  BY ChangePlaces
<1> QED
  BY <1>1, <1>2 DEF Carried

\* A pop keeps it unless the top carried it.
LEMMA CarriedPop ==
  ASSUME NEW st, NEW st2, NEW t, Popped(st, st2, t), NEW fl, NEW c, Carried(st, fl, c)
  PROVE  LET g == st[t][Len(st[t])]
         IN  \/ Carried(st2, fl, c)
             \/ g.pc # "leave" /\ g.job \notin Detached /\ CallOf[g.job] = c /\ (g.thrown \/ fl[g.job])
<1>0. PICK u \in Threads : \E i \in 1..Len(st[u]) :
        /\ st[u][i].pc # "leave" /\ st[u][i].job \notin Detached /\ CallOf[st[u][i].job] = c
        /\ st[u][i].thrown \/ fl[st[u][i].job]
  BY DEF Carried
<1>1. PICK i \in 1..Len(st[u]) :
        /\ st[u][i].pc # "leave" /\ st[u][i].job \notin Detached /\ CallOf[st[u][i].job] = c
        /\ st[u][i].thrown \/ fl[st[u][i].job]
  BY <1>0
<1>2. (i \in 1..Len(st2[u]) /\ st2[u][i] = st[u][i]) \/ (u = t /\ i = Len(st[t]))
  BY PopPlaces
<1> QED
  BY <1>1, <1>2 DEF Carried

\* So does a top that changes to leave.
LEMMA CarriedLeave ==
  ASSUME NEW st, NEW st2, NEW t, NEW f, Changed(st, st2, t, f), NEW fl, NEW fl2, NEW c, Carried(st, fl, c),
         \A k \in Jobs : fl[k] => fl2[k]
  PROVE  LET g == st[t][Len(st[t])]
         IN  Carried(st2, fl2, c) \/ (g.job \notin Detached /\ CallOf[g.job] = c /\ (g.thrown \/ fl[g.job]))
<1>0. PICK u \in Threads : \E i \in 1..Len(st[u]) :
        /\ st[u][i].pc # "leave" /\ st[u][i].job \notin Detached /\ CallOf[st[u][i].job] = c
        /\ st[u][i].thrown \/ fl[st[u][i].job]
  BY DEF Carried
<1>1. PICK i \in 1..Len(st[u]) :
        /\ st[u][i].pc # "leave" /\ st[u][i].job \notin Detached /\ CallOf[st[u][i].job] = c
        /\ st[u][i].thrown \/ fl[st[u][i].job]
  BY <1>0
<1>2. i \in 1..Len(st2[u]) /\ (st2[u][i] = st[u][i] \/ (u = t /\ i = Len(st[t])))
  BY ChangePlaces
<1>3. st[u][i] \in Frame
  BY DEF Changed
<1>4. st[u][i].job \in Jobs
  BY <1>3 DEF Frame
<1> QED
  BY <1>1, <1>2, <1>4 DEF Carried

-----------------------------------------------------------------------------
\* What is known of the routine a thread is in.
LEMMA CurFacts ==
  ASSUME PoolInv, NEW t \in Threads, stack[t] # << >>
  PROVE  /\ Len(stack[t]) \in Nat \ {0} /\ Len(stack[t]) \in 1..Len(stack[t])
         /\ Cur(t) = stack[t][Len(stack[t])] /\ Cur(t) \in Frame /\ Cur(t).job \in Jobs
         /\ Subs[Cur(t).job] \in Seq(Jobs) /\ Len(Subs[Cur(t).job]) \in Nat
         /\ Cur(t).at \in 1..Len(Subs[Cur(t).job]) + 1
         /\ Cur(t).by \in Bys /\ Cur(t).pc \in Going \cup {"leave"} /\ Cur(t).thrown \in BOOLEAN
         /\ FrameOK(stack[t], t, Len(stack[t])) /\ OnStack(stack, Cur(t).job)
         /\ t \notin asleep
<1>1. stack \in [Threads -> Seq(Frame)] /\ stack[t] \in Seq(Frame)
  BY DEF PoolInv, PoolTypes
<1>2. Len(stack[t]) \in Nat \ {0} /\ Len(stack[t]) \in 1..Len(stack[t])
  BY <1>1
<1>3. Cur(t) = stack[t][Len(stack[t])] /\ Cur(t) \in Frame
  BY <1>1, <1>2 DEF Cur
<1>4. Cur(t).job \in Jobs /\ Cur(t).by \in Bys /\ Cur(t).pc \in Going \cup {"leave"} /\ Cur(t).thrown \in BOOLEAN
  BY <1>3 DEF Frame, Bys, Going
<1>5. Subs[Cur(t).job] \in Seq(Jobs) /\ Len(Subs[Cur(t).job]) \in Nat
  BY <1>4, PoolAssumption
<1>6. FrameOK(stack[t], t, Len(stack[t]))
  BY <1>2 DEF PoolInv, PlacesOK, Shape
<1>7. Cur(t).at \in 1..Len(Subs[Cur(t).job]) + 1
  BY <1>3, <1>6 DEF FrameOK
<1>8. OnStack(stack, Cur(t).job)
  BY <1>1, <1>2, <1>3, FramesHeld
<1>9. t \notin asleep
  BY DEF PoolInv, SleepOK
<1> QED
  BY <1>2, <1>3, <1>4, <1>5, <1>6, <1>7, <1>8, <1>9

\* What the invariant says of any routine on a stack.
LEMMA PlaceFacts ==
  ASSUME PoolInv, NEW t \in Threads, NEW i \in 1..Len(stack[t])
  PROVE  /\ stack[t][i] \in Frame /\ stack[t][i].job \in Jobs /\ FrameOK(stack[t], t, i)
         /\ Len(Subs[stack[t][i].job]) \in Nat /\ stack[t][i].at \in 1..Len(Subs[stack[t][i].job]) + 1
         /\ stack[t][i].at \in Nat /\ OnStack(stack, stack[t][i].job)
<1>1. stack[t][i] \in Frame /\ stack[t][i].job \in Jobs /\ OnStack(stack, stack[t][i].job)
  BY FramesHeld DEF PoolInv, PoolTypes
<1>2. Len(Subs[stack[t][i].job]) \in Nat
  BY <1>1, PoolAssumption
<1>3. FrameOK(stack[t], t, i)
  BY DEF PoolInv, PlacesOK, Shape
<1>4. stack[t][i].at \in 1..Len(Subs[stack[t][i].job]) + 1
  BY <1>3 DEF FrameOK
<1> QED
  BY <1>1, <1>2, <1>3, <1>4

\* A routine that goes on to its wait() disturbs nothing but, if it threw, what
\* is known of errors.
LEMMA ChangeKeeps ==
  ASSUME PoolInv, NEW t \in Threads, stack[t] # << >>, NEW f, Changed(stack, stack', t, f),
         f.job = Cur(t).job, f.by = Cur(t).by, f.at = Cur(t).at, f.pc \in {"flush", "block"}, Cur(t).pc \in Going,
         UNCHANGED <<queue, active, running, asleep, num, result>>
  PROVE  PlacesOK' /\ BegunOK' /\ CountsOK' /\ AliveOK' /\ ReturnedOK' /\ SleepOK'
<1>0. /\ Cur(t) = stack[t][Len(stack[t])] /\ f.pc \in Going /\ Cur(t).at \in 1..Len(Subs[Cur(t).job]) + 1
      /\ f.pc # "leave" /\ f.pc # "body"
  BY CurFacts DEF Going
<1>1. \A j : /\ OnStack(stack', j) <=> OnStack(stack, j)
             /\ OnRun(stack', j) <=> OnRun(stack, j)
             /\ Unfinished(stack', j) <=> Unfinished(stack, j)
             /\ UnfinishedRun(stack', j) <=> UnfinishedRun(stack, j)
  BY <1>0, ChangeEffects DEF OnStack, OnRun, Unfinished, UnfinishedRun
<1>2. PlacesOK'
  <2>1. StacksUnique(stack')
    BY <1>0, ChangeUnique DEF PoolInv, PlacesOK
  <2>2. Shape(stack')
    BY <1>0, ChangeShape DEF PoolInv, PlacesOK
  <2>3. Apart(queue, stack')
    BY <1>1 DEF PoolInv, PlacesOK, Apart
  <2> QED
    BY <2>1, <2>2, <2>3 DEF PoolInv, PlacesOK
<1>3. BegunOK'
  <2>1. PICK B \in SUBSET Jobs : Begun(B, queue, stack, result)
    BY DEF PoolInv, BegunOK
  <2>2. Begun(B, queue, stack', result)
    BY <1>0, <2>1, BegunChange
  <2> QED
    BY <2>2 DEF BegunOK
<1>4. \A k \in Jobs : Counts(k, queue, stack') = Counts(k, queue, stack)
  BY <1>1 DEF Counts
<1>5. {j \in Jobs : OnRun(stack', j)} = {j \in Jobs : OnRun(stack, j)}
  BY <1>1
<1>6. CountsOK'
  BY <1>4, <1>5 DEF PoolInv, CountsOK
<1>7. AliveOK'
  BY <1>1, <1>4 DEF PoolInv, AliveOK
<1>8. \A u \in Threads : stack'[u] = << >> <=> stack[u] = << >>
  BY ChangeEmpty
<1>9. ReturnedOK'
  BY <1>8 DEF PoolInv, ReturnedOK, Threads
<1>10. SleepOK'
  <2>1. {w \in Workers \ asleep : stack'[w] = << >>} = {w \in Workers \ asleep : stack[w] = << >>}
    BY <1>8 DEF Threads
  <2>2. asleep \subseteq Threads
    BY DEF PoolInv, PoolTypes, Threads
  <2> QED
    BY <1>8, <2>1, <2>2 DEF PoolInv, SleepOK
<1> QED
  BY <1>2, <1>3, <1>6, <1>7, <1>9, <1>10

\* wait(), run(true) that finds the queue empty, and a job that throws.
LEMMA StartWaitKeeps ==
  ASSUME PoolInv, NEW t \in Threads, StartWait(t) \/ Throw(t) \/ Flushed(t)
  PROVE  PoolInv'
<1>0. stack[t] # << >> /\ Cur(t).pc \in Going
  BY DEF StartWait, Throw, Flushed, In, Cur, Going
<1>1. /\ \E g \in Frame : /\ g.job = Cur(t).job /\ g.by = Cur(t).by /\ g.at = Cur(t).at
                          /\ g.pc \in {"flush", "block"} /\ (Cur(t).thrown => g.thrown)
                          /\ g.thrown => Cur(t).thrown \/ Cur(t).job \in threw'
                          /\ threw' = threw \/ (g.thrown /\ threw' = threw \cup {Cur(t).job})
                          /\ SetCur(t, g)
      /\ UNCHANGED <<queue, active, running, asleep, exited, num, failed, result>>
      /\ threw' \subseteq Jobs
  <2>1. Cur(t) \in Frame /\ Cur(t).job \in Jobs /\ threw \subseteq Jobs
    BY <1>0, CurFacts DEF PoolInv, PoolTypes
  <2>2. WaitsFrom(Cur(t).job) \in {"flush", "block"}
    BY DEF WaitsFrom
  <2>3. CASE StartWait(t)
    <3> DEFINE g == [Cur(t) EXCEPT !.pc = WaitsFrom(Cur(t).job)]
    <3>1. g \in Frame /\ g.job = Cur(t).job /\ g.by = Cur(t).by /\ g.at = Cur(t).at /\ g.pc = WaitsFrom(Cur(t).job)
          /\ g.thrown = Cur(t).thrown
      BY <2>1, <2>2 DEF Frame
    <3>2. SetCur(t, g) /\ UNCHANGED <<queue, active, running, asleep, exited, num, failed, result, threw>>
      BY <2>3 DEF StartWait
    <3> HIDE DEF g
    <3> QED
      BY <3>1, <3>2, <2>1, <2>2
  <2>4. CASE Throw(t)
    <3> DEFINE g == [Cur(t) EXCEPT !.pc = WaitsFrom(Cur(t).job), !.thrown = TRUE]
    <3>1. g \in Frame /\ g.job = Cur(t).job /\ g.by = Cur(t).by /\ g.at = Cur(t).at /\ g.pc = WaitsFrom(Cur(t).job)
          /\ g.thrown = TRUE
      BY <2>1, <2>2 DEF Frame
    <3>2. SetCur(t, g) /\ UNCHANGED <<queue, active, running, asleep, exited, num, failed, result>>
          /\ threw' = threw \cup {Cur(t).job} /\ Cur(t).job \in MayThrow
      BY <2>4 DEF Throw
    <3> HIDE DEF g
    <3> QED
      BY <3>1, <3>2, <2>1, <2>2
  <2>5. CASE Flushed(t)
    <3> DEFINE g == [Cur(t) EXCEPT !.pc = "block"]
    <3>1. g \in Frame /\ g.job = Cur(t).job /\ g.by = Cur(t).by /\ g.at = Cur(t).at /\ g.pc = "block"
          /\ g.thrown = Cur(t).thrown
      BY <2>1 DEF Frame
    <3>2. SetCur(t, g) /\ UNCHANGED <<queue, active, running, asleep, exited, num, failed, result, threw>>
      BY <2>5 DEF Flushed
    <3> HIDE DEF g
    <3> QED
      BY <3>1, <3>2, <2>1
  <2> QED
    BY <2>3, <2>4, <2>5
<1>2. PICK g \in Frame : /\ g.job = Cur(t).job /\ g.by = Cur(t).by /\ g.at = Cur(t).at
                         /\ g.pc \in {"flush", "block"} /\ (Cur(t).thrown => g.thrown)
                         /\ g.thrown => Cur(t).thrown \/ Cur(t).job \in threw'
                         /\ threw' = threw \/ (g.thrown /\ threw' = threw \cup {Cur(t).job})
                         /\ SetCur(t, g)
  BY <1>1
<1>3. Changed(stack, stack', t, g)
  BY <1>0, <1>2, SetChanges DEF SetCur, PoolInv, PoolTypes
<1>4. PlacesOK' /\ BegunOK' /\ CountsOK' /\ AliveOK' /\ ReturnedOK' /\ SleepOK'
  BY <1>0, <1>1, <1>2, <1>3, ChangeKeeps
<1>5. Cur(t) = stack[t][Len(stack[t])] /\ Cur(t).job \in Jobs /\ Len(stack[t]) \in 1..Len(stack[t]) /\ OnStack(stack, Cur(t).job)
  BY <1>0, CurFacts
<1>6. PoolTypes'
  BY <1>1, <1>2, <1>3, <1>5 DEF PoolInv, PoolTypes, Changed
<1>7. ErrorsOK'
  <2>0. threw \subseteq threw'
    BY <1>2
  <2>1. \A c : Thrower(threw, c) => Thrower(threw', c)
    BY <2>0 DEF Thrower
  <2>2. \A c : Carried(stack, failed, c) => Carried(stack', failed, c)
    <3>1. g.pc # "leave"
      BY <1>2
    <3> QED
      BY <3>1, <1>2, <1>3, <1>5, CarriedChange
  <2>3. \A j \in (threw \ Detached)' : result'[CallOf[j]] = "failed" \/ Carried(stack', failed', CallOf[j])
    <3> SUFFICES ASSUME NEW j \in threw' \ Detached
                 PROVE  result[CallOf[j]] = "failed" \/ Carried(stack', failed, CallOf[j])
      BY <1>1
    <3>1. CASE j \in threw
      BY <2>2, <3>1 DEF PoolInv, ErrorsOK
    <3>2. CASE j \notin threw
      <4>1. g.thrown /\ j = Cur(t).job /\ g.pc # "leave"
        BY <1>2, <3>2
      <4>2. Len(stack[t]) \in 1..Len(stack'[t]) /\ stack'[t][Len(stack[t])] = g
        BY <1>3, <1>5 DEF Changed
      <4> QED
        BY <1>2, <4>1, <4>2 DEF Carried
    <3> QED
      BY <3>1, <3>2
  <2>4. ASSUME NEW u \in Threads, NEW i \in 1..Len(stack'[u]), stack'[u][i].thrown
        PROVE  Thrower(threw', CallOf[stack'[u][i].job])
    <3>1. i \in 1..Len(stack[u]) /\ (stack'[u][i] = stack[u][i] \/ (u = t /\ i = Len(stack[t]) /\ stack'[u][i] = g))
      BY <1>3, ChangePlaces
    <3>2. CASE stack'[u][i] = stack[u][i]
      BY <3>1, <3>2, <2>1, <2>4 DEF PoolInv, ErrorsOK
    <3>3. CASE u = t /\ i = Len(stack[t]) /\ stack'[u][i] = g
      <4>1. CASE Cur(t).thrown
        BY <4>1, <3>3, <2>1, <1>2, <1>5 DEF PoolInv, ErrorsOK
      <4>2. CASE ~Cur(t).thrown
        <5>1. Cur(t).job \in threw'
          BY <4>2, <3>3, <2>4, <1>2
        <5> QED
          BY <5>1, <3>3, <1>2 DEF Thrower
      <4> QED
        BY <4>1, <4>2
    <3> QED
      BY <3>1, <3>2, <3>3
  <2>5. \A k \in Jobs : failed'[k] => Thrower(threw', CallOf[k])
    BY <1>1, <2>1 DEF PoolInv, ErrorsOK
  <2>6. \A c \in Callers : result'[c] = "failed" => Thrower(threw', c)
    BY <1>1, <2>1 DEF PoolInv, ErrorsOK
  <2> QED
    BY <2>3, <2>4, <2>5, <2>6 DEF ErrorsOK
<1> QED
  BY <1>4, <1>6, <1>7 DEF PoolInv

\* Steps that touch neither the queue nor a stack.
LEMMA StillKeeps ==
  ASSUME PoolInv, UNCHANGED <<queue, active, stack, num, failed, result, threw>>,
         running' \in BOOLEAN, asleep' \subseteq Workers, exited' \subseteq Workers, SleepOK'
  PROVE  PoolInv'
<1>1. PoolTypes'
  BY DEF PoolInv, PoolTypes
<1>2. PlacesOK' /\ BegunOK' /\ CountsOK' /\ AliveOK' /\ ReturnedOK' /\ ErrorsOK'
  BY DEF PoolInv, PlacesOK, BegunOK, CountsOK, AliveOK, ReturnedOK, ErrorsOK
<1> QED
  BY <1>1, <1>2 DEF PoolInv

\* A worker goes to sleep only when nothing is queued; one that wakes up is one
\* more to take a job.
LEMMA SleepKeeps ==
  ASSUME PoolInv, (\E t \in Threads : Sleep(t) \/ Exit(t)) \/ (\E t \in Workers : Spurious(t)) \/ Destroy \/ Joined
  PROVE  PoolInv'
<1>0. /\ running \in BOOLEAN /\ asleep \subseteq Workers /\ exited \subseteq Workers /\ queue \in Seq(Jobs)
      /\ \A w \in asleep : stack[w] = << >>
      /\ running /\ asleep # {} => Len(queue) <= Cardinality({w \in Workers \ asleep : stack[w] = << >>})
  BY DEF PoolInv, PoolTypes, SleepOK
<1>1. ASSUME NEW t \in Threads, Sleep(t) PROVE PoolInv'
  <2>1. UNCHANGED <<queue, active, running, exited, stack, num, failed, result, threw>> /\ asleep' = asleep \cup {t}
        /\ t \in Workers /\ queue = << >> /\ stack[t] = << >>
    BY <1>1 DEF Sleep
  <2>2. Cardinality({w \in Workers \ asleep' : stack'[w] = << >>}) \in Nat
    <3>1. {w \in Workers \ asleep' : stack'[w] = << >>} \subseteq Workers
      OBVIOUS
    <3> QED
      BY <3>1, PoolAssumption, FS_Subset, FS_CardinalityType
  <2>3. SleepOK'
    BY <1>0, <2>1, <2>2 DEF SleepOK
  <2> QED
    BY <1>0, <2>1, <2>3, StillKeeps
<1>2. ASSUME NEW t \in Threads, Exit(t) PROVE PoolInv'
  <2>1. UNCHANGED <<queue, active, running, asleep, stack, num, failed, result, threw>> /\ exited' = exited \cup {t}
        /\ t \in Workers
    BY <1>2 DEF Exit
  <2>2. SleepOK'
    BY <1>0, <2>1 DEF SleepOK
  <2> QED
    BY <1>0, <2>1, <2>2, StillKeeps
<1>3. ASSUME NEW t \in Workers, Spurious(t) PROVE PoolInv'
  <2>1. UNCHANGED <<queue, active, running, exited, stack, num, failed, result, threw>> /\ asleep' = asleep \ {t}
    BY <1>3 DEF Spurious
  <2> DEFINE awake == {w \in Workers \ asleep : stack[w] = << >>}
             more == {w \in Workers \ (asleep \ {t}) : stack[w] = << >>}
  <2>2. awake \subseteq more /\ more \subseteq Workers
    OBVIOUS
  <2>3. Cardinality(awake) <= Cardinality(more) /\ Cardinality(awake) \in Nat /\ Cardinality(more) \in Nat
    BY <2>2, PoolAssumption, FS_Subset, FS_CardinalityType
  <2>4. SleepOK'
    <3>1. Len(queue) \in Nat
      BY <1>0
    <3>2. running /\ asleep # {} => Len(queue) <= Cardinality(awake)
      BY <1>0
    <3> HIDE DEF awake
    <3>3. running' /\ asleep' # {} => Len(queue') <= Cardinality(more)
      BY <2>1, <2>3, <3>1, <3>2
    <3> QED
      BY <1>0, <2>1, <3>3 DEF SleepOK
  <2> QED
    BY <1>0, <2>1, <2>4, StillKeeps
<1>4. CASE Destroy
  <2>1. UNCHANGED <<queue, active, exited, stack, num, failed, result, threw>> /\ running' = FALSE /\ asleep' = {}
    BY <1>4 DEF Destroy
  <2>2. SleepOK'
    BY <2>1 DEF SleepOK
  <2> QED
    BY <1>0, <2>1, <2>2, StillKeeps
<1>5. CASE Joined
  <2>1. UNCHANGED <<queue, active, running, asleep, exited, stack, num, failed, result, threw>>
    BY <1>5 DEF Joined, poolVars
  <2>2. SleepOK'
    BY <1>0, <2>1 DEF SleepOK
  <2> QED
    BY <1>0, <2>1, <2>2, StillKeeps
<1> QED
  BY <1>1, <1>2, <1>3, <1>4, <1>5

\* Pushes and changes that throw nothing lose no error.
LEMMA PushErrors ==
  ASSUME PoolInv, NEW t, NEW f, Pushed(stack, stack', t, f), f.thrown = FALSE, UNCHANGED <<failed, result, threw>>
  PROVE  ErrorsOK'
<1>1. \A j \in threw' \ Detached : result'[CallOf[j]] = "failed" \/ Carried(stack', failed', CallOf[j])
  BY CarriedPush DEF PoolInv, ErrorsOK
<1>2. ASSUME NEW u \in Threads, NEW i \in 1..Len(stack'[u]), stack'[u][i].thrown
      PROVE  Thrower(threw', CallOf[stack'[u][i].job])
  <2>1. i \in 1..Len(stack[u]) /\ stack'[u][i] = stack[u][i]
    BY <1>2, PushPlaces
  <2> QED
    BY <1>2, <2>1 DEF PoolInv, ErrorsOK
<1> QED
  BY <1>1, <1>2 DEF PoolInv, ErrorsOK

\* Errors stay accounted for when a routine goes on.
LEMMA ChangeErrors ==
  ASSUME PoolInv, NEW t \in Threads, stack[t] # << >>, NEW f, Changed(stack, stack', t, f),
         f.job = Cur(t).job, f.thrown = Cur(t).thrown, f.pc # "leave", UNCHANGED <<failed, result, threw>>
  PROVE  ErrorsOK'
<1>0. Cur(t) = stack[t][Len(stack[t])]
  BY CurFacts
<1>1. \A j \in threw' \ Detached : result'[CallOf[j]] = "failed" \/ Carried(stack', failed', CallOf[j])
  BY <1>0, CarriedChange DEF PoolInv, ErrorsOK
<1>2. ASSUME NEW u \in Threads, NEW i \in 1..Len(stack'[u]), stack'[u][i].thrown
      PROVE  Thrower(threw', CallOf[stack'[u][i].job])
  <2>1. i \in 1..Len(stack[u]) /\ stack'[u][i].thrown = stack[u][i].thrown /\ stack'[u][i].job = stack[u][i].job
    BY <1>0, ChangePlaces
  <2> QED
    BY <1>2, <2>1 DEF PoolInv, ErrorsOK
<1> QED
  BY <1>1, <1>2 DEF PoolInv, ErrorsOK

\* A routine that starts in its own thread, not in run(): where it is known to
\* be new, nothing that is counted changes.
LEMMA StartKeeps ==
  ASSUME PoolInv, NEW t \in Threads, NEW f, Pushed(stack, stack', t, f),
         f.by # "run", f.thrown = FALSE, f.pc = "body",
         ~OnStack(stack, f.job), ~InQueue(queue, f.job), FrameOK(stack'[t], t, Len(stack[t]) + 1),
         t \in Callers => result[t] = "none", t \in Callers \/ stack[t] # << >>,
         BegunOK', UNCHANGED <<queue, active, running, asleep, exited, num, failed, result, threw>>
  PROVE  PoolInv'
<1>1. PoolTypes'
  BY DEF PoolInv, PoolTypes, Pushed
<1>2. PlacesOK'
  <2>1. StacksUnique(stack') /\ Shape(stack')
    BY PushUnique, PushShape DEF PoolInv, PlacesOK
  <2>2. Apart(queue, stack')
    <3>1. \A j : OnStack(stack', j) => OnStack(stack, j) \/ j = f.job
      BY PushEffects DEF OnStack
    <3> QED
      BY <3>1 DEF PoolInv, PlacesOK, Apart
  <2> QED
    BY <2>1, <2>2 DEF PoolInv, PlacesOK
<1>3. \A j : UnfinishedRun(stack', j) <=> UnfinishedRun(stack, j)
  BY PushEffects DEF UnfinishedRun
<1>4. \A j : OnRun(stack', j) <=> OnRun(stack, j)
  BY PushEffects DEF OnRun
<1>5. \A k \in Jobs : Counts(k, queue, stack') = Counts(k, queue, stack)
  BY <1>3 DEF Counts
<1>6. CountsOK'
  <2>1. {j \in Jobs : OnRun(stack', j)} = {j \in Jobs : OnRun(stack, j)}
    BY <1>4
  <2> QED
    BY <1>5, <2>1 DEF PoolInv, CountsOK
<1>7. AliveOK'
  <2>1. \A k : Unfinished(stack, k) => Unfinished(stack', k)
    BY PushEffects DEF Unfinished
  <2> QED
    BY <1>5, <2>1 DEF PoolInv, AliveOK
<1>8. \A u \in Threads : stack'[u] = << >> <=> stack[u] = << >> /\ u # t
  BY PushEmpty
<1>9. ReturnedOK'
  BY <1>8 DEF PoolInv, ReturnedOK, Threads
<1>10. SleepOK'
  <2>1. t \notin Workers \/ stack[t] # << >>
    BY PoolAssumption
  <2>2. {w \in Workers \ asleep : stack'[w] = << >>} = {w \in Workers \ asleep : stack[w] = << >>}
    BY <1>8, <2>1 DEF Threads
  <2>3. asleep \subseteq Workers /\ \A w \in asleep : stack'[w] = << >>
    BY <1>8, <2>1 DEF Threads, PoolInv, SleepOK, PoolTypes
  <2> QED
    BY <2>2, <2>3 DEF PoolInv, SleepOK
<1>11. ErrorsOK'
  BY PushErrors
<1> QED
  BY <1>1, <1>2, <1>6, <1>7, <1>9, <1>10, <1>11 DEF PoolInv

\* A caller starts its routine.
LEMMA CallKeeps ==
  ASSUME PoolInv, NEW t \in Callers, Call(t)
  PROVE  PoolInv'
<1> DEFINE f == Enter(Top(t), "call")
<1>1. /\ stack[t] = << >> /\ result[t] = "none" /\ stack' = [stack EXCEPT ![t] = Append(@, f)]
      /\ UNCHANGED <<queue, active, running, asleep, exited, num, failed, result, threw>>
  BY DEF Call, Push
<1>2. t \in Threads /\ Top(t) \in Jobs /\ CallOf[Top(t)] = t /\ ~HasParent(Top(t))
  BY TopFacts DEF Threads
<1>3. /\ f \in Frame /\ f.job = Top(t) /\ f.by = "call" /\ f.at = 1 /\ f.pc = "body" /\ f.thrown = FALSE
  BY <1>2 DEF Enter, Frame
<1> HIDE DEF f
<1>4. Pushed(stack, stack', t, f)
  BY <1>1, <1>2, <1>3, PushPushes DEF PoolInv, PoolTypes
<1>5. Len(stack[t]) = 0 /\ stack'[t][1] = f
  BY <1>1, <1>4 DEF Pushed
<1>6. PICK B \in SUBSET Jobs : Begun(B, queue, stack, result)
  BY DEF PoolInv, BegunOK
<1>7. Top(t) \notin B
  BY <1>1, <1>6 DEF Begun, CallsFresh
<1>8. ~OnStack(stack, f.job) /\ ~InQueue(queue, f.job)
  BY <1>2, <1>3, <1>6, <1>7 DEF Begun, Reached
<1>9. FrameOK(stack'[t], t, Len(stack[t]) + 1)
  <2>1. Len(Subs[f.job]) \in Nat
    BY <1>2, <1>3, PoolAssumption
  <2> QED
    BY <1>3, <1>5, <2>1 DEF FrameOK
<1>10. BegunOK'
  <2>1. \A u \in Callers : u # t => Top(u) # f.job
    BY <1>2, <1>3, TopFacts
  <2>2. \A u \in Threads : \A i \in 1..Len(stack[u]) : \A m \in stack[u][i].at..Len(Subs[stack[u][i].job]) :
          Subs[stack[u][i].job][m] # f.job
    <3> SUFFICES ASSUME NEW u \in Threads, NEW i \in 1..Len(stack[u]),
                        NEW m \in stack[u][i].at..Len(Subs[stack[u][i].job]), Subs[stack[u][i].job][m] = f.job
                 PROVE  FALSE
      OBVIOUS
    <3>1. stack[u][i].job \in Jobs /\ stack[u][i].at >= 1 /\ stack[u][i].at \in Nat
      BY PlaceFacts
    <3>2. m \in 1..Len(Subs[stack[u][i].job])
      BY <3>1
    <3>3. Child(stack[u][i].job, f.job)
      BY <3>2 DEF Child
    <3> QED
      BY <3>1, <3>3, <1>2, <1>3, ChildFacts
  <2>3. B \cup {f.job} \in SUBSET Jobs /\ Begun(B \cup {f.job}, queue, stack', result)
    <3>1. \A u \in Threads : \A i \in 1..Len(stack[u]) : stack[u][i].pc = "body" =>
            \A m \in stack[u][i].at..Len(Subs[stack[u][i].job]) :
              Subs[stack[u][i].job][m] = f.job => u = t /\ i = Len(stack[u]) /\ m = stack[u][i].at
      BY <2>2
    <3>2. f.job \notin B /\ ~HasParent(f.job)
      BY <1>2, <1>3, <1>7
    <3>3. f.pc = "body" /\ f.at = 1
      BY <1>3
    <3> QED
      BY <1>4, <1>6, <2>1, <3>1, <3>2, <3>3, BegunStart
  <2> QED
    BY <1>1, <2>3 DEF BegunOK
<1> QED
  BY <1>1, <1>2, <1>3, <1>4, <1>8, <1>9, <1>10, StartKeeps

\* The job that a body submits next was not begun, and no other body submits it.
LEMMA SubmitFacts ==
  ASSUME PoolInv, NEW t \in Threads, In(t, "body"), Cur(t).at <= Len(Subs[Cur(t).job]),
         NEW B \in SUBSET Jobs, Begun(B, queue, stack, result)
  PROVE  LET s == Subs[Cur(t).job][Cur(t).at]
         IN  /\ s \in Jobs /\ s \notin B /\ ~OnStack(stack, s) /\ ~InQueue(queue, s)
             /\ Child(Cur(t).job, s) /\ HasParent(s) /\ Parent(s) = Cur(t).job /\ Cur(t).job \in B
             /\ ~InQueue(queue, Cur(t).job)
             /\ \A u \in Threads : \A i \in 1..Len(stack[u]) :
                  \A m \in stack[u][i].at..Len(Subs[stack[u][i].job]) :
                    Subs[stack[u][i].job][m] = s => u = t /\ i = Len(stack[u]) /\ m = stack[u][i].at
<1> DEFINE k == Cur(t).job
           a == Cur(t).at
           s == Subs[k][a]
           n == Len(stack[t])
<1>0. /\ stack[t] # << >> /\ Cur(t).pc = "body"
  BY DEF In, Cur
<1>1. /\ n \in 1..n /\ n \in Nat /\ Cur(t) = stack[t][n] /\ k \in Jobs /\ a \in 1..Len(Subs[k]) /\ a \in Nat
      /\ Len(Subs[k]) \in Nat /\ OnStack(stack, k)
  BY <1>0, CurFacts
<1> HIDE DEF k, a, s, n
<1>2. s \in Jobs /\ Child(k, s) /\ \A l \in Jobs : \A m \in 1..Len(Subs[l]) : Subs[l][m] = s => l = k /\ m = a
  BY <1>1, SubFacts DEF s
<1>3. s \notin B
  <2>1. Unsubmitted(B, stack[t], n)
    BY <1>1 DEF Begun, BodiesFresh, n
  <2>2. a \in a..Len(Subs[k])
    BY <1>1
  <2> QED
    BY <1>0, <1>1, <2>1, <2>2 DEF Unsubmitted, s, k, a, n
<1>4. ~OnStack(stack, s) /\ ~InQueue(queue, s) /\ k \in B
  BY <1>1, <1>2, <1>3 DEF Begun, Reached
<1>5. ~InQueue(queue, k)
  BY <1>1 DEF PoolInv, PlacesOK, Apart
<1>6. HasParent(s) /\ Parent(s) = k
  BY <1>1, <1>2, ChildFacts
<1>7. ASSUME NEW u \in Threads, NEW i \in 1..Len(stack[u]),
             NEW m \in stack[u][i].at..Len(Subs[stack[u][i].job]), Subs[stack[u][i].job][m] = s
      PROVE  u = t /\ i = Len(stack[u]) /\ m = stack[u][i].at
  <2>1. stack[u][i].job \in Jobs /\ stack[u][i].at >= 1 /\ stack[u][i].at \in Nat
    BY PlaceFacts
  <2>2. m \in 1..Len(Subs[stack[u][i].job])
    BY <2>1
  <2>3. stack[u][i].job = k /\ m = a
    BY <1>2, <1>7, <2>1, <2>2
  <2>4. n \in 1..Len(stack[t]) /\ stack[t][n].job = k
    BY <1>1 DEF n, k
  <2>5. u = t /\ i = n
    BY <2>3, <2>4 DEF PoolInv, PlacesOK, StacksUnique
  <2> QED
    BY <1>1, <2>3, <2>5 DEF n, a
<1> QED
  BY <1>2, <1>3, <1>4, <1>5, <1>6, <1>7 DEF s, k, a

\* submit() runs the job itself.
LEMMA SubmitInlineKeeps ==
  ASSUME PoolInv, NEW t \in Threads, Submit(t),
         Push(t, Enter(Subs[Cur(t).job][Cur(t).at], "inline")), UNCHANGED <<queue, asleep, num>>
  PROVE  PoolInv'
<1> DEFINE s == Subs[Cur(t).job][Cur(t).at]
           f == Enter(s, "inline")
<1>1. /\ In(t, "body") /\ stack[t] # << >> /\ Cur(t).pc = "body" /\ Cur(t).at <= Len(Subs[Cur(t).job])
      /\ stack' = [stack EXCEPT ![t] = Append(@, f)]
      /\ UNCHANGED <<queue, active, running, asleep, exited, num, failed, result, threw>>
  BY DEF Submit, Push, In, Cur
<1>2. PICK B \in SUBSET Jobs : Begun(B, queue, stack, result)
  BY DEF PoolInv, BegunOK
<1>3. /\ s \in Jobs /\ s \notin B /\ ~OnStack(stack, s) /\ ~InQueue(queue, s)
      /\ HasParent(s) /\ Parent(s) \in B /\ ~InQueue(queue, Parent(s))
      /\ \A u \in Threads : \A i \in 1..Len(stack[u]) :
           \A m \in stack[u][i].at..Len(Subs[stack[u][i].job]) :
             Subs[stack[u][i].job][m] = s => u = t /\ i = Len(stack[u]) /\ m = stack[u][i].at
  BY <1>1, <1>2, SubmitFacts
<1>4. /\ f \in Frame /\ f.job = s /\ f.by = "inline" /\ f.at = 1 /\ f.pc = "body" /\ f.thrown = FALSE
  BY <1>3 DEF Enter, Frame
<1> HIDE DEF f
<1>5. Pushed(stack, stack', t, f)
  BY <1>1, <1>4, PushPushes DEF PoolInv, PoolTypes
<1>6. FrameOK(stack'[t], t, Len(stack[t]) + 1)
  <2> DEFINE n == Len(stack[t])
  <2>1. Len(Subs[s]) \in Nat
    BY <1>3, PoolAssumption
  <2>2. n \in Nat \ {0} /\ stack'[t][n + 1] = f /\ stack'[t][(n + 1) - 1] = Cur(t)
    BY <1>1, <1>5, CurFacts DEF Pushed
  <2>3. Cur(t).pc = "body" /\ Cur(t).at <= Len(Subs[Cur(t).job]) /\ f.job = Subs[Cur(t).job][Cur(t).at]
        /\ f.at \in 1..Len(Subs[f.job]) + 1
    BY <1>1, <1>4, <2>1
  <2> DEFINE c == stack'[t][(n + 1) - 1]
  <2>4. c.pc = "body" /\ c.at <= Len(Subs[c.job]) /\ f.job = Subs[c.job][c.at] /\ (n + 1) # 1 /\ (n + 1) > 1
    BY <2>2, <2>3
  <2>5. FrameOK(stack'[t], t, n + 1)
    BY <1>4, <2>2, <2>3, <2>4 DEF FrameOK
  <2> QED
    BY <2>5 DEF n
<1>7. BegunOK'
  <2>1. \A u \in Callers : u # t => Top(u) # f.job
    BY <1>3, <1>4, TopFacts
  <2>2. B \cup {f.job} \in SUBSET Jobs /\ Begun(B \cup {f.job}, queue, stack', result)
    <3> HIDE DEF s
    <3> QED
      BY <1>2, <1>3, <1>4, <1>5, <2>1, BegunStart
  <2> QED
    BY <1>1, <2>2 DEF BegunOK
<1>8. t \in Callers => result[t] = "none"
  BY <1>1 DEF PoolInv, ReturnedOK
<1> QED
  BY <1>1, <1>3, <1>4, <1>5, <1>6, <1>7, <1>8, StartKeeps

\* The workers that could take a job.
Awake(as, st) == {w \in Workers \ as : st[w] = << >>}

\* The workers awake and without a job are finitely many.
LEMMA AwakeFinite ==
  ASSUME NEW as, NEW st
  PROVE  IsFiniteSet(Awake(as, st)) /\ Cardinality(Awake(as, st)) \in Nat
<1>1. Awake(as, st) \subseteq Workers
  BY DEF Awake
<1> QED
  BY <1>1, PoolAssumption, FS_Subset, FS_CardinalityType

\* A notification wakes one more worker than there were, if one is asleep.
LEMMA NotifySleep ==
  ASSUME PoolInv, NotifyOne, Len(queue') = Len(queue) + 1, running' = running,
         \A w \in Workers : stack'[w] = << >> <=> stack[w] = << >>
  PROVE  SleepOK' /\ asleep' \subseteq asleep
<1>0. asleep \subseteq Workers /\ Len(queue) \in Nat /\ \A w \in asleep : stack[w] = << >>
  BY DEF PoolInv, PoolTypes, SleepOK
<1>1. CASE asleep = {}
  <2>1. asleep' = {}
    BY <1>1 DEF NotifyOne
  <2> QED
    BY <2>1 DEF SleepOK
<1>2. CASE asleep # {}
  <2>1. PICK w \in asleep : asleep' = asleep \ {w}
    BY <1>2 DEF NotifyOne
  <2>2. Awake(asleep', stack') = Awake(asleep, stack) \cup {w} /\ w \notin Awake(asleep, stack)
    BY <1>0, <2>1 DEF Awake
  <2>3. Cardinality(Awake(asleep', stack')) = Cardinality(Awake(asleep, stack)) + 1
    BY <2>2, AwakeFinite, FS_AddElement
  <2>4. running => Len(queue) <= Cardinality(Awake(asleep, stack))
    BY <1>2 DEF PoolInv, SleepOK, Awake
  <2>5. running' /\ asleep' # {} => Len(queue') <= Cardinality(Awake(asleep', stack'))
    BY <1>0, <2>3, <2>4, AwakeFinite
  <2>6. \A v \in asleep' : stack'[v] = << >>
    BY <1>0, <2>1
  <2> QED
    BY <2>1, <2>5, <2>6 DEF SleepOK, Awake
<1> QED
  BY <1>1, <1>2

\* A frame moved on to its next submission differs in that alone.
LEMMA NextSubmission ==
  ASSUME NEW g \in Frame
  PROVE  /\ [g EXCEPT !.at = @ + 1] \in Frame
         /\ [g EXCEPT !.at = @ + 1].at = g.at + 1
         /\ [g EXCEPT !.at = @ + 1].job = g.job
         /\ [g EXCEPT !.at = @ + 1].by = g.by
         /\ [g EXCEPT !.at = @ + 1].pc = g.pc
         /\ [g EXCEPT !.at = @ + 1].thrown = g.thrown
<1>1. g.at \in Nat /\ g.at + 1 \in Nat
  BY DEF Frame
<1>2. [g EXCEPT !.at = @ + 1] \in Frame
  BY <1>1 DEF Frame
<1> QED
  BY <1>2 DEF Frame

\* submit() queues the job, counts it and wakes a worker.
LEMMA SubmitQueueKeeps ==
  ASSUME PoolInv, NEW t \in Threads, Submit(t),
         LET f == Cur(t)
             s == Subs[f.job][f.at]
         IN  /\ Inc(f.job, s)
             /\ queue' = IF s \in Leaf THEN <<s>> \o queue ELSE Append(queue, s)
             /\ Wake
             /\ SetCur(t, [f EXCEPT !.at = @ + 1])
  PROVE  PoolInv'
<1> DEFINE k == Cur(t).job
           s == Subs[Cur(t).job][Cur(t).at]
           f == [Cur(t) EXCEPT !.at = @ + 1]
<1>1. /\ In(t, "body") /\ stack[t] # << >> /\ Cur(t).pc = "body" /\ Cur(t).at <= Len(Subs[Cur(t).job])
      /\ UNCHANGED <<active, running, exited, failed, result, threw>> /\ NotifyOne
  BY DEF Submit, In, Cur, Wake
<1>2. /\ num' = (IF s \in Detached THEN num ELSE [num EXCEPT ![k] = @ + 1])
      /\ queue' = (IF s \in Leaf THEN <<s>> \o queue ELSE Append(queue, s))
      /\ stack' = [stack EXCEPT ![t][Len(stack[t])] = f]
  BY DEF Inc, SetCur
<1>3. PICK B \in SUBSET Jobs : Begun(B, queue, stack, result)
  BY DEF PoolInv, BegunOK
<1>4. /\ s \in Jobs /\ s \notin B /\ ~OnStack(stack, s) /\ ~InQueue(queue, s) /\ Child(k, s)
      /\ HasParent(s) /\ Parent(s) = k /\ k \in B /\ ~InQueue(queue, k)
      /\ \A u \in Threads : \A i \in 1..Len(stack[u]) :
           \A m \in stack[u][i].at..Len(Subs[stack[u][i].job]) :
             Subs[stack[u][i].job][m] = s => u = t /\ i = Len(stack[u]) /\ m = stack[u][i].at
  BY <1>1, <1>3, SubmitFacts
<1>5. /\ Cur(t) = stack[t][Len(stack[t])] /\ Cur(t) \in Frame /\ k \in Jobs /\ Len(Subs[k]) \in Nat
      /\ Cur(t).at \in 1..Len(Subs[k]) /\ Len(stack[t]) \in 1..Len(stack[t])
  BY <1>1, CurFacts
<1>6. /\ f \in Frame /\ f.job = k /\ f.by = Cur(t).by /\ f.at = Cur(t).at + 1 /\ f.pc = "body"
      /\ f.thrown = Cur(t).thrown
  BY <1>1, <1>5, NextSubmission
<1> HIDE DEF k, s, f
<1>7. Changed(stack, stack', t, f)
  BY <1>1, <1>2, <1>6, SetChanges DEF PoolInv, PoolTypes
<1>8. /\ queue' \in Seq(Jobs) /\ Len(queue') = Len(queue) + 1
      /\ \A j : InQueue(queue', j) <=> InQueue(queue, j) \/ j = s
      /\ QueueUnique(queue')
  <2>1. queue \in Seq(Jobs) /\ QueueUnique(queue)
    BY DEF PoolInv, PoolTypes, PlacesOK
  <2>2. queue' = IF s \in Leaf THEN <<s>> \o queue ELSE Append(queue, s)
    BY <1>2
  <2>3. s \in Jobs /\ ~InQueue(queue, s)
    BY <1>4
  <2>4. LET q2 == IF s \in Leaf THEN <<s>> \o queue ELSE Append(queue, s)
        IN  /\ q2 \in Seq(Jobs) /\ Len(q2) = Len(queue) + 1
            /\ \A j : InQueue(q2, j) <=> InQueue(queue, j) \/ j = s
            /\ QueueUnique(queue) /\ ~InQueue(queue, s) => QueueUnique(q2)
    BY <2>1, <2>3, EnqueueFacts
  <2> QED
    BY <2>1, <2>2, <2>3, <2>4, Zenon
<1>9. k = Cur(t).job
  BY DEF k
<1>10. f.pc \in Going /\ Cur(t).pc \in Going
  BY <1>1, <1>6 DEF Going
<1>11. \A j : /\ OnStack(stack', j) <=> OnStack(stack, j)
              /\ OnRun(stack', j) <=> OnRun(stack, j)
              /\ Unfinished(stack', j) <=> Unfinished(stack, j)
              /\ UnfinishedRun(stack', j) <=> UnfinishedRun(stack, j)
  BY <1>5, <1>6, <1>7, <1>9, <1>10, ChangeEffects DEF OnStack, OnRun, Unfinished, UnfinishedRun
<1>12. SleepOK' /\ asleep' \subseteq asleep
  <2>1. \A w \in Workers : stack'[w] = << >> <=> stack[w] = << >>
    BY <1>7, ChangeEmpty DEF Threads
  <2> QED
    BY <1>1, <1>8, <2>1, NotifySleep
<1>13. PoolTypes'
  <2>1. num' \in [Jobs -> Int]
    BY <1>2, <1>5 DEF PoolInv, PoolTypes
  <2>2. stack' \in [Threads -> Seq(Frame)]
    BY <1>7 DEF Changed
  <2> QED
    BY <1>1, <1>8, <1>12, <2>1, <2>2 DEF PoolInv, PoolTypes
<1>14. PlacesOK'
  <2>1. StacksUnique(stack')
    <3>1. StacksUnique(stack) /\ f.job = stack[t][Len(stack[t])].job
      BY <1>5, <1>6, <1>9, Zenon DEF PoolInv, PlacesOK
    <3> QED
      BY <1>7, <3>1, ChangeUnique, Zenon
  <2>2. Shape(stack')
    <3>1. f.at \in 1..Len(Subs[f.job]) + 1 /\ f.pc # "leave"
      BY <1>5, <1>6
    <3> QED
      BY <1>5, <1>6, <1>7, <1>9, <3>1, ChangeShape DEF PoolInv, PlacesOK
  <2>3. Apart(queue', stack')
    BY <1>4, <1>8, <1>11 DEF PoolInv, PlacesOK, Apart
  <2> QED
    BY <1>8, <2>1, <2>2, <2>3 DEF PlacesOK
<1>15. BegunOK'
  <2>1. Begun(B, queue, stack', result)
    <3>1. stack[t][Len(stack[t])].pc = "body" /\ f.at > stack[t][Len(stack[t])].at
      <4>1. Cur(t).at \in Nat /\ f.at = Cur(t).at + 1
        BY <1>5, <1>6
      <4>2. f.at > Cur(t).at
        BY ONLY <4>1
      <4> QED
        BY <1>1, <1>5, <4>2, Zenon
    <3> QED
      BY <1>3, <1>5, <1>6, <1>7, <1>9, <3>1, BegunChange
  <2>2. ASSUME NEW u \in Threads, NEW i \in 1..Len(stack'[u]),
               NEW m \in stack'[u][i].at..Len(Subs[stack'[u][i].job]), Subs[stack'[u][i].job][m] = s
        PROVE  FALSE
    <3>1. i \in 1..Len(stack[u])
          /\ \/ stack'[u][i] = stack[u][i] /\ (u # t \/ i # Len(stack[t]))
             \/ u = t /\ i = Len(stack[t]) /\ stack'[u][i] = f
      BY <1>7, ChangePlaces
    <3>2. CASE stack'[u][i] = stack[u][i] /\ (u # t \/ i # Len(stack[t]))
      BY <1>4, <2>2, <3>1, <3>2, SMTT(30)
    <3>3. CASE u = t /\ i = Len(stack[t]) /\ stack'[u][i] = f
      <4>1. m \in Cur(t).at..Len(Subs[Cur(t).job]) /\ m # Cur(t).at /\ Subs[Cur(t).job][m] = s
        <5>1. /\ f.job = Cur(t).job /\ f.at = Cur(t).at + 1 /\ Cur(t).at \in Nat
              /\ Len(Subs[Cur(t).job]) \in Nat
          <6>1. f.job = Cur(t).job /\ f.at = Cur(t).at + 1 /\ Len(Subs[Cur(t).job]) \in Nat
            BY <1>5, <1>6, <1>9, Zenon
          <6>2. Cur(t).at \in Nat
            BY <1>5
          <6> QED
            BY <6>1, <6>2, Zenon
        <5>2. m \in f.at..Len(Subs[f.job]) /\ Subs[f.job][m] = s
          BY <2>2, <3>3, Zenon
        <5>3. m \in (Cur(t).at + 1)..Len(Subs[Cur(t).job]) /\ Subs[Cur(t).job][m] = s
          BY ONLY <5>1, <5>2
        <5> QED
          BY ONLY <5>1, <5>3
      <4> QED
        BY <1>4, <1>5, <4>1
    <3> QED
      BY <3>1, <3>2, <3>3
  <2>3. B \cup {s} \in SUBSET Jobs /\ Begun(B \cup {s}, queue', stack', result)
    <3>1. \A j \in Jobs : InQueue(queue', j) <=> InQueue(queue, j) \/ j = s
      BY <1>8
    <3>2. Parent(s) \in B /\ ~InQueue(queue, Parent(s))
      BY <1>4
    <3>3. s \in Jobs /\ s \notin B /\ HasParent(s)
      BY <1>4
    <3>4. \A u \in Threads : \A i \in 1..Len(stack'[u]) : stack'[u][i].pc = "body" =>
            \A m \in stack'[u][i].at..Len(Subs[stack'[u][i].job]) : Subs[stack'[u][i].job][m] # s
      BY <2>2
    <3> QED
      BY <2>1, <3>1, <3>2, <3>3, <3>4, BegunEnqueue
  <2> QED
    BY <1>1, <2>3 DEF BegunOK
<1>16. \A l \in Jobs : Counts(l, queue', stack') =
         IF l = k /\ s \notin Detached THEN Counts(l, queue, stack) \cup {s} ELSE Counts(l, queue, stack)
  <2>1. \A l \in Jobs : Child(l, s) <=> l = k
    BY <1>4, <1>5, ChildFacts
  <2> QED
    BY <1>4, <1>8, <1>11, <2>1 DEF Counts
<1>17. CountsOK'
  <2>1. s \notin Counts(k, queue, stack)
    <3>1. ~UnfinishedRun(stack, s)
      BY <1>4 DEF UnfinishedRun, OnStack, Held, Bys
    <3> QED
      BY <1>4, <3>1 DEF Counts
  <2>2. Cardinality(Counts(k, queue, stack) \cup {s}) = Cardinality(Counts(k, queue, stack)) + 1
    BY <2>1, CountsFinite, FS_AddElement
  <2>3. \A l \in Jobs : num[l] = Cardinality(Counts(l, queue, stack)) /\ num[l] \in Int /\ num \in [Jobs -> Int]
    BY DEF PoolInv, CountsOK, PoolTypes
  <2>4. \A l \in Jobs : num'[l] = Cardinality(Counts(l, queue', stack'))
    BY <1>2, <1>5, <1>16, <2>2, <2>3
  <2>5. {j \in Jobs : OnRun(stack', j)} = {j \in Jobs : OnRun(stack, j)}
    BY <1>11
  <2> QED
    BY <1>1, <2>4, <2>5 DEF PoolInv, CountsOK
<1>18. AliveOK'
  <2>1. Unfinished(stack', k)
    <3>1. Len(stack[t]) \in 1..Len(stack'[t]) /\ stack'[t][Len(stack[t])] = f /\ f.by \in Bys
      BY <1>5, <1>6, <1>7 DEF Changed, Frame, Bys
    <3> QED
      BY <1>6, <1>10, <3>1, SMTT(30) DEF Unfinished, Held
  <2> SUFFICES ASSUME NEW l \in Jobs, NEW j \in Counts(l, queue', stack') PROVE Unfinished(stack', l)
    BY DEF AliveOK
  <2>2. CASE l = k
    BY <2>1, <2>2
  <2>3. CASE l # k
    BY <1>11, <1>16, <2>3 DEF PoolInv, AliveOK
  <2> QED
    BY <2>2, <2>3
<1>19. ReturnedOK'
  BY <1>1, <1>7, ChangeEmpty DEF PoolInv, ReturnedOK, Threads
<1>20. ErrorsOK'
  <2>1. f.pc # "leave"
    BY <1>6
  <2> QED
    BY <1>1, <1>6, <1>7, <1>9, <2>1, ChangeErrors
<1> QED
  BY <1>12, <1>13, <1>14, <1>15, <1>17, <1>18, <1>19, <1>20 DEF PoolInv

\* run() takes the first job of the queue.
LEMMA TakeKeeps ==
  ASSUME PoolInv, NEW t \in Threads, Take(t)
  PROVE  PoolInv'
<1> DEFINE h == Head(queue)
           f == Enter(h, "run")
<1>1. /\ queue # << >> /\ active' = active + 1 /\ queue' = Tail(queue)
      /\ stack' = [stack EXCEPT ![t] = Append(@, f)]
      /\ UNCHANGED <<running, asleep, exited, num, failed, result, threw>>
      /\ \/ t \in Workers \ asleep /\ stack[t] = << >>
         \/ stack[t] # << >> /\ Cur(t).pc = "flush"
  BY DEF Take, Push, InRun, In, Cur
<1>2. /\ h \in Jobs /\ queue' \in Seq(Jobs) /\ Len(queue') = Len(queue) - 1 /\ Len(queue) \in Nat
      /\ QueueUnique(queue') /\ ~InQueue(queue', h)
      /\ \A j : InQueue(queue, j) <=> InQueue(queue', j) \/ j = h
  <2>1. queue \in Seq(Jobs) /\ QueueUnique(queue)
    BY DEF PoolInv, PoolTypes, PlacesOK
  <2> QED
    BY <1>1, <2>1, DequeueFacts
<1>3. /\ f \in Frame /\ f.job = h /\ f.by = "run" /\ f.at = 1 /\ f.pc = "body" /\ f.thrown = FALSE
  BY <1>2 DEF Enter, Frame
<1> HIDE DEF h, f
<1>4. Pushed(stack, stack', t, f)
  BY <1>1, <1>3, PushPushes DEF PoolInv, PoolTypes
<1>5. PICK B \in SUBSET Jobs : Begun(B, queue, stack, result)
  BY DEF PoolInv, BegunOK
<1>6. HasParent(h) /\ ~OnStack(stack, h)
  BY <1>2, <1>5 DEF Begun, QueueFresh, PoolInv, PlacesOK, Apart
<1>7. PoolTypes'
  BY <1>1, <1>2, <1>4 DEF PoolInv, PoolTypes, Pushed
<1>8. PlacesOK'
  <2>1. StacksUnique(stack')
    BY <1>3, <1>4, <1>6, PushUnique DEF PoolInv, PlacesOK
  <2>2. FrameOK(stack'[t], t, Len(stack[t]) + 1)
    <3> DEFINE n == Len(stack[t])
    <3>1. n \in Nat /\ stack'[t][n + 1] = f /\ \A i \in 1..n : stack'[t][i] = stack[t][i]
      BY <1>4 DEF Pushed
    <3>2. f.at \in 1..Len(Subs[f.job]) + 1
      <4>1. Len(Subs[f.job]) \in Nat
        BY <1>2, <1>3, PoolAssumption
      <4> QED
        BY <1>3, <4>1
    <3>3. CASE t \in Workers \ asleep /\ stack[t] = << >>
      <4>1. n = 0 /\ t \notin Callers
        BY <3>3, PoolAssumption
      <4> QED
        BY <1>3, <1>6, <3>1, <3>2, <4>1 DEF FrameOK
    <3>4. CASE stack[t] # << >> /\ Cur(t).pc = "flush"
      <4>1. n \in 1..n /\ n + 1 # 1 /\ stack[t][n].pc = "flush"
        BY <3>4, CurFacts
      <4>2. stack'[t][(n + 1) - 1].pc = "flush"
        BY <3>1, <4>1
      <4> QED
        BY <1>3, <1>6, <3>1, <3>2, <4>1, <4>2 DEF FrameOK
    <3> QED
      BY <1>1, <3>3, <3>4
  <2>3. Shape(stack')
    BY <1>4, <2>2, PushShape DEF PoolInv, PlacesOK
  <2>4. Apart(queue', stack')
    <3>1. \A j : OnStack(stack', j) => OnStack(stack, j) \/ j = h
      BY <1>3, <1>4, PushEffects DEF OnStack
    <3> QED
      BY <1>2, <3>1 DEF PoolInv, PlacesOK, Apart
  <2> QED
    BY <1>2, <2>1, <2>3, <2>4 DEF PlacesOK
<1>9. BegunOK'
  <2>1. InQueue(queue, f.job) /\ f.pc = "body" /\ f.at = 1 /\ \A j \in Jobs : InQueue(queue', j) => InQueue(queue, j)
    BY <1>2, <1>3
  <2>2. Begun(B, queue', stack', result)
    BY <1>4, <1>5, <2>1, BegunTake
  <2> QED
    BY <1>1, <2>2 DEF BegunOK
<1>10. \A j : UnfinishedRun(stack', j) <=> UnfinishedRun(stack, j) \/ j = h
  <2>1. f.by \in {"run"} /\ f.pc \in Going
    BY <1>3 DEF Going
  <2> QED
    BY <1>3, <1>4, <2>1, PushEffects DEF UnfinishedRun
<1>11. \A j : OnRun(stack', j) <=> OnRun(stack, j) \/ j = h
  <2>1. f.by \in {"run"} /\ f.pc \in Going \cup {"leave"}
    BY <1>3 DEF Going
  <2> QED
    BY <1>3, <1>4, <2>1, PushEffects DEF OnRun
<1>12. \A k \in Jobs : Counts(k, queue', stack') = Counts(k, queue, stack)
  BY <1>2, <1>10 DEF Counts
<1>13. CountsOK'
  <2>1. ~OnRun(stack, h)
    BY <1>6 DEF OnRun, OnStack, Held, Bys
  <2>2. {j \in Jobs : OnRun(stack', j)} = {j \in Jobs : OnRun(stack, j)} \cup {h} /\ h \notin {j \in Jobs : OnRun(stack, j)}
    BY <1>2, <1>11, <2>1
  <2>3. Cardinality({j \in Jobs : OnRun(stack', j)}) = Cardinality({j \in Jobs : OnRun(stack, j)}) + 1
    BY <2>2, CountsFinite, FS_AddElement, ZenonT(60)
  <2> QED
    BY <1>1, <1>12, <2>3 DEF PoolInv, CountsOK
<1>14. AliveOK'
  <2>1. \A k : Unfinished(stack, k) => Unfinished(stack', k)
    BY <1>4, PushEffects DEF Unfinished
  <2> QED
    BY <1>12, <2>1 DEF PoolInv, AliveOK
<1>15. \A u \in Threads : stack'[u] = << >> <=> stack[u] = << >> /\ u # t
  BY <1>4, PushEmpty
<1>16. ReturnedOK'
  <2>1. t \in Callers => stack[t] # << >>
    BY <1>1, PoolAssumption
  <2> QED
    BY <1>1, <1>15, <2>1 DEF PoolInv, ReturnedOK, Threads
<1>17. SleepOK'
  <2>1. t \notin asleep /\ asleep \subseteq Workers
    BY <1>1, CurFacts DEF PoolInv, PoolTypes
  <2>2. \A w \in asleep' : stack'[w] = << >>
    BY <1>1, <1>15, <2>1 DEF PoolInv, SleepOK, Threads
  <2>3. running /\ asleep # {} => Len(queue) <= Cardinality(Awake(asleep, stack))
    BY DEF PoolInv, SleepOK, Awake
  <2>4. Cardinality(Awake(asleep, stack)) - 1 <= Cardinality(Awake(asleep, stack'))
    <3>1. CASE t \in Awake(asleep, stack)
      <4>1. Awake(asleep, stack') = Awake(asleep, stack) \ {t}
        BY <1>15 DEF Awake, Threads
      <4>2. Cardinality(Awake(asleep, stack')) = Cardinality(Awake(asleep, stack)) - 1
        <5>1. IsFiniteSet(Awake(asleep, stack))
          BY AwakeFinite
        <5>2. Cardinality(Awake(asleep, stack) \ {t}) = Cardinality(Awake(asleep, stack)) - 1
          BY <3>1, <5>1, FS_RemoveElement
        <5> QED
          BY <4>1, <5>2
      <4> QED
        BY <4>2, AwakeFinite
    <3>2. CASE t \notin Awake(asleep, stack)
      <4>1. Awake(asleep, stack') = Awake(asleep, stack)
        BY <1>15, <3>2 DEF Awake, Threads
      <4> QED
        BY <4>1, AwakeFinite
    <3> QED
      BY <3>1, <3>2
  <2>5. running' /\ asleep' # {} => Len(queue') <= Cardinality(Awake(asleep', stack'))
    BY <1>1, <1>2, <2>3, <2>4, AwakeFinite
  <2> QED
    BY <2>2, <2>5 DEF SleepOK, Awake
<1>18. ErrorsOK'
  BY <1>1, <1>3, <1>4, PushErrors
<1> QED
  BY <1>7, <1>8, <1>9, <1>13, <1>14, <1>16, <1>17, <1>18 DEF PoolInv

\* Nobody counts on a routine whose wait() returns.
LEMMA WaitOver ==
  ASSUME PoolInv, NEW t \in Threads, stack[t] # << >>, WaitReturns(t)
  PROVE  Counts(Cur(t).job, queue, stack) = {}
<1>1. Cardinality(Counts(Cur(t).job, queue, stack)) = 0
  BY CurFacts DEF WaitReturns, PoolInv, CountsOK
<1> QED
  BY <1>1, CountsFinite, FS_EmptySet

\* An ended routine is not unfinished elsewhere: it is in one place only.
LEMMA OnlyThere ==
  ASSUME PoolInv, NEW t \in Threads, stack[t] # << >>, NEW bs, NEW pcs
  PROVE  Held(stack, Cur(t).job, bs, pcs) <=> Cur(t).by \in bs /\ Cur(t).pc \in pcs
<1>1. Len(stack[t]) \in 1..Len(stack[t]) /\ Cur(t) = stack[t][Len(stack[t])]
  BY CurFacts
<1>2. \A u \in Threads : \A i \in 1..Len(stack[u]) : stack[u][i].job = Cur(t).job => u = t /\ i = Len(stack[t])
  BY <1>1 DEF PoolInv, PlacesOK, StacksUnique
<1> QED
  BY <1>1, <1>2 DEF Held

\* A job run by run() reports its error, then its end.
LEMMA EndRunKeeps ==
  ASSUME PoolInv, NEW t \in Threads, EndRun(t)
  PROVE  PoolInv'
<1> DEFINE g == Cur(t)
           f == [g EXCEPT !.pc = "leave"]
           par == Parent(g.job)
<1>1. /\ stack[t] # << >> /\ g.pc = "block" /\ g.by = "run" /\ WaitReturns(t)
      /\ failed' = (IF Failed(g) /\ g.job \notin Detached THEN [failed EXCEPT ![par] = TRUE] ELSE failed)
      /\ num' = (IF g.job \in Detached THEN num ELSE [num EXCEPT ![par] = @ - 1])
      /\ stack' = [stack EXCEPT ![t][Len(stack[t])] = f]
      /\ UNCHANGED <<queue, active, running, asleep, exited, result, threw>>
  BY DEF EndRun, In, Cur, SetError, Dec, SetCur
<1>2. /\ g = stack[t][Len(stack[t])] /\ g \in Frame /\ g.job \in Jobs /\ Len(stack[t]) \in 1..Len(stack[t])
      /\ FrameOK(stack[t], t, Len(stack[t])) /\ OnStack(stack, g.job) /\ g.at \in 1..Len(Subs[g.job]) + 1
      /\ g.thrown \in BOOLEAN
  BY <1>1, CurFacts
<1>3. HasParent(g.job)
  BY <1>1, <1>2 DEF FrameOK
<1>4. par \in Jobs /\ Child(par, g.job) /\ par \notin Detached /\ CallOf[par] = CallOf[g.job]
      /\ \A l \in Jobs : Child(l, g.job) => l = par
  BY <1>3, ParentFacts, ChildFacts
<1>5. /\ f \in Frame /\ f.job = g.job /\ f.by = g.by /\ f.at = g.at /\ f.pc = "leave" /\ f.thrown = g.thrown
  BY <1>2 DEF Frame
<1>6. Counts(g.job, queue, stack) = {}
  BY <1>1, WaitOver
<1>7. Failed(g) <=> g.thrown \/ failed[g.job]
  BY DEF Failed
<1>8. g = Cur(t)
  OBVIOUS
<1> HIDE DEF g, f, par
<1>9. Changed(stack, stack', t, f)
  BY <1>1, <1>5, SetChanges DEF PoolInv, PoolTypes
<1>10. \A j : /\ OnStack(stack', j) <=> OnStack(stack, j)
              /\ OnRun(stack', j) <=> OnRun(stack, j)
  <2>1. f.pc \in Going \cup {"leave"} /\ g.pc \in Going \cup {"leave"}
    BY <1>1, <1>5 DEF Going
  <2> QED
    BY <1>2, <1>5, <1>9, <2>1, ChangeEffects DEF OnStack, OnRun
<1>11. \A j : /\ Unfinished(stack', j) <=> Unfinished(stack, j) /\ j # g.job
              /\ UnfinishedRun(stack', j) <=> UnfinishedRun(stack, j) /\ j # g.job
  <2>1. f.pc \notin Going
    BY <1>5 DEF Going
  <2> QED
    BY <1>2, <1>5, <1>9, <2>1, LeaveEffects DEF Unfinished, UnfinishedRun, PoolInv, PlacesOK
<1>12. PoolTypes'
  <2>1. num' \in [Jobs -> Int] /\ failed' \in [Jobs -> BOOLEAN]
    BY <1>1, <1>4 DEF PoolInv, PoolTypes
  <2>2. stack' \in [Threads -> Seq(Frame)]
    BY <1>9 DEF Changed
  <2> QED
    BY <1>1, <2>1, <2>2 DEF PoolInv, PoolTypes
<1>13. PlacesOK'
  <2>1. StacksUnique(stack')
    BY <1>2, <1>5, <1>9, ChangeUnique DEF PoolInv, PlacesOK
  <2>2. Shape(stack')
    BY <1>1, <1>2, <1>5, <1>9, ChangeShape DEF PoolInv, PlacesOK
  <2>3. Apart(queue, stack')
    BY <1>10 DEF PoolInv, PlacesOK, Apart
  <2> QED
    BY <1>1, <2>1, <2>2, <2>3 DEF PoolInv, PlacesOK
<1>14. BegunOK'
  <2>1. PICK B \in SUBSET Jobs : Begun(B, queue, stack, result)
    BY DEF PoolInv, BegunOK
  <2>2. Begun(B, queue, stack', result)
    <3>1. f.pc # "body"
      BY <1>5
    <3> QED
      BY <1>2, <1>5, <1>9, <2>1, <3>1, BegunChange
  <2> QED
    BY <1>1, <2>2 DEF BegunOK
<1>15. \A l \in Jobs : Counts(l, queue', stack') = Counts(l, queue, stack) \ {g.job}
  <2>1. ~InQueue(queue, g.job)
    BY <1>2 DEF PoolInv, PlacesOK, Apart
  <2> QED
    BY <1>1, <1>11, <2>1 DEF Counts
<1>16. UnfinishedRun(stack, g.job)
  BY <1>1, <1>8, OnlyThere DEF UnfinishedRun, Going
<1>17. CountsOK'
  <2>1. \A l \in Jobs : num[l] = Cardinality(Counts(l, queue, stack)) /\ num[l] \in Int /\ num \in [Jobs -> Int]
    BY DEF PoolInv, CountsOK, PoolTypes
  <2>2. ASSUME NEW l \in Jobs PROVE num'[l] = Cardinality(Counts(l, queue', stack'))
    <3>1. CASE l = par /\ g.job \notin Detached
      <4>1. g.job \in Counts(l, queue, stack)
        BY <1>2, <1>4, <1>16, <3>1 DEF Counts
      <4>2. Cardinality(Counts(l, queue', stack')) = Cardinality(Counts(l, queue, stack)) - 1
        BY <1>15, <4>1, CountsFinite, FS_RemoveElement
      <4> QED
        BY <1>1, <1>4, <2>1, <3>1, <4>2
    <3>2. CASE l # par \/ g.job \in Detached
      <4>1. g.job \notin Counts(l, queue, stack)
        BY <1>4, <3>2 DEF Counts
      <4>2. Counts(l, queue', stack') = Counts(l, queue, stack)
        BY <1>15, <4>1
      <4> QED
        BY <1>1, <1>4, <2>1, <3>2, <4>2
    <3> QED
      BY <3>1, <3>2
  <2>3. {j \in Jobs : OnRun(stack', j)} = {j \in Jobs : OnRun(stack, j)}
    BY <1>10
  <2> QED
    BY <1>1, <2>2, <2>3 DEF PoolInv, CountsOK
<1>18. AliveOK'
  <2> SUFFICES ASSUME NEW l \in Jobs, NEW j \in Counts(l, queue', stack') PROVE Unfinished(stack', l)
    BY DEF AliveOK
  <2>1. j \in Counts(l, queue, stack)
    BY <1>15
  <2>2. Unfinished(stack, l) /\ l # g.job
    BY <1>6, <2>1 DEF PoolInv, AliveOK
  <2> QED
    BY <1>11, <2>2
<1>19. \A u \in Threads : stack'[u] = << >> <=> stack[u] = << >>
  BY <1>9, ChangeEmpty
<1>20. ReturnedOK'
  BY <1>1, <1>19 DEF PoolInv, ReturnedOK, Threads
<1>21. SleepOK'
  <2>1. Awake(asleep, stack') = Awake(asleep, stack) /\ asleep \subseteq Threads
    BY <1>19 DEF Awake, Threads, PoolInv, PoolTypes
  <2> QED
    BY <1>1, <1>19, <2>1 DEF PoolInv, SleepOK, Awake
<1>22. ErrorsOK'
  <2>0. \A k \in Jobs : failed[k] => failed'[k]
    BY <1>1, <1>4 DEF PoolInv, PoolTypes
  <2>1. ASSUME NEW j \in threw' \ Detached
        PROVE  result'[CallOf[j]] = "failed" \/ Carried(stack', failed', CallOf[j])
    <3>1. j \in threw \ Detached
      BY <1>1
    <3>2. result[CallOf[j]] = "failed" \/ Carried(stack, failed, CallOf[j])
      BY <3>1 DEF PoolInv, ErrorsOK
    <3>3. CASE result[CallOf[j]] = "failed"
      BY <1>1, <3>3
    <3>4. CASE Carried(stack, failed, CallOf[j])
      <4>1. \/ Carried(stack', failed', CallOf[j])
            \/ g.job \notin Detached /\ CallOf[g.job] = CallOf[j] /\ (g.thrown \/ failed[g.job])
        BY <1>2, <1>9, <2>0, <3>4, CarriedLeave
      <4>2. ASSUME g.job \notin Detached, CallOf[g.job] = CallOf[j], g.thrown \/ failed[g.job]
            PROVE  Carried(stack', failed', CallOf[j])
        <5>1. failed'[par] = TRUE
          BY <1>1, <1>4, <1>7, <4>2 DEF PoolInv, PoolTypes
        <5>2. g.job \in Counts(par, queue, stack)
          BY <1>2, <1>4, <1>16, <4>2 DEF Counts
        <5>3. Unfinished(stack, par) /\ par # g.job
          BY <1>4, <1>6, <5>2 DEF PoolInv, AliveOK
        <5>4. Unfinished(stack', par)
          BY <1>11, <5>3
        <5>5. PICK u \in Threads : \E i \in 1..Len(stack'[u]) : stack'[u][i].job = par /\ stack'[u][i].pc \in Going
          BY <5>4 DEF Unfinished, Held
        <5>6. PICK i \in 1..Len(stack'[u]) : stack'[u][i].job = par /\ stack'[u][i].pc \in Going
          BY <5>5
        <5> QED
          BY <1>4, <4>2, <5>1, <5>6 DEF Carried, Going
      <4> QED
        BY <4>1, <4>2
    <3> QED
      BY <3>2, <3>3, <3>4
  <2>2. ASSUME NEW u \in Threads, NEW i \in 1..Len(stack'[u]), stack'[u][i].thrown
        PROVE  Thrower(threw', CallOf[stack'[u][i].job])
    <3>1. i \in 1..Len(stack[u]) /\ stack'[u][i].thrown = stack[u][i].thrown /\ stack'[u][i].job = stack[u][i].job
      BY <1>2, <1>5, <1>9, ChangePlaces
    <3> QED
      BY <1>1, <2>2, <3>1 DEF PoolInv, ErrorsOK
  <2>3. ASSUME NEW k \in Jobs, failed'[k] PROVE Thrower(threw', CallOf[k])
    <3>1. CASE failed[k]
      BY <1>1, <3>1 DEF PoolInv, ErrorsOK
    <3>2. CASE ~failed[k]
      <4>1. k = par /\ Failed(g)
        BY <1>1, <1>4, <2>3, <3>2 DEF PoolInv, PoolTypes
      <4>2. Thrower(threw, CallOf[g.job])
        BY <1>2, <1>7, <4>1 DEF PoolInv, ErrorsOK
      <4> QED
        BY <1>1, <1>4, <4>1, <4>2
    <3> QED
      BY <3>1, <3>2
  <2>4. \A c \in Callers : result'[c] = "failed" => Thrower(threw', c)
    BY <1>1 DEF PoolInv, ErrorsOK
  <2> QED
    BY <2>1, <2>2, <2>3, <2>4 DEF ErrorsOK
<1> QED
  BY <1>12, <1>13, <1>14, <1>17, <1>18, <1>20, <1>21, <1>22 DEF PoolInv

\* A routine that is taken off its stack leaves the places of the others, and
\* no worker falls asleep over it.
LEMMA PopKeeps ==
  ASSUME PoolInv, NEW t \in Threads, Popped(stack, stack', t), UNCHANGED <<queue, running, asleep, threw>>
  PROVE  /\ PlacesOK' /\ SleepOK'
         /\ \A u \in Threads : \A i \in 1..Len(stack'[u]) :
              stack'[u][i].thrown => Thrower(threw', CallOf[stack'[u][i].job])
<1>1. StacksUnique(stack') /\ Shape(stack')
  BY PopUnique, PopShape DEF PoolInv, PlacesOK
<1>2. Apart(queue, stack')
  <2>1. \A j : OnStack(stack', j) => OnStack(stack, j)
    BY PopEffects DEF OnStack, PoolInv, PlacesOK
  <2> QED
    BY <2>1 DEF PoolInv, PlacesOK, Apart
<1>3. PlacesOK'
  BY <1>1, <1>2 DEF PoolInv, PlacesOK
<1>4. SleepOK'
  <2>1. \A u \in Threads : stack[u] = << >> => stack'[u] = << >>
    BY PopEmpty
  <2>2. /\ asleep \subseteq Workers /\ \A w \in asleep : stack[w] = << >>
        /\ running /\ asleep # {} => Len(queue) <= Cardinality(Awake(asleep, stack))
        /\ Len(queue) \in Nat
    BY DEF PoolInv, PoolTypes, SleepOK, Awake
  <2>3. Awake(asleep, stack) \subseteq Awake(asleep, stack')
    BY <2>1 DEF Awake, Threads
  <2>4. Cardinality(Awake(asleep, stack)) <= Cardinality(Awake(asleep, stack'))
    BY <2>3, AwakeFinite, FS_Subset
  <2>5. running /\ asleep # {} => Len(queue) <= Cardinality(Awake(asleep, stack'))
    BY <2>2, <2>4, AwakeFinite
  <2>6. \A w \in asleep : stack'[w] = << >>
    BY <2>1, <2>2 DEF Threads
  <2> QED
    BY <2>5, <2>6 DEF SleepOK, Awake
<1>5. ASSUME NEW u \in Threads, NEW i \in 1..Len(stack'[u]), stack'[u][i].thrown
      PROVE  Thrower(threw', CallOf[stack'[u][i].job])
  <2>1. i \in 1..Len(stack[u]) /\ stack'[u][i] = stack[u][i]
    BY PopPlaces
  <2> QED
    BY <1>5, <2>1 DEF PoolInv, ErrorsOK
<1> QED
  BY <1>3, <1>4, <1>5

\* run() leaves the job behind and looks for the next one.
LEMMA LeaveKeeps ==
  ASSUME PoolInv, NEW t \in Threads, Leave(t)
  PROVE  PoolInv'
<1> DEFINE g == Cur(t)
<1>1. /\ stack[t] # << >> /\ g.pc = "leave" /\ active' = active - 1
      /\ stack' = [stack EXCEPT ![t] = Pop(@)]
      /\ UNCHANGED <<queue, running, asleep, exited, num, failed, result, threw>>
  BY DEF Leave, In, Cur
<1>2. /\ g = stack[t][Len(stack[t])] /\ g.job \in Jobs /\ Len(stack[t]) \in 1..Len(stack[t])
      /\ Len(stack[t]) \in Nat \ {0}
      /\ FrameOK(stack[t], t, Len(stack[t])) /\ g.by \in Bys
  BY <1>1, CurFacts
<1>3. /\ g.by = "run" /\ (Len(stack[t]) > 1 => stack[t][Len(stack[t]) - 1].pc = "flush")
      /\ ~(t \in Callers /\ Len(stack[t]) = 1)
  BY <1>1, <1>2 DEF FrameOK, Bys
<1>4. Popped(stack, stack', t)
  BY <1>1, PopPops DEF PoolInv, PoolTypes
<1>5. /\ \A bs, pcs : Held(stack, g.job, bs, pcs) <=> "run" \in bs /\ "leave" \in pcs
  BY <1>1, <1>3, OnlyThere
<1> HIDE DEF g
<1>6. PlacesOK' /\ SleepOK' /\ \A u \in Threads : \A i \in 1..Len(stack'[u]) :
         stack'[u][i].thrown => Thrower(threw', CallOf[stack'[u][i].job])
  BY <1>1, <1>4, PopKeeps
<1>7. \A j : /\ Unfinished(stack', j) <=> Unfinished(stack, j)
             /\ UnfinishedRun(stack', j) <=> UnfinishedRun(stack, j)
             /\ OnRun(stack', j) <=> OnRun(stack, j) /\ j # g.job
  <2>1. ~Unfinished(stack, g.job) /\ ~UnfinishedRun(stack, g.job)
    BY <1>5 DEF Unfinished, UnfinishedRun, Going
  <2> QED
    BY <1>2, <1>4, <2>1, PopEffects DEF Unfinished, UnfinishedRun, OnRun, PoolInv, PlacesOK
<1>8. PoolTypes'
  BY <1>1, <1>4 DEF PoolInv, PoolTypes, Popped
<1>9. BegunOK'
  <2>1. PICK B \in SUBSET Jobs : Begun(B, queue, stack, result)
    BY DEF PoolInv, BegunOK
  <2>2. Len(stack[t]) > 1 => stack[t][Len(stack[t]) - 1].pc # "body"
    BY <1>3
  <2>3. StacksUnique(stack)
    BY DEF PoolInv, PlacesOK
  <2>4. Begun(B, queue, stack', result)
    BY <1>3, <1>4, <2>1, <2>2, <2>3, BegunPop
  <2> QED
    BY <1>1, <2>4 DEF BegunOK
<1>10. \A k \in Jobs : Counts(k, queue', stack') = Counts(k, queue, stack)
  BY <1>1, <1>7 DEF Counts
<1>11. CountsOK'
  <2>1. OnRun(stack, g.job)
    BY <1>5 DEF OnRun, Going
  <2>2. {j \in Jobs : OnRun(stack', j)} = {j \in Jobs : OnRun(stack, j)} \ {g.job}
    BY <1>7
  <2>3. Cardinality({j \in Jobs : OnRun(stack', j)}) = Cardinality({j \in Jobs : OnRun(stack, j)}) - 1
    BY <1>2, <2>1, <2>2, CountsFinite, FS_RemoveElement, ZenonT(60)
  <2> QED
    BY <1>1, <1>10, <2>3 DEF PoolInv, CountsOK
<1>12. AliveOK'
  BY <1>7, <1>10 DEF PoolInv, AliveOK
<1>13. ReturnedOK'
  BY <1>1, <1>4, PopEmpty DEF PoolInv, ReturnedOK, Threads
<1>14. ErrorsOK'
  <2>1. ASSUME NEW j \in threw \ Detached, result[CallOf[j]] # "failed" PROVE Carried(stack', failed, CallOf[j])
    <3>1. Carried(stack, failed, CallOf[j])
      BY <2>1 DEF PoolInv, ErrorsOK
    <3> QED
      BY <1>1, <1>2, <1>4, <3>1, CarriedPop
  <2> QED
    BY <1>1, <1>6, <2>1 DEF PoolInv, ErrorsOK
<1> QED
  BY <1>6, <1>8, <1>9, <1>11, <1>12, <1>13, <1>14 DEF PoolInv

\* A caller gets its result when nobody counts on its routine any more.
LEMMA EndCallKeeps ==
  ASSUME PoolInv, NEW t \in Threads, EndCall(t)
  PROVE  PoolInv'
<1> DEFINE g == Cur(t)
<1>1. /\ stack[t] # << >> /\ g.pc = "block" /\ g.by = "call" /\ WaitReturns(t)
      /\ result' = [result EXCEPT ![t] = IF Failed(g) THEN "failed" ELSE "ok"]
      /\ stack' = [stack EXCEPT ![t] = << >>]
      /\ UNCHANGED <<queue, active, running, asleep, exited, num, failed, threw>>
  BY DEF EndCall, In, Cur
<1>2. /\ g = stack[t][Len(stack[t])] /\ g.job \in Jobs /\ Len(stack[t]) \in 1..Len(stack[t])
      /\ FrameOK(stack[t], t, Len(stack[t])) /\ g.by \in Bys
  BY <1>1, CurFacts
<1>3. /\ t \in Callers /\ Len(stack[t]) = 1 /\ g.job = Top(t)
  BY <1>1, <1>2 DEF FrameOK
<1>4. CallOf[g.job] = t
  BY <1>3, TopFacts
<1>5. Failed(g) <=> g.thrown \/ failed[g.job]
  BY DEF Failed
<1>6. \A bs, pcs : Held(stack, g.job, bs, pcs) <=> "call" \in bs /\ "block" \in pcs
  BY <1>1, OnlyThere
<1>7. Counts(g.job, queue, stack) = {}
  BY <1>1, WaitOver
<1> HIDE DEF g
<1>8. Popped(stack, stack', t)
  <2>1. stack \in [Threads -> Seq(Frame)] /\ stack[t] # << >>
    BY <1>1 DEF PoolInv, PoolTypes
  <2>2. << >> \in Seq(Frame) /\ Len(<< >>) = 0
    OBVIOUS
  <2>3. stack' \in [Threads -> Seq(Frame)] /\ stack'[t] = << >> /\ \A u \in Threads : u # t => stack'[u] = stack[u]
    BY <1>1, <2>1, <2>2
  <2>4. Len(stack'[t]) = Len(stack[t]) - 1 /\ \A i \in 1..Len(stack[t]) - 1 : stack'[t][i] = stack[t][i]
    BY <1>3, <2>2, <2>3
  <2> QED
    BY <2>1, <2>3, <2>4 DEF Popped
<1>9. /\ result'[t] = (IF Failed(g) THEN "failed" ELSE "ok") /\ \A u \in Callers : u # t => result'[u] = result[u]
      /\ result' \in [Callers -> {"none", "ok", "failed"}] /\ stack'[t] = << >>
  BY <1>1, <1>3 DEF PoolInv, PoolTypes
<1>10. PlacesOK' /\ SleepOK' /\ \A u \in Threads : \A i \in 1..Len(stack'[u]) :
         stack'[u][i].thrown => Thrower(threw', CallOf[stack'[u][i].job])
  BY <1>1, <1>8, PopKeeps
<1>11. UNCHANGED <<queue, active, running, asleep, exited, num, failed, threw>>
  BY <1>1
<1>12. \A j : /\ Unfinished(stack', j) <=> Unfinished(stack, j) /\ j # g.job
              /\ UnfinishedRun(stack', j) <=> UnfinishedRun(stack, j)
              /\ OnRun(stack', j) <=> OnRun(stack, j)
  <2>1. ~OnRun(stack, g.job) /\ ~UnfinishedRun(stack, g.job)
    BY <1>6 DEF OnRun, UnfinishedRun, Going
  <2> QED
    BY <1>2, <1>8, <2>1, PopEffects DEF Unfinished, UnfinishedRun, OnRun, PoolInv, PlacesOK
<1>13. PoolTypes'
  BY <1>8, <1>9, <1>11 DEF PoolInv, PoolTypes, Popped
<1>14. BegunOK'
  <2>1. PICK B \in SUBSET Jobs : Begun(B, queue, stack, result)
    BY DEF PoolInv, BegunOK
  <2>2. ~(Len(stack[t]) > 1) /\ result'[t] # "none"
    BY <1>3, <1>9
  <2>3. StacksUnique(stack)
    BY DEF PoolInv, PlacesOK
  <2>4. Begun(B, queue, stack', result')
    BY <1>8, <1>9, <2>1, <2>2, <2>3, BegunPop
  <2> QED
    BY <1>11, <2>4 DEF BegunOK
<1>15. \A k \in Jobs : Counts(k, queue', stack') = Counts(k, queue, stack)
  BY <1>11, <1>12 DEF Counts
<1>16. CountsOK'
  <2>1. {j \in Jobs : OnRun(stack', j)} = {j \in Jobs : OnRun(stack, j)}
    BY <1>12
  <2> QED
    BY <1>11, <1>15, <2>1 DEF PoolInv, CountsOK
<1>17. AliveOK'
  <2> SUFFICES ASSUME NEW l \in Jobs, NEW j \in Counts(l, queue', stack') PROVE Unfinished(stack', l)
    BY DEF AliveOK
  <2>1. j \in Counts(l, queue, stack) /\ l # g.job
    BY <1>7, <1>15
  <2> QED
    BY <1>12, <2>1 DEF PoolInv, AliveOK
<1>18. ReturnedOK'
  BY <1>8, <1>9, PopEmpty DEF PoolInv, ReturnedOK, Threads
<1>19. ErrorsOK'
  <2>1. ASSUME NEW j \in threw \ Detached
        PROVE  result'[CallOf[j]] = "failed" \/ Carried(stack', failed, CallOf[j])
    <3>0. CallOf[j] \in Callers
      BY PoolAssumption DEF PoolInv, PoolTypes
    <3>1. CASE CallOf[j] = t /\ Failed(g)
      BY <1>9, <3>1
    <3>2. CASE result[CallOf[j]] = "failed" /\ CallOf[j] # t
      BY <1>9, <3>0, <3>2
    <3>3. CASE result[CallOf[j]] = "failed" /\ CallOf[j] = t
      BY <1>1, <3>0, <3>3 DEF PoolInv, ReturnedOK
    <3>4. CASE result[CallOf[j]] # "failed" /\ ~(CallOf[j] = t /\ Failed(g))
      <4>1. Carried(stack, failed, CallOf[j])
        BY <3>4 DEF PoolInv, ErrorsOK
      <4> QED
        BY <1>2, <1>4, <1>5, <1>8, <3>4, <4>1, CarriedPop
    <3> QED
      BY <3>1, <3>2, <3>3, <3>4
  <2>2. ASSUME NEW c \in Callers, result'[c] = "failed" PROVE Thrower(threw, c)
    <3>1. CASE c # t
      BY <1>9, <2>2, <3>1 DEF PoolInv, ErrorsOK
    <3>2. CASE c = t
      <4>1. g.thrown \/ failed[g.job]
        BY <1>5, <1>9, <2>2, <3>2
      <4> QED
        BY <1>2, <1>4, <3>2, <4>1 DEF PoolInv, ErrorsOK
    <3> QED
      BY <3>1, <3>2
  <2> QED
    BY <1>10, <1>11, <2>1, <2>2 DEF PoolInv, ErrorsOK
<1> QED
  BY <1>10, <1>13, <1>14, <1>16, <1>17, <1>18, <1>19 DEF PoolInv

\* ... and so does one that submit() returns to.
LEMMA BegunReturn ==
  ASSUME NEW B, NEW qs, NEW st, NEW mid, NEW st2, NEW res, NEW t, NEW f, Begun(B, qs, st, res), StacksUnique(st),
         Popped(st, mid, t), Changed(mid, st2, t, f), \A j \in Jobs : OnStack(st2, j) => OnStack(st, j),
         f.job = st[t][Len(st[t]) - 1].job, st[t][Len(st[t]) - 1].pc = "body",
         f.pc # "body" \/ f.at = st[t][Len(st[t]) - 1].at + 1
  PROVE  Begun(B, qs, st2, res)
<1> DEFINE n == Len(st[t])
           b == st[t][n - 1]
<1>1. /\ t \in Threads /\ n \in Nat /\ Len(mid[t]) = n - 1 /\ Len(mid[t]) >= 1 /\ Len(st2[t]) = n - 1
      /\ \A i \in 1..n - 1 : mid[t][i] = st[t][i]
      /\ \A i \in 1..(n - 1) - 1 : st2[t][i] = mid[t][i]
      /\ st2[t][n - 1] = f /\ \A u \in Threads : u # t => st2[u] = st[u]
  <2>1. Len(mid[t]) \in Nat /\ Len(mid[t]) >= 1
    BY ChangePlaces
  <2>2. n \in Nat \ {0}
    BY PopPlaces
  <2> QED
    BY <2>1, <2>2 DEF Popped, Changed
<1>2. n - 1 \in 1..n /\ n - 1 # n /\ b.at \in Nat
  <2>0. Len(mid[t]) >= 1 /\ Len(mid[t]) = n - 1 /\ n \in Nat
    BY <1>1
  <2>1. n - 1 \in 1..n /\ n - 1 # n
    <3> HIDE DEF n
    <3> QED
      BY <2>0
  <2>2. b \in Frame
    BY <1>1, <2>1 DEF Popped
  <2> QED
    BY <2>1, <2>2 DEF Frame
<1>3. /\ f.job = b.job /\ (f.pc # "body" \/ f.at = b.at + 1) /\ b.pc = "body"
  OBVIOUS
<1>4. Unsubmitted(B, st[t], n - 1)
  BY <1>1, <1>2 DEF Begun, BodiesFresh
<1> HIDE DEF n, b
<1>5. ASSUME NEW u \in Threads, NEW i \in 1..Len(st2[u]) PROVE Unsubmitted(B, st2[u], i)
  <2>1. CASE u # t
    BY <1>1, <2>1 DEF Begun, BodiesFresh
  <2>2. CASE u = t /\ i = n - 1
    <3>1. st2[u][i] = f
      BY <1>1, <2>2
    <3>2. ASSUME f.pc = "body", NEW m \in f.at..Len(Subs[f.job]) PROVE Subs[f.job][m] \notin B
      <4>1. f.at = b.at + 1 /\ Subs[f.job] \in Seq(Jobs)
        <5>1. f.job \in Jobs
          BY DEF Changed, Frame
        <5> QED
          BY <1>3, <3>2, <5>1, PoolAssumption
      <4>2. m \in b.at..Len(Subs[b.job]) /\ m > b.at
        BY <1>2, <1>3, <3>2, <4>1
      <4> QED
        BY <1>3, <1>4, <4>2 DEF Unsubmitted, b
    <3> QED
      BY <3>1, <3>2 DEF Unsubmitted
  <2>3. CASE u = t /\ i # n - 1
    <3>1. i \in 1..(n - 1) - 1
      BY <1>1, <2>3
    <3>2. /\ st2[t][i] = st[t][i] /\ i \in 1..n /\ i # n /\ Len(st[t]) = n
      BY <1>1, <3>1 DEF n
    <3>3. Unsubmitted(B, st[t], i)
      BY <1>1, <3>2 DEF Begun, BodiesFresh
    <3> QED
      BY <1>1, <2>3, <3>2, <3>3 DEF Unsubmitted
  <2> QED
    BY <2>1, <2>2, <2>3
<1>6. \A u \in Callers : st2[u] = << >> => st[u] = << >>
  <2>1. st2[t] # << >>
    BY ChangeEmpty
  <2> QED
    BY <1>1, <2>1 DEF Threads
<1> QED
  BY <1>5, <1>6 DEF Begun, Reached, BodiesFresh, CallsFresh

\* submit() returns or throws into the body that called it.
LEMMA EndInlineKeeps ==
  ASSUME PoolInv, NEW t \in Threads, EndInline(t)
  PROVE  PoolInv'
<1> DEFINE g == Cur(t)
           n == Len(stack[t])
           b == stack[t][n - 1]
           f == InlineReturns(b, g)
           mid == [stack EXCEPT ![t] = Pop(@)]
<1>1. /\ stack[t] # << >> /\ g.pc = "block" /\ g.by = "inline" /\ WaitReturns(t)
      /\ stack' = [stack EXCEPT ![t] = [Pop(stack[t]) EXCEPT ![Len(Pop(stack[t]))] = InlineReturns(@, g)]]
      /\ UNCHANGED <<queue, active, running, asleep, exited, num, failed, result, threw>>
  BY DEF EndInline, In, Cur
<1>2. /\ g = stack[t][n] /\ g.job \in Jobs /\ n \in 1..n /\ n \in Nat
      /\ FrameOK(stack[t], t, n) /\ stack \in [Threads -> Seq(Frame)]
  BY <1>1, CurFacts DEF PoolInv, PoolTypes
<1>3. n > 1 /\ b.pc = "body" /\ b.at <= Len(Subs[b.job]) /\ g.job = Subs[b.job][b.at]
  BY <1>1, <1>2 DEF FrameOK
<1>4. n - 1 \in 1..n /\ n - 1 # n
  BY <1>2, <1>3
<1>5. b \in Frame /\ b.job \in Jobs /\ b.at \in Nat /\ b.at \in 1..Len(Subs[b.job]) + 1 /\ Len(Subs[b.job]) \in Nat
      /\ FrameOK(stack[t], t, n - 1)
  BY <1>4, PlaceFacts
<1>6. Child(b.job, g.job) /\ b.job \notin Detached /\ CallOf[g.job] = CallOf[b.job] /\ b.job # g.job
  <2>1. Child(b.job, g.job)
    BY <1>3, <1>5 DEF Child
  <2>2. b.job # g.job
    BY <1>2, <1>4 DEF PoolInv, PlacesOK, StacksUnique
  <2> QED
    BY <1>5, <2>1, <2>2, ChildFacts
<1>7. /\ f \in Frame /\ f.job = b.job /\ f.by = b.by /\ f.pc \in Going /\ f.pc # "leave"
      /\ f.at \in 1..Len(Subs[f.job]) + 1 /\ (f.pc # "body" \/ f.at = b.at + 1)
      /\ f.thrown <=> b.thrown \/ Failed(g)
  <2>1. WaitsFrom(b.job) \in {"flush", "block"}
    BY DEF WaitsFrom
  <2>2. CASE Failed(g)
    <3>1. f = [b EXCEPT !.pc = WaitsFrom(b.job), !.thrown = TRUE]
      BY <2>2 DEF InlineReturns
    <3> HIDE DEF b, f, g
    <3>2. f \in Frame /\ f.job = b.job /\ f.by = b.by /\ f.at = b.at /\ f.pc = WaitsFrom(b.job) /\ f.thrown
      BY <1>5, <2>1, <3>1 DEF Frame
    <3> QED
      BY <1>5, <2>1, <2>2, <3>2 DEF Going
  <2>3. CASE ~Failed(g)
    <3>1. f = [b EXCEPT !.at = b.at + 1]
      BY <2>3 DEF InlineReturns
    <3> HIDE DEF b, f, g
    <3>2. f \in Frame /\ f.job = b.job /\ f.by = b.by /\ f.at = b.at + 1 /\ f.pc = b.pc /\ f.thrown = b.thrown
      BY <1>5, <3>1 DEF Frame
    <3> QED
      BY <1>3, <1>5, <2>3, <3>2 DEF Going
  <2> QED
    BY <2>2, <2>3
<1>8. Failed(g) <=> g.thrown \/ failed[g.job]
  BY DEF Failed
<1>9. \A bs, pcs : Held(stack, g.job, bs, pcs) <=> "inline" \in bs /\ "block" \in pcs
  BY <1>1, OnlyThere
<1>10. Counts(g.job, queue, stack) = {}
  BY <1>1, WaitOver
<1>11. Popped(stack, mid, t) /\ Changed(mid, stack', t, f)
  <2>1. Popped(stack, mid, t)
    BY <1>1, <1>2, PopPops
  <2>2. mid[t] = Pop(stack[t]) /\ mid \in [Threads -> Seq(Frame)] /\ Len(mid[t]) = n - 1 /\ mid[t][n - 1] = b
    <3>1. mid[t] = Pop(stack[t])
      BY <1>2
    <3> HIDE DEF mid
    <3>2. n - 1 \in 1..Len(stack[t]) - 1
      BY <1>2, <1>3
    <3> QED
      BY <2>1, <3>1, <3>2 DEF Popped
  <2>3. stack' = [mid EXCEPT ![t][Len(mid[t])] = f]
    <3>1. stack' = [stack EXCEPT ![t] = [mid[t] EXCEPT ![n - 1] = InlineReturns(@, g)]]
      BY <1>1, <2>2
    <3>2. [mid[t] EXCEPT ![n - 1] = InlineReturns(@, g)] = [mid[t] EXCEPT ![n - 1] = f]
      BY <2>2
    <3>3. stack' = [stack EXCEPT ![t] = [mid[t] EXCEPT ![n - 1] = f]]
      BY <3>1, <3>2
    <3>4. \A s : [stack EXCEPT ![t] = s] = [mid EXCEPT ![t] = s]
      BY <1>2
    <3>5. [mid EXCEPT ![t][Len(mid[t])] = f] = [mid EXCEPT ![t] = [mid[t] EXCEPT ![n - 1] = f]]
      BY <2>2
    <3> QED
      BY <3>3, <3>4, <3>5
  <2>4. mid[t] # << >>
    BY <1>3, <2>2
  <2>5. Changed(mid, [mid EXCEPT ![t][Len(mid[t])] = f], t, f)
    <3> HIDE DEF mid, f
    <3> QED
      BY <1>7, <2>2, <2>4, SetChanges
  <2> QED
    BY <2>1, <2>3, <2>5
<1>12. Len(mid[t]) = n - 1 /\ mid[t][Len(mid[t])] = b
  <2>1. n - 1 \in 1..Len(stack[t]) - 1
    BY <1>2, <1>3
  <2>2. Popped(stack, mid, t)
    BY <1>11
  <2> HIDE DEF mid
  <2> QED
    BY <2>1, <2>2 DEF Popped
<1>13. UNCHANGED <<queue, active, running, asleep, exited, num, failed, result, threw>>
  BY <1>1
<1>14. n = Len(stack[t]) /\ b = stack[t][n - 1]
  OBVIOUS
<1> HIDE DEF g, n, b, f, mid
<1>15. StacksUnique(stack) /\ Shape(stack)
  BY DEF PoolInv, PlacesOK
<1>16. ASSUME NEW j, NEW bs, NEW pcs, Going \subseteq pcs
       PROVE  Held(stack', j, bs, pcs) <=> Held(stack, j, bs, pcs) /\ j # g.job
  <2>1. Held(mid, j, bs, pcs) <=> Held(stack, j, bs, pcs) /\ j # g.job
    BY <1>2, <1>11, <1>14, <1>15, PopEffects
  <2>2. f.pc \in pcs /\ b.pc \in pcs
    BY <1>3, <1>7, <1>16 DEF Going
  <2>3. Held(stack', j, bs, pcs) <=> Held(mid, j, bs, pcs)
    BY <1>7, <1>11, <1>12, <2>2, ChangeEffects
  <2> QED
    BY <2>1, <2>3
<1>17. \A j : /\ OnStack(stack', j) => OnStack(stack, j)
              /\ OnRun(stack', j) <=> OnRun(stack, j)
              /\ Unfinished(stack', j) <=> Unfinished(stack, j) /\ j # g.job
              /\ UnfinishedRun(stack', j) <=> UnfinishedRun(stack, j)
  <2>1. ~OnRun(stack, g.job) /\ ~UnfinishedRun(stack, g.job)
    BY <1>9 DEF OnRun, UnfinishedRun
  <2> QED
    BY <1>16, <2>1 DEF OnStack, OnRun, Unfinished, UnfinishedRun
<1>18. PoolTypes'
  BY <1>11, <1>13 DEF PoolInv, PoolTypes, Changed
<1>19. PlacesOK'
  <2>1. StacksUnique(stack')
    <3>1. StacksUnique(mid)
      BY <1>11, <1>15, PopUnique
    <3> QED
      BY <1>7, <1>11, <1>12, <3>1, ChangeUnique
  <2>2. Shape(stack')
    <3>1. Shape(mid)
      BY <1>11, <1>15, PopShape
    <3> QED
      BY <1>7, <1>11, <1>12, <3>1, ChangeShape
  <2>3. Apart(queue, stack')
    BY <1>17 DEF PoolInv, PlacesOK, Apart
  <2> QED
    BY <1>13, <2>1, <2>2, <2>3 DEF PoolInv, PlacesOK
<1>20. BegunOK'
  <2>1. PICK B \in SUBSET Jobs : Begun(B, queue, stack, result)
    BY DEF PoolInv, BegunOK
  <2>2. f.job = stack[t][Len(stack[t]) - 1].job /\ stack[t][Len(stack[t]) - 1].pc = "body"
        /\ (f.pc # "body" \/ f.at = stack[t][Len(stack[t]) - 1].at + 1)
    BY <1>3, <1>7, <1>14
  <2>3. Begun(B, queue, stack', result)
    BY <1>11, <1>15, <1>17, <2>1, <2>2, BegunReturn
  <2> QED
    BY <1>13, <2>3 DEF BegunOK
<1>21. \A k \in Jobs : Counts(k, queue', stack') = Counts(k, queue, stack)
  BY <1>13, <1>17 DEF Counts
<1>22. CountsOK'
  <2>1. {j \in Jobs : OnRun(stack', j)} = {j \in Jobs : OnRun(stack, j)}
    BY <1>17
  <2> QED
    BY <1>13, <1>21, <2>1 DEF PoolInv, CountsOK
<1>23. AliveOK'
  <2> SUFFICES ASSUME NEW l \in Jobs, NEW j \in Counts(l, queue', stack') PROVE Unfinished(stack', l)
    BY DEF AliveOK
  <2>1. j \in Counts(l, queue, stack) /\ l # g.job
    BY <1>10, <1>21
  <2> QED
    BY <1>17, <2>1 DEF PoolInv, AliveOK
<1>24. \A u \in Threads : stack'[u] = << >> <=> stack[u] = << >>
  <2>1. stack'[t] # << >> /\ stack[t] # << >>
    BY <1>11, ChangeEmpty, PopEmpty
  <2> QED
    BY <1>11, <2>1 DEF Popped, Changed
<1>25. ReturnedOK'
  BY <1>13, <1>24 DEF PoolInv, ReturnedOK, Threads
<1>26. SleepOK'
  <2>1. Awake(asleep, stack') = Awake(asleep, stack) /\ asleep \subseteq Threads
    BY <1>24 DEF Awake, Threads, PoolInv, PoolTypes
  <2> QED
    BY <1>13, <1>24, <2>1 DEF PoolInv, SleepOK, Awake
<1>27. ErrorsOK'
  <2>1. ASSUME NEW j \in threw \ Detached
        PROVE  result[CallOf[j]] = "failed" \/ Carried(stack', failed, CallOf[j])
    <3>1. CASE result[CallOf[j]] = "failed"
      BY <3>1
    <3>2. CASE Carried(stack, failed, CallOf[j])
      <4>1. \/ Carried(mid, failed, CallOf[j])
            \/ CallOf[g.job] = CallOf[j] /\ (g.thrown \/ failed[g.job])
        BY <1>2, <1>11, <1>14, <3>2, CarriedPop
      <4>2. CASE Carried(mid, failed, CallOf[j])
        BY <1>7, <1>11, <1>12, <4>2, CarriedChange
      <4>3. CASE CallOf[g.job] = CallOf[j] /\ (g.thrown \/ failed[g.job])
        <5>1. f.thrown /\ f.pc # "leave" /\ f.job \notin Detached /\ CallOf[f.job] = CallOf[j]
          BY <1>6, <1>7, <1>8, <4>3
        <5>2. Len(mid[t]) \in 1..Len(stack'[t]) /\ stack'[t][Len(mid[t])] = f
          BY <1>11, ChangePlaces
        <5> QED
          BY <5>1, <5>2 DEF Carried
      <4> QED
        BY <4>1, <4>2, <4>3
    <3> QED
      BY <3>1, <3>2 DEF PoolInv, ErrorsOK
  <2>2. ASSUME NEW u \in Threads, NEW i \in 1..Len(stack'[u]), stack'[u][i].thrown
        PROVE  Thrower(threw, CallOf[stack'[u][i].job])
    <3>1. i \in 1..Len(mid[u]) /\ (mid[u][i] = stack'[u][i] \/ (u = t /\ i = Len(mid[t]) /\ stack'[u][i] = f))
      BY <1>11, ChangePlaces
    <3>2. i \in 1..Len(stack[u]) /\ mid[u][i] = stack[u][i]
      BY <1>11, <3>1, PopPlaces
    <3>3. CASE mid[u][i] = stack'[u][i]
      BY <2>2, <3>2, <3>3 DEF PoolInv, ErrorsOK
    <3>4. CASE u = t /\ i = Len(mid[t]) /\ stack'[u][i] = f
      <4>1. b = stack[t][i] /\ i \in 1..Len(stack[t])
        BY <1>12, <3>2, <3>4
      <4>2. b.thrown \/ g.thrown \/ failed[g.job]
        BY <1>7, <1>8, <2>2, <3>4
      <4>3. b.thrown => Thrower(threw, CallOf[b.job])
        BY <4>1 DEF PoolInv, ErrorsOK
      <4>4. g.thrown \/ failed[g.job] => Thrower(threw, CallOf[g.job])
        BY <1>2, <1>14 DEF PoolInv, ErrorsOK
      <4> QED
        BY <1>6, <1>7, <3>4, <4>2, <4>3, <4>4
    <3> QED
      BY <3>1, <3>3, <3>4
  <2> QED
    BY <1>13, <2>1, <2>2 DEF PoolInv, ErrorsOK
<1> QED
  BY <1>18, <1>19, <1>20, <1>22, <1>23, <1>25, <1>26, <1>27 DEF PoolInv

\* The pool starts with nothing begun.
LEMMA PoolStarts ==
  ASSUME PoolInit
  PROVE  PoolInv
<1>1. /\ queue = << >> /\ active = 0 /\ running = TRUE /\ asleep = {} /\ exited = {}
      /\ stack = [t \in Threads |-> << >>]
      /\ num = [j \in Jobs |-> 0] /\ failed = [j \in Jobs |-> FALSE]
      /\ result = [t \in Callers |-> "none"] /\ threw = {}
  BY DEF PoolInit
<1>2. queue \in Seq(Jobs) /\ stack \in [Threads -> Seq(Frame)]
  <2>1. << >> \in Seq(Jobs) /\ << >> \in Seq(Frame)
    OBVIOUS
  <2> QED
    BY <1>1, <2>1
<1>3. PoolTypes
  BY <1>1, <1>2 DEF PoolTypes
<1>4. /\ \A t \in Threads : stack[t] = << >> /\ 1..Len(stack[t]) = {}
      /\ 1..Len(queue) = {}
  BY <1>1
<1>5. /\ \A j : ~InQueue(queue, j)
      /\ \A j, bs, pcs : ~Held(stack, j, bs, pcs)
  BY <1>4 DEF InQueue, Held
<1>6. PlacesOK
  BY <1>4, <1>5 DEF PlacesOK, QueueUnique, StacksUnique, Apart, Shape, OnStack
<1>7. BegunOK
  <2>1. Rooted({})
    BY DEF Rooted
  <2>2. Begun({}, queue, stack, result)
    BY <1>4, <1>5, <2>1 DEF Begun, Reached, QueueFresh, BodiesFresh, CallsFresh, OnStack, QueueFresh
  <2> QED
    BY <2>2 DEF BegunOK
<1>8. CountsOK
  <2>1. \A k \in Jobs : Counts(k, queue, stack) = {}
    BY <1>5 DEF Counts, UnfinishedRun
  <2>2. {j \in Jobs : OnRun(stack, j)} = {}
    BY <1>5 DEF OnRun
  <2> QED
    BY <1>1, <2>1, <2>2, FS_EmptySet DEF CountsOK
<1>9. AliveOK
  BY <1>5 DEF AliveOK, Counts, UnfinishedRun
<1>10. ReturnedOK /\ SleepOK
  BY <1>1 DEF ReturnedOK, SleepOK
<1>11. ErrorsOK
  BY <1>1, <1>4 DEF ErrorsOK
<1> QED
  BY <1>3, <1>6, <1>7, <1>8, <1>9, <1>10, <1>11 DEF PoolInv

\* Every step of every thread keeps the invariant.
LEMMA PoolInductive ==
  ASSUME PoolInv, [PoolNext]_poolVars
  PROVE  PoolInv'
<1>1. CASE UNCHANGED poolVars
  <2>1. UNCHANGED <<queue, active, running, asleep, exited, stack, num, failed, result, threw>>
    BY <1>1 DEF poolVars
  <2>2. SleepOK' /\ running' \in BOOLEAN /\ asleep' \subseteq Workers /\ exited' \subseteq Workers
    BY <2>1 DEF PoolInv, PoolTypes, SleepOK
  <2> QED
    BY <2>1, <2>2, StillKeeps
<1>2. ASSUME NEW t \in Threads, PoolStep(t) PROVE PoolInv'
  <2>1. CASE Submit(t)
    <3>1. \/ Push(t, Enter(Subs[Cur(t).job][Cur(t).at], "inline")) /\ UNCHANGED <<queue, asleep, num>>
          \/ LET f == Cur(t)
                 s == Subs[f.job][f.at]
             IN  /\ Inc(f.job, s)
                 /\ queue' = IF s \in Leaf THEN <<s>> \o queue ELSE Append(queue, s)
                 /\ Wake
                 /\ SetCur(t, [f EXCEPT !.at = @ + 1])
      BY <2>1 DEF Submit
    <3> QED
      BY <2>1, <3>1, SubmitInlineKeeps, SubmitQueueKeeps
  <2>2. CASE StartWait(t) \/ Throw(t) \/ Flushed(t)
    BY <2>2, StartWaitKeeps
  <2>3. CASE Take(t)
    BY <2>3, TakeKeeps
  <2>4. CASE Sleep(t) \/ Exit(t)
    BY <2>4, SleepKeeps
  <2>5. CASE EndRun(t)
    BY <2>5, EndRunKeeps
  <2>6. CASE EndInline(t)
    BY <2>6, EndInlineKeeps
  <2>7. CASE EndCall(t)
    BY <2>7, EndCallKeeps
  <2>8. CASE Leave(t)
    BY <2>8, LeaveKeeps
  <2> QED
    BY <1>2, <2>1, <2>2, <2>3, <2>4, <2>5, <2>6, <2>7, <2>8 DEF PoolStep
<1>3. ASSUME NEW t \in Callers, Call(t) PROVE PoolInv'
  BY <1>3, CallKeeps
<1>4. CASE (\E t \in Workers : Spurious(t)) \/ Destroy \/ Joined
  BY <1>4, SleepKeeps
<1> QED
  BY <1>1, <1>2, <1>3, <1>4 DEF PoolNext

\* Whatever the threads, the jobs and the order of the steps, the pool keeps
\* its invariant.
THEOREM PoolInvariant == PoolSpec => []PoolInv
<1>1. PoolInit => PoolInv
  BY PoolStarts
<1>2. PoolInv /\ [PoolNext]_poolVars => PoolInv'
  BY PoolInductive
<1> QED
  BY <1>1, <1>2, PTL DEF PoolSpec

\* The counters stay numbers.
LEMMA PoolTyped ==
  ASSUME PoolInv
  PROVE  PoolTypeOK
<1>1. \A k \in Jobs : num[k] \in Nat
  BY CountsFinite DEF PoolInv, CountsOK
<1>2. active \in Nat
  BY CountsFinite DEF PoolInv, CountsOK
<1>3. num \in [Jobs -> Nat]
  BY <1>1 DEF PoolInv, PoolTypes
<1> QED
  BY <1>2, <1>3 DEF PoolInv, PoolTypes, PoolTypeOK

\* The variables stay in their types; num and active, which the code keeps in
\* signed and unsigned counters, never fall below zero, although a worker
\* decrements what another thread incremented.
THEOREM PoolTypeCorrect == PoolSpec => []PoolTypeOK
<1>1. PoolInv => PoolTypeOK
  BY PoolTyped
<1> QED
  BY <1>1, PoolInvariant, PTL

\* The jobs handed to the pool and not finished, as the invariant names them.
LEMMA PendingFacts ==
  ASSUME PoolInv, NEW j
  PROVE  /\ j \in Pending <=> InQueue(queue, j) \/ UnfinishedRun(stack, j)
         /\ j \in Pending => j \in Jobs /\ HasParent(j)
<1>1. /\ queue \in Seq(Jobs) /\ DOMAIN queue = 1..Len(queue)
      /\ \A t \in Threads : stack[t] \in Seq(Frame) /\ DOMAIN stack[t] = 1..Len(stack[t])
      /\ \A t \in Threads : \A i \in 1..Len(stack[t]) : stack[t][i].pc # "leave" <=> stack[t][i].pc \in Going
  <2>1. queue \in Seq(Jobs) /\ \A t \in Threads : stack[t] \in Seq(Frame)
    BY DEF PoolInv, PoolTypes
  <2>2. ASSUME NEW t \in Threads, NEW i \in 1..Len(stack[t])
        PROVE  stack[t][i].pc # "leave" <=> stack[t][i].pc \in Going
    <3>1. stack[t][i] \in Frame
      BY <2>1
    <3> QED
      BY <3>1 DEF Frame, Going
  <2> QED
    BY <2>1, <2>2
<1>2. j \in Pending <=> \/ \E i \in 1..Len(queue) : queue[i] = j
                        \/ \E t \in Threads : \E i \in 1..Len(stack[t]) :
                             stack[t][i].by = "run" /\ stack[t][i].pc # "leave" /\ stack[t][i].job = j
  BY <1>1 DEF Pending, RunFrames
<1>3. j \in Pending <=> InQueue(queue, j) \/ UnfinishedRun(stack, j)
  BY <1>1, <1>2 DEF InQueue, UnfinishedRun, Held
<1>4. ASSUME InQueue(queue, j) PROVE j \in Jobs /\ HasParent(j)
  <2>1. j \in Jobs
    BY <1>1, <1>4 DEF InQueue
  <2> QED
    BY <1>4, <2>1 DEF PoolInv, BegunOK, Begun, QueueFresh
<1>5. ASSUME UnfinishedRun(stack, j) PROVE j \in Jobs /\ HasParent(j)
  <2>1. PICK t \in Threads : \E i \in 1..Len(stack[t]) : stack[t][i].job = j /\ stack[t][i].by = "run"
    BY <1>5 DEF UnfinishedRun, Held
  <2>2. PICK i \in 1..Len(stack[t]) : stack[t][i].job = j /\ stack[t][i].by = "run"
    BY <2>1
  <2>3. stack[t][i].job \in Jobs /\ FrameOK(stack[t], t, i)
    BY PlaceFacts
  <2> QED
    BY <2>2, <2>3 DEF FrameOK
<1> QED
  BY <1>3, <1>4, <1>5

\* The parent of a job counts it until it is done.
LEMMA NumCounts ==
  ASSUME PoolInv
  PROVE  NumExact
<1> SUFFICES ASSUME NEW k \in Jobs
             PROVE  num[k] = Cardinality({s \in Pending \ Detached : HasParent(s) /\ Parent(s) = k})
  BY DEF NumExact
<1>1. ASSUME NEW s PROVE s \in Jobs /\ Child(k, s) <=> s \in Jobs /\ HasParent(s) /\ Parent(s) = k
  BY ChildFacts, ParentFacts
<1>2. {s \in Pending \ Detached : HasParent(s) /\ Parent(s) = k} = Counts(k, queue, stack)
  BY <1>1, PendingFacts DEF Counts
<1> QED
  BY <1>2 DEF PoolInv, CountsOK

\* A waiter counts exactly its jobs that are queued or running, for any tree of
\* jobs and any number of threads.
THEOREM NumIsExact == PoolSpec => []NumExact
<1>1. PoolInv => NumExact
  BY NumCounts
<1> QED
  BY <1>1, PoolInvariant, PTL

\* While a job is queued or runs, the routine that submitted it, and with it the
\* waiter and the data on its stack, has not ended.
THEOREM SubmittersAlive == PoolSpec => []SubmitterAlive
<1>1. PoolInv => SubmitterAlive
  <2> SUFFICES ASSUME PoolInv, NEW j \in Pending \ Detached
               PROVE  \E t \in Threads : \E i \in DOMAIN stack[t] :
                        stack[t][i].job = Parent(j) /\ stack[t][i].pc # "leave"
    BY DEF SubmitterAlive
  <2>1. j \in Jobs /\ HasParent(j) /\ (InQueue(queue, j) \/ UnfinishedRun(stack, j))
    BY PendingFacts
  <2>2. Parent(j) \in Jobs /\ Child(Parent(j), j)
    BY <2>1, ParentFacts
  <2>3. Unfinished(stack, Parent(j))
    BY <2>1, <2>2 DEF PoolInv, AliveOK, Counts
  <2>4. \A t \in Threads : DOMAIN stack[t] = 1..Len(stack[t])
    BY DEF PoolInv, PoolTypes
  <2> QED
    BY <2>3, <2>4 DEF Unfinished, Held, Going
<1> QED
  BY <1>1, PoolInvariant, PTL

\* No notification of has_work is lost: whoever goes to sleep, wakes up by
\* itself or finishes a job, there are workers awake for what is queued.
THEOREM WakeupsNotLost == PoolSpec => []NoLostWakeup
<1>1. PoolInv => NoLostWakeup
  BY DEF PoolInv, SleepOK, NoLostWakeup
<1> QED
  BY <1>1, PoolInvariant, PTL

\* As long as an error of a call is on its way the call has not returned.
LEMMA CarriedInCall ==
  ASSUME PoolInv, NEW t \in Callers, Carried(stack, failed, t)
  PROVE  stack[t] # << >>
<1> DEFINE S == {k \in Jobs \ Detached : CallOf[k] = t /\ Unfinished(stack, k)}
<1>1. \A u \in Threads : \A i \in 1..Len(stack[u]) : stack[u][i].pc # "leave" =>
        /\ stack[u][i].pc \in Going /\ stack[u][i].by \in Bys
        /\ Unfinished(stack, stack[u][i].job)
  <2> SUFFICES ASSUME NEW u \in Threads, NEW i \in 1..Len(stack[u]), stack[u][i].pc # "leave"
               PROVE  /\ stack[u][i].pc \in Going /\ stack[u][i].by \in Bys
                      /\ Unfinished(stack, stack[u][i].job)
    OBVIOUS
  <2>1. stack[u][i] \in Frame
    BY PlaceFacts
  <2>2. stack[u][i].pc \in Going /\ stack[u][i].by \in Bys
    BY <2>1 DEF Frame, Going, Bys
  <2> QED
    BY <2>2 DEF Unfinished, Held
<1>2. S # {}
  <2>1. PICK u \in Threads : \E i \in 1..Len(stack[u]) :
          stack[u][i].pc # "leave" /\ stack[u][i].job \notin Detached /\ CallOf[stack[u][i].job] = t
    BY DEF Carried
  <2>2. PICK i \in 1..Len(stack[u]) :
          stack[u][i].pc # "leave" /\ stack[u][i].job \notin Detached /\ CallOf[stack[u][i].job] = t
    BY <2>1
  <2>3. stack[u][i].job \in Jobs
    BY PlaceFacts
  <2> QED
    BY <1>1, <2>2, <2>3
<1>3. PICK B \in SUBSET Jobs : Begun(B, queue, stack, result)
  BY DEF PoolInv, BegunOK
<1>4. \A k : Unfinished(stack, k) => OnStack(stack, k)
  BY DEF Unfinished, OnStack, Held
<1>5. S \in SUBSET B
  BY <1>3, <1>4 DEF Begun, Reached
<1>6. PICK k \in S : ~HasParent(k) \/ Parent(k) \notin S
  <2> HIDE DEF S
  <2> QED
    BY <1>2, <1>3, <1>5 DEF Begun, Rooted
<1>7. k \in Jobs \ Detached /\ CallOf[k] = t /\ Unfinished(stack, k)
  OBVIOUS
<1>8. PICK u \in Threads : \E i \in 1..Len(stack[u]) :
        stack[u][i].job = k /\ stack[u][i].by \in Bys /\ stack[u][i].pc \in Going
  BY <1>7 DEF Unfinished, Held
<1>9. PICK i \in 1..Len(stack[u]) :
        stack[u][i].job = k /\ stack[u][i].by \in Bys /\ stack[u][i].pc \in Going
  BY <1>8
<1>10. FrameOK(stack[u], u, i) /\ Len(stack[u]) \in Nat
  BY PlaceFacts DEF PoolInv, PoolTypes
<1>11. CASE stack[u][i].by = "call"
  <2>1. u \in Callers /\ i = 1 /\ k = Top(u)
    BY <1>9, <1>10, <1>11 DEF FrameOK
  <2>2. u = t
    BY <1>7, <2>1, TopFacts
  <2> QED
    BY <1>9, <1>10, <2>2
<1>12. CASE stack[u][i].by = "inline"
  <2> DEFINE b == stack[u][i - 1]
  <2>1. /\ i > 1 /\ b.pc = "body" /\ b.at <= Len(Subs[b.job]) /\ k = Subs[b.job][b.at]
    BY <1>9, <1>10, <1>12 DEF FrameOK
  <2>2. i - 1 \in 1..Len(stack[u])
    BY <1>10, <2>1
  <2>3. b.job \in Jobs /\ b.at \in 1..Len(Subs[b.job]) + 1 /\ Len(Subs[b.job]) \in Nat
    BY <2>2, PlaceFacts
  <2>4. Child(b.job, k)
    BY <2>1, <2>3 DEF Child
  <2>5. HasParent(k) /\ Parent(k) = b.job /\ CallOf[b.job] = t /\ b.job \notin Detached
    BY <1>7, <2>3, <2>4, ChildFacts
  <2>6. Unfinished(stack, b.job)
    BY <1>1, <2>1, <2>2
  <2> QED
    BY <1>6, <2>3, <2>5, <2>6
<1>13. CASE stack[u][i].by = "run"
  <2>1. HasParent(k)
    BY <1>9, <1>10, <1>13 DEF FrameOK
  <2>2. Parent(k) \in Jobs /\ Child(Parent(k), k)
    BY <2>1, ParentFacts
  <2>3. CallOf[Parent(k)] = t /\ Parent(k) \notin Detached
    BY <1>7, <2>2, ChildFacts
  <2>4. k \in Counts(Parent(k), queue, stack)
    BY <1>7, <1>9, <1>13, <2>2 DEF Counts, UnfinishedRun, Held
  <2>5. Unfinished(stack, Parent(k))
    BY <2>2, <2>4 DEF PoolInv, AliveOK
  <2> QED
    BY <1>6, <2>1, <2>2, <2>3, <2>5
<1> QED
  BY <1>9, <1>11, <1>12, <1>13 DEF Bys

\* A job that threw makes the call on whose behalf it ran fail, whichever
\* threads ran the jobs in between, and no other call.
THEOREM ErrorsAreReported == PoolSpec => []ErrorsReported
<1>1. PoolInv => ErrorsReported
  <2> SUFFICES ASSUME PoolInv, NEW t \in Callers
               PROVE  /\ result[t] = "ok" => \A j \in threw \ Detached : CallOf[j] # t
                      /\ result[t] = "failed" => \E j \in threw : CallOf[j] = t
    BY DEF ErrorsReported
  <2>1. ASSUME result[t] = "ok", NEW j \in threw \ Detached, CallOf[j] = t PROVE FALSE
    <3>1. Carried(stack, failed, t)
      BY <2>1 DEF PoolInv, ErrorsOK
    <3>2. stack[t] # << >>
      BY <3>1, CarriedInCall
    <3> QED
      BY <2>1, <3>2 DEF PoolInv, ReturnedOK
  <2>2. result[t] = "failed" => \E j \in threw : CallOf[j] = t
    BY DEF PoolInv, ErrorsOK, Thrower
  <2> QED
    BY <2>1, <2>2
<1> QED
  BY <1>1, PoolInvariant, PTL

-----------------------------------------------------------------------------
(* The miner *)

\* Where a worker is counted by m_threads_active: between its two updates.
Counted == {w \in MinerThreads : worker[w] \notin {"none", "new", "done"}}

WorkerAt == {"none", "new", "loop", "started?", "lock", "waiting", "woken", "version?", "copied", "hash", "exit", "done"}

\* What the proofs need of the types.
MinerTypes ==
  /\ m_threads \subseteq MinerThreads
  /\ worker \in [MinerThreads -> WorkerAt]
  /\ m_template_no \in Nat
  /\ local_template \in [MinerThreads -> Nat] /\ local_template_ver \in [MinerThreads -> Nat]

\* m_threads_active counts the workers, whatever list they are in, and who is
\* in the list was started.
ActiveExact ==
  /\ m_threads_active = Cardinality(Counted)
  /\ \A w \in m_threads : worker[w] # "none"

\* No worker has a template number that was not given yet, and one that has
\* copied the template and not read its number has a newer template than that.
TemplatesOrdered == \A w \in MinerThreads :
  /\ local_template_ver[w] <= m_template_no
  /\ worker[w] = "copied" => local_template[w] > local_template_ver[w]

MinerInv == MinerTypes /\ ActiveExact /\ TemplatesOrdered

\* Where a worker can be that ends before it does anything else once m_stop is set.
Leaving == {"none", "new", "loop", "exit", "done"}
Quiet == \A w \in MinerThreads : worker[w] \in Leaving

\* Who waits for the workers has the lock, autodetection keeps its signal while
\* it has the lock, and once the workers were counted nobody mines unless the
\* signal was taken back.
LeavingInv ==
  /\ rpc \in {"stopping", "joining"} => m_threads_lock = "rpc"
  /\ idle \in {"waiting", "stopped"} => m_threads_lock = "idle" /\ m_stop
  /\ rpc = "joining" /\ m_stop => Quiet
  /\ idle = "stopped" => Quiet

\* The threads are finitely many, and so are the counted ones.
LEMMA CountedFinite == IsFiniteSet(MinerThreads) /\ IsFiniteSet(Counted) /\ Cardinality(Counted) \in Nat
<1>1. IsFiniteSet(MinerThreads)
  BY MinerAssumption, FS_Interval DEF MinerThreads
<1>2. Counted \subseteq MinerThreads
  BY DEF Counted
<1> QED
  BY <1>1, <1>2, FS_Subset, FS_CardinalityType

\* The miner starts with nobody at work.
LEMMA MinerStarts == MinerInit => MinerInv
<1> SUFFICES ASSUME MinerInit PROVE MinerInv
  OBVIOUS
<1>1. Counted = {}
  BY DEF MinerInit, Counted
<1>2. MinerTypes
  BY DEF MinerInit, MinerTypes, WorkerAt
<1>3. ActiveExact
  BY <1>1, FS_EmptySet DEF MinerInit, ActiveExact
<1>4. TemplatesOrdered
  BY DEF MinerInit, TemplatesOrdered
<1> QED
  BY <1>2, <1>3, <1>4 DEF MinerInv

\* A step that moves no worker into or out of the counted ones, or onto the
\* place after the copy, and gives no new number to one, keeps the invariant.
LEMMA MinerQuietStep ==
  ASSUME MinerInv,
         m_threads' \subseteq MinerThreads, worker' \in [MinerThreads -> WorkerAt],
         Counted' = Counted, m_threads_active' = m_threads_active,
         \A w \in m_threads' : worker'[w] # "none",
         m_template_no' \in Nat, m_template_no' >= m_template_no,
         UNCHANGED localVars,
         \A w \in MinerThreads : worker'[w] = "copied" => worker[w] = "copied"
  PROVE  MinerInv'
<1> USE DEF MinerInv
<1>1. MinerTypes'
  BY DEF MinerTypes, localVars
<1>2. ActiveExact'
  BY DEF ActiveExact
<1>3. TemplatesOrdered'
  BY DEF TemplatesOrdered, localVars, MinerTypes
<1> QED
  BY <1>1, <1>2, <1>3

\* A template number never goes back.
LEMMA TemplateAdvances ==
  ASSUME m_template_no \in Nat, RequestBlockTemplate
  PROVE  m_template_no' \in Nat /\ m_template_no' >= m_template_no
BY DEF RequestBlockTemplate

\* New workers come from threads that are not counted, and do not count
\* themselves before they begin.
LEMMA SpawnUncounted ==
  ASSUME MinerInv, NEW n, Spawn(n)
  PROVE  /\ m_threads' \subseteq MinerThreads /\ worker' \in [MinerThreads -> WorkerAt]
         /\ Counted' = Counted
         /\ \A w \in m_threads' : worker'[w] # "none"
         /\ \A w \in MinerThreads : worker'[w] = "copied" => worker[w] = "copied"
         /\ m_threads' # {}
<1> DEFINE born == {w \in Unborn : Cardinality({v \in Unborn : v <= w}) <= n}
<1>1. /\ m_threads' = m_threads \cup born /\ m_threads' # {}
      /\ worker' = [w \in MinerThreads |-> IF w \in born THEN "new" ELSE worker[w]]
  BY DEF Spawn
<1>2. \A w \in born : w \in MinerThreads /\ worker[w] \in {"none", "done"}
  BY DEF Unborn
<1> HIDE DEF born
<1> QED
  BY <1>1, <1>2 DEF MinerInv, MinerTypes, ActiveExact, Counted, WorkerAt

\* A notification moves workers from one counted place to another.
LEMMA NotifyUncounted ==
  ASSUME MinerInv, NotifyStarted
  PROVE  /\ worker' \in [MinerThreads -> WorkerAt] /\ Counted' = Counted
         /\ \A w \in m_threads : worker'[w] # "none"
         /\ \A w \in MinerThreads : worker'[w] = "copied" => worker[w] = "copied"
BY DEF MinerInv, MinerTypes, ActiveExact, Counted, WorkerAt, NotifyStarted

\* The steps of the RPC thread keep the invariant.
LEMMA RpcKeeps ==
  ASSUME MinerInv,
         \/ \E opt \in MiningOptions : StartCalled(opt)
         \/ StartMiner \/ StartRefused
         \/ StopMiner \/ StopNotifies \/ StopWaited \/ StopReturns
  PROVE  MinerInv'
<1>0. /\ m_template_no \in Nat /\ m_threads \subseteq MinerThreads /\ worker \in [MinerThreads -> WorkerAt]
      /\ \A w \in m_threads : worker[w] # "none"
  BY DEF MinerInv, MinerTypes, ActiveExact
<1>1. CASE StartMiner
  <2>1. /\ m_threads_active' = m_threads_active /\ UNCHANGED localVars
        /\ RequestBlockTemplate /\ Spawn(m_threads_total)
    BY <1>1 DEF StartMiner
  <2> QED
    BY <2>1, <1>0, TemplateAdvances, SpawnUncounted, MinerQuietStep
<1>2. CASE StartRefused \/ \E opt \in MiningOptions : StartCalled(opt)
  <2>1. UNCHANGED <<m_threads, worker, m_threads_active, m_template_no, localVars>>
    BY <1>2 DEF StartRefused, StartCalled
  <2> QED
    BY <2>1, <1>0, MinerQuietStep DEF Counted
<1>3. CASE StopMiner \/ StopWaited
  <2>1. UNCHANGED <<m_threads, worker, m_threads_active, m_template_no, localVars>>
    BY <1>3 DEF StopMiner, StopWaited
  <2> QED
    BY <2>1, <1>0, MinerQuietStep DEF Counted
<1>4. CASE StopNotifies
  <2>1. UNCHANGED <<m_threads, m_threads_active, m_template_no, localVars>> /\ NotifyStarted
    BY <1>4 DEF StopNotifies
  <2> QED
    BY <2>1, <1>0, NotifyUncounted, MinerQuietStep
<1>5. CASE StopReturns
  <2>1. UNCHANGED <<worker, m_threads_active, m_template_no, localVars>> /\ m_threads' = {}
    BY <1>5 DEF StopReturns
  <2> QED
    BY <2>1, <1>0, MinerQuietStep DEF Counted
<1> QED
  BY <1>1, <1>2, <1>3, <1>4, <1>5

\* So do those of on_idle and the threads that pause the miner or bring blocks.
LEMMA IdleKeeps ==
  ASSUME MinerInv,
         \/ Pause \/ Resume \/ RenewTemplate \/ Background
         \/ Autodetect \/ AutodetectStops \/ AutodetectWaited \/ AutodetectStopped \/ AutodetectRestarts
  PROVE  MinerInv'
<1>0. /\ m_template_no \in Nat /\ m_threads \subseteq MinerThreads /\ worker \in [MinerThreads -> WorkerAt]
      /\ \A w \in m_threads : worker[w] # "none"
  BY DEF MinerInv, MinerTypes, ActiveExact
<1>1. CASE Pause \/ Resume \/ Autodetect \/ AutodetectStops \/ AutodetectWaited
  <2>1. UNCHANGED <<m_threads, worker, m_threads_active, m_template_no, localVars>>
    BY <1>1 DEF Pause, Resume, Autodetect, AutodetectStops, AutodetectWaited
  <2> QED
    BY <2>1, <1>0, MinerQuietStep DEF Counted
<1>2. CASE RenewTemplate
  <2>1. UNCHANGED <<m_threads, worker, m_threads_active, localVars>> /\ RequestBlockTemplate
    BY <1>2 DEF RenewTemplate
  <2>2. Counted' = Counted
    BY <2>1 DEF Counted
  <2> QED
    BY <2>1, <2>2, <1>0, TemplateAdvances, MinerQuietStep
<1>3. CASE AutodetectStopped
  <2>1. UNCHANGED <<worker, m_threads_active, m_template_no, localVars>> /\ m_threads' = {}
    BY <1>3 DEF AutodetectStopped
  <2> QED
    BY <2>1, <1>0, MinerQuietStep DEF Counted
<1>4. CASE AutodetectRestarts
  <2>1. UNCHANGED <<m_threads_active, m_template_no, localVars>> /\ Spawn(m_threads_total)
    BY <1>4 DEF AutodetectRestarts
  <2> QED
    BY <2>1, <1>0, SpawnUncounted, MinerQuietStep
<1>5. CASE Background
  <2>1. UNCHANGED <<m_threads, m_threads_active, m_template_no, localVars>> /\ (UNCHANGED worker \/ NotifyStarted)
    BY <1>5 DEF Background
  <2>2. CASE UNCHANGED worker
    BY <2>1, <2>2, <1>0, MinerQuietStep DEF Counted
  <2>3. CASE NotifyStarted
    BY <2>1, <2>3, <1>0, NotifyUncounted, MinerQuietStep
  <2> QED
    BY <2>1, <2>2, <2>3
<1> QED
  BY <1>1, <1>2, <1>3, <1>4, <1>5

\* And so do the workers: one that begins is counted and one that finishes is
\* not any more, in the steps that change m_threads_active.
LEMMA WorkerKeeps ==
  ASSUME MinerInv, NEW w \in MinerThreads, WorkerStep(w)
  PROVE  MinerInv'
<1>0. /\ m_template_no \in Nat /\ m_threads \subseteq MinerThreads /\ worker \in [MinerThreads -> WorkerAt]
      /\ m_threads_active = Cardinality(Counted)
      /\ local_template \in [MinerThreads -> Nat] /\ local_template_ver \in [MinerThreads -> Nat]
      /\ \A v \in m_threads : worker[v] # "none"
      /\ \A v \in MinerThreads : local_template_ver[v] <= m_template_no
                              /\ (worker[v] = "copied" => local_template[v] > local_template_ver[v])
  BY DEF MinerInv, MinerTypes, ActiveExact, TemplatesOrdered
<1>1. CASE Begin(w)
  <2>1. /\ worker[w] = "new" /\ worker' = [worker EXCEPT ![w] = "loop"]
        /\ m_threads_active' = m_threads_active + 1
        /\ UNCHANGED <<m_threads, m_template_no, local_template, local_template_ver>>
    BY <1>1 DEF Begin, At, Goto, WorkerOnly, localVars
  <2>2. Counted' = Counted \cup {w} /\ w \notin Counted
    BY <2>1, <1>0 DEF Counted
  <2>3. Cardinality(Counted') = Cardinality(Counted) + 1
    BY <2>2, CountedFinite, FS_AddElement
  <2>4. MinerTypes'
    BY <2>1, <1>0 DEF MinerTypes, WorkerAt
  <2>5. ActiveExact'
    BY <2>1, <2>3, <1>0 DEF ActiveExact
  <2>6. TemplatesOrdered'
    BY <2>1, <1>0 DEF TemplatesOrdered
  <2> QED
    BY <2>4, <2>5, <2>6 DEF MinerInv
<1>2. CASE Loop(w) \/ Started(w) \/ Wait(w) \/ Woken(w) \/ Hash(w)
  <2>1. \E pc \in WorkerAt \ {"none", "new", "done", "copied"} :
          worker' = [worker EXCEPT ![w] = pc]
    BY <1>2 DEF Loop, Started, Wait, Woken, Hash, Goto, WorkerAt
  <2>2. worker[w] \in WorkerAt \ {"none", "new", "done", "copied"}
    BY <1>2 DEF Loop, Started, Wait, Woken, Hash, At, WorkerAt
  <2>3. UNCHANGED <<m_threads, m_threads_active, localVars>>
    BY <1>2 DEF Loop, Started, Wait, Woken, Hash, WorkerOnly
  <2>4. m_template_no' = m_template_no \/ RequestBlockTemplate
    BY <1>2 DEF Loop, Started, Wait, Woken, Hash
  <2>5. m_template_no' \in Nat /\ m_template_no' >= m_template_no
    BY <2>4, <1>0, TemplateAdvances
  <2>6. /\ worker' \in [MinerThreads -> WorkerAt] /\ Counted' = Counted
        /\ \A v \in m_threads' : worker'[v] # "none"
        /\ \A v \in MinerThreads : worker'[v] = "copied" => worker[v] = "copied"
    <3>1. PICK pc \in WorkerAt \ {"none", "new", "done", "copied"} : worker' = [worker EXCEPT ![w] = pc]
      BY <2>1
    <3>2. m_threads' = m_threads
      BY <2>3
    <3> QED
      BY <3>1, <3>2, <2>2, <1>0 DEF Counted, WorkerAt
  <2> QED
    BY <2>3, <2>5, <2>6, <1>0, MinerQuietStep
<1>3. CASE CheckTemplate(w)
  <2>1. /\ worker[w] = "version?" /\ UNCHANGED <<m_threads, m_threads_active, m_template_no, local_template_ver>>
        /\ \/ /\ local_template_ver[w] # m_template_no /\ worker' = [worker EXCEPT ![w] = "copied"]
              /\ local_template' = [local_template EXCEPT ![w] = m_template_no]
           \/ /\ \E pc \in {"loop", "hash"} : worker' = [worker EXCEPT ![w] = pc]
              /\ local_template' = local_template
    BY <1>3 DEF CheckTemplate, At, Goto, CopyTemplate, WorkerOnly
  <2>2. Counted' = Counted
    BY <2>1, <1>0 DEF Counted
  <2>3. MinerTypes'
    BY <2>1, <1>0 DEF MinerTypes, WorkerAt
  <2>4. ActiveExact'
    BY <2>1, <2>2, <1>0 DEF ActiveExact
  <2>5. TemplatesOrdered'
    BY <2>1, <1>0 DEF TemplatesOrdered
  <2> QED
    BY <2>3, <2>4, <2>5 DEF MinerInv
<1>4. CASE Copied(w)
  <2>1. /\ worker[w] = "copied" /\ worker' = [worker EXCEPT ![w] = "hash"]
        /\ UNCHANGED <<m_threads, m_threads_active, m_template_no, local_template>>
        /\ local_template_ver' = [local_template_ver EXCEPT ![w] = m_template_no]
    BY <1>4 DEF Copied, At, Goto, WorkerOnly
  <2>2. Counted' = Counted
    BY <2>1, <1>0 DEF Counted
  <2>3. MinerTypes'
    BY <2>1, <1>0 DEF MinerTypes, WorkerAt
  <2>4. ActiveExact'
    BY <2>1, <2>2, <1>0 DEF ActiveExact
  <2>5. TemplatesOrdered'
    BY <2>1, <1>0 DEF TemplatesOrdered
  <2> QED
    BY <2>3, <2>4, <2>5 DEF MinerInv
<1>5. CASE Finish(w)
  <2>1. /\ worker[w] = "exit" /\ worker' = [worker EXCEPT ![w] = "done"]
        /\ m_threads_active' = m_threads_active - 1
        /\ UNCHANGED <<m_threads, m_template_no>>
        /\ local_template' = [local_template EXCEPT ![w] = 0]
        /\ local_template_ver' = [local_template_ver EXCEPT ![w] = 0]
    BY <1>5 DEF Finish, At, Goto, WorkerOnly
  <2>2. Counted' = Counted \ {w} /\ w \in Counted
    BY <2>1, <1>0 DEF Counted
  <2>3. Cardinality(Counted') = Cardinality(Counted) - 1
    BY <2>2, CountedFinite, FS_RemoveElement
  <2>4. MinerTypes'
    BY <2>1, <1>0 DEF MinerTypes, WorkerAt
  <2>5. ActiveExact'
    BY <2>1, <2>3, <1>0 DEF ActiveExact
  <2>6. TemplatesOrdered'
    BY <2>1, <1>0 DEF TemplatesOrdered
  <2> QED
    BY <2>4, <2>5, <2>6 DEF MinerInv
<1> QED
  BY <1>1, <1>2, <1>3, <1>4, <1>5 DEF WorkerStep

\* Every step of the miner keeps the invariant.
LEMMA MinerInductive == MinerInv /\ [MinerNext]_minerVars => MinerInv'
<1> SUFFICES ASSUME MinerInv, [MinerNext]_minerVars PROVE MinerInv'
  OBVIOUS
<1>1. CASE MinerNext
  BY <1>1, RpcKeeps, IdleKeeps, WorkerKeeps DEF MinerNext
<1>2. CASE UNCHANGED minerVars
  <2>1. UNCHANGED <<m_threads, worker, m_threads_active, m_template_no, local_template, local_template_ver>>
    BY <1>2 DEF minerVars
  <2> QED
    BY <2>1 DEF MinerInv, MinerTypes, ActiveExact, TemplatesOrdered, Counted
<1> QED
  BY <1>1, <1>2

\* The inductive invariant of the miner: m_threads_active is the number of
\* workers between their two updates of it, in the list or not, and no worker
\* is ahead of the template.
THEOREM MinerInvariant == MinerSpec => []MinerInv
<1> QED
  BY MinerStarts, MinerInductive, PTL DEF MinerSpec

\* With a worker count of zero nobody is between its two updates of it.
LEMMA NobodyCounted ==
  ASSUME MinerInv, WorkersEnded
  PROVE  Quiet
<1>1. Counted = {}
  BY CountedFinite, FS_EmptySet DEF MinerInv, ActiveExact, WorkersEnded
<1> QED
  BY <1>1 DEF MinerInv, MinerTypes, Counted, WorkerAt, Quiet, Leaving

\* Under the stop signal a worker that leaves goes on to leave.
LEMMA WorkersGoOnLeaving ==
  ASSUME MinerInv, Quiet, m_stop, NEW w \in MinerThreads, WorkerStep(w)
  PROVE  Quiet'
<1>1. worker \in [MinerThreads -> WorkerAt] /\ worker[w] \in Leaving
  BY DEF MinerInv, MinerTypes, Quiet
<1>2. \E pc \in Leaving : worker' = [worker EXCEPT ![w] = pc]
  <2>1. CASE Begin(w) \/ Finish(w) \/ Loop(w)
    BY <2>1 DEF Begin, Finish, Loop, Goto, Leaving
  <2>2. CASE Started(w) \/ Wait(w) \/ Woken(w) \/ CheckTemplate(w) \/ Copied(w) \/ Hash(w)
    BY <2>2, <1>1 DEF Started, Wait, Woken, CheckTemplate, Copied, Hash, At, Leaving
  <2> QED
    BY <2>1, <2>2 DEF WorkerStep
<1> QED
  BY <1>1, <1>2 DEF Quiet

\* A step of the miner keeps what stop and autodetection know of the workers.
LEMMA LeavingInductive ==
  ASSUME MinerInv, LeavingInv, [MinerNext]_minerVars
  PROVE  LeavingInv'
<1>0. worker \in [MinerThreads -> WorkerAt]
  BY DEF MinerInv, MinerTypes
<1>1. CASE StartMiner \/ StartRefused \/ \E opt \in MiningOptions : StartCalled(opt)
  BY <1>1 DEF StartMiner, StartRefused, StartCalled, LeavingInv, Quiet
<1>2. CASE StopMiner \/ StopReturns \/ Pause \/ Resume \/ RenewTemplate \/ Autodetect \/ AutodetectStops
  BY <1>2 DEF StopMiner, StopReturns, Pause, Resume, RenewTemplate, Autodetect, AutodetectStops, LeavingInv, Quiet
<1>3. CASE StopNotifies
  BY <1>3 DEF StopNotifies, LeavingInv
<1>4. CASE StopWaited \/ AutodetectWaited
  <2>1. Quiet
    BY <1>4, NobodyCounted DEF StopWaited, AutodetectWaited
  <2>2. Quiet'
    BY <1>4, <2>1 DEF StopWaited, AutodetectWaited, Quiet
  <2> QED
    BY <1>4, <2>2 DEF StopWaited, AutodetectWaited, LeavingInv
<1>5. CASE AutodetectStopped
  BY <1>5 DEF AutodetectStopped, LeavingInv, Quiet, GivesLock
<1>6. CASE AutodetectRestarts
  BY <1>6 DEF AutodetectRestarts, LeavingInv
<1>7. ASSUME NEW w \in MinerThreads, WorkerStep(w) PROVE LeavingInv'
  <2>1. UNCHANGED <<m_stop, m_threads_lock, rpc, idle>>
    BY <1>7 DEF WorkerStep, Begin, Loop, Started, Wait, Woken, CheckTemplate, Copied, Hash, Finish, WorkerOnly
  <2>2. Quiet /\ m_stop => Quiet'
    BY <1>7, WorkersGoOnLeaving
  <2> QED
    BY <2>1, <2>2 DEF LeavingInv
<1>8. CASE Background
  <2>1. UNCHANGED <<m_stop, m_threads_lock, rpc, idle>> /\ (UNCHANGED worker \/ NotifyStarted)
    BY <1>8 DEF Background
  <2>2. Quiet => Quiet'
    BY <2>1, <1>0 DEF Quiet, Leaving, NotifyStarted
  <2> QED
    BY <2>1, <2>2 DEF LeavingInv
<1>9. CASE UNCHANGED minerVars
  BY <1>9 DEF minerVars, LeavingInv, Quiet
<1> QED
  BY <1>1, <1>2, <1>3, <1>4, <1>5, <1>6, <1>7, <1>8, <1>9 DEF MinerNext

\* Only stop and autodetection empty the list of threads.
LEMMA WhoEmptiesThreads ==
  ASSUME MinerInv, MinerNext, m_threads # {}, m_threads' = {}
  PROVE  StopReturns \/ AutodetectStopped
<1>1. ASSUME NEW n, Spawn(n) PROVE FALSE
  BY <1>1, SpawnUncounted
<1>2. CASE StartMiner \/ StartRefused \/ \E opt \in MiningOptions : StartCalled(opt)
  BY <1>1, <1>2 DEF StartMiner, StartRefused, StartCalled
<1>3. CASE StopMiner \/ StopNotifies \/ StopWaited \/ Pause \/ Resume \/ RenewTemplate
  BY <1>3 DEF StopMiner, StopNotifies, StopWaited, Pause, Resume, RenewTemplate
<1>4. CASE Autodetect \/ AutodetectStops \/ AutodetectWaited \/ Background
  BY <1>4 DEF Autodetect, AutodetectStops, AutodetectWaited, Background
<1>5. CASE AutodetectRestarts
  BY <1>1, <1>5 DEF AutodetectRestarts
<1>6. CASE \E v \in MinerThreads : WorkerStep(v)
  BY <1>6 DEF WorkerStep, Begin, Loop, Started, Wait, Woken, CheckTemplate, Copied, Hash, Finish, WorkerOnly
<1> QED
  BY <1>2, <1>3, <1>4, <1>5, <1>6 DEF MinerNext

\* stop() and update_autodetection empty the list of threads, some time after
\* they found that no worker is counted, only when none is past its test of
\* m_stop, although threads that were made before may begin in between: for any
\* number of threads, starts, stops and restarts, in any interleaving, unless a
\* restart has taken back the signal of stop.
THEOREM StopIsQuiet == MinerSpec => StopQuiet
<1>1. MinerInit => LeavingInv
  BY DEF MinerInit, LeavingInv
<1>2. MinerInv /\ LeavingInv /\ [MinerNext]_minerVars => LeavingInv'
  BY LeavingInductive
<1>3. ASSUME MinerInv, LeavingInv, [MinerNext]_minerVars
      PROVE  [m_threads # {} /\ m_threads' = {} =>
                SignalLost \/ \A w \in MinerThreads : worker[w] \in {"none", "new", "loop", "exit", "done"}]_minerVars
  <2> SUFFICES ASSUME MinerNext, m_threads # {}, m_threads' = {}, ~SignalLost
               PROVE  Quiet
    BY <1>3 DEF Quiet, Leaving
  <2>1. StopReturns \/ AutodetectStopped
    BY <1>3, WhoEmptiesThreads
  <2> QED
    BY <2>1, <1>3 DEF StopReturns, AutodetectStopped, SignalLost, LeavingInv
<1> QED
  BY <1>1, <1>2, <1>3, MinerInvariant, PTL DEF MinerSpec, StopQuiet

\* A worker that goes on to another template number has a template newer than
\* the number it had: the number is read outside of m_template_lock, so it may
\* be ahead of the template, but it is never behind it.
THEOREM TemplatesMoveOn == MinerSpec => TemplateMovesOn
<1>1. ASSUME MinerInv, [MinerNext]_minerVars
      PROVE  [\A w \in MinerThreads : local_template_ver'[w] \notin {0, local_template_ver[w]}
                                        => local_template'[w] > local_template_ver[w]]_minerVars
  <2> SUFFICES ASSUME MinerNext, NEW w \in MinerThreads, local_template_ver'[w] \notin {0, local_template_ver[w]}
               PROVE  local_template'[w] > local_template_ver[w]
    BY <1>1
  <2>1. PICK v \in MinerThreads : Copied(v)
    <3>1. CASE StartMiner \/ StartRefused \/ \E opt \in MiningOptions : StartCalled(opt)
      BY <3>1 DEF StartMiner, StartRefused, StartCalled, localVars
    <3>2. CASE StopMiner \/ StopNotifies \/ StopWaited \/ StopReturns \/ Pause \/ Resume \/ RenewTemplate \/ Background
      BY <3>2 DEF StopMiner, StopNotifies, StopWaited, StopReturns, Pause, Resume, RenewTemplate, Background, localVars
    <3>3. CASE Autodetect \/ AutodetectStops \/ AutodetectWaited \/ AutodetectStopped \/ AutodetectRestarts
      BY <3>3 DEF Autodetect, AutodetectStops, AutodetectWaited, AutodetectStopped, AutodetectRestarts, localVars
    <3>4. ASSUME NEW v \in MinerThreads, WorkerStep(v) PROVE Copied(v)
      <4>1. CASE Begin(v) \/ Loop(v) \/ Started(v) \/ Wait(v) \/ Woken(v) \/ CheckTemplate(v) \/ Hash(v)
        BY <4>1 DEF Begin, Loop, Started, Wait, Woken, CheckTemplate, Hash, localVars
      <4>2. CASE Finish(v)
        BY <4>2, <1>1 DEF Finish, MinerInv, MinerTypes
      <4> QED
        BY <3>4, <4>1, <4>2 DEF WorkerStep
    <3> QED
      BY <3>1, <3>2, <3>3, <3>4 DEF MinerNext
  <2>2. v = w
    BY <2>1, <1>1 DEF Copied, MinerInv, MinerTypes
  <2> QED
    BY <2>1, <2>2, <1>1 DEF Copied, At, MinerInv, TemplatesOrdered
<1> QED
  BY <1>1, MinerInvariant, PTL DEF MinerSpec, TemplateMovesOn

-----------------------------------------------------------------------------
(* The services side by side *)

\* The invariants of the pool, of the download queue and of the table of forks.
ServicesInv == PoolInv /\ QueueInv /\ WindowInv

\* The services share no state: a step of one leaves the variables of the others.
LEMMA ServicesSteps ==
  [ServicesNext]_servicesVars =>
    [PoolNext]_poolVars /\ [QueueNext]_queueVars /\ [ForkNext]_forkVars
<1> SUFFICES ASSUME [ServicesNext]_servicesVars
             PROVE  [PoolNext]_poolVars /\ [QueueNext]_queueVars /\ [ForkNext]_forkVars
  OBVIOUS
<1>1. CASE ServicesNext
  BY <1>1, Zenon DEF ServicesNext
<1>2. CASE UNCHANGED servicesVars
  BY <1>2, Zenon DEF servicesVars
<1> QED
  BY <1>1, <1>2

\* In the composition of the services every variable keeps its type, the waiters
\* of the thread pool count exactly their open jobs, and HardFork's counts are
\* those of its window: the unsigned counters that the code keeps by hand never
\* wrap around.
THEOREM ServicesAreConsistent == ServicesSpec => []ServicesConsistent
<1>1. ServicesInit => ServicesInv
  BY PoolStarts, InitQueueInv, WindowStart DEF ServicesInit, ServicesInv
<1>2. ServicesInv /\ [ServicesNext]_servicesVars => ServicesInv'
  <2> SUFFICES ASSUME ServicesInv, [ServicesNext]_servicesVars PROVE ServicesInv'
    OBVIOUS
  <2>1. [PoolNext]_poolVars /\ [QueueNext]_queueVars /\ [ForkNext]_forkVars
    BY ServicesSteps
  <2>2. PoolInv'
    BY <2>1, PoolInductive DEF ServicesInv
  <2>3. QueueInv' /\ WindowInv'
    BY <2>1, NextQueueInv, WindowInductive DEF ServicesInv
  <2> QED
    BY <2>2, <2>3 DEF ServicesInv
<1>3. ServicesInv => ServicesConsistent
  BY PoolTyped, NumCounts, WindowTypes DEF ServicesInv, ServicesConsistent, QueueInv
<1> QED
  BY <1>1, <1>2, <1>3, PTL DEF ServicesSpec
=============================================================================
