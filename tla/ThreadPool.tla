----------------------------- MODULE ThreadPool -----------------------------
(***************************************************************************)
(* The thread pool (common/threadpool.cpp): a queue of jobs, workers that  *)
(* run them, callers that submit jobs with a waiter and then help until    *)
(* the queue is empty before they block.  A job may itself submit jobs and *)
(* wait for them, so a thread has a stack of routines; one step is one     *)
(* critical section of the pool's mutex or of a waiter's.                  *)
(*                                                                         *)
(* Every routine of the model uses one waiter, as the callers in src/ do:  *)
(* it submits its jobs, calls wait(), and fails if wait() returns false.   *)
(* Names carry the prefix Pool or a word of their own because the module   *)
(* is extended together with other services of the daemon.                 *)
(***************************************************************************)
EXTENDS Integers, Sequences, FiniteSets

CONSTANTS
  Workers,     \* the threads made by create(): max - 1 of them
  Callers,     \* threads of other parts that call into the pool
  Jobs,        \* the routines that can run
  Subs,        \* Subs[j]: the jobs j submits, in order
  Leaf,        \* jobs submitted with leaf = true
  Detached,    \* jobs submitted with a null waiter
  MayThrow,    \* jobs that may throw
  CallOf       \* CallOf[j]: the caller on whose behalf j is submitted

MaxThreads == Cardinality(Workers) + 1

\* The job that submits j, and the routine a caller calls, which no job submits.
HasParent(j) == \E k \in Jobs : \E i \in DOMAIN Subs[k] : Subs[k][i] = j
Parent(j) == CHOOSE k \in Jobs : \E i \in DOMAIN Subs[k] : Subs[k][i] = j
Top(t) == CHOOSE j \in Jobs : CallOf[j] = t /\ ~HasParent(j)

\* The jobs of a caller form a tree below the routine it calls, a leaf job
\* submits nothing (submit throws in it) and a detached one neither.
ASSUME PoolAssumption ==
  /\ IsFiniteSet(Workers) /\ IsFiniteSet(Jobs) /\ Workers \cap Callers = {}
  /\ Subs \in [Jobs -> Seq(Jobs)] /\ CallOf \in [Jobs -> Callers]
  /\ Leaf \subseteq Jobs /\ Detached \subseteq Jobs /\ MayThrow \subseteq Jobs
  /\ \A j \in Leaf \cup Detached : Subs[j] = << >>
  /\ \A j, k \in Jobs : \A m \in DOMAIN Subs[j], n \in DOMAIN Subs[k] :
        Subs[j][m] = Subs[k][n] => j = k /\ m = n
  /\ \A j \in Jobs : \A m \in DOMAIN Subs[j] : CallOf[Subs[j][m]] = CallOf[j]
  /\ \A t \in Callers : \E j \in Jobs : CallOf[j] = t /\ ~HasParent(j)

VARIABLES
  queue,       \* threadpool::queue
  active,      \* threadpool::active
  running,     \* threadpool::running
  asleep,      \* workers waiting on has_work
  exited,      \* workers that returned from run()
  stack,       \* stack[t]: the routines thread t is in, innermost last
  num,         \* num[j], failed[j]: num and error_flag of the waiter of j
  failed,
  result,      \* result[t]: what the call of t returned
  threw        \* history: the jobs that threw on their own account

poolVars == <<queue, active, running, asleep, exited, stack, num, failed, result, threw>>

Threads == Workers \cup Callers

(* A routine on a stack: the job, who runs it (the caller itself, run() or *)
(* submit()), the next job to submit, and where it is: in its body, in     *)
(* run(true) of its waiter, blocked in wait(), or back in run() after      *)
(* dec() and before active--.                                              *)
Frame == [job: Jobs, by: {"call", "run", "inline"}, at: Nat,
          pc: {"body", "flush", "block", "leave"}, thrown: BOOLEAN]

Enter(j, by) == [job |-> j, by |-> by, at |-> 1, pc |-> "body", thrown |-> FALSE]

In(t, pc) == stack[t] # << >> /\ stack[t][Len(stack[t])].pc = pc
Cur(t) == stack[t][Len(stack[t])]
Pop(s) == SubSeq(s, 1, Len(s) - 1)
SetCur(t, f) == stack' = [stack EXCEPT ![t][Len(stack[t])] = f]
Push(t, f) == stack' = [stack EXCEPT ![t] = Append(@, f)]

\* The thread_local depth of t: jobs run by run() or submit() it is inside of.
Depth(t) == Cardinality({i \in DOMAIN stack[t] : stack[t][i].by # "call"})

PoolInit ==
  /\ queue = << >> /\ active = 0 /\ running = TRUE
  /\ asleep = {} /\ exited = {}
  /\ stack = [t \in Threads |-> << >>]
  /\ num = [j \in Jobs |-> 0] /\ failed = [j \in Jobs |-> FALSE]
  /\ result = [t \in Callers |-> "none"]
  /\ threw = {}

\* A caller starts its routine.
Call(t) ==
  /\ stack[t] = << >> /\ result[t] = "none" /\ running
  /\ Push(t, Enter(Top(t), "call"))
  /\ UNCHANGED <<queue, active, running, asleep, exited, num, failed, result, threw>>

\* has_work.notify_one()
NotifyOne == IF asleep = {} THEN asleep' = {} ELSE \E w \in asleep : asleep' = asleep \ {w}

\* Fault: a worker is woken only when nobody is active, who would look again.
WakeIfNoneActive == IF active = 0 THEN NotifyOne ELSE UNCHANGED asleep
Wake == NotifyOne

\* submit runs a job itself when every thread is busy and work is waiting, and
\* always inside another job; a leaf job is queued whatever happens.
RunsInline(t, s) == s \notin Leaf /\ ((active = MaxThreads /\ queue # << >>) \/ Depth(t) > 0)

\* Fault: a detached job is counted as well.
IncAlways(j, s) == num' = [num EXCEPT ![j] = @ + 1]
\* Fault: a leaf job is not counted.
IncUnlessLeaf(j, s) == num' = IF s \in Detached \cup Leaf THEN num ELSE [num EXCEPT ![j] = @ + 1]
Inc(j, s) == num' = IF s \in Detached THEN num ELSE [num EXCEPT ![j] = @ + 1]

\* submit: the next job of the routine, in this thread or into the queue.
Submit(t) ==
  /\ In(t, "body")
  /\ LET f == Cur(t)
         s == Subs[f.job][f.at]
     IN  /\ f.at <= Len(Subs[f.job])
         /\ \/ /\ RunsInline(t, s)
               /\ Push(t, Enter(s, "inline"))
               /\ UNCHANGED <<queue, asleep, num>>
            \/ /\ ~RunsInline(t, s)
               /\ Inc(f.job, s)
               /\ queue' = IF s \in Leaf THEN <<s>> \o queue ELSE Append(queue, s)
               /\ Wake
               /\ SetCur(t, [f EXCEPT !.at = @ + 1])
  /\ UNCHANGED <<active, running, exited, failed, result, threw>>

\* wait() first runs what is queued; a routine that submits nothing has no waiter.
WaitsFrom(j) == IF Subs[j] = << >> THEN "block" ELSE "flush"

\* The routine has submitted everything and calls wait(), or it throws and the
\* destructor of its waiter does.
StartWait(t) ==
  /\ In(t, "body") /\ Cur(t).at > Len(Subs[Cur(t).job])
  /\ SetCur(t, [Cur(t) EXCEPT !.pc = WaitsFrom(Cur(t).job)])
  /\ UNCHANGED <<queue, active, running, asleep, exited, num, failed, result, threw>>

Throw(t) ==
  /\ In(t, "body") /\ Cur(t).job \in MayThrow
  /\ SetCur(t, [Cur(t) EXCEPT !.pc = WaitsFrom(Cur(t).job), !.thrown = TRUE])
  /\ threw' = threw \cup {Cur(t).job}
  /\ UNCHANGED <<queue, active, running, asleep, exited, num, failed, result>>

\* run: a worker, or a thread in wait(), takes the first job of the queue.
InRun(t) == (t \in Workers \ (asleep \cup exited) /\ stack[t] = << >>) \/ In(t, "flush")

Take(t) ==
  /\ InRun(t) /\ running /\ queue # << >>
  /\ active' = active + 1
  /\ queue' = Tail(queue)
  /\ Push(t, Enter(Head(queue), "run"))
  /\ UNCHANGED <<running, asleep, exited, num, failed, result, threw>>

\* run(true) returns when the queue is empty; wait() goes on to block on num.
Flushed(t) ==
  /\ In(t, "flush") /\ (queue = << >> \/ ~running)
  /\ SetCur(t, [Cur(t) EXCEPT !.pc = "block"])
  /\ UNCHANGED <<queue, active, running, asleep, exited, num, failed, result, threw>>

\* A worker without work waits on has_work, or leaves when the pool stops.
Sleep(t) ==
  /\ t \in Workers \ asleep /\ InRun(t) /\ stack[t] = << >> /\ running /\ queue = << >>
  /\ asleep' = asleep \cup {t}
  /\ UNCHANGED <<queue, active, running, exited, stack, num, failed, result, threw>>

\* has_work.wait() may return without a notification; run looks again.
Spurious(t) ==
  /\ t \in asleep
  /\ asleep' = asleep \ {t}
  /\ UNCHANGED <<queue, active, running, exited, stack, num, failed, result, threw>>

Exit(t) ==
  /\ t \in Workers /\ InRun(t) /\ stack[t] = << >> /\ ~running
  /\ exited' = exited \cup {t}
  /\ UNCHANGED <<queue, active, running, asleep, stack, num, failed, result, threw>>

\* What a routine that ends leaves to its surroundings: a failed wait() makes
\* it fail as an exception does.
Failed(f) == f.thrown \/ failed[f.job]

\* The exception of a job run by submit() goes through submit() into the
\* routine that called it, which unwinds through its waiter.
InlineReturns(f, g) == IF Failed(g) THEN [f EXCEPT !.pc = WaitsFrom(f.job), !.thrown = TRUE]
                       ELSE [f EXCEPT !.at = @ + 1]

\* Fault: dec() comes first and the error is left to the next wait().
ErrorUnset(g) == UNCHANGED failed
SetError(g) == failed' = IF Failed(g) /\ g.job \notin Detached
                         THEN [failed EXCEPT ![Parent(g.job)] = TRUE] ELSE failed

Dec(g) == num' = IF g.job \in Detached THEN num ELSE [num EXCEPT ![Parent(g.job)] = @ - 1]

\* Fault: an empty queue is taken for the end of the jobs.
QueueIsEmpty(t) == queue = << >>
WaitReturns(t) == num[Cur(t).job] = 0

\* wait() returns once num is 0 and the routine ends: in run() with set_error
\* and dec(), in submit() with an exception or not, in the caller with a result.
EndRun(t) ==
  /\ In(t, "block") /\ WaitReturns(t) /\ Cur(t).by = "run"
  /\ SetError(Cur(t))
  /\ Dec(Cur(t))
  /\ SetCur(t, [Cur(t) EXCEPT !.pc = "leave"])
  /\ UNCHANGED <<queue, active, running, asleep, exited, result, threw>>

EndInline(t) ==
  /\ In(t, "block") /\ WaitReturns(t) /\ Cur(t).by = "inline"
  /\ LET below == Pop(stack[t])
     IN  stack' = [stack EXCEPT ![t] = [below EXCEPT ![Len(below)] = InlineReturns(@, Cur(t))]]
  /\ UNCHANGED <<queue, active, running, asleep, exited, num, failed, result, threw>>

EndCall(t) ==
  /\ In(t, "block") /\ WaitReturns(t) /\ Cur(t).by = "call"
  /\ result' = [result EXCEPT ![t] = IF Failed(Cur(t)) THEN "failed" ELSE "ok"]
  /\ stack' = [stack EXCEPT ![t] = << >>]
  /\ UNCHANGED <<queue, active, running, asleep, exited, num, failed, threw>>

\* run takes the mutex again and looks for the next job.
Leave(t) ==
  /\ In(t, "leave")
  /\ active' = active - 1
  /\ stack' = [stack EXCEPT ![t] = Pop(@)]
  /\ UNCHANGED <<queue, running, asleep, exited, num, failed, result, threw>>

\* destroy, called when no other part uses the pool any more: wakes everybody
\* and joins the workers; a detached job that is still queued never runs.
Destroy ==
  /\ running /\ \A t \in Callers : stack[t] = << >> /\ result[t] # "none"
  /\ running' = FALSE /\ asleep' = {}
  /\ UNCHANGED <<queue, active, exited, stack, num, failed, result, threw>>

\* The process has ended.
Joined == ~running /\ exited = Workers /\ UNCHANGED poolVars

PoolStep(t) == \/ Submit(t) \/ StartWait(t) \/ Throw(t) \/ Take(t) \/ Flushed(t)
               \/ Sleep(t) \/ Exit(t) \/ EndRun(t) \/ EndInline(t) \/ EndCall(t) \/ Leave(t)

PoolNext == (\E t \in Threads : PoolStep(t)) \/ (\E t \in Callers : Call(t)) \/ (\E t \in Workers : Spurious(t)) \/ Destroy \/ Joined

\* A thread that can go on does so in the end: threads are scheduled by the
\* operating system, and the mutex and the condition variables are not held.
PoolFairness == \A t \in Threads : WF_poolVars(PoolStep(t))
PoolSpec == PoolInit /\ [][PoolNext]_poolVars /\ PoolFairness
-----------------------------------------------------------------------------
\* The variables stay in their types.
PoolTypeOK ==
  /\ queue \in Seq(Jobs) /\ active \in Nat /\ running \in BOOLEAN
  /\ asleep \subseteq Workers /\ exited \subseteq Workers
  /\ stack \in [Threads -> Seq(Frame)]
  /\ num \in [Jobs -> Nat] /\ failed \in [Jobs -> BOOLEAN]
  /\ result \in [Callers -> {"none", "ok", "failed"}]
  /\ threw \subseteq Jobs

RunFrames(t) == {i \in DOMAIN stack[t] : stack[t][i].by = "run"}

\* Jobs handed to the pool and not finished: in the queue, or run by run() up
\* to its dec().
Pending == {queue[i] : i \in DOMAIN queue}
           \cup UNION {{stack[t][i].job : i \in {k \in RunFrames(t) : stack[t][k].pc # "leave"}} : t \in Threads}

\* What a waiter counts is exact whatever threads its jobs went to: num is the
\* number of its jobs that are queued or running, so wait() neither returns
\* while a job still uses what its submitter keeps on its stack, nor hangs
\* after the last one.
NumExact == \A j \in Jobs :
  num[j] = Cardinality({s \in Pending \ Detached : HasParent(s) /\ Parent(s) = j})

\* No routine that other jobs still refer to has ended: while a job runs, its
\* submitter (and the waiter on its stack) is there.
SubmitterAlive == \A j \in Pending \ Detached :
  \E t \in Threads : \E i \in DOMAIN stack[t] : stack[t][i].job = Parent(j) /\ stack[t][i].pc # "leave"

\* No worker sleeps through work: as long as one waits on has_work there are
\* not more jobs queued than other workers awake and without a job, so no
\* notification is lost between the emptiness test and the wait.
NoLostWakeup == running /\ asleep # {} =>
  Len(queue) <= Cardinality({w \in Workers \ asleep : stack[w] = << >>})

\* A job that threw is reported to the caller on whose behalf it ran, by a
\* wait() that returned false or by an exception, whichever thread ran it and
\* however deep it was nested; and a call fails only if one of its jobs threw.
ErrorsReported == \A t \in Callers :
  /\ result[t] = "ok" => \A j \in threw \ Detached : CallOf[j] # t
  /\ result[t] = "failed" => \E j \in threw : CallOf[j] = t

\* A call that was started returns, although jobs wait for jobs in threads that
\* are themselves waiting, as whoever waits first runs what is queued; and
\* destroy() can join every worker.
CallsReturn ==
  /\ \A t \in Callers : stack[t] # << >> ~> result[t] # "none"
  /\ ~running ~> exited = Workers
=============================================================================
