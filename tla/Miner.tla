------------------------------- MODULE Miner -------------------------------
(***************************************************************************)
(* The miner (cryptonote_basic/miner.cpp): its worker threads, the template *)
(* they copy, the controller of background mining, and the three threads   *)
(* that steer them: RPC calls of start and stop, and on_idle, which renews *)
(* the template and restarts the workers while it looks for the best       *)
(* number of them.  Workers read the shared atomics between any two steps  *)
(* of the others; m_threads_lock is held where the code holds it.          *)
(*                                                                         *)
(* A template is the number it was set with.  Hashing, power and idle      *)
(* times are choices.                                                      *)
(***************************************************************************)
EXTENDS Integers, FiniteSets

CONSTANTS
  MiningOptions,   \* how start is called: [do_background, threads_count]
  MaxStarts,       \* bound: calls of start
  MaxRestarts,     \* bound: restarts by autodetection
  MaxTemplates,    \* bound: templates
  MaxAutodetect,   \* bound: threads that autodetection tries
  MaxMinerThreads  \* bound: worker threads alive at once

ASSUME MinerAssumption ==
  /\ MiningOptions \subseteq [do_background: BOOLEAN, threads_count: Nat]
  /\ {MaxStarts, MaxRestarts, MaxTemplates, MaxAutodetect, MaxMinerThreads} \subseteq Nat

VARIABLES
  m_stop, m_threads_lock,       \* the lock: whose it is
  m_threads, m_threads_total,   \* the threads in the list m_threads; how many to make
  m_threads_active, m_pausers_count,
  m_template_no,                \* also stands for m_template, set with it under m_template_lock
  m_is_background_mining_enabled, m_is_background_mining_started,
  m_threads_autodetect,         \* 0: autodetection is off; else the number of threads tried
  worker,                       \* worker[w]: where thread w is
  local_template, local_template_ver,
  background,                   \* where background_worker_thread is
  rpc, idle,                    \* where the RPC thread and on_idle are
  starts, restarts              \* how much of the bounds is used

minerVars == <<m_stop, m_threads_lock, m_threads, m_threads_total, m_threads_active, m_pausers_count, m_template_no,
               m_is_background_mining_enabled, m_is_background_mining_started, m_threads_autodetect,
               worker, local_template, local_template_ver, background, rpc, idle, starts, restarts>>
localVars == <<local_template, local_template_ver>>
backgroundVars == <<m_is_background_mining_enabled, m_is_background_mining_started, background>>
boundVars == <<starts, restarts>>

MinerThreads == 1..MaxMinerThreads
Unborn == {w \in MinerThreads \ m_threads : worker[w] \in {"none", "done"}}

MinerInit ==
  /\ m_stop = TRUE /\ m_threads_lock = "free" /\ m_threads = {} /\ m_threads_total = 0
  /\ m_threads_active = 0 /\ m_pausers_count = 0
  /\ m_template_no = 0
  /\ m_is_background_mining_enabled = FALSE
  /\ m_is_background_mining_started \in BOOLEAN   \* not initialised by the constructor
  /\ m_threads_autodetect = 0
  /\ worker = [w \in MinerThreads |-> "none"]
  /\ local_template = [w \in MinerThreads |-> 0] /\ local_template_ver = [w \in MinerThreads |-> 0]
  /\ background = "none"
  /\ rpc = "none" /\ idle = "none"
  /\ starts = 0 /\ restarts = 0

\* request_block_template and set_block_template, under m_template_lock.  The
\* core may have no template to give.
RequestBlockTemplate ==
  \/ m_template_no < MaxTemplates /\ m_template_no' = m_template_no + 1
  \/ UNCHANGED m_template_no

\* n new workers, or as many of them as the bound leaves: the unborn threads
\* with the lowest numbers.
Spawn(n) ==
  LET born == {w \in Unborn : Cardinality({v \in Unborn : v <= w}) <= n}
  IN  /\ m_threads' = m_threads \cup born /\ m_threads' # {}
      /\ worker' = [w \in MinerThreads |-> IF w \in born THEN "new" ELSE worker[w]]

\* start: the number of threads is written before the lock is taken, whoever
\* has it, ...
StartCalled(opt) ==
  /\ rpc = "none" /\ starts < MaxStarts
  /\ IF opt.threads_count = 0
     THEN m_threads_autodetect' = 1 /\ m_threads_total' = 1
     ELSE m_threads_total' = opt.threads_count /\ UNCHANGED m_threads_autodetect
  /\ rpc' = IF opt.do_background THEN "start background" ELSE "start"
  /\ starts' = starts + 1
  /\ UNCHANGED <<m_stop, m_threads_lock, m_threads, m_threads_active, m_pausers_count, m_template_no,
                 worker, localVars, backgroundVars, idle, restarts>>

\* ... and read after that, when another may have written it.  The lock is held
\* to the end of start.
StartMiner ==
  /\ rpc \in {"start", "start background"} /\ m_threads_lock = "free"
  /\ m_stop /\ m_threads = {}
  /\ RequestBlockTemplate
  /\ m_stop' = FALSE
  /\ Spawn(m_threads_total)
  /\ m_is_background_mining_enabled' = (rpc = "start background")
  /\ background' = IF rpc = "start background" THEN "new" ELSE "none"
  /\ rpc' = "none"
  /\ UNCHANGED <<m_threads_lock, m_threads_total, m_threads_active, m_pausers_count, m_is_background_mining_started,
                 m_threads_autodetect, localVars, idle, boundVars>>

\* It refuses while the miner is on or threads are left.
StartRefused ==
  /\ rpc \in {"start", "start background"} /\ m_threads_lock = "free"
  /\ ~m_stop \/ m_threads # {}
  /\ rpc' = "none"
  /\ UNCHANGED <<m_stop, m_threads_lock, m_threads, m_threads_total, m_threads_active, m_pausers_count, m_template_no,
                 m_threads_autodetect, worker, localVars, backgroundVars, idle, boundVars>>

\* stop: the signal, then a wait for the workers under the lock, then one for
\* the background thread.
StopMiner ==
  /\ rpc = "none" /\ m_threads_lock = "free" /\ m_threads # {}
  /\ m_threads_lock' = "rpc" /\ m_stop' = TRUE /\ rpc' = "stopping"
  /\ UNCHANGED <<m_threads, m_threads_total, m_threads_active, m_pausers_count, m_template_no, m_threads_autodetect, worker, localVars,
                 backgroundVars, idle, boundVars>>

\* Fault: the last worker is not waited for.
WorkersEnded_ButOne == m_threads_active <= 1
\* What stop and autodetection wait for, with the lock held.  A thread that was
\* made and has not begun is not counted.
WorkersEnded == m_threads_active = 0

\* Fault: stop does not wake workers that wait for background mining to start.
WakeNobody == UNCHANGED worker
NotifyStarted == worker' = [w \in MinerThreads |-> IF worker[w] = "waiting" THEN "woken" ELSE worker[w]]

StopNotifies ==
  /\ rpc = "stopping" /\ ~WorkersEnded
  /\ NotifyStarted
  /\ UNCHANGED <<m_stop, m_threads_lock, m_threads, m_threads_total, m_threads_active, m_pausers_count, m_template_no, m_threads_autodetect,
                 localVars, backgroundVars, rpc, idle, boundVars>>

\* The workers are counted once; another may begin while the background thread
\* is waited for, until the list of them is emptied.
StopWaited ==
  /\ rpc = "stopping" /\ WorkersEnded
  /\ rpc' = "joining"
  /\ UNCHANGED <<m_stop, m_threads_lock, m_threads, m_threads_total, m_threads_active, m_pausers_count, m_template_no, m_threads_autodetect,
                 worker, localVars, backgroundVars, idle, boundVars>>

StopReturns ==
  /\ rpc = "joining" /\ background \in {"none", "done"}
  /\ m_threads' = {} /\ m_threads_autodetect' = 0 /\ m_is_background_mining_enabled' = FALSE
  /\ m_threads_lock' = "free" /\ rpc' = "none"
  /\ UNCHANGED <<m_stop, m_threads_total, m_threads_active, m_pausers_count, m_template_no, worker, localVars, m_is_background_mining_started,
                 background, idle, boundVars>>

\* pause and resume, around the handling of blocks.
Pause ==
  /\ m_pausers_count = 0
  /\ m_pausers_count' = 1
  /\ UNCHANGED <<m_stop, m_threads_lock, m_threads, m_threads_total, m_threads_active, m_template_no, m_threads_autodetect, worker, localVars,
                 backgroundVars, rpc, idle, boundVars>>

Resume ==
  /\ m_pausers_count > 0
  /\ m_pausers_count' = m_pausers_count - 1
  /\ UNCHANGED <<m_stop, m_threads_lock, m_threads, m_threads_total, m_threads_active, m_template_no, m_threads_autodetect, worker, localVars,
                 backgroundVars, rpc, idle, boundVars>>

\* on_idle and on_block_chain_update renew the template while mining.
RenewTemplate ==
  /\ ~m_stop /\ m_template_no < MaxTemplates
  /\ RequestBlockTemplate
  /\ UNCHANGED <<m_stop, m_threads_lock, m_threads, m_threads_total, m_threads_active, m_pausers_count, m_threads_autodetect, worker,
                 localVars, backgroundVars, rpc, idle, boundVars>>

\* update_autodetection: the best number of threads was the last one, or one
\* more is tried ...
Autodetect ==
  /\ idle = "none" /\ m_threads_autodetect > 0 /\ restarts < MaxRestarts
  /\ \/ /\ m_threads_autodetect > 1
        /\ m_threads_total' = m_threads_autodetect - 1 /\ m_threads_autodetect' = 0
     \/ /\ m_threads_autodetect < MaxAutodetect
        /\ m_threads_total' = m_threads_autodetect + 1 /\ m_threads_autodetect' = m_threads_total'
  /\ idle' = "locking" /\ restarts' = restarts + 1
  /\ UNCHANGED <<m_stop, m_threads_lock, m_threads, m_threads_active, m_pausers_count, m_template_no, worker,
                 localVars, backgroundVars, rpc, starts>>

\* ... and the workers are stopped under the lock
AutodetectStops ==
  /\ idle = "locking" /\ m_threads_lock = "free"
  /\ m_threads_lock' = "idle" /\ m_stop' = TRUE /\ idle' = "waiting"
  /\ UNCHANGED <<m_threads, m_threads_total, m_threads_active, m_pausers_count, m_template_no, m_threads_autodetect,
                 worker, localVars, backgroundVars, rpc, boundVars>>

GivesLock == m_threads_lock' = "free"

AutodetectWaited ==
  /\ idle = "waiting" /\ WorkersEnded
  /\ idle' = "stopped"
  /\ UNCHANGED <<m_stop, m_threads_lock, m_threads, m_threads_total, m_threads_active, m_pausers_count, m_template_no, m_threads_autodetect,
                 worker, localVars, backgroundVars, rpc, boundVars>>

AutodetectStopped ==
  /\ idle = "stopped"
  /\ m_threads' = {} /\ GivesLock /\ idle' = "restarting"
  /\ UNCHANGED <<m_stop, m_threads_total, m_threads_active, m_pausers_count, m_template_no, m_threads_autodetect, worker,
                 localVars, backgroundVars, rpc, boundVars>>

\* and made again without it.
AutodetectRestarts ==
  /\ idle = "restarting"
  /\ m_stop' = FALSE /\ idle' = "none"
  /\ Spawn(m_threads_total)
  /\ UNCHANGED <<m_threads_lock, m_threads_total, m_threads_active, m_pausers_count, m_template_no, m_threads_autodetect,
                 localVars, backgroundVars, rpc, boundVars>>
-----------------------------------------------------------------------------
At(w, pc) == worker[w] = pc
Goto(w, pc) == worker' = [worker EXCEPT ![w] = pc]
WorkerOnly == UNCHANGED <<m_stop, m_threads_lock, m_threads, m_threads_total, m_pausers_count, m_threads_autodetect,
                          backgroundVars, rpc, idle, boundVars>>

Begin(w) ==
  /\ At(w, "new") /\ Goto(w, "loop")
  /\ m_threads_active' = m_threads_active + 1
  /\ UNCHANGED <<m_template_no, localVars>> /\ WorkerOnly

\* The loop: stop, sleep while paused, wait for background mining, or mine.
Loop(w) ==
  /\ At(w, "loop")
  /\ \/ m_stop /\ Goto(w, "exit")
     \/ ~m_stop /\ m_pausers_count = 0 /\ Goto(w, IF m_is_background_mining_enabled THEN "started?" ELSE "version?")
  /\ UNCHANGED <<m_threads_active, m_template_no, localVars>> /\ WorkerOnly

\* The flag is read before the mutex is taken: a notification between the two
\* finds nobody waiting.
Started(w) ==
  /\ At(w, "started?")
  /\ Goto(w, IF m_is_background_mining_started THEN (IF m_stop THEN "loop" ELSE "version?") ELSE "lock")
  /\ UNCHANGED <<m_threads_active, m_template_no, localVars>> /\ WorkerOnly

Wait(w) ==
  /\ At(w, "lock") /\ Goto(w, "waiting")
  /\ UNCHANGED <<m_threads_active, m_template_no, localVars>> /\ WorkerOnly

Woken(w) ==
  /\ At(w, "woken") /\ Goto(w, IF m_stop THEN "loop" ELSE "started?")
  /\ UNCHANGED <<m_threads_active, m_template_no, localVars>> /\ WorkerOnly

\* Fault: a worker that has a template keeps it.
KeepTemplate(w) == IF local_template[w] = 0 THEN m_template_no ELSE local_template[w]
CopyTemplate(w) == m_template_no

\* The template is copied under m_template_lock, its number read after it.
CheckTemplate(w) ==
  /\ At(w, "version?")
  /\ IF local_template_ver[w] # m_template_no
     THEN Goto(w, "copied") /\ local_template' = [local_template EXCEPT ![w] = CopyTemplate(w)]
     ELSE Goto(w, IF local_template_ver[w] = 0 THEN "loop" ELSE "hash") /\ UNCHANGED local_template
  /\ UNCHANGED <<m_threads_active, m_template_no, local_template_ver>> /\ WorkerOnly

Copied(w) ==
  /\ At(w, "copied") /\ Goto(w, "hash")
  /\ local_template_ver' = [local_template_ver EXCEPT ![w] = m_template_no]
  /\ UNCHANGED <<m_threads_active, m_template_no, local_template>> /\ WorkerOnly

\* One hash.  A block that is found changes the chain, and with it the template.
Hash(w) ==
  /\ At(w, "hash") /\ Goto(w, "loop")
  /\ IF m_stop THEN UNCHANGED m_template_no ELSE RequestBlockTemplate
  /\ UNCHANGED <<m_threads_active, localVars>> /\ WorkerOnly

\* The locals end with the thread.
Finish(w) ==
  /\ At(w, "exit") /\ Goto(w, "done")
  /\ m_threads_active' = m_threads_active - 1
  /\ local_template' = [local_template EXCEPT ![w] = 0]
  /\ local_template_ver' = [local_template_ver EXCEPT ![w] = 0]
  /\ UNCHANGED m_template_no /\ WorkerOnly

\* background_worker_thread: it ends at once when it cannot read the system's
\* times; else a look at m_stop, a sleep, and then, without another look, the
\* flag is set and the workers woken (after which it may be taken back at once),
\* or the flag is taken back, or neither.  stop interrupts the sleep.
Background ==
  /\ \/ background = "new" /\ background' \in {"loop", "done"} /\ m_is_background_mining_started' = FALSE /\ UNCHANGED worker
     \/ background = "loop" /\ background' = (IF m_stop THEN "done" ELSE "sleep")
        /\ UNCHANGED <<m_is_background_mining_started, worker>>
     \/ background = "sleep" /\ background' = "loop"
        /\ m_is_background_mining_started' \in {m_is_background_mining_started, FALSE} /\ UNCHANGED worker
     \/ background = "sleep" /\ ~m_is_background_mining_started
        /\ m_is_background_mining_started' = TRUE /\ background' = "notify" /\ UNCHANGED worker
     \/ background = "notify" /\ NotifyStarted /\ background' = "loop" /\ m_is_background_mining_started' \in BOOLEAN
  /\ UNCHANGED <<m_stop, m_threads_lock, m_threads, m_threads_total, m_threads_active, m_pausers_count, m_template_no,
                 m_threads_autodetect, localVars, m_is_background_mining_enabled, rpc, idle, boundVars>>

WorkerStep(w) == \/ Begin(w) \/ Loop(w) \/ Started(w) \/ Wait(w) \/ Woken(w)
                 \/ CheckTemplate(w) \/ Copied(w) \/ Hash(w) \/ Finish(w)

MinerNext ==
  \/ \E opt \in MiningOptions : StartCalled(opt)
  \/ StartMiner \/ StartRefused
  \/ StopMiner \/ StopNotifies \/ StopWaited \/ StopReturns
  \/ Pause \/ Resume \/ RenewTemplate
  \/ Autodetect \/ AutodetectStops \/ AutodetectWaited \/ AutodetectStopped \/ AutodetectRestarts
  \/ \E w \in MinerThreads : WorkerStep(w)
  \/ Background

\* Threads that can run do; nothing makes a user start or stop the miner.
MinerFairness ==
  /\ \A w \in MinerThreads : WF_minerVars(WorkerStep(w))
  /\ WF_minerVars(StopNotifies) /\ WF_minerVars(StopWaited) /\ WF_minerVars(StopReturns)
  /\ WF_minerVars(AutodetectStops) /\ WF_minerVars(AutodetectWaited) /\ WF_minerVars(AutodetectStopped) /\ WF_minerVars(AutodetectRestarts)
  /\ WF_minerVars(Background)
MinerSpec == MinerInit /\ [][MinerNext]_minerVars /\ MinerFairness
-----------------------------------------------------------------------------
\* A restart of the workers by autodetection has taken back the signal that
\* stop gave: the workers do not end, and stop waits for them or leaves them.
SignalLost == rpc \in {"stopping", "joining"} /\ ~m_stop

\* The list of threads is emptied, some time after the workers were counted,
\* only when none of them is past its test of m_stop: one that was made and
\* began too late to be counted ends at that test.  Neither stop nor
\* autodetection leaves one that waits or hashes, unless the signal is lost.
StopQuiet == [][m_threads # {} /\ m_threads' = {} =>
  SignalLost \/ \A w \in MinerThreads : worker[w] \in {"none", "new", "loop", "exit", "done"}]_minerVars

\* A worker that goes on to another template number has a newer template than
\* the number it had: the number, read outside of the lock, may be ahead of the
\* template but never behind it.
TemplateMovesOn == [][\A w \in MinerThreads :
  local_template_ver'[w] \notin {0, local_template_ver[w]} => local_template'[w] > local_template_ver[w]]_minerVars

\* stop comes to its end, although workers may sleep on a condition whose flag
\* they read before they took the mutex, and the controller may be asleep,
\* unless its signal is lost.
StopEnds == rpc = "stopping" ~> (rpc \notin {"stopping", "joining"} \/ SignalLost)

\* Once autodetection has decided on a number of threads the workers are
\* stopped and started again, whoever starts or stops the miner meanwhile, if
\* they do not wait for background mining and no stop waits for ever.
RestartsEnd == idle = "locking" ~> (idle = "none" \/ m_is_background_mining_enabled \/ SignalLost)

\* Whoever waits for the workers with m_threads_lock held comes to an end, in
\* any order of starts, stops and restarts.
WaitsForWorkersEnd == StopEnds /\ RestartsEnd

\* miner.cpp:272 says "restart all threads" of the end of update_autodetection:
\* once it has stopped the workers they are started again.
ThreadsRestarted == idle = "waiting" ~> idle = "none"
=============================================================================
