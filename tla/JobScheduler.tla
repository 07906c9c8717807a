----------------------------- MODULE JobScheduler -----------------------------
(***************************************************************************)
(* The thread pool of JobScheduler/job_scheduler.cpp: a FIFO of jobs, a    *)
(* counter and a list of weights behind one mutex, one condition variable  *)
(* shared by the worker threads and by the caller of nojobleft(), workers  *)
(* that take the next few jobs in one go, and the destructor that sends    *)
(* one STOP_JOB per worker.                                                *)
(*                                                                         *)
(* A critical section of mtx_availableWork is one action: from the lock to *)
(* the unlock, or to the pthread_cond_wait that releases the mutex.  The   *)
(* condition variable is the set of the threads blocked on it; a thread    *)
(* that was woken runs its while loop again, so its next step is the step  *)
(* it had before it slept.                                                 *)
(***************************************************************************)
EXTENDS Integers, Sequences, FiniteSets, SequencesExt

CONSTANTS
    Workers,        \* the threads of the pool
    Waiter,         \* the thread that calls nojobleft()
    Job,            \* the Job objects: each is scheduled once, run and deleted
    Barrier,        \* those whose isBarier() is true
    Weight,         \* getWeight() of each job
    Quantum,        \* 128*THREADS
    Stop            \* STOP_JOB, the NULL pointer

ASSUME WorkersAssumption == Workers # {} /\ IsFiniteSet(Workers) /\ Waiter \notin Workers
ASSUME JobAssumption     == Barrier \subseteq Job /\ Stop \notin Job
ASSUME WeightAssumption  == Weight \in [Job -> Nat \ {0}]
ASSUME QuantumAssumption == Quantum \in Nat \ {0}

VARIABLES
    jobsQueue,          \* the queue of jobs and STOP_JOBs
    availableWork,      \* the number of entries of jobsQueue
    availableWeights,   \* the weights not fetched yet, one entry per group
    cond,               \* the threads blocked on cond_availableWork
    jobs,               \* the vector of each worker; its head is the job running
    exited,             \* the workers that left threadExecute
    stops,              \* the STOP_JOBs the destructor still has to push
    inNoJobLeft,        \* the Waiter is inside nojobleft()
    scheduled,          \* history: the jobs handed to Schedule so far
    done                \* history: the jobs that ran and were deleted

(* Schedule touches the first group, running a job only the second.        *)
queueVars == <<jobsQueue, availableWork, availableWeights, cond>>
runVars   == <<jobs, exited, done>>
vars == <<queueVars, runVars, stops, inNoJobLeft, scheduled>>

Threads == Workers \union {Waiter}

-------------------------------------------------------------------------------
(* The condition variable.                                                  *)

(* pthread_cond_signal: one blocked thread, whichever, or nobody is woken. *)
Signal(c) == IF c = {} THEN {{}} ELSE {c \ {t} : t \in c}

-------------------------------------------------------------------------------
(* The weights.                                                             *)

WeightOf(j) == IF j = Stop THEN 0 ELSE Weight[j]

SumWeights(js) ==
    LET sum[n \in 0..Len(js)] == IF n = 0 THEN 0 ELSE sum[n - 1] + WeightOf(js[n])
    IN  sum[Len(js)]

(* Scheduled jobs: the back entry grows, an empty list gets one first.     *)
Credit(weights, js) ==
    LET w == IF weights = <<>> THEN <<0>> ELSE weights
    IN  IF js = <<>> THEN weights ELSE [w EXCEPT ![Len(w)] = @ + SumWeights(js)]

(* Mutant of DebitOne: an entry with one unit left is dropped.             *)
DebitOne_DropsLastUnit(weights, j) ==
    IF j = Stop \/ weights = <<>> THEN weights
    ELSE LET left == Head(weights) - Weight[j]
         IN  IF left <= 1 THEN Tail(weights) ELSE [weights EXCEPT ![1] = left]

(* A fetched job: the front entry pays, and leaves when it is used up.     *)
DebitOne(weights, j) ==
    IF j = Stop \/ weights = <<>> THEN weights
    ELSE LET left == Head(weights) - Weight[j]
         IN  IF left <= 0 THEN Tail(weights) ELSE [weights EXCEPT ![1] = left]

(* Mutant of Debit: only the first job of a fetch is debited.              *)
Debit_FirstOnly(weights, js) == IF js = <<>> THEN weights ELSE DebitOne(weights, js[1])

Debit(weights, js) ==
    LET paid[n \in 0..Len(js)] == IF n = 0 THEN weights ELSE DebitOne(paid[n - 1], js[n])
    IN  paid[Len(js)]

(* A group that starts with a barrier opens an entry at the FRONT.         *)
OpenGroup(weights, js) ==
    IF js # <<>> /\ js[1] \in Barrier THEN <<0>> \o weights ELSE weights

(* The weight one fetchWork may take.                                      *)
MaxWeight ==
    IF availableWeights = <<>> \/ Head(availableWeights) < Quantum THEN 1
    ELSE Head(availableWeights) \div Quantum

(* Mutant of EndsFetch: a barrier does not end the loop.                   *)
EndsFetch_PastBarrier(k) ==
    \/ k = availableWork
    \/ jobsQueue[k] = Stop
    \/ SumWeights(SubSeq(jobsQueue, 1, k)) >= MaxWeight

(* fetchWork leaves its loop after the k-th entry of the queue.            *)
EndsFetch(k) ==
    \/ k = availableWork
    \/ jobsQueue[k] = Stop
    \/ jobsQueue[k] \in Barrier
    \/ SumWeights(SubSeq(jobsQueue, 1, k)) >= MaxWeight

-------------------------------------------------------------------------------
Init ==
    /\ jobsQueue = <<>>
    /\ availableWork = 0
    /\ availableWeights = <<>>
    /\ cond = {}
    /\ jobs = [w \in Workers |-> <<>>]
    /\ exited = {}
    /\ stops = Cardinality(Workers)
    /\ inNoJobLeft = FALSE
    /\ scheduled = {}
    /\ done = {}

(* ~JobScheduler has pushed a STOP_JOB.                                    *)
Destroying == stops < Cardinality(Workers)

(* Schedule(const vector<Job*>&); a single job is the vector of that job.  *)
Schedule(js) ==
    /\ jobsQueue' = jobsQueue \o js
    /\ availableWork' = availableWork + Len(js)
    /\ availableWeights' = Credit(OpenGroup(availableWeights, js), js)
    /\ cond' \in Signal(cond)
    /\ scheduled' = scheduled \union Range(js)

(* A client schedules jobs it has just allocated.                          *)
ClientSchedule(js) ==
    /\ ~Destroying
    /\ Range(js) \intersect scheduled = {}
    /\ Schedule(js)
    /\ UNCHANGED <<runVars, stops, inNoJobLeft>>

(* The worker is at, or inside, fetchWork.                                 *)
Fetching(w) == w \notin exited /\ jobs[w] = <<>> /\ w \notin cond

(* Mutant of FetchWait: the worker sleeps without passing the signal on.   *)
FetchWait_KeepsSignal(w) ==
    /\ Fetching(w)
    /\ availableWork = 0
    /\ cond' = cond \union {w}
    /\ UNCHANGED <<jobsQueue, availableWork, availableWeights, runVars,
                   stops, inNoJobLeft, scheduled>>

(* The queue is empty: pass the signal on and sleep.                       *)
FetchWait(w) ==
    /\ Fetching(w)
    /\ availableWork = 0
    /\ \E c \in Signal(cond) : cond' = c \union {w}
    /\ UNCHANGED <<jobsQueue, availableWork, availableWeights, runVars,
                   stops, inNoJobLeft, scheduled>>

(* Take the shortest prefix of the queue that ends the loop.               *)
FetchTake(w) ==
    /\ Fetching(w)
    /\ \E k \in 1..availableWork :
          /\ EndsFetch(k)
          /\ \A i \in 1..(k-1) : ~EndsFetch(i)
          /\ availableWork' = availableWork - k
          /\ jobsQueue' = SubSeq(jobsQueue, k + 1, Len(jobsQueue))
          /\ availableWeights' = Debit(availableWeights, SubSeq(jobsQueue, 1, k))
          /\ jobs' = [jobs EXCEPT ![w] = SubSeq(jobsQueue, 1, k)]
    /\ UNCHANGED <<cond, exited, stops, inNoJobLeft, scheduled, done>>

(* Mutant of Finish: the job that ran stays in the vector.                 *)
Finish_KeepsJob(w) ==
    /\ jobs[w] # <<>>
    /\ Head(jobs[w]) # Stop
    /\ done' = done \union {Head(jobs[w])}
    /\ UNCHANGED <<jobs, exited>>

(* Run() of the job at the head of the vector returns.                     *)
Finish(w) ==
    /\ jobs[w] # <<>>
    /\ Head(jobs[w]) # Stop
    /\ jobs' = [jobs EXCEPT ![w] = Tail(@)]
    /\ done' = done \union {Head(jobs[w])}
    /\ UNCHANGED exited

RunJob(w) ==
    /\ Finish(w)
    /\ UNCHANGED <<queueVars, stops, inNoJobLeft, scheduled>>

(* The worker meets STOP_JOB and leaves.                                   *)
Exit(w) ==
    /\ jobs[w] # <<>>
    /\ Head(jobs[w]) = Stop
    /\ jobs' = [jobs EXCEPT ![w] = <<>>]
    /\ exited' = exited \union {w}
    /\ UNCHANGED <<queueVars, done, stops, inNoJobLeft, scheduled>>

(* Mutants of SendStop: no signal, and STOP_JOB in front of the work.      *)
SendStop_NoSignal ==
    /\ stops > 0
    /\ ~inNoJobLeft
    /\ stops' = stops - 1
    /\ jobsQueue' = Append(jobsQueue, Stop)
    /\ availableWork' = availableWork + 1
    /\ UNCHANGED <<cond, availableWeights, runVars, inNoJobLeft, scheduled>>

SendStop_Overtakes ==
    /\ stops > 0
    /\ ~inNoJobLeft
    /\ stops' = stops - 1
    /\ jobsQueue' = <<Stop>> \o jobsQueue
    /\ availableWork' = availableWork + 1
    /\ cond' \in Signal(cond)
    /\ UNCHANGED <<availableWeights, runVars, inNoJobLeft, scheduled>>

(* One turn of the destructor's loop.  Nobody is inside nojobleft(): the   *)
(* pool that calls it is deleted first (top_impl.cpp:187-188).             *)
SendStop ==
    /\ stops > 0
    /\ ~inNoJobLeft
    /\ stops' = stops - 1
    /\ jobsQueue' = Append(jobsQueue, Stop)
    /\ availableWork' = availableWork + 1
    /\ cond' \in Signal(cond)
    /\ UNCHANGED <<availableWeights, runVars, inNoJobLeft, scheduled>>

(* nojobleft(): the caller enters, sleeps while work is queued, returns.   *)
CallNoJobLeft ==
    /\ ~inNoJobLeft /\ ~Destroying
    /\ inNoJobLeft' = TRUE
    /\ UNCHANGED <<queueVars, runVars, stops, scheduled>>

WaitNoJobLeft ==
    /\ inNoJobLeft /\ Waiter \notin cond
    /\ availableWork > 0
    /\ cond' = cond \union {Waiter}
    /\ UNCHANGED <<jobsQueue, availableWork, availableWeights, runVars,
                   stops, inNoJobLeft, scheduled>>

ReturnNoJobLeft ==
    /\ inNoJobLeft /\ Waiter \notin cond
    /\ availableWork = 0
    /\ inNoJobLeft' = FALSE
    /\ UNCHANGED <<queueVars, runVars, stops, scheduled>>

(* POSIX lets pthread_cond_wait return without a signal.                   *)
SpuriousWakeup(t) ==
    /\ t \in cond
    /\ cond' = cond \ {t}
    /\ UNCHANGED <<jobsQueue, availableWork, availableWeights, runVars,
                   stops, inNoJobLeft, scheduled>>

(* pthread_join has returned for every worker.                             *)
Joined == exited = Workers

Terminated == Joined /\ UNCHANGED vars

Worker(w) == FetchWait(w) \/ FetchTake(w) \/ RunJob(w) \/ Exit(w)

NoJobLeft == CallNoJobLeft \/ WaitNoJobLeft \/ ReturnNoJobLeft

(* The vectors a client may pass: any jobs of its own, each once.          *)
Vectors == {js \in UNION {[1..n -> Job] : n \in 0..Cardinality(Job)} :
               \A i, k \in DOMAIN js : js[i] = js[k] => i = k}

Next ==
    \/ \E js \in Vectors : ClientSchedule(js)
    \/ \E w \in Workers : Worker(w)
    \/ SendStop
    \/ NoJobLeft
    \/ \E t \in Threads : SpuriousWakeup(t)
    \/ Terminated

Spec == Init /\ [][Next]_vars

(* Every thread that can run does run some day; nothing is assumed of the  *)
(* clients, of nojobleft() being called, or of spurious wakeups.           *)
Fairness ==
    /\ \A w \in Workers : WF_vars(FetchWait(w) \/ FetchTake(w)) /\ WF_vars(RunJob(w) \/ Exit(w))
    /\ WF_vars(WaitNoJobLeft \/ ReturnNoJobLeft)
    /\ WF_vars(Destroying /\ SendStop)

FairSpec == Spec /\ Fairness

-------------------------------------------------------------------------------
(* Properties.                                                              *)

(* The shape of the state.  The list of weights is left to WeightsCover.   *)
TypeOK ==
    /\ jobsQueue \in Seq(Job \union {Stop})
    /\ availableWork \in Nat
    /\ cond \subseteq Threads
    /\ jobs \in [Workers -> Seq(Job \union {Stop})]
    /\ exited \subseteq Workers
    /\ stops \in 0..Cardinality(Workers)
    /\ inNoJobLeft \in BOOLEAN
    /\ scheduled \subseteq Job
    /\ done \subseteq Job

(* One condition variable serves the workers and nojobleft(), and a signal *)
(* wakes one thread, whichever.  No wakeup is lost all the same: while     *)
(* work is queued no worker sleeps, and at most one thread sleeps at all,  *)
(* so that a signal cannot go to the wrong one (fetchWork hands the signal *)
(* on before it sleeps, job_scheduler.cpp:99-102).                         *)
NoLostWakeup ==
    /\ availableWork > 0 => cond \intersect Workers = {}
    /\ \A s, t \in cond : s = t

(* The places a job may be in, between Schedule and delete.                *)
Places(j) ==
    {<<"queue", i>> : i \in {i \in DOMAIN jobsQueue : jobsQueue[i] = j}}
    \union (UNION {{<<"vector", w, i>> : i \in {i \in DOMAIN jobs[w] : jobs[w][i] = j}} : w \in Workers})
    \union (IF j \in done THEN {<<"done">>} ELSE {})

(* Counter, queue and vectors agree, and every scheduled job is in exactly *)
(* one place: none is dropped, none is run or deleted twice.               *)
EachJobOnce ==
    /\ availableWork = Len(jobsQueue)
    /\ \A j \in Job : /\ Places(j) # {} <=> j \in scheduled
                      /\ \A p, q \in Places(j) : p = q

(* No job waits behind a barrier (or a STOP_JOB) in a worker's vector: a   *)
(* worker blocked in JobBarrier::Run holds no other job back.              *)
BarrierLast ==
    \A w \in Workers : \A i \in 1..(Len(jobs[w]) - 1) :
        jobs[w][i] \notin Barrier \union {Stop}

(* The list of weights never runs out before the queue does, although a    *)
(* group opened at the front makes the debits miss their entry: only the   *)
(* back entry holds weight, and it covers the jobs still queued.           *)
WeightsCover ==
    /\ \A i \in 1..(Len(availableWeights) - 1) : availableWeights[i] = 0
    /\ SumWeights(jobsQueue) > 0 =>
          /\ availableWeights # <<>>
          /\ Last(availableWeights) >= SumWeights(jobsQueue)

(* A STOP_JOB ends one worker and no worker takes two, although it may     *)
(* fetch several entries at once: those underway and those still to send   *)
(* are as many as the workers left, and ~JobScheduler joins the workers    *)
(* only after every job handed to the pool has run.                        *)
OneStopPerWorker ==
    /\ Cardinality(Places(Stop)) + stops = Cardinality(Workers \ exited)
    /\ Joined => done = scheduled /\ jobsQueue = <<>>

(* Every job handed to the pool runs.                                      *)
EveryJobRuns == \A j \in Job : j \in scheduled ~> j \in done

(* nojobleft() returns: the worker that finds the queue empty wakes it.    *)
(* The destructor returns.                                                 *)
CallsReturn ==
    /\ inNoJobLeft ~> ~inNoJobLeft
    /\ Destroying ~> Joined
===============================================================================
