-------------------------- MODULE JobScheduler_proofs --------------------------
(***************************************************************************)
(* Theorems of JobScheduler, for every pool, every set of jobs and weights *)
(* and every way clients use it.                                           *)
(***************************************************************************)
EXTENDS JobScheduler, SequenceFacts, FiniteSetTheorems, SequenceTheorems, TLAPS

(* availableWork counts the entries of the queue.                          *)
WorkCounted == availableWork = Len(jobsQueue)

(* The inductive invariant.  NoLostWakeup is what keeps itself true; the   *)
(* counter ties "there is work" to the queue the workers fetch from.       *)
IInv == TypeOK /\ WorkCounted /\ NoLostWakeup /\ BarrierLast

Entry == Job \union {Stop}

-------------------------------------------------------------------------------
(* What a client passes to Schedule is a sequence of jobs.                 *)
LEMMA VectorsAreSequences ==
    ASSUME NEW js \in Vectors
    PROVE  js \in Seq(Job)
<1>2. PICK n \in 0..Cardinality(Job) : js \in [1..n -> Job]
  BY DEF Vectors
<1>3. n \in Nat
  BY <1>2
<1> QED
  BY <1>2, <1>3

(* A signal wakes at most one thread and blocks none.                      *)
LEMMA SignalProperties ==
    ASSUME NEW c, NEW d \in Signal(c)
    PROVE  /\ d \subseteq c
           /\ (\A s, t \in c : s = t) => d = {}
BY DEF Signal

(* The first k entries of the queue and the rest are sequences of entries. *)
LEMMA QueueSplit ==
    ASSUME NEW q \in Seq(Entry), NEW k \in 1..Len(q)
    PROVE  /\ SubSeq(q, 1, k) \in Seq(Entry)
           /\ SubSeq(q, k + 1, Len(q)) \in Seq(Entry)
           /\ Len(SubSeq(q, 1, k)) = k
           /\ Len(SubSeq(q, k + 1, Len(q))) = Len(q) - k
           /\ \A i \in 1..k : SubSeq(q, 1, k)[i] = q[i]
           /\ \A i \in 1..(Len(q) - k) : SubSeq(q, k + 1, Len(q))[i] = q[k + i]
<1>1. Len(q) \in Nat /\ \A i \in 1..Len(q) : q[i] \in Entry
  BY LenProperties
<1>2. /\ SubSeq(q, 1, k) \in Seq(Entry)
      /\ Len(SubSeq(q, 1, k)) = k
      /\ \A i \in 1..k : SubSeq(q, 1, k)[i] = q[i]
  <2>1. k \in Int /\ 1 \in Int /\ \A i \in 1..k : q[i] \in Entry
    BY <1>1
  <2> QED
    BY <1>1, <2>1, SubSeqProperties
<1>3. /\ SubSeq(q, k + 1, Len(q)) \in Seq(Entry)
      /\ Len(SubSeq(q, k + 1, Len(q))) = Len(q) - k
      /\ \A i \in 1..(Len(q) - k) : SubSeq(q, k + 1, Len(q))[i] = q[k + i]
  <2>1. k + 1 \in Int /\ Len(q) \in Int /\ \A i \in (k + 1)..Len(q) : q[i] \in Entry
    BY <1>1
  <2>2. /\ SubSeq(q, k + 1, Len(q)) \in Seq(Entry)
        /\ Len(SubSeq(q, k + 1, Len(q))) = IF k + 1 <= Len(q) THEN Len(q) - (k + 1) + 1 ELSE 0
        /\ \A i \in 1..Len(q) - (k + 1) + 1 :
              SubSeq(q, k + 1, Len(q))[i] = q[(k + 1) + i - 1]
    BY <2>1, SubSeqProperties
  <2> QED
    BY <1>1, <2>2
<1> QED
  BY <1>2, <1>3

-------------------------------------------------------------------------------
(* The invariant holds before anything is scheduled.                       *)
LEMMA InitInvariant == Init => IInv
<1> SUFFICES ASSUME Init PROVE IInv
  OBVIOUS
<1>1. Cardinality(Workers) \in Nat
  BY WorkersAssumption, FS_CardinalityType
<1>2. <<>> \in Seq(Job \union {Stop}) /\ Len(<<>>) = 0
  OBVIOUS
<1>3. jobs \in [Workers -> Seq(Job \union {Stop})]
  BY <1>2 DEF Init
<1>4. stops \in 0..Cardinality(Workers)
  BY <1>1 DEF Init
<1>5. TypeOK
  BY <1>2, <1>3, <1>4 DEF Init, TypeOK
<1>6. NoLostWakeup /\ BarrierLast
  <2>1. \A w \in Workers : jobs[w] = <<>>
    BY DEF Init
  <2> QED
    BY <1>2, <2>1 DEF Init, NoLostWakeup, BarrierLast
<1> QED
  BY <1>2, <1>5, <1>6 DEF Init, IInv, WorkCounted

(* Schedule of one job or of a vector keeps the invariant.                 *)
LEMMA ScheduleInvariant ==
    ASSUME IInv, NEW js \in Vectors, ClientSchedule(js)
    PROVE  IInv'
<1> USE DEF IInv, ClientSchedule, Schedule, runVars
<1>1. js \in Seq(Job) /\ js \in Seq(Job \union {Stop}) /\ Len(js) \in Nat
  BY VectorsAreSequences
<1>2. cond' = {}
  BY SignalProperties DEF NoLostWakeup
<1>3. /\ jobsQueue' \in Seq(Job \union {Stop})
      /\ Len(jobsQueue') = Len(jobsQueue) + Len(js)
  BY <1>1, ConcatProperties DEF TypeOK
<1>4. Range(js) \subseteq Job
  BY <1>1 DEF Range
<1>5. TypeOK'
  BY <1>1, <1>2, <1>3, <1>4 DEF TypeOK
<1>6. WorkCounted'
  BY <1>1, <1>3 DEF WorkCounted
<1>7. NoLostWakeup'
  BY <1>2 DEF NoLostWakeup
<1>8. BarrierLast'
  BY DEF BarrierLast
<1> QED
  BY <1>5, <1>6, <1>7, <1>8

(* A worker that finds nothing to do starts to wait, or gives up its wait. *)
LEMMA FetchWaitInvariant ==
    ASSUME IInv, NEW w \in Workers, FetchWait(w)
    PROVE  IInv'
<1> USE DEF IInv, FetchWait, runVars
<1>1. cond' = {w}
  BY SignalProperties DEF NoLostWakeup
<1>2. TypeOK'
  BY <1>1 DEF TypeOK, Threads
<1>3. WorkCounted' /\ BarrierLast'
  BY DEF WorkCounted, BarrierLast
<1>4. NoLostWakeup'
  BY <1>1 DEF NoLostWakeup
<1> QED
  BY <1>2, <1>3, <1>4

(* fetchWork hands a worker a prefix of the queue that ends at a barrier.  *)
LEMMA FetchTakeInvariant ==
    ASSUME IInv, NEW w \in Workers, FetchTake(w)
    PROVE  IInv'
<1> USE DEF IInv
<1>1. PICK k \in 1..availableWork :
          /\ \A i \in 1..(k-1) : ~EndsFetch(i)
          /\ availableWork' = availableWork - k
          /\ jobsQueue' = SubSeq(jobsQueue, k + 1, Len(jobsQueue))
          /\ jobs' = [jobs EXCEPT ![w] = SubSeq(jobsQueue, 1, k)]
  BY Zenon DEF FetchTake
<1>2. UNCHANGED <<cond, exited, stops, inNoJobLeft, scheduled, done>>
  BY DEF FetchTake
<1>3. k \in 1..Len(jobsQueue) /\ jobsQueue \in Seq(Entry)
  BY DEF WorkCounted, TypeOK, Entry
<1>4. /\ SubSeq(jobsQueue, 1, k) \in Seq(Entry)
      /\ jobsQueue' \in Seq(Entry)
      /\ Len(SubSeq(jobsQueue, 1, k)) = k
      /\ Len(jobsQueue') = Len(jobsQueue) - k
      /\ \A i \in 1..k : SubSeq(jobsQueue, 1, k)[i] = jobsQueue[i]
  BY <1>1, <1>3, QueueSplit
<1>5. TypeOK'
  BY <1>1, <1>2, <1>3, <1>4 DEF TypeOK, Entry
<1>6. WorkCounted'
  BY <1>1, <1>4 DEF WorkCounted
<1>7. NoLostWakeup'
  BY <1>1, <1>2 DEF NoLostWakeup, TypeOK
<1>8. BarrierLast'
  <2> SUFFICES ASSUME NEW v \in Workers, NEW i \in 1..(Len(jobs'[v]) - 1)
               PROVE  jobs'[v][i] \notin Barrier \union {Stop}
    BY DEF BarrierLast
  <2>1. CASE v = w
    <3>1. jobs'[v] = SubSeq(jobsQueue, 1, k)
      BY <1>1, <2>1 DEF TypeOK
    <3>2. i \in 1..(k-1) /\ jobs'[v][i] = jobsQueue[i]
      BY <1>4, <3>1
    <3> QED
      BY <1>1, <3>2 DEF EndsFetch
  <2>2. CASE v # w
    BY <1>1, <2>2 DEF BarrierLast, TypeOK
  <2> QED
    BY <2>1, <2>2
<1> QED
  BY <1>5, <1>6, <1>7, <1>8

(* Running the fetched jobs does not touch the queue.                      *)
LEMMA RunJobInvariant ==
    ASSUME IInv, NEW w \in Workers, RunJob(w)
    PROVE  IInv'
<1> USE DEF IInv, RunJob, Finish, queueVars
<1>1. /\ Head(jobs[w]) \in Job
      /\ Tail(jobs[w]) \in Seq(Job \union {Stop})
      /\ Len(Tail(jobs[w])) = Len(jobs[w]) - 1
      /\ \A i \in 1..Len(Tail(jobs[w])) : Tail(jobs[w])[i] = jobs[w][i+1]
  BY HeadTailProperties DEF TypeOK
<1>2. TypeOK'
  BY <1>1 DEF TypeOK
<1>3. WorkCounted' /\ NoLostWakeup'
  BY DEF WorkCounted, NoLostWakeup
<1>4. BarrierLast'
  <2> SUFFICES ASSUME NEW v \in Workers, NEW i \in 1..(Len(jobs'[v]) - 1)
               PROVE  jobs'[v][i] \notin Barrier \union {Stop}
    BY DEF BarrierLast
  <2>1. CASE v = w
    <3>1. jobs'[v] = Tail(jobs[w])
      BY <2>1 DEF TypeOK
    <3>2. Len(jobs[w]) \in Nat
      BY DEF TypeOK
    <3>3. i \in 1..((Len(jobs[w]) - 1) - 1)
      BY <1>1, <3>1
    <3>4. i \in 1..Len(Tail(jobs[w])) /\ i + 1 \in 1..(Len(jobs[w]) - 1)
      BY <1>1, <3>2, <3>3
    <3>5. jobs'[v][i] = jobs[w][i+1]
      BY <1>1, <3>1, <3>4
    <3> QED
      BY <3>4, <3>5 DEF BarrierLast
  <2>2. CASE v # w
    BY <2>2 DEF BarrierLast, TypeOK
  <2> QED
    BY <2>1, <2>2
<1> QED
  BY <1>2, <1>3, <1>4

(* A worker that fetched the stop job leaves.                              *)
LEMMA ExitInvariant ==
    ASSUME IInv, NEW w \in Workers, Exit(w)
    PROVE  IInv'
<1> USE DEF IInv, Exit, queueVars
<1>1. <<>> \in Seq(Job \union {Stop}) /\ Len(<<>>) = 0
  OBVIOUS
<1>2. TypeOK'
  BY <1>1 DEF TypeOK
<1>3. WorkCounted' /\ NoLostWakeup'
  BY DEF WorkCounted, NoLostWakeup
<1>4. BarrierLast'
  <2> SUFFICES ASSUME NEW v \in Workers, NEW i \in 1..(Len(jobs'[v]) - 1)
               PROVE  jobs'[v][i] \notin Barrier \union {Stop}
    BY DEF BarrierLast
  <2>1. CASE v = w
    BY <1>1, <2>1 DEF TypeOK
  <2>2. CASE v # w
    BY <2>2 DEF BarrierLast, TypeOK
  <2> QED
    BY <2>1, <2>2
<1> QED
  BY <1>2, <1>3, <1>4

(* The destructor schedules one stop job more.                             *)
LEMMA SendStopInvariant ==
    ASSUME IInv, SendStop
    PROVE  IInv'
<1> USE DEF IInv, SendStop, runVars
<1>1. cond' = {}
  BY SignalProperties DEF NoLostWakeup
<1>2. /\ jobsQueue' \in Seq(Job \union {Stop})
      /\ Len(jobsQueue') = Len(jobsQueue) + 1
  BY DEF TypeOK
<1>3. Cardinality(Workers) \in Nat
  BY WorkersAssumption, FS_CardinalityType
<1>4. TypeOK'
  BY <1>1, <1>2, <1>3 DEF TypeOK
<1>5. WorkCounted' /\ NoLostWakeup' /\ BarrierLast'
  BY <1>1, <1>2 DEF WorkCounted, NoLostWakeup, BarrierLast
<1> QED
  BY <1>4, <1>5

(* nojobleft starts to wait, waits or returns.                             *)
LEMMA NoJobLeftInvariant ==
    ASSUME IInv, NoJobLeft
    PROVE  IInv'
<1> USE DEF IInv
<1>1. CASE CallNoJobLeft
  BY <1>1 DEF CallNoJobLeft, queueVars, runVars, TypeOK, WorkCounted, NoLostWakeup, BarrierLast
<1>2. CASE WaitNoJobLeft
  <2>1. availableWork > 0 /\ cond' = cond \union {Waiter} /\ Waiter \notin cond
    BY <1>2 DEF WaitNoJobLeft
  <2>2. cond = {}
    BY <2>1 DEF NoLostWakeup, TypeOK, Threads
  <2>3. NoLostWakeup'
    BY <2>1, <2>2, WorkersAssumption DEF NoLostWakeup
  <2>4. TypeOK'
    BY <1>2 DEF WaitNoJobLeft, runVars, TypeOK, Threads
  <2> QED
    BY <1>2, <2>3, <2>4 DEF WaitNoJobLeft, runVars, WorkCounted, BarrierLast
<1>3. CASE ReturnNoJobLeft
  BY <1>3 DEF ReturnNoJobLeft, queueVars, runVars, TypeOK, WorkCounted, NoLostWakeup, BarrierLast
<1> QED
  BY <1>1, <1>2, <1>3 DEF NoJobLeft

(* A wakeup nobody signalled only makes a waiter look again.               *)
LEMMA SpuriousWakeupInvariant ==
    ASSUME IInv, NEW t \in Threads, SpuriousWakeup(t)
    PROVE  IInv'
BY DEF IInv, SpuriousWakeup, runVars, TypeOK, WorkCounted, NoLostWakeup, BarrierLast

(* A step of nothing keeps the invariant.                                  *)
LEMMA StutterInvariant ==
    ASSUME IInv, UNCHANGED vars
    PROVE  IInv'
BY DEF IInv, vars, queueVars, runVars, TypeOK, WorkCounted, NoLostWakeup, BarrierLast

(* Every step keeps the invariant.                                         *)
LEMMA NextInvariant == IInv /\ [Next]_vars => IInv'
<1> SUFFICES ASSUME IInv, [Next]_vars PROVE IInv'
  OBVIOUS
<1>1. CASE \E js \in Vectors : ClientSchedule(js)
  BY <1>1, ScheduleInvariant
<1>2. CASE \E w \in Workers : Worker(w)
  BY <1>2, FetchWaitInvariant, FetchTakeInvariant, RunJobInvariant, ExitInvariant DEF Worker
<1>3. CASE SendStop
  BY <1>3, SendStopInvariant
<1>4. CASE NoJobLeft
  BY <1>4, NoJobLeftInvariant
<1>5. CASE \E t \in Threads : SpuriousWakeup(t)
  BY <1>5, SpuriousWakeupInvariant
<1>6. CASE Terminated \/ UNCHANGED vars
  BY <1>6, StutterInvariant DEF Terminated
<1> QED
  BY <1>1, <1>2, <1>3, <1>4, <1>5, <1>6 DEF Next

-------------------------------------------------------------------------------
(* The second invariant follows each job and each STOP_JOB through the     *)
(* queue and the vectors.                                                  *)

(* A job is at one position of the queue or of one vector, or it is done.  *)
QueueOnce ==
    \A i, k \in 1..Len(jobsQueue) :
        jobsQueue[i] = jobsQueue[k] => i = k \/ jobsQueue[i] = Stop

VectorsOnce ==
    \A v, w \in Workers : \A i \in 1..Len(jobs[v]), k \in 1..Len(jobs[w]) :
        jobs[v][i] = jobs[w][k] => (v = w /\ i = k) \/ jobs[v][i] = Stop

QueueOrVector ==
    \A w \in Workers : \A i \in 1..Len(jobsQueue), k \in 1..Len(jobs[w]) :
        jobsQueue[i] = jobs[w][k] => jobsQueue[i] = Stop

NotDoneYet ==
    /\ \A i \in 1..Len(jobsQueue) : jobsQueue[i] \notin done
    /\ \A w \in Workers : \A k \in 1..Len(jobs[w]) : jobs[w][k] \notin done

JobsApart == QueueOnce /\ VectorsOnce /\ QueueOrVector /\ NotDoneYet

Queued(j) == \E i \in 1..Len(jobsQueue) : jobsQueue[i] = j

Fetched(j) == \E w \in Workers : \E k \in 1..Len(jobs[w]) : jobs[w][k] = j

(* The scheduled jobs are those that are somewhere.                        *)
Accounted ==
    \A j \in Job : j \in scheduled <=> j \in done \/ Queued(j) \/ Fetched(j)

(* STOP_JOBs come after all jobs: no job is behind one in the queue, and   *)
(* once one was fetched there is nothing else in the queue.                *)
StopsLast ==
    /\ \A i, k \in 1..Len(jobsQueue) :
          i < k /\ jobsQueue[i] = Stop => jobsQueue[k] = Stop
    /\ exited # {} \/ Fetched(Stop) => \A i \in 1..Len(jobsQueue) : jobsQueue[i] = Stop

ExitedIdle == \A w \in exited : jobs[w] = <<>>

(* The STOP_JOBs underway and those to send are as many as the workers.    *)
StopsCounted ==
    /\ IsFiniteSet(Places(Stop))
    /\ Cardinality(Places(Stop)) + stops = Cardinality(Workers \ exited)

JInv == JobsApart /\ Accounted /\ StopsLast /\ ExitedIdle /\ StopsCounted

(* The places of an entry, without the notation for sets.                  *)
LEMMA PlacesOf ==
    ASSUME TypeOK, NEW j, NEW p
    PROVE  p \in Places(j) <=>
              \/ \E i \in 1..Len(jobsQueue) : jobsQueue[i] = j /\ p = <<"queue", i>>
              \/ \E w \in Workers : \E i \in 1..Len(jobs[w]) :
                    jobs[w][i] = j /\ p = <<"vector", w, i>>
              \/ j \in done /\ p = <<"done">>
<1>1. DOMAIN jobsQueue = 1..Len(jobsQueue)
  BY DEF TypeOK
<1>2. \A w \in Workers : DOMAIN jobs[w] = 1..Len(jobs[w])
  BY DEF TypeOK
<1> QED
  BY <1>1, <1>2 DEF Places

(* Where a job is, after a step.                                           *)
LEMMA NextPlacesOf ==
    ASSUME TypeOK', NEW j, NEW p
    PROVE  p \in Places(j)' <=>
              \/ \E i \in 1..Len(jobsQueue') : jobsQueue'[i] = j /\ p = <<"queue", i>>
              \/ \E w \in Workers : \E i \in 1..Len(jobs'[w]) :
                    jobs'[w][i] = j /\ p = <<"vector", w, i>>
              \/ j \in done' /\ p = <<"done">>
<1>1. DOMAIN jobsQueue' = 1..Len(jobsQueue')
  BY DEF TypeOK
<1>2. \A w \in Workers : DOMAIN jobs'[w] = 1..Len(jobs'[w])
  BY DEF TypeOK
<1> QED
  BY <1>1, <1>2 DEF Places

(* A one-to-one map of S onto T shows that they are of one size.           *)
LEMMA SameSize ==
    ASSUME NEW S, NEW T, IsFiniteSet(S), NEW f \in [S -> T],
           \A x, y \in S : f[x] = f[y] => x = y,
           \A t \in T : \E x \in S : f[x] = t
    PROVE  IsFiniteSet(T) /\ Cardinality(T) = Cardinality(S)
<1>1. f \in Bijection(S, T)
  BY DEF Bijection, Injection, Surjection, IsInjective
<1> QED
  BY <1>1, FS_Bijection DEF ExistsBijection

(* As long as the destructor has not begun there is no STOP_JOB, and no    *)
(* worker has left.                                                        *)
LEMMA NoStopsYet ==
    ASSUME TypeOK, StopsCounted, ~Destroying
    PROVE  Places(Stop) = {} /\ exited = {}
<1>1. Cardinality(Workers) \in Nat /\ IsFiniteSet(Workers)
  BY WorkersAssumption, FS_CardinalityType
<1>2. stops = Cardinality(Workers)
  BY <1>1 DEF TypeOK, Destroying
<1>3. /\ IsFiniteSet(Workers \ exited)
      /\ Cardinality(Workers \ exited) \in Nat
      /\ Cardinality(Workers \ exited) <= Cardinality(Workers)
      /\ Cardinality(Workers) = Cardinality(Workers \ exited) => Workers \ exited = Workers
  <2>1. Workers \ exited \in SUBSET Workers
    OBVIOUS
  <2>2. /\ IsFiniteSet(Workers \ exited)
        /\ Cardinality(Workers \ exited) <= Cardinality(Workers)
        /\ Cardinality(Workers) = Cardinality(Workers \ exited) => Workers = Workers \ exited
    BY <1>1, <2>1, FS_Subset
  <2> QED
    BY <2>2, FS_CardinalityType
<1>4. Cardinality(Places(Stop)) \in Nat
  BY FS_CardinalityType DEF StopsCounted
<1>5. Cardinality(Places(Stop)) = 0 /\ Cardinality(Workers \ exited) = Cardinality(Workers)
  BY <1>1, <1>2, <1>3, <1>4 DEF StopsCounted
<1>6. Places(Stop) = {}
  BY <1>5, FS_EmptySet DEF StopsCounted
<1> QED
  BY <1>3, <1>5, <1>6 DEF TypeOK

(* Nothing is scheduled, no worker has left.                               *)
LEMMA InitWork == Init => JInv
<1> SUFFICES ASSUME Init PROVE JInv
  OBVIOUS
<1>1. TypeOK
  BY InitInvariant DEF IInv
<1>2. Len(jobsQueue) = 0 /\ \A w \in Workers : jobs[w] = <<>> /\ Len(jobs[w]) = 0
  BY DEF Init
<1>3. Places(Stop) = {}
  <2>1. \A p : p \notin Places(Stop)
    BY <1>1, <1>2, PlacesOf DEF Init
  <2> QED
    BY <2>1
<1>4. StopsCounted
  <2>1. Workers \ exited = Workers /\ Cardinality(Workers) \in Nat
    BY WorkersAssumption, FS_CardinalityType DEF Init
  <2> QED
    BY <1>3, <2>1, FS_EmptySet DEF Init, StopsCounted
<1> QED
  BY <1>2, <1>4 DEF Init, JInv, JobsApart, Accounted, Queued, Fetched, StopsLast, ExitedIdle,
             QueueOnce, VectorsOnce, QueueOrVector, NotDoneYet

(* A client schedules jobs that were not scheduled before, and no STOP_JOB *)
(* is underway yet.                                                        *)
LEMMA ScheduleWork ==
    ASSUME IInv, JInv, NEW js \in Vectors, ClientSchedule(js)
    PROVE  JInv'
<1>1. TypeOK /\ TypeOK'
  BY ScheduleInvariant DEF IInv
<1>2. /\ jobsQueue' = jobsQueue \o js
      /\ scheduled' = scheduled \union Range(js)
      /\ Range(js) \intersect scheduled = {}
      /\ UNCHANGED <<jobs, exited, done, stops>>
      /\ ~Destroying
  BY DEF ClientSchedule, Schedule, runVars
<1>3. Places(Stop) = {} /\ exited = {}
  BY <1>1, <1>2, NoStopsYet DEF JInv
<1>4. js \in Seq(Job) /\ js \in Seq(Entry) /\ jobsQueue \in Seq(Entry) /\ Len(js) \in Nat
      /\ Len(jobsQueue) \in Nat
  BY <1>1, VectorsAreSequences DEF TypeOK, Entry
<1>5. \A i, k \in 1..Len(js) : js[i] = js[k] => i = k
  BY <1>4 DEF Vectors
<1>6. Range(js) = {js[i] : i \in 1..Len(js)}
  BY <1>4 DEF Range
<1>7. /\ Len(jobsQueue') = Len(jobsQueue) + Len(js)
      /\ \A i \in 1..Len(jobsQueue) : jobsQueue'[i] = jobsQueue[i]
      /\ \A i \in 1..Len(jobsQueue') :
            i > Len(jobsQueue) => /\ i - Len(jobsQueue) \in 1..Len(js)
                                  /\ jobsQueue'[i] = js[i - Len(jobsQueue)]
  <2>1. /\ Len(jobsQueue \o js) = Len(jobsQueue) + Len(js)
        /\ \A i \in 1..Len(jobsQueue) + Len(js) : (jobsQueue \o js)[i] =
              IF i <= Len(jobsQueue) THEN jobsQueue[i] ELSE js[i - Len(jobsQueue)]
    BY <1>4, ConcatProperties
  <2> QED
    BY <1>2, <1>4, <2>1
<1>8. \A i \in 1..Len(jobsQueue) : jobsQueue[i] # Stop
  BY <1>1, <1>3, PlacesOf
<1>9. \A w \in Workers : \A k \in 1..Len(jobs[w]) : jobs[w][k] # Stop
  <2> SUFFICES ASSUME NEW w \in Workers, NEW k \in 1..Len(jobs[w]), jobs[w][k] = Stop
               PROVE  <<"vector", w, k>> \in Places(Stop)
    BY <1>3
  <2> QED
    BY <1>1, PlacesOf
<1>10. \A i \in 1..Len(js) : /\ js[i] \in Job /\ js[i] # Stop
                             /\ js[i] \notin done /\ ~Queued(js[i]) /\ ~Fetched(js[i])
  <2>1. \A i \in 1..Len(js) : js[i] \in Job /\ js[i] \notin scheduled
    BY <1>2, <1>4, <1>6
  <2> QED
    BY <2>1, JobAssumption DEF JInv, Accounted
<1>11. \A i \in 1..Len(jobsQueue') :
           \/ i \in 1..Len(jobsQueue) /\ jobsQueue'[i] = jobsQueue[i]
           \/ /\ i > Len(jobsQueue) /\ i - Len(jobsQueue) \in 1..Len(js)
              /\ jobsQueue'[i] = js[i - Len(jobsQueue)]
  BY <1>4, <1>7
<1>12. \A i \in 1..Len(jobsQueue') : jobsQueue'[i] # Stop
  BY <1>8, <1>10, <1>11
<1>13. JobsApart'
  <2>1. \A i, k \in 1..Len(jobsQueue') : jobsQueue'[i] = jobsQueue'[k] => i = k
    <3> SUFFICES ASSUME NEW i \in 1..Len(jobsQueue'), NEW k \in 1..Len(jobsQueue'),
                        jobsQueue'[i] = jobsQueue'[k]
                 PROVE  i = k
      OBVIOUS
    <3>1. CASE i <= Len(jobsQueue) /\ k <= Len(jobsQueue)
      BY <1>4, <1>7, <1>8, <3>1 DEF JInv, JobsApart, QueueOnce
    <3>2. CASE i > Len(jobsQueue) /\ k > Len(jobsQueue)
      <4>1. /\ i - Len(jobsQueue) \in 1..Len(js) /\ k - Len(jobsQueue) \in 1..Len(js)
            /\ js[i - Len(jobsQueue)] = js[k - Len(jobsQueue)]
        BY <1>7, <3>2
      <4>2. i - Len(jobsQueue) = k - Len(jobsQueue)
        BY <1>5, <4>1
      <4> QED
        BY <1>4, <4>2
    <3>3. CASE ~(i <= Len(jobsQueue) <=> k <= Len(jobsQueue))
      BY <1>4, <1>7, <1>10, <3>3 DEF Queued
    <3> QED
      BY <1>4, <3>1, <3>2, <3>3
  <2>2. \A w \in Workers : \A i \in 1..Len(jobsQueue'), k \in 1..Len(jobs[w]) :
            jobsQueue'[i] # jobs[w][k]
    <3> SUFFICES ASSUME NEW w \in Workers, NEW i \in 1..Len(jobsQueue'), NEW k \in 1..Len(jobs[w])
                 PROVE  jobsQueue'[i] # jobs[w][k]
      OBVIOUS
    <3>1. CASE i \in 1..Len(jobsQueue) /\ jobsQueue'[i] = jobsQueue[i]
      BY <1>8, <3>1 DEF JInv, JobsApart, QueueOrVector
    <3>2. CASE i - Len(jobsQueue) \in 1..Len(js) /\ jobsQueue'[i] = js[i - Len(jobsQueue)]
      BY <1>10, <3>2 DEF Fetched
    <3> QED
      BY <1>11, <3>1, <3>2
  <2>3. \A i \in 1..Len(jobsQueue') : jobsQueue'[i] \notin done
    BY <1>10, <1>11 DEF JInv, JobsApart, NotDoneYet
  <2>4. QueueOnce' /\ QueueOrVector'
    BY <1>2, <2>1, <2>2 DEF QueueOnce, QueueOrVector
  <2>5. VectorsOnce' /\ NotDoneYet'
    BY <1>2, <2>3 DEF JInv, JobsApart, VectorsOnce, NotDoneYet
  <2> QED
    BY <2>4, <2>5 DEF JobsApart
<1>14. Accounted'
  <2> SUFFICES ASSUME NEW j \in Job
               PROVE  j \in scheduled' <=> j \in done \/ Queued(j)' \/ Fetched(j)
    BY <1>2 DEF Accounted, Fetched
  <2>1. Queued(j)' <=> Queued(j) \/ j \in Range(js)
    <3>1. \A i \in 1..Len(js) : /\ Len(jobsQueue) + i \in 1..Len(jobsQueue')
                                /\ jobsQueue'[Len(jobsQueue) + i] = js[i]
      BY <1>4, <1>7
    <3>2. ASSUME Queued(j) PROVE Queued(j)'
      BY <1>4, <1>7, <3>2 DEF Queued
    <3>3. ASSUME j \in Range(js) PROVE Queued(j)'
      BY <1>6, <3>1, <3>3 DEF Queued
    <3>4. ASSUME Queued(j)' PROVE Queued(j) \/ j \in Range(js)
      BY <1>6, <1>11, <3>4 DEF Queued
    <3> QED
      BY <3>2, <3>3, <3>4
  <2> QED
    BY <1>2, <2>1 DEF JInv, Accounted
<1>15. StopsLast' /\ ExitedIdle'
  BY <1>2, <1>3, <1>9, <1>12 DEF StopsLast, ExitedIdle, Fetched
<1>16. StopsCounted'
  <2>1. Places(Stop)' = {}
    <3>1. Stop \notin done
      BY <1>1, JobAssumption DEF TypeOK
    <3>2. \A p : p \notin Places(Stop)'
      BY <1>1, <1>2, <1>9, <1>12, <3>1, NextPlacesOf
    <3> QED
      BY <3>2
  <2> QED
    BY <1>2, <1>3, <2>1 DEF JInv, StopsCounted
<1> QED
  BY <1>13, <1>14, <1>15, <1>16 DEF JInv

(* fetchWork moves the first entries of the queue into an empty vector.    *)
LEMMA FetchTakeWork ==
    ASSUME IInv, JInv, NEW w \in Workers, FetchTake(w)
    PROVE  JInv'
<1>1. TypeOK /\ TypeOK' /\ Len(jobsQueue) \in Nat /\ availableWork = Len(jobsQueue)
  BY FetchTakeInvariant DEF IInv, TypeOK, WorkCounted
<1>2. PICK k \in 1..availableWork :
          /\ jobsQueue' = SubSeq(jobsQueue, k + 1, Len(jobsQueue))
          /\ jobs' = [jobs EXCEPT ![w] = SubSeq(jobsQueue, 1, k)]
  BY Zenon DEF FetchTake
<1>3. /\ UNCHANGED <<exited, stops, scheduled, done>>
      /\ jobs[w] = <<>> /\ Len(jobs[w]) = 0 /\ w \notin exited
  BY DEF FetchTake, Fetching
<1>4. /\ k \in 1..Len(jobsQueue) /\ k \in Nat
      /\ Len(jobsQueue') = Len(jobsQueue) - k
      /\ \A i \in 1..Len(jobsQueue') : k + i \in 1..Len(jobsQueue) /\ jobsQueue'[i] = jobsQueue[k + i]
      /\ jobs'[w] = SubSeq(jobsQueue, 1, k) /\ Len(jobs'[w]) = k
      /\ \A i \in 1..k : i \in 1..Len(jobsQueue) /\ jobs'[w][i] = jobsQueue[i]
      /\ \A v \in Workers : v # w => jobs'[v] = jobs[v]
  <2>1. k \in 1..Len(jobsQueue) /\ jobsQueue \in Seq(Entry)
    BY <1>1 DEF TypeOK, Entry
  <2>2. jobs'[w] = SubSeq(jobsQueue, 1, k) /\ \A v \in Workers : v # w => jobs'[v] = jobs[v]
    BY <1>1, <1>2 DEF TypeOK
  <2>3. /\ Len(SubSeq(jobsQueue, 1, k)) = k
        /\ Len(jobsQueue') = Len(jobsQueue) - k
        /\ \A i \in 1..k : SubSeq(jobsQueue, 1, k)[i] = jobsQueue[i]
        /\ \A i \in 1..(Len(jobsQueue) - k) : jobsQueue'[i] = jobsQueue[k + i]
    BY <1>2, <2>1, QueueSplit
  <2>4. \A i \in 1..(Len(jobsQueue) - k) : k + i \in 1..Len(jobsQueue)
    BY <1>1, <2>1
  <2>5. \A i \in 1..k : i \in 1..Len(jobsQueue)
    BY <1>1, <2>1
  <2> QED
    BY <2>1, <2>2, <2>3, <2>4, <2>5
<1>5. \A i \in 1..Len(jobsQueue) :
          \/ i \in 1..k /\ jobs'[w][i] = jobsQueue[i]
          \/ i - k \in 1..Len(jobsQueue') /\ jobsQueue'[i - k] = jobsQueue[i]
  BY <1>1, <1>4
<1>6. JobsApart'
  <2>1. QueueOnce'
    BY <1>1, <1>4 DEF JInv, JobsApart, QueueOnce
  <2>2. VectorsOnce'
    <3> SUFFICES ASSUME NEW u \in Workers, NEW v \in Workers,
                        NEW i \in 1..Len(jobs'[u]), NEW l \in 1..Len(jobs'[v]),
                        jobs'[u][i] = jobs'[v][l], jobs'[u][i] # Stop
                 PROVE  u = v /\ i = l
      BY DEF VectorsOnce
    <3>1. CASE u = w /\ v = w
      BY <1>4, <3>1 DEF JInv, JobsApart, QueueOnce
    <3>2. CASE u = w /\ v # w
      BY <1>4, <3>2 DEF JInv, JobsApart, QueueOrVector
    <3>3. CASE u # w /\ v = w
      BY <1>4, <3>3 DEF JInv, JobsApart, QueueOrVector
    <3>4. CASE u # w /\ v # w
      <4>1. jobs'[u] = jobs[u] /\ jobs'[v] = jobs[v]
        BY <1>4, <3>4
      <4>2. i \in 1..Len(jobs[u]) /\ l \in 1..Len(jobs[v]) /\ jobs[u][i] = jobs[v][l]
        BY <4>1
      <4> QED
        BY <4>1, <4>2 DEF JInv, JobsApart, VectorsOnce
    <3> QED
      BY <3>1, <3>2, <3>3, <3>4
  <2>3. QueueOrVector'
    <3> SUFFICES ASSUME NEW v \in Workers, NEW i \in 1..Len(jobsQueue'), NEW l \in 1..Len(jobs'[v]),
                        jobsQueue'[i] = jobs'[v][l]
                 PROVE  jobsQueue'[i] = Stop
      BY DEF QueueOrVector
    <3>1. CASE v = w
      <4>1. jobsQueue[k + i] = jobsQueue[l] /\ k + i # l
        BY <1>4, <3>1
      <4> QED
        BY <1>4, <3>1, <4>1 DEF JInv, JobsApart, QueueOnce
    <3>2. CASE v # w
      <4>1. jobs'[v] = jobs[v] /\ jobsQueue'[i] = jobsQueue[k + i] /\ k + i \in 1..Len(jobsQueue)
        BY <1>4, <3>2
      <4> QED
        BY <4>1 DEF JInv, JobsApart, QueueOrVector
    <3> QED
      BY <3>1, <3>2
  <2>4. NotDoneYet'
    <3>1. \A i \in 1..Len(jobsQueue') : jobsQueue'[i] \notin done
      BY <1>4 DEF JInv, JobsApart, NotDoneYet
    <3>2. \A v \in Workers : \A l \in 1..Len(jobs'[v]) : jobs'[v][l] \notin done
      BY <1>4 DEF JInv, JobsApart, NotDoneYet
    <3> QED
      BY <1>3, <3>1, <3>2 DEF NotDoneYet
  <2> QED
    BY <2>1, <2>2, <2>3, <2>4 DEF JobsApart
<1>7. \A j : Queued(j)' \/ Fetched(j)' <=> Queued(j) \/ Fetched(j)
  <2> SUFFICES ASSUME NEW j PROVE Queued(j)' \/ Fetched(j)' <=> Queued(j) \/ Fetched(j)
    OBVIOUS
  <2>1. ASSUME Queued(j) PROVE Queued(j)' \/ Fetched(j)'
    BY <1>4, <1>5, <2>1 DEF Queued, Fetched
  <2>2. ASSUME Fetched(j) PROVE Fetched(j)'
    <3>1. PICK v \in Workers : \E i \in 1..Len(jobs[v]) : jobs[v][i] = j
      BY <2>2 DEF Fetched
    <3>2. v # w /\ jobs'[v] = jobs[v]
      BY <1>3, <1>4, <3>1
    <3> QED
      BY <3>1, <3>2 DEF Fetched
  <2>3. ASSUME Queued(j)' PROVE Queued(j)
    BY <1>4, <2>3 DEF Queued
  <2>4. ASSUME Fetched(j)' PROVE Queued(j) \/ Fetched(j)
    BY <1>4, <2>4 DEF Queued, Fetched
  <2> QED
    BY <2>1, <2>2, <2>3, <2>4
<1>8. Accounted'
  BY <1>3, <1>7 DEF JInv, Accounted
<1>9. StopsLast'
  <2>1. ASSUME NEW i \in 1..Len(jobsQueue'), NEW l \in 1..Len(jobsQueue'),
               i < l, jobsQueue'[i] = Stop
        PROVE  jobsQueue'[l] = Stop
    <3>1. k + i \in 1..Len(jobsQueue) /\ k + l \in 1..Len(jobsQueue) /\ k + i < k + l
      BY <1>1, <1>4, <2>1
    <3>2. jobsQueue'[i] = jobsQueue[k + i] /\ jobsQueue'[l] = jobsQueue[k + l]
      BY <1>4
    <3> QED
      BY <2>1, <3>1, <3>2 DEF JInv, StopsLast
  <2>2. ASSUME exited # {} \/ Fetched(Stop)', NEW l \in 1..Len(jobsQueue')
        PROVE  jobsQueue'[l] = Stop
    <3>1. CASE exited # {} \/ Fetched(Stop)
      BY <1>4, <3>1 DEF JInv, StopsLast
    <3>2. CASE \E i \in 1..k : jobsQueue[i] = Stop
      BY <1>4, <3>2 DEF JInv, StopsLast
    <3>3. (exited # {} \/ Fetched(Stop)) \/ \E i \in 1..k : jobsQueue[i] = Stop
      BY <1>4, <2>2 DEF Fetched
    <3> QED
      BY <3>1, <3>2, <3>3
  <2> QED
    BY <1>3, <2>1, <2>2 DEF StopsLast
<1>10. ExitedIdle'
  BY <1>1, <1>3, <1>4 DEF JInv, ExitedIdle, TypeOK
<1>11. StopsCounted'
  <2> DEFINE S == Places(Stop)
             T == Places(Stop)'
             f == [p \in S |-> IF p[1] = "queue"
                               THEN IF p[2] <= k THEN <<"vector", w, p[2]>> ELSE <<"queue", p[2] - k>>
                               ELSE p]
  <2>1. Stop \notin done
    BY <1>1, JobAssumption DEF TypeOK
  <2>2. \A p \in S : \/ \E i \in 1..Len(jobsQueue) : jobsQueue[i] = Stop /\ p = <<"queue", i>>
                     \/ \E v \in Workers : \E i \in 1..Len(jobs[v]) :
                           v # w /\ jobs[v][i] = Stop /\ p = <<"vector", v, i>>
    BY <1>1, <1>3, <2>1, PlacesOf
  <2>3. \A p \in T : \/ \E i \in 1..Len(jobsQueue') : jobsQueue'[i] = Stop /\ p = <<"queue", i>>
                     \/ \E i \in 1..k : jobs'[w][i] = Stop /\ p = <<"vector", w, i>>
                     \/ \E v \in Workers : \E i \in 1..Len(jobs[v]) :
                           v # w /\ jobs[v][i] = Stop /\ p = <<"vector", v, i>>
    <3> SUFFICES ASSUME NEW p \in T, NEW v \in Workers, NEW i \in 1..Len(jobs'[v]),
                        jobs'[v][i] = Stop, p = <<"vector", v, i>>
                 PROVE  \/ v = w /\ i \in 1..k
                        \/ v # w /\ i \in 1..Len(jobs[v]) /\ jobs[v][i] = Stop
      BY <1>1, <1>3, <2>1, NextPlacesOf
    <3> QED
      BY <1>4
  <2>4. f \in [S -> T]
    <3> SUFFICES ASSUME NEW p \in S PROVE f[p] \in T
      OBVIOUS
    <3>1. CASE \E i \in 1..Len(jobsQueue) : jobsQueue[i] = Stop /\ p = <<"queue", i>>
      <4>1. PICK i \in 1..Len(jobsQueue) : jobsQueue[i] = Stop /\ p = <<"queue", i>>
        BY <3>1
      <4>2. CASE i <= k
        <5>1. i \in 1..Len(jobs'[w]) /\ jobs'[w][i] = Stop /\ f[p] = <<"vector", w, i>>
          BY <1>4, <4>1, <4>2
        <5> QED
          BY <1>1, <5>1, NextPlacesOf
      <4>3. CASE ~(i <= k)
        <5>1. i - k \in 1..Len(jobsQueue') /\ jobsQueue'[i - k] = Stop /\ f[p] = <<"queue", i - k>>
          BY <1>1, <1>4, <4>1, <4>3
        <5> QED
          BY <1>1, <5>1, NextPlacesOf
      <4> QED
        BY <4>2, <4>3
    <3>2. CASE \E v \in Workers : \E i \in 1..Len(jobs[v]) :
                  v # w /\ jobs[v][i] = Stop /\ p = <<"vector", v, i>>
      <4>0. PICK v \in Workers : \E i \in 1..Len(jobs[v]) :
                v # w /\ jobs[v][i] = Stop /\ p = <<"vector", v, i>>
        BY <3>2
      <4>1. PICK i \in 1..Len(jobs[v]) :
                v # w /\ jobs[v][i] = Stop /\ p = <<"vector", v, i>>
        BY <4>0
      <4>2. f[p] = <<"vector", v, i>> /\ i \in 1..Len(jobs'[v]) /\ jobs'[v][i] = Stop
        BY <1>4, <4>1
      <4> QED
        BY <1>1, <4>2, NextPlacesOf
    <3> QED
      BY <2>2, <3>1, <3>2
  <2>5. ASSUME NEW p \in S, NEW q \in S, f[p] = f[q] PROVE p = q
    <3>1. (\E i \in Int : p = <<"queue", i>>) \/ \E v, i : v # w /\ p = <<"vector", v, i>>
      BY <2>2
    <3>2. (\E i \in Int : q = <<"queue", i>>) \/ \E v, i : v # w /\ q = <<"vector", v, i>>
      BY <2>2
    <3> QED
      BY <1>4, <2>5, <3>1, <3>2
  <2>6. ASSUME NEW t \in T PROVE \E p \in S : f[p] = t
    <3>1. CASE \E i \in 1..Len(jobsQueue') : jobsQueue'[i] = Stop /\ t = <<"queue", i>>
      <4>1. PICK i \in 1..Len(jobsQueue') : jobsQueue'[i] = Stop /\ t = <<"queue", i>>
        BY <3>1
      <4>2. <<"queue", k + i>> \in S
        BY <1>1, <1>4, <4>1, PlacesOf
      <4>3. f[<<"queue", k + i>>] = <<"queue", i>>
        BY <1>4, <4>1, <4>2
      <4> QED
        BY <4>1, <4>2, <4>3
    <3>2. CASE \E i \in 1..k : jobs'[w][i] = Stop /\ t = <<"vector", w, i>>
      <4>1. PICK i \in 1..k : jobs'[w][i] = Stop /\ t = <<"vector", w, i>>
        BY <3>2
      <4>2. <<"queue", i>> \in S
        BY <1>1, <1>4, <4>1, PlacesOf
      <4>3. f[<<"queue", i>>] = <<"vector", w, i>>
        BY <1>4, <4>1, <4>2
      <4> QED
        BY <4>1, <4>2, <4>3
    <3>3. CASE \E v \in Workers : \E i \in 1..Len(jobs[v]) :
                  v # w /\ jobs[v][i] = Stop /\ t = <<"vector", v, i>>
      <4>1. t \in S /\ t[1] # "queue"
        BY <1>1, <3>3, PlacesOf
      <4> QED
        BY <4>1
    <3> QED
      BY <2>3, <3>1, <3>2, <3>3
  <2>7. IsFiniteSet(T) /\ Cardinality(T) = Cardinality(S)
    <3> HIDE DEF f
    <3> QED
      BY <2>4, <2>5, <2>6, SameSize DEF JInv, StopsCounted
  <2> QED
    BY <1>3, <2>7 DEF JInv, StopsCounted
<1> QED
  BY <1>6, <1>8, <1>9, <1>10, <1>11 DEF JInv

(* The head of a vector has run: the others move up by one.                *)
LEMMA RunJobWork ==
    ASSUME IInv, JInv, NEW w \in Workers, RunJob(w)
    PROVE  JInv'
<1>1. TypeOK /\ TypeOK'
  BY RunJobInvariant DEF IInv
<1>2. /\ UNCHANGED <<jobsQueue, exited, stops, scheduled>>
      /\ jobs[w] # <<>> /\ Head(jobs[w]) # Stop
      /\ jobs' = [jobs EXCEPT ![w] = Tail(jobs[w])]
      /\ done' = done \union {Head(jobs[w])}
  BY DEF RunJob, Finish, queueVars
<1> DEFINE n == Len(jobs[w])
<1>3. /\ n \in Nat /\ 1 \in 1..n
      /\ jobs[w][1] = Head(jobs[w]) /\ jobs[w][1] # Stop
      /\ jobs'[w] = Tail(jobs[w]) /\ Len(jobs'[w]) = n - 1
      /\ \A i \in 1..Len(jobs'[w]) : i + 1 \in 1..n /\ jobs'[w][i] = jobs[w][i + 1]
      /\ \A v \in Workers : v # w => jobs'[v] = jobs[v]
  <2>1. jobs[w] \in Seq(Entry) /\ jobs[w] # <<>>
    BY <1>1, <1>2 DEF TypeOK, Entry
  <2>2. /\ Len(Tail(jobs[w])) = n - 1
        /\ \A i \in 1..Len(Tail(jobs[w])) : Tail(jobs[w])[i] = jobs[w][i + 1]
        /\ Head(jobs[w]) = jobs[w][1] /\ n \in Nat /\ n >= 1
    BY <2>1, HeadTailProperties, EmptySeq, LenProperties
  <2>3. jobs'[w] = Tail(jobs[w]) /\ \A v \in Workers : v # w => jobs'[v] = jobs[v]
    BY <1>1, <1>2 DEF TypeOK
  <2>4. n \in Nat /\ 1 \in 1..n /\ jobs[w][1] = Head(jobs[w]) /\ jobs[w][1] # Stop
    BY <1>2, <2>2
  <2>5. /\ Len(jobs'[w]) = n - 1
        /\ \A i \in 1..(n - 1) : i + 1 \in 1..n /\ jobs'[w][i] = jobs[w][i + 1]
    BY <2>2, <2>3
  <2> QED
    BY <2>3, <2>4, <2>5
<1>4. \A i \in 1..n : i = 1 \/ (i - 1 \in 1..Len(jobs'[w]) /\ jobs'[w][i - 1] = jobs[w][i])
  <2> SUFFICES ASSUME NEW i \in 1..n, i # 1
               PROVE  i - 1 \in 1..Len(jobs'[w]) /\ jobs'[w][i - 1] = jobs[w][i]
    OBVIOUS
  <2>1. i - 1 \in 1..Len(jobs'[w]) /\ (i - 1) + 1 = i
    BY <1>3
  <2> QED
    BY <1>3, <2>1
<1> HIDE DEF n
<1>4a. \A v \in Workers : \A l \in 1..Len(jobs'[v]) : \E b \in 1..Len(jobs[v]) :
           jobs'[v][l] = jobs[v][b] /\ b = IF v = w THEN l + 1 ELSE l
  <2> SUFFICES ASSUME NEW v \in Workers, NEW l \in 1..Len(jobs'[v])
               PROVE  \E b \in 1..Len(jobs[v]) :
                          jobs'[v][l] = jobs[v][b] /\ b = IF v = w THEN l + 1 ELSE l
    OBVIOUS
  <2>1. CASE v = w
    BY <1>3, <2>1 DEF n
  <2>2. CASE v # w
    BY <1>3, <2>2
  <2> QED
    BY <2>1, <2>2
<1>5. jobs[w][1] \in Job
  BY <1>1, <1>3 DEF TypeOK, n
<1>6. JobsApart'
  <2>1. VectorsOnce'
    <3> SUFFICES ASSUME NEW u \in Workers, NEW v \in Workers,
                        NEW i \in 1..Len(jobs'[u]), NEW l \in 1..Len(jobs'[v]),
                        jobs'[u][i] = jobs'[v][l], jobs'[u][i] # Stop
                 PROVE  u = v /\ i = l
      BY DEF VectorsOnce
    <3>1. PICK a \in 1..Len(jobs[u]) : jobs'[u][i] = jobs[u][a] /\ a = IF u = w THEN i + 1 ELSE i
      BY <1>4a
    <3>2. PICK b \in 1..Len(jobs[v]) : jobs'[v][l] = jobs[v][b] /\ b = IF v = w THEN l + 1 ELSE l
      BY <1>4a
    <3>3. jobs[u][a] = jobs[v][b] /\ jobs[u][a] # Stop
      BY <3>1, <3>2
    <3>4. u = v /\ a = b
      BY <3>3 DEF JInv, JobsApart, VectorsOnce
    <3> QED
      BY <3>1, <3>2, <3>4
  <2>2. QueueOrVector'
    <3> SUFFICES ASSUME NEW v \in Workers, NEW i \in 1..Len(jobsQueue), NEW l \in 1..Len(jobs'[v]),
                        jobsQueue[i] = jobs'[v][l]
                 PROVE  jobsQueue[i] = Stop
      BY <1>2 DEF QueueOrVector
    <3>1. \E b \in 1..Len(jobs[v]) : jobs'[v][l] = jobs[v][b]
      BY <1>4a
    <3> QED
      BY <3>1 DEF JInv, JobsApart, QueueOrVector
  <2>3. NotDoneYet'
    <3>1. ASSUME NEW i \in 1..Len(jobsQueue) PROVE jobsQueue[i] \notin done'
      BY <1>2, <1>3 DEF JInv, JobsApart, QueueOrVector, NotDoneYet, n
    <3>2. ASSUME NEW v \in Workers, NEW l \in 1..Len(jobs'[v]) PROVE jobs'[v][l] \notin done'
      <4>1. PICK b \in 1..Len(jobs[v]) : jobs'[v][l] = jobs[v][b] /\ ~(v = w /\ b = 1)
        BY <1>4a
      <4>2. jobs[v][b] # jobs[w][1]
        BY <1>3, <4>1 DEF JInv, JobsApart, VectorsOnce, n
      <4>3. jobs[v][b] \notin done
        BY DEF JInv, JobsApart, NotDoneYet
      <4>4. done' = done \union {jobs[w][1]}
        BY <1>2, <1>3
      <4> QED
        BY <4>1, <4>2, <4>3, <4>4
    <3> QED
      BY <1>2, <3>1, <3>2 DEF NotDoneYet
  <2> QED
    BY <1>2, <2>1, <2>2, <2>3 DEF JInv, JobsApart, QueueOnce
<1>7. \A j : Fetched(j) <=> Fetched(j)' \/ j = jobs[w][1]
  <2> SUFFICES ASSUME NEW j PROVE Fetched(j) <=> Fetched(j)' \/ j = jobs[w][1]
    OBVIOUS
  <2>1. ASSUME Fetched(j) PROVE Fetched(j)' \/ j = jobs[w][1]
    <3>1. PICK v \in Workers : \E i \in 1..Len(jobs[v]) : jobs[v][i] = j
      BY <2>1 DEF Fetched
    <3>2. CASE v = w
      BY <1>4, <3>1, <3>2 DEF Fetched, n
    <3>3. CASE v # w
      BY <1>3, <3>1, <3>3 DEF Fetched
    <3> QED
      BY <3>2, <3>3
  <2>2. ASSUME Fetched(j)' PROVE Fetched(j)
    <3>1. PICK v \in Workers : \E i \in 1..Len(jobs'[v]) : jobs'[v][i] = j
      BY <2>2 DEF Fetched
    <3> QED
      BY <1>4a, <3>1 DEF Fetched
  <2>3. Fetched(jobs[w][1])
    BY <1>3 DEF Fetched, n
  <2> QED
    BY <2>1, <2>2, <2>3
<1>8. Accounted'
  <2>1. \A j : Queued(j)' <=> Queued(j)
    BY <1>2 DEF Queued
  <2> QED
    BY <1>2, <1>3, <1>7, <2>1 DEF JInv, Accounted
<1>9. StopsLast' /\ ExitedIdle'
  <2>1. Fetched(Stop)' => Fetched(Stop)
    BY <1>7
  <2>2. w \notin exited
    BY <1>2 DEF JInv, ExitedIdle
  <2>3. exited \subseteq Workers
    BY <1>1 DEF TypeOK
  <2> QED
    BY <1>2, <1>3, <2>1, <2>2, <2>3 DEF JInv, StopsLast, ExitedIdle
<1>10. StopsCounted'
  <2> DEFINE S == Places(Stop)
             T == Places(Stop)'
             f == [p \in S |-> IF p[1] = "vector"
                               THEN IF p[2] = w THEN <<"vector", w, p[3] - 1>> ELSE p
                               ELSE p]
  <2>1. Stop \notin done /\ Stop \notin done'
    BY <1>1, JobAssumption DEF TypeOK
  <2>2. \A p \in S : \/ \E i \in 1..Len(jobsQueue) : jobsQueue[i] = Stop /\ p = <<"queue", i>>
                     \/ \E i \in 1..n : i # 1 /\ jobs[w][i] = Stop /\ p = <<"vector", w, i>>
                     \/ \E v \in Workers : \E i \in 1..Len(jobs[v]) :
                           v # w /\ jobs[v][i] = Stop /\ p = <<"vector", v, i>>
    <3> SUFFICES ASSUME NEW p \in S, NEW v \in Workers, NEW i \in 1..Len(jobs[v]),
                        jobs[v][i] = Stop, p = <<"vector", v, i>>
                 PROVE  \/ v = w /\ i \in 1..n /\ i # 1
                        \/ v # w
      BY <1>1, <2>1, PlacesOf
    <3> QED
      BY <1>3 DEF n
  <2>3. \A p \in T : \/ \E i \in 1..Len(jobsQueue) : jobsQueue[i] = Stop /\ p = <<"queue", i>>
                     \/ \E i \in 1..Len(jobs'[w]) : jobs'[w][i] = Stop /\ p = <<"vector", w, i>>
                     \/ \E v \in Workers : \E i \in 1..Len(jobs[v]) :
                           v # w /\ jobs[v][i] = Stop /\ p = <<"vector", v, i>>
    <3> SUFFICES ASSUME NEW p \in T, NEW v \in Workers, NEW i \in 1..Len(jobs'[v]),
                        jobs'[v][i] = Stop, p = <<"vector", v, i>>
                 PROVE  v = w \/ (v # w /\ i \in 1..Len(jobs[v]) /\ jobs[v][i] = Stop)
      BY <1>1, <1>2, <2>1, NextPlacesOf
    <3> QED
      BY <1>3
  <2>4. f \in [S -> T]
    <3> SUFFICES ASSUME NEW p \in S PROVE f[p] \in T
      OBVIOUS
    <3>1. CASE \E i \in 1..Len(jobsQueue) : jobsQueue[i] = Stop /\ p = <<"queue", i>>
      <4>1. f[p] = p
        BY <3>1
      <4> QED
        BY <1>1, <1>2, <3>1, <4>1, NextPlacesOf
    <3>2. CASE \E i \in 1..n : i # 1 /\ jobs[w][i] = Stop /\ p = <<"vector", w, i>>
      <4>1. PICK i \in 1..n : i # 1 /\ jobs[w][i] = Stop /\ p = <<"vector", w, i>>
        BY <3>2
      <4>2. f[p] = <<"vector", w, i - 1>>
        BY <4>1
      <4>3. i - 1 \in 1..Len(jobs'[w]) /\ jobs'[w][i - 1] = Stop
        BY <1>4, <4>1
      <4> QED
        BY <1>1, <4>2, <4>3, NextPlacesOf
    <3>3. CASE \E v \in Workers : \E i \in 1..Len(jobs[v]) :
                  v # w /\ jobs[v][i] = Stop /\ p = <<"vector", v, i>>
      <4>0. PICK v \in Workers : \E i \in 1..Len(jobs[v]) :
                v # w /\ jobs[v][i] = Stop /\ p = <<"vector", v, i>>
        BY <3>3
      <4>1. PICK i \in 1..Len(jobs[v]) :
                v # w /\ jobs[v][i] = Stop /\ p = <<"vector", v, i>>
        BY <4>0
      <4>2. f[p] = <<"vector", v, i>> /\ i \in 1..Len(jobs'[v]) /\ jobs'[v][i] = Stop
        BY <1>3, <4>1
      <4> QED
        BY <1>1, <4>2, NextPlacesOf
    <3> QED
      BY <2>2, <3>1, <3>2, <3>3
  <2>5. ASSUME NEW p \in S, NEW q \in S, f[p] = f[q] PROVE p = q
    <3>1. (\E i : p = <<"queue", i>>) \/ \E v : \E i \in Int : p = <<"vector", v, i>>
      BY <2>2
    <3>2. (\E i : q = <<"queue", i>>) \/ \E v : \E i \in Int : q = <<"vector", v, i>>
      BY <2>2
    <3> QED
      BY <2>5, <3>1, <3>2
  <2>6. ASSUME NEW t \in T PROVE \E p \in S : f[p] = t
    <3>1. CASE \E i \in 1..Len(jobsQueue) : jobsQueue[i] = Stop /\ t = <<"queue", i>>
      <4>1. t \in S /\ t[1] # "vector"
        BY <1>1, <3>1, PlacesOf
      <4> QED
        BY <4>1
    <3>2. CASE \E i \in 1..Len(jobs'[w]) : jobs'[w][i] = Stop /\ t = <<"vector", w, i>>
      <4>1. PICK i \in 1..Len(jobs'[w]) : jobs'[w][i] = Stop /\ t = <<"vector", w, i>>
        BY <3>2
      <4>2. i + 1 \in 1..Len(jobs[w]) /\ jobs[w][i + 1] = Stop /\ (i + 1) - 1 = i
        BY <1>3, <4>1 DEF n
      <4>3. <<"vector", w, i + 1>> \in S
        BY <1>1, <4>2, PlacesOf
      <4>4. f[<<"vector", w, i + 1>>] = <<"vector", w, i>>
        BY <4>2, <4>3
      <4> QED
        BY <4>1, <4>3, <4>4
    <3>3. CASE \E v \in Workers : \E i \in 1..Len(jobs[v]) :
                  v # w /\ jobs[v][i] = Stop /\ t = <<"vector", v, i>>
      <4>1. t \in S /\ t[2] # w
        BY <1>1, <3>3, PlacesOf
      <4> QED
        BY <4>1
    <3> QED
      BY <2>3, <3>1, <3>2, <3>3
  <2>7. IsFiniteSet(T) /\ Cardinality(T) = Cardinality(S)
    <3> HIDE DEF f
    <3> QED
      BY <2>4, <2>5, <2>6, SameSize DEF JInv, StopsCounted
  <2> QED
    BY <1>2, <2>7 DEF JInv, StopsCounted
<1> QED
  BY <1>6, <1>8, <1>9, <1>10 DEF JInv

(* The worker that meets its STOP_JOB leaves; nothing is behind that job.  *)
LEMMA ExitWork ==
    ASSUME IInv, JInv, NEW w \in Workers, Exit(w)
    PROVE  JInv'
<1>1. TypeOK /\ TypeOK' /\ BarrierLast
  BY ExitInvariant DEF IInv
<1>2. /\ UNCHANGED <<jobsQueue, done, stops, scheduled>>
      /\ jobs[w] # <<>> /\ Head(jobs[w]) = Stop
      /\ jobs' = [jobs EXCEPT ![w] = <<>>]
      /\ exited' = exited \union {w}
  BY DEF Exit, queueVars
<1>3. Len(jobs[w]) = 1 /\ jobs[w][1] = Stop
  <2>1. jobs[w] \in Seq(Entry) /\ jobs[w] # <<>>
    BY <1>1, <1>2 DEF TypeOK, Entry
  <2>2. Head(jobs[w]) = jobs[w][1] /\ Len(jobs[w]) \in Nat /\ Len(jobs[w]) >= 1
    BY <2>1, HeadTailProperties, EmptySeq, LenProperties
  <2>3. ~(1 \in 1..(Len(jobs[w]) - 1))
    BY <1>1, <1>2, <2>2 DEF BarrierLast
  <2>4. Len(jobs[w]) = 1
    <3> DEFINE n == Len(jobs[w])
    <3>1. n \in Nat /\ n >= 1 /\ ~(1 \in 1..(n - 1))
      BY <2>2, <2>3
    <3> HIDE DEF n
    <3>2. n = 1
      BY <3>1
    <3> QED
      BY <3>2 DEF n
  <2>5. jobs[w][1] = Stop
    BY <1>2, <2>2
  <2> QED
    BY <2>4, <2>5
<1>4. /\ jobs'[w] = <<>> /\ Len(jobs'[w]) = 0
      /\ \A v \in Workers : v # w => jobs'[v] = jobs[v]
  BY <1>1, <1>2 DEF TypeOK
<1>5. w \notin exited /\ w \in Workers \ exited
  BY <1>2 DEF JInv, ExitedIdle
<1>6. JobsApart'
  <2>1. \A v \in Workers : \A i \in 1..Len(jobs'[v]) : v # w /\ jobs'[v] = jobs[v]
    BY <1>4
  <2> QED
    BY <1>2, <2>1 DEF JInv, JobsApart, QueueOnce, VectorsOnce, QueueOrVector, NotDoneYet
<1>7. \A j : Fetched(j) <=> Fetched(j)' \/ j = Stop
  <2> SUFFICES ASSUME NEW j PROVE Fetched(j) <=> Fetched(j)' \/ j = Stop
    OBVIOUS
  <2>1. ASSUME Fetched(j) PROVE Fetched(j)' \/ j = Stop
    <3>1. PICK v \in Workers : \E i \in 1..Len(jobs[v]) : jobs[v][i] = j
      BY <2>1 DEF Fetched
    <3>2. CASE v = w
      BY <1>3, <3>1, <3>2
    <3>3. CASE v # w
      BY <1>4, <3>1, <3>3 DEF Fetched
    <3> QED
      BY <3>2, <3>3
  <2>2. ASSUME Fetched(j)' PROVE Fetched(j)
    BY <1>4, <2>2 DEF Fetched
  <2>3. Fetched(Stop)
    BY <1>3 DEF Fetched
  <2> QED
    BY <2>1, <2>2, <2>3
<1>8. Accounted'
  <2>1. \A j : Queued(j)' <=> Queued(j)
    BY <1>2 DEF Queued
  <2> QED
    BY <1>2, <1>7, <2>1, JobAssumption DEF JInv, Accounted
<1>9. StopsLast' /\ ExitedIdle'
  <2>1. \A i \in 1..Len(jobsQueue) : jobsQueue[i] = Stop
    BY <1>7 DEF JInv, StopsLast
  <2>2. \A v \in exited' : jobs'[v] = <<>>
    BY <1>1, <1>2, <1>4, <1>5 DEF JInv, ExitedIdle, TypeOK
  <2> QED
    BY <1>2, <2>1, <2>2 DEF StopsLast, ExitedIdle
<1>10. StopsCounted'
  <2>1. Stop \notin done /\ Stop \notin done'
    BY <1>1, JobAssumption DEF TypeOK
  <2>2. <<"vector", w, 1>> \in Places(Stop)
    BY <1>1, <1>3, PlacesOf
  <2>3. Places(Stop)' = Places(Stop) \ {<<"vector", w, 1>>}
    <3> SUFFICES ASSUME NEW p
                 PROVE  p \in Places(Stop)' <=> p \in Places(Stop) /\ p # <<"vector", w, 1>>
      OBVIOUS
    <3>1. ASSUME p \in Places(Stop)' PROVE p \in Places(Stop) /\ p # <<"vector", w, 1>>
      <4>1. \/ \E i \in 1..Len(jobsQueue) : jobsQueue[i] = Stop /\ p = <<"queue", i>>
            \/ \E v \in Workers : \E i \in 1..Len(jobs'[v]) :
                  jobs'[v][i] = Stop /\ p = <<"vector", v, i>>
        BY <1>1, <1>2, <2>1, <3>1, NextPlacesOf
      <4>2. \/ \E i \in 1..Len(jobsQueue) : jobsQueue[i] = Stop /\ p = <<"queue", i>>
            \/ \E v \in Workers : \E i \in 1..Len(jobs[v]) :
                  v # w /\ jobs[v][i] = Stop /\ p = <<"vector", v, i>>
        BY <1>4, <4>1
      <4> QED
        BY <1>1, <4>2, PlacesOf
    <3>2. ASSUME p \in Places(Stop), p # <<"vector", w, 1>> PROVE p \in Places(Stop)'
      <4>1. \/ \E i \in 1..Len(jobsQueue) : jobsQueue[i] = Stop /\ p = <<"queue", i>>
            \/ \E v \in Workers : \E i \in 1..Len(jobs[v]) :
                  jobs[v][i] = Stop /\ p = <<"vector", v, i>>
        BY <1>1, <2>1, <3>2, PlacesOf
      <4>2. \A i \in 1..Len(jobs[w]) : i = 1
        BY <1>3
      <4>3. \/ \E i \in 1..Len(jobsQueue) : jobsQueue[i] = Stop /\ p = <<"queue", i>>
            \/ \E v \in Workers : \E i \in 1..Len(jobs'[v]) :
                  jobs'[v][i] = Stop /\ p = <<"vector", v, i>>
        BY <1>4, <3>2, <4>1, <4>2
      <4> QED
        BY <1>1, <1>2, <4>3, NextPlacesOf
    <3> QED
      BY <3>1, <3>2
  <2>4. /\ IsFiniteSet(Places(Stop)')
        /\ Cardinality(Places(Stop)') = Cardinality(Places(Stop)) - 1
    <3> DEFINE P == Places(Stop)
               x == <<"vector", w, 1>>
    <3>1. IsFiniteSet(P) /\ x \in P
      BY <2>2 DEF JInv, StopsCounted
    <3>2. Places(Stop)' = P \ {x}
      BY <2>3
    <3> HIDE DEF P, x
    <3>3. IsFiniteSet(P \ {x}) /\ Cardinality(P \ {x}) = Cardinality(P) - 1
      BY <3>1, FS_RemoveElement
    <3> QED
      BY <3>2, <3>3 DEF P
  <2>5. Cardinality(Workers \ exited') = Cardinality(Workers \ exited) - 1
    <3>1. Workers \ exited' = (Workers \ exited) \ {w}
      BY <1>2
    <3>2. IsFiniteSet(Workers \ exited)
      BY WorkersAssumption, FS_Subset
    <3> QED
      BY <1>5, <3>1, <3>2, FS_RemoveElement
  <2>6. /\ Cardinality(Places(Stop)) \in Nat /\ stops \in Nat
        /\ Cardinality(Places(Stop)) + stops = Cardinality(Workers \ exited)
    <3>1. Cardinality(Workers) \in Nat
      BY WorkersAssumption, FS_CardinalityType
    <3> QED
      BY <1>1, <3>1, FS_CardinalityType DEF JInv, StopsCounted, TypeOK
  <2> QED
    BY <1>2, <2>4, <2>5, <2>6 DEF StopsCounted
<1> QED
  BY <1>6, <1>8, <1>9, <1>10 DEF JInv

(* The destructor adds one STOP_JOB at the end of the queue.               *)
LEMMA SendStopWork ==
    ASSUME IInv, JInv, SendStop
    PROVE  JInv'
<1>1. TypeOK /\ TypeOK'
  BY SendStopInvariant DEF IInv
<1>2. /\ stops > 0 /\ stops' = stops - 1
      /\ jobsQueue' = Append(jobsQueue, Stop)
      /\ UNCHANGED <<jobs, exited, done, scheduled>>
  BY DEF SendStop, runVars
<1> DEFINE m == Len(jobsQueue) + 1
<1>3. /\ Len(jobsQueue) \in Nat /\ Len(jobsQueue') = m /\ jobsQueue'[m] = Stop
      /\ \A i \in 1..Len(jobsQueue) : i \in 1..m /\ i # m /\ jobsQueue'[i] = jobsQueue[i]
  <2>1. jobsQueue \in Seq(Entry) /\ Stop \in Entry
    BY <1>1 DEF TypeOK, Entry
  <2> QED
    BY <1>2, <2>1, AppendProperties
<1>4. \A i \in 1..m : i \in 1..Len(jobsQueue) \/ i = m
  BY <1>3
<1>5. m \in 1..Len(jobsQueue')
  BY <1>3
<1> HIDE DEF m
<1>6. Stop \notin done /\ Stop \notin done'
  BY <1>1, JobAssumption DEF TypeOK
<1>7. JobsApart'
  <2>1. QueueOnce' /\ QueueOrVector'
    BY <1>2, <1>3, <1>4 DEF JInv, JobsApart, QueueOnce, QueueOrVector
  <2>2. NotDoneYet'
    BY <1>2, <1>3, <1>4, <1>6 DEF JInv, JobsApart, NotDoneYet
  <2> QED
    BY <1>2, <2>1, <2>2 DEF JInv, JobsApart, VectorsOnce
<1>8. \A j \in Job : Queued(j)' <=> Queued(j)
  BY <1>3, <1>4, JobAssumption DEF Queued
<1>9. Accounted'
  BY <1>2, <1>8 DEF JInv, Accounted, Fetched
<1>10. StopsLast' /\ ExitedIdle'
  <2>1. ASSUME NEW i \in 1..Len(jobsQueue'), NEW l \in 1..Len(jobsQueue'),
               i < l, jobsQueue'[i] = Stop
        PROVE  jobsQueue'[l] = Stop
    <3>1. CASE l = m
      BY <1>3, <3>1
    <3>2. CASE l \in 1..Len(jobsQueue)
      <4>1. i \in 1..Len(jobsQueue)
        BY <1>3, <2>1, <3>2
      <4> QED
        BY <1>3, <2>1, <3>2, <4>1 DEF JInv, StopsLast
    <3> QED
      BY <1>3, <1>4, <3>1, <3>2
  <2>2. ASSUME exited # {} \/ Fetched(Stop), NEW l \in 1..Len(jobsQueue')
        PROVE  jobsQueue'[l] = Stop
    BY <1>3, <1>4, <2>2 DEF JInv, StopsLast
  <2> QED
    BY <1>2, <2>1, <2>2 DEF JInv, StopsLast, ExitedIdle, Fetched
<1>11. StopsCounted'
  <2>1. <<"queue", m>> \notin Places(Stop)
    <3>1. \A i \in 1..Len(jobsQueue) : i # m
      BY <1>3
    <3> QED
      BY <1>1, <1>6, <3>1, PlacesOf
  <2>2. Places(Stop)' = Places(Stop) \union {<<"queue", m>>}
    <3> SUFFICES ASSUME NEW p
                 PROVE  p \in Places(Stop)' <=> p \in Places(Stop) \/ p = <<"queue", m>>
      OBVIOUS
    <3>1. (\E i \in 1..Len(jobsQueue') : jobsQueue'[i] = Stop /\ p = <<"queue", i>>)
             <=> \/ \E i \in 1..Len(jobsQueue) : jobsQueue[i] = Stop /\ p = <<"queue", i>>
                 \/ p = <<"queue", m>>
      BY <1>3, <1>4, <1>5
    <3> QED
      BY <1>1, <1>2, <1>6, <3>1, PlacesOf, NextPlacesOf
  <2>3. /\ IsFiniteSet(Places(Stop)')
        /\ Cardinality(Places(Stop)') = Cardinality(Places(Stop)) + 1
    BY <2>1, <2>2, FS_AddElement DEF JInv, StopsCounted
  <2>4. Cardinality(Places(Stop)) \in Nat /\ stops \in Nat
    <3>1. Cardinality(Workers) \in Nat
      BY WorkersAssumption, FS_CardinalityType
    <3> QED
      BY <1>1, <3>1, FS_CardinalityType DEF JInv, StopsCounted, TypeOK
  <2> QED
    BY <1>2, <2>3, <2>4 DEF JInv, StopsCounted
<1> QED
  BY <1>7, <1>9, <1>10, <1>11 DEF JInv

(* Waiting, waking and nojobleft move no job.                              *)
LEMMA QuietWork ==
    ASSUME JInv, UNCHANGED <<jobsQueue, jobs, exited, stops, scheduled, done>>
    PROVE  JInv'
BY DEF JInv, JobsApart, QueueOnce, VectorsOnce, QueueOrVector, NotDoneYet, Accounted, Queued,
       Fetched, StopsLast, ExitedIdle, StopsCounted, Places

(* Every step keeps the second invariant.                                  *)
LEMMA NextWork == IInv /\ JInv /\ [Next]_vars => JInv'
<1> SUFFICES ASSUME IInv, JInv, [Next]_vars PROVE JInv'
  OBVIOUS
<1> DEFINE Quiet == UNCHANGED <<jobsQueue, jobs, exited, stops, scheduled, done>>
<1>1. CASE \E js \in Vectors : ClientSchedule(js)
  BY <1>1, ScheduleWork
<1>2. CASE \E w \in Workers : Worker(w)
  <2>1. PICK w \in Workers : Worker(w)
    BY <1>2
  <2>2. CASE FetchWait(w)
    BY <2>2, QuietWork DEF FetchWait, runVars
  <2> QED
    BY <2>1, <2>2, FetchTakeWork, RunJobWork, ExitWork DEF Worker
<1>3. CASE SendStop
  BY <1>3, SendStopWork
<1>4. CASE NoJobLeft
  <2>1. Quiet
    BY <1>4 DEF NoJobLeft, CallNoJobLeft, WaitNoJobLeft, ReturnNoJobLeft, queueVars, runVars
  <2> QED
    BY <2>1, QuietWork
<1>5. CASE \E t \in Threads : SpuriousWakeup(t)
  <2>1. Quiet
    BY <1>5 DEF SpuriousWakeup, runVars
  <2> QED
    BY <2>1, QuietWork
<1>6. CASE Terminated \/ UNCHANGED vars
  <2>1. Quiet
    BY <1>6 DEF Terminated, vars, queueVars, runVars
  <2> QED
    BY <2>1, QuietWork
<1> QED
  BY <1>1, <1>2, <1>3, <1>4, <1>5, <1>6 DEF Next

(* What the two invariants say of the places of a job.                     *)
LEMMA OncePerJob == IInv /\ JInv => EachJobOnce
<1> SUFFICES ASSUME IInv, JInv PROVE EachJobOnce
  OBVIOUS
<1>1. TypeOK /\ availableWork = Len(jobsQueue)
  BY DEF IInv, WorkCounted
<1>2. ASSUME NEW j \in Job PROVE Places(j) # {} <=> j \in scheduled
  <2>1. Places(j) # {} <=> \E p : p \in Places(j)
    OBVIOUS
  <2>2. ASSUME j \in done \/ Queued(j) \/ Fetched(j) PROVE \E p : p \in Places(j)
    <3>1. CASE j \in done
      BY <1>1, <3>1, PlacesOf
    <3>2. CASE Queued(j)
      <4>1. PICK i \in 1..Len(jobsQueue) : jobsQueue[i] = j
        BY <3>2 DEF Queued
      <4>2. <<"queue", i>> \in Places(j)
        BY <1>1, <4>1, PlacesOf
      <4> QED
        BY <4>2
    <3>3. CASE Fetched(j)
      <4>1. PICK w \in Workers : \E i \in 1..Len(jobs[w]) : jobs[w][i] = j
        BY <3>3 DEF Fetched
      <4>2. PICK i \in 1..Len(jobs[w]) : jobs[w][i] = j
        BY <4>1
      <4>3. <<"vector", w, i>> \in Places(j)
        BY <1>1, <4>2, PlacesOf
      <4> QED
        BY <4>3
    <3> QED
      BY <2>2, <3>1, <3>2, <3>3
  <2>3. ASSUME NEW p \in Places(j) PROVE j \in done \/ Queued(j) \/ Fetched(j)
    BY <1>1, PlacesOf DEF Queued, Fetched
  <2> QED
    BY <2>1, <2>2, <2>3 DEF JInv, Accounted
<1>3. ASSUME NEW j \in Job, NEW p \in Places(j), NEW q \in Places(j) PROVE p = q
  <2>1. j # Stop
    BY JobAssumption
  <2>2. \/ \E i \in 1..Len(jobsQueue) : jobsQueue[i] = j /\ p = <<"queue", i>>
        \/ \E w \in Workers : \E i \in 1..Len(jobs[w]) :
              jobs[w][i] = j /\ p = <<"vector", w, i>>
        \/ j \in done /\ p = <<"done">>
    BY <1>1, PlacesOf
  <2>3. \/ \E i \in 1..Len(jobsQueue) : jobsQueue[i] = j /\ q = <<"queue", i>>
        \/ \E w \in Workers : \E i \in 1..Len(jobs[w]) :
              jobs[w][i] = j /\ q = <<"vector", w, i>>
        \/ j \in done /\ q = <<"done">>
    BY <1>1, PlacesOf
  <2>4. CASE \E i \in 1..Len(jobsQueue) : jobsQueue[i] = j /\ p = <<"queue", i>>
    BY <2>1, <2>3, <2>4 DEF JInv, JobsApart, QueueOnce, QueueOrVector, NotDoneYet
  <2>5. CASE \E w \in Workers : \E i \in 1..Len(jobs[w]) :
                jobs[w][i] = j /\ p = <<"vector", w, i>>
    BY <2>1, <2>3, <2>5 DEF JInv, JobsApart, VectorsOnce, QueueOrVector, NotDoneYet
  <2>6. CASE j \in done /\ p = <<"done">>
    BY <2>3, <2>6 DEF JInv, JobsApart, NotDoneYet
  <2> QED
    BY <2>2, <2>4, <2>5, <2>6
<1> QED
  BY <1>1, <1>2, <1>3 DEF EachJobOnce

(* When every worker has left, no STOP_JOB is left to hide a job behind.   *)
LEMMA StopPerWorker == IInv /\ JInv => OneStopPerWorker
<1> SUFFICES ASSUME IInv, JInv PROVE OneStopPerWorker
  OBVIOUS
<1>1. TypeOK
  BY DEF IInv
<1>2. ASSUME Joined PROVE done = scheduled /\ jobsQueue = <<>>
  <2>1. exited = Workers /\ exited # {}
    BY <1>2, WorkersAssumption DEF Joined
  <2>2. \A w \in Workers : jobs[w] = <<>> /\ Len(jobs[w]) = 0
    BY <2>1 DEF JInv, ExitedIdle
  <2>3. Places(Stop) = {}
    <3>1. Cardinality(Workers \ exited) = 0
      BY <2>1, FS_EmptySet
    <3>2. Cardinality(Workers) \in Nat
      BY WorkersAssumption, FS_CardinalityType
    <3>3. Cardinality(Places(Stop)) = 0
      BY <1>1, <3>1, <3>2, FS_CardinalityType DEF JInv, StopsCounted, TypeOK
    <3> QED
      BY <3>3, FS_EmptySet DEF JInv, StopsCounted
  <2>4. \A i \in 1..Len(jobsQueue) : FALSE
    BY <1>1, <2>1, <2>3, PlacesOf DEF JInv, StopsLast
  <2>5. jobsQueue = <<>>
    BY <1>1, <2>4, EmptySeq DEF TypeOK
  <2>6. \A j \in Job : j \in scheduled <=> j \in done
    BY <2>2, <2>4 DEF JInv, Accounted, Queued, Fetched
  <2> QED
    BY <1>1, <2>5, <2>6 DEF TypeOK
<1> QED
  BY <1>2 DEF JInv, StopsCounted, OneStopPerWorker

-------------------------------------------------------------------------------
(* The third invariant is about the weights: a list covers s when all it   *)
(* holds is in its back entry, and that is no less than s.                 *)
Covers(weights, s) ==
    /\ weights \in Seq(Nat)
    /\ \A i \in 1..(Len(weights) - 1) : weights[i] = 0
    /\ s > 0 => weights # <<>> /\ weights[Len(weights)] >= s

WInv == Covers(availableWeights, SumWeights(jobsQueue))

(* The sums of the first n weights, for n from 0.                          *)
Sums(js) ==
    CHOOSE sum : sum = [n \in 0..Len(js) |->
                           IF n = 0 THEN 0 ELSE sum[n - 1] + WeightOf(js[n])]

(* The STOP_JOB weighs nothing, a job something.                           *)
LEMMA WeightsAreNumbers ==
    ASSUME NEW j \in Entry
    PROVE  /\ WeightOf(j) \in Nat
           /\ j # Stop => j \in Job /\ WeightOf(j) = Weight[j] /\ WeightOf(j) > 0
BY WeightAssumption DEF WeightOf, Entry

(* A sum grows by one weight after the other.                              *)
LEMMA SumsProperties ==
    ASSUME NEW js \in Seq(Entry)
    PROVE  /\ Sums(js) \in [0..Len(js) -> Nat]
           /\ Sums(js)[0] = 0
           /\ \A n \in 1..Len(js) : Sums(js)[n] = Sums(js)[n - 1] + WeightOf(js[n])
           /\ SumWeights(js) = Sums(js)[Len(js)]
<1> DEFINE k == Len(js)
           body(f) == [n \in 0..k |-> IF n = 0 THEN 0 ELSE f[n - 1] + WeightOf(js[n])]
           g == [n \in 1..k |-> [m \in Nat |-> m + WeightOf(js[n])]]
<1>1. k \in Nat
  BY LenProperties
<1>2. \A n \in 1..k : WeightOf(js[n]) \in Nat
  BY ElementOfSeq, WeightsAreNumbers
<1>3. \A n \in 1..k : \A m \in Nat : g[n][m] = m + WeightOf(js[n]) /\ g[n][m] \in Nat
  <2> HIDE DEF k
  <2> QED
    BY <1>2
<1> HIDE DEF g, k
<1>4. 0 \in Nat /\ StepIn(Nat, k, g)
  BY <1>3 DEF StepIn
<1>5. PICK f \in [0..k -> Nat] : f[0] = 0 /\ \A n \in 1..k : f[n] = g[n][f[n - 1]]
  <2>1. \E f \in [0..k -> Nat] : Follows(f, k, 0, g)
    BY <1>1, <1>4, RecursionExists
  <2> QED
    BY <2>1 DEF Follows
<1>6. f = body(f)
  <2>1. \A n \in 0..k : n = 0 \/ (n \in 1..k /\ n - 1 \in 0..k)
    BY <1>1
  <2>2. \A n \in 0..k : f[n] = IF n = 0 THEN 0 ELSE f[n - 1] + WeightOf(js[n])
    BY <1>3, <1>5, <2>1
  <2>3. f = [n \in 0..k |-> f[n]]
    BY <1>5
  <2> QED
    BY <2>2, <2>3
<1>7. Sums(js) = CHOOSE h : h = body(h)
  BY DEF Sums, k
<1>8. Sums(js) = body(Sums(js))
  <2> HIDE DEF body
  <2> QED
    BY <1>6, <1>7
<1> DEFINE s == Sums(js)
<1> HIDE DEF s
<1>9. \A n \in 0..k : s[n] = IF n = 0 THEN 0 ELSE s[n - 1] + WeightOf(js[n])
  BY <1>8 DEF s
<1>10. s = [n \in 0..k |-> s[n]]
  BY <1>8 DEF s
<1>11. s[0] = 0 /\ \A n \in 1..k : s[n] = s[n - 1] + WeightOf(js[n])
  BY <1>1, <1>9
<1>12. \A n \in 0..k : s[n] \in Nat
  <2> DEFINE T == {n \in 0..k : s[n] \notin Nat}
  <2> SUFFICES ASSUME T # {} PROVE FALSE
    OBVIOUS
  <2>1. PICK n \in T : \A m \in T : n <= m
    <3>1. T \subseteq Nat
      OBVIOUS
    <3> HIDE DEF T
    <3> QED
      BY <3>1, SmallestNat
  <2>2. n # 0 /\ n \in 0..k
    BY <1>11, <2>1
  <2>3. n \in 1..k /\ n - 1 \in 0..k /\ ~(n <= n - 1)
    BY <1>1, <2>2
  <2>4. s[n - 1] \in Nat
    BY <2>1, <2>3
  <2>5. s[n] = s[n - 1] + WeightOf(js[n]) /\ WeightOf(js[n]) \in Nat
    BY <1>2, <1>11, <2>3
  <2> QED
    BY <2>1, <2>4, <2>5
<1>13. SumWeights(js) = s[k]
  BY DEF SumWeights, s, Sums, k
<1> QED
  BY <1>10, <1>11, <1>12, <1>13 DEF s, k

(* Where r repeats q, its sums grow as those of q do.                      *)
LEMMA SumsShift ==
    ASSUME NEW q \in Seq(Entry), NEW r \in Seq(Entry),
           NEW c \in Nat, c + Len(q) <= Len(r),
           \A i \in 1..Len(q) : r[c + i] = q[i]
    PROVE  Sums(r)[c + Len(q)] = Sums(r)[c] + SumWeights(q)
<1> DEFINE k == Len(q)
           x == Sums(q)
           y == Sums(r)
           T == {n \in 0..k : y[c + n] # y[c] + x[n]}
<1>1. k \in Nat /\ Len(r) \in Nat /\ c + k <= Len(r)
  BY LenProperties
<1>2. /\ x \in [0..k -> Nat] /\ x[0] = 0
      /\ \A n \in 1..k : x[n] = x[n - 1] + WeightOf(q[n])
      /\ SumWeights(q) = x[k]
  BY SumsProperties
<1>3. /\ y \in [0..Len(r) -> Nat]
      /\ \A n \in 1..Len(r) : y[n] = y[n - 1] + WeightOf(r[n])
  BY SumsProperties
<1>4. \A n \in 1..k : WeightOf(q[n]) \in Nat
  BY ElementOfSeq, WeightsAreNumbers
<1>5. \A i \in 1..k : r[c + i] = q[i]
  OBVIOUS
<1> HIDE DEF k, x, y
<1>6. T = {}
  <2> SUFFICES ASSUME T # {} PROVE FALSE
    OBVIOUS
  <2>1. PICK n \in T : \A m \in T : n <= m
    <3>1. T \subseteq Nat
      OBVIOUS
    <3> HIDE DEF T
    <3> QED
      BY <3>1, SmallestNat
  <2>2. n \in 0..k /\ y[c + n] # y[c] + x[n]
    BY <2>1
  <2>3. n # 0
    <3>1. c \in 0..Len(r)
      BY <1>1
    <3>2. y[c] \in Nat
      BY <1>3, <3>1
    <3>3. y[c + 0] = y[c] + 0
      BY <3>2
    <3> QED
      BY <1>2, <2>2, <3>3
  <2>4. n \in 1..k /\ n - 1 \in 0..k /\ ~(n <= n - 1)
    BY <1>1, <2>2, <2>3
  <2>5. y[c + (n - 1)] = y[c] + x[n - 1]
    BY <2>1, <2>4
  <2>6. c + n \in 1..Len(r) /\ (c + n) - 1 = c + (n - 1) /\ c \in 0..Len(r)
    BY <1>1, <2>4
  <2>7. y[c + n] = y[c + (n - 1)] + WeightOf(q[n])
    BY <1>3, <1>5, <2>4, <2>6
  <2>8. x[n] = x[n - 1] + WeightOf(q[n]) /\ x[n - 1] \in Nat /\ WeightOf(q[n]) \in Nat /\ y[c] \in Nat
    BY <1>2, <1>3, <1>4, <2>4, <2>6
  <2> QED
    BY <2>2, <2>5, <2>7, <2>8
<1>7. y[c + k] = y[c] + x[k]
  <2>1. k \in 0..k
    BY <1>1
  <2> QED
    BY <1>6, <2>1
<1> QED
  BY <1>2, <1>7 DEF k, y

(* The weights of one sequence behind another.                             *)
LEMMA SumOfConcat ==
    ASSUME NEW q \in Seq(Entry), NEW r \in Seq(Entry)
    PROVE  SumWeights(q \o r) = SumWeights(q) + SumWeights(r)
<1> DEFINE t == q \o r
<1>1. t \in Seq(Entry) /\ Len(q) \in Nat /\ Len(r) \in Nat
  BY ConcatProperties, LenProperties
<1>2. Len(t) = Len(q) + Len(r)
  BY ConcatProperties
<1>3. \A i \in 1..(Len(q) + Len(r)) : t[i] = IF i <= Len(q) THEN q[i] ELSE r[i - Len(q)]
  BY ConcatProperties
<1> HIDE DEF t
<1>4. /\ \A i \in 1..Len(q) : t[0 + i] = q[i]
      /\ 0 + Len(q) = Len(q) /\ Len(q) <= Len(t)
  BY <1>1, <1>2, <1>3
<1>5. Sums(t)[Len(q)] = Sums(t)[0] + SumWeights(q)
  <2>1. Sums(t)[0 + Len(q)] = Sums(t)[0] + SumWeights(q)
    BY <1>1, <1>4, SumsShift
  <2> QED
    BY <1>4, <2>1
<1>6. \A i \in 1..Len(r) : t[Len(q) + i] = r[i]
  <2> SUFFICES ASSUME NEW i \in 1..Len(r) PROVE t[Len(q) + i] = r[i]
    OBVIOUS
  <2>1. Len(q) + i \in 1..(Len(q) + Len(r)) /\ ~(Len(q) + i <= Len(q)) /\ (Len(q) + i) - Len(q) = i
    BY <1>1
  <2> QED
    BY <1>3, <2>1
<1>7. Sums(t)[Len(t)] = Sums(t)[Len(q)] + SumWeights(r)
  BY <1>1, <1>2, <1>6, SumsShift
<1>8. Sums(t)[0] = 0 /\ SumWeights(t) = Sums(t)[Len(t)]
  BY <1>1, SumsProperties
<1>9. SumWeights(q) \in Nat /\ SumWeights(r) \in Nat
  <2>1. Len(q) \in 0..Len(q) /\ Len(r) \in 0..Len(r)
    BY <1>1
  <2> QED
    BY <2>1, SumsProperties
<1> QED
  BY <1>5, <1>7, <1>8, <1>9 DEF t

(* A list goes on covering what is left when one job is taken.             *)
LEMMA DebitOneCovers ==
    ASSUME NEW weights, NEW s \in Int, NEW j \in Entry, Covers(weights, s)
    PROVE  Covers(DebitOne(weights, j), s - WeightOf(j))
<1>1. WeightOf(j) \in Nat /\ weights \in Seq(Nat) /\ Len(weights) \in Nat
  BY WeightsAreNumbers, LenProperties DEF Covers
<1>2. CASE j = Stop \/ weights = <<>>
  <2>1. DebitOne(weights, j) = weights
    BY <1>2 DEF DebitOne
  <2>2. CASE j = Stop
    <3>1. WeightOf(j) = 0 /\ s - 0 = s
      BY <2>2 DEF WeightOf
    <3> QED
      BY <2>1, <3>1
  <2>3. CASE weights = <<>>
    <3>1. ~(s > 0)
      BY <2>3 DEF Covers
    <3>2. ~(s - WeightOf(j) > 0)
      BY <1>1, <3>1
    <3> QED
      BY <2>1, <3>2 DEF Covers
  <2> QED
    BY <1>2, <2>2, <2>3
<1>3. CASE j # Stop /\ weights # <<>>
  <2> DEFINE left == Head(weights) - Weight[j]
  <2>1. WeightOf(j) = Weight[j] /\ Weight[j] \in Nat /\ Weight[j] > 0
    BY <1>1, <1>3, WeightsAreNumbers
  <2>2. /\ Len(weights) >= 1 /\ Head(weights) = weights[1] /\ weights[1] \in Nat
        /\ Tail(weights) \in Seq(Nat) /\ Len(Tail(weights)) = Len(weights) - 1
    <3>1. Len(weights) >= 1
      BY <1>1, <1>3, EmptySeq
    <3>2. 1 \in 1..Len(weights)
      BY <1>1, <3>1
    <3> QED
      BY <1>1, <1>3, <3>1, <3>2, ElementOfSeq, HeadTailProperties
  <2>3. \A i \in 1..(Len(weights) - 1) : Tail(weights)[i] = weights[i + 1]
    BY <1>1, <1>3, <2>2, HeadTailProperties
  <2>4. left \in Int /\ left = weights[1] - WeightOf(j)
    BY <2>1, <2>2
  <2>5. CASE left <= 0
    <3>1. DebitOne(weights, j) = Tail(weights)
      BY <1>3, <2>5 DEF DebitOne
    <3>2. CASE Len(weights) = 1
      <4>1. ~(s - WeightOf(j) > 0)
        <5>1. s > 0 => weights[1] >= s
          BY <3>2 DEF Covers
        <5> QED
          BY <1>1, <2>2, <2>4, <2>5, <5>1
      <4>2. \A i \in 1..(Len(Tail(weights)) - 1) : FALSE
        <5>1. Len(Tail(weights)) = 1 - 1
          BY <2>2, <3>2
        <5>2. \A i \in 1..((1 - 1) - 1) : FALSE
          OBVIOUS
        <5> QED
          BY <5>1, <5>2
      <4> QED
        BY <2>2, <3>1, <4>1, <4>2 DEF Covers
    <3>3. CASE Len(weights) > 1
      <4>1. Tail(weights) # <<>> /\ Tail(weights)[Len(Tail(weights))] = weights[Len(weights)]
        <5>1. Len(weights) - 1 \in 1..(Len(weights) - 1) /\ (Len(weights) - 1) + 1 = Len(weights)
          BY <1>1, <3>3
        <5>2. Len(Tail(weights)) # 0
          BY <1>1, <2>2, <3>3
        <5> QED
          BY <2>2, <2>3, <5>1, <5>2, EmptySeq
      <4>2. \A i \in 1..(Len(Tail(weights)) - 1) : Tail(weights)[i] = 0
        <5> SUFFICES ASSUME NEW i \in 1..(Len(Tail(weights)) - 1) PROVE Tail(weights)[i] = 0
          OBVIOUS
        <5>1. i \in 1..(Len(weights) - 1) /\ i + 1 \in 1..(Len(weights) - 1)
          BY <1>1, <2>2
        <5> QED
          BY <2>3, <5>1 DEF Covers
      <4>3. s - WeightOf(j) > 0 => weights[Len(weights)] >= s - WeightOf(j)
        <5>1. Len(weights) \in 1..Len(weights)
          BY <1>1, <3>3
        <5>2. weights[Len(weights)] \in Nat
          BY <1>1, <5>1, ElementOfSeq
        <5>3. s > 0 => weights[Len(weights)] >= s
          BY DEF Covers
        <5> QED
          BY <1>1, <5>2, <5>3
      <4> QED
        BY <2>2, <3>1, <4>1, <4>2, <4>3 DEF Covers
    <3> QED
      BY <1>1, <2>2, <3>2, <3>3
  <2>6. CASE left > 0
    <3>1. DebitOne(weights, j) = [weights EXCEPT ![1] = left]
      <4>1. ~(left <= 0)
        BY <2>4, <2>6
      <4> QED
        BY <1>3, <4>1 DEF DebitOne
    <3>2. Len(weights) = 1
      <4>1. ASSUME Len(weights) > 1 PROVE FALSE
        <5>1. 1 \in 1..(Len(weights) - 1)
          BY <1>1, <4>1
        <5>2. weights[1] = 0
          BY <5>1 DEF Covers
        <5> QED
          BY <1>1, <2>4, <2>6, <5>2
      <4> QED
        BY <1>1, <2>2, <4>1
    <3> DEFINE w == [weights EXCEPT ![1] = left]
    <3>3. left \in Nat
      BY <2>4, <2>6
    <3>4. w \in Seq(Nat) /\ Len(w) = 1 /\ w[1] = left
      <4>1. w = [i \in 1..Len(weights) |-> IF i = 1 THEN left ELSE weights[i]]
        BY <1>1
      <4>2. \A i \in 1..Len(weights) : i = 1
        BY <3>2
      <4>3. w = [i \in 1..1 |-> left]
        BY <3>2, <4>1, <4>2
      <4> HIDE DEF w, left
      <4> QED
        BY <3>3, <4>3
    <3> HIDE DEF w
    <3>5. w # <<>>
      <4>1. Len(w) # 0
        BY <3>4
      <4> QED
        BY <4>1, <3>4, EmptySeq
    <3>6. s - WeightOf(j) > 0 => left >= s - WeightOf(j)
      <4>1. s > 0 => weights[1] >= s
        BY <3>2 DEF Covers
      <4> QED
        BY <1>1, <2>2, <2>4, <4>1
    <3>7. \A i \in 1..(Len(w) - 1) : FALSE
      BY <3>4
    <3>8. Covers(w, s - WeightOf(j))
      BY <3>4, <3>5, <3>6, <3>7 DEF Covers
    <3> QED
      BY <3>1, <3>8 DEF w
  <2> QED
    BY <2>4, <2>5, <2>6
<1> QED
  BY <1>2, <1>3

(* The debits of a whole fetch.                                            *)
LEMMA DebitCovers ==
    ASSUME NEW weights, NEW s \in Int, NEW js \in Seq(Entry), Covers(weights, s)
    PROVE  Covers(Debit(weights, js), s - SumWeights(js))
<1> DEFINE k == Len(js)
           body(f) == [n \in 0..k |-> IF n = 0 THEN weights ELSE DebitOne(f[n - 1], js[n])]
           S == Seq(Nat)
           g == [n \in 1..k |-> [v \in S |-> DebitOne(v, js[n])]]
           paid == CHOOSE h : h = body(h)
           sum == Sums(js)
<1>1. k \in Nat /\ weights \in S
  BY LenProperties DEF Covers
<1>2. \A n \in 1..k : js[n] \in Entry
  BY ElementOfSeq
<1>3. \A v \in S, j \in Entry : DebitOne(v, j) \in S
  <2> SUFFICES ASSUME NEW v \in Seq(Nat), NEW j \in Entry PROVE DebitOne(v, j) \in Seq(Nat)
    OBVIOUS
  <2>1. CASE j = Stop \/ v = <<>>
    BY <2>1 DEF DebitOne
  <2>2. CASE j # Stop /\ v # <<>>
    <3> DEFINE left == Head(v) - Weight[j]
    <3>1. Tail(v) \in Seq(Nat) /\ Head(v) \in Nat
      BY <2>2, HeadTailProperties
    <3>2. left \in Int
      BY <2>2, <3>1, WeightAssumption DEF Entry
    <3>3. DebitOne(v, j) = IF left <= 0 THEN Tail(v) ELSE [v EXCEPT ![1] = left]
      BY <2>2 DEF DebitOne
    <3>4. ASSUME left > 0 PROVE [v EXCEPT ![1] = left] \in Seq(Nat)
      <4>1. left \in Nat
        BY <3>2, <3>4
      <4>2. 1 \in 1..Len(v)
        BY <2>2, LenProperties, EmptySeq
      <4> HIDE DEF left
      <4> QED
        BY <4>1, <4>2, ExceptSeq
    <3> HIDE DEF left
    <3> QED
      BY <3>1, <3>2, <3>3, <3>4
  <2> QED
    BY <2>1, <2>2
<1>4. \A n \in 1..k : \A v \in S : g[n][v] = DebitOne(v, js[n]) /\ g[n][v] \in S
  <2> HIDE DEF k, S
  <2> QED
    BY <1>2, <1>3
<1>5. Debit(weights, js) = paid[k]
  BY DEF Debit
<1>6. /\ sum \in [0..k -> Nat] /\ sum[0] = 0
      /\ \A n \in 1..k : sum[n] = sum[n - 1] + WeightOf(js[n])
      /\ SumWeights(js) = sum[k]
  BY SumsProperties
<1> HIDE DEF k, S, g, sum
<1>7. PICK f \in [0..k -> S] : f[0] = weights /\ \A n \in 1..k : f[n] = g[n][f[n - 1]]
  <2>1. StepIn(S, k, g)
    BY <1>4 DEF StepIn
  <2>2. \E f \in [0..k -> S] : Follows(f, k, weights, g)
    BY <1>1, <2>1, RecursionExists
  <2> QED
    BY <2>2 DEF Follows
<1>8. f = body(f)
  <2>1. \A n \in 0..k : n = 0 \/ (n \in 1..k /\ n - 1 \in 0..k)
    BY <1>1
  <2>2. \A n \in 0..k : f[n] = IF n = 0 THEN weights ELSE DebitOne(f[n - 1], js[n])
    BY <1>4, <1>7, <2>1
  <2>3. f = [n \in 0..k |-> f[n]]
    BY <1>7
  <2> QED
    BY <2>2, <2>3
<1>9. paid = body(paid)
  <2> HIDE DEF body
  <2> QED
    BY <1>8
<1> HIDE DEF paid
<1>10. paid[0] = weights /\ \A n \in 1..k : paid[n] = DebitOne(paid[n - 1], js[n])
  <2>1. \A n \in 0..k : paid[n] = IF n = 0 THEN weights ELSE DebitOne(paid[n - 1], js[n])
    BY <1>9
  <2> QED
    BY <1>1, <2>1
<1> DEFINE T == {n \in 0..k : ~Covers(paid[n], s - sum[n])}
<1>11. T = {}
  <2> SUFFICES ASSUME T # {} PROVE FALSE
    OBVIOUS
  <2>1. PICK n \in T : \A m \in T : n <= m
    <3>1. T \subseteq Nat
      OBVIOUS
    <3> HIDE DEF T
    <3> QED
      BY <3>1, SmallestNat
  <2>2. n \in 0..k /\ ~Covers(paid[n], s - sum[n])
    BY <2>1
  <2>3. n # 0
    <3>1. s - 0 = s
      OBVIOUS
    <3> QED
      BY <1>6, <1>10, <2>2, <3>1
  <2>4. n \in 1..k /\ n - 1 \in 0..k /\ ~(n <= n - 1)
    BY <1>1, <2>2, <2>3
  <2>5. Covers(paid[n - 1], s - sum[n - 1])
    BY <2>1, <2>4
  <2>6. sum[n - 1] \in Nat /\ js[n] \in Entry
    BY <1>2, <1>6, <2>4
  <2>7. s - sum[n - 1] \in Int /\ WeightOf(js[n]) \in Nat
    BY <2>6, WeightsAreNumbers
  <2>8. Covers(DebitOne(paid[n - 1], js[n]), (s - sum[n - 1]) - WeightOf(js[n]))
    BY <2>5, <2>6, <2>7, DebitOneCovers
  <2>9. (s - sum[n - 1]) - WeightOf(js[n]) = s - sum[n]
    <3>1. sum[n] = sum[n - 1] + WeightOf(js[n])
      BY <1>6, <2>4
    <3> QED
      BY <2>6, <2>7, <3>1
  <2> QED
    BY <1>10, <2>2, <2>4, <2>8, <2>9
<1>12. k \in 0..k
  BY <1>1
<1>13. Covers(paid[k], s - sum[k])
  BY <1>11, <1>12
<1> QED
  BY <1>5, <1>6, <1>13

(* The list covers the scheduled jobs too, whatever Schedule put in front. *)
LEMMA CreditCovers ==
    ASSUME NEW weights, NEW s \in Nat, NEW js \in Seq(Job), Covers(weights, s)
    PROVE  Covers(Credit(OpenGroup(weights, js), js), s + SumWeights(js))
<1> DEFINE opened == OpenGroup(weights, js)
           w == IF opened = <<>> THEN <<0>> ELSE opened
           n == Len(w)
           sum == SumWeights(js)
           credited == [w EXCEPT ![n] = @ + sum]
<1>1. js \in Seq(Entry) /\ weights \in Seq(Nat) /\ Len(weights) \in Nat
  <2>1. js \in Seq(Entry)
    BY DEF Entry
  <2> QED
    BY <2>1, LenProperties DEF Covers
<1>2. sum \in Nat
  <2>1. Len(js) \in 0..Len(js)
    BY LenProperties
  <2>2. Sums(js) \in [0..Len(js) -> Nat] /\ SumWeights(js) = Sums(js)[Len(js)]
    BY <1>1, SumsProperties
  <2> QED
    BY <2>1, <2>2
<1>3. <<0>> \in Seq(Nat) /\ Len(<<0>>) = 1 /\ <<0>>[1] = 0
  OBVIOUS
<1>4. Covers(opened, s)
  <2>1. CASE opened = weights
    BY <2>1
  <2>2. CASE opened = <<0>> \o weights
    <3>1. opened \in Seq(Nat) /\ Len(opened) = 1 + Len(weights)
          /\ \A i \in 1..(1 + Len(weights)) : opened[i] = IF i <= 1 THEN 0 ELSE weights[i - 1]
      BY <1>1, <1>3, <2>2, ConcatProperties
    <3> HIDE DEF opened
    <3>2. \A i \in 1..(Len(opened) - 1) : opened[i] = 0
      <4> SUFFICES ASSUME NEW i \in 1..(Len(opened) - 1) PROVE opened[i] = 0
        OBVIOUS
      <4>1. i \in 1..(1 + Len(weights)) /\ (i <= 1 \/ i - 1 \in 1..(Len(weights) - 1))
        BY <1>1, <3>1
      <4>2. opened[i] = IF i <= 1 THEN 0 ELSE weights[i - 1]
        BY <3>1, <4>1
      <4>3. i - 1 \in 1..(Len(weights) - 1) => weights[i - 1] = 0
        BY DEF Covers
      <4> QED
        BY <4>1, <4>2, <4>3
    <3>3. ASSUME s > 0 PROVE opened # <<>> /\ opened[Len(opened)] >= s
      <4>1. weights # <<>> /\ weights[Len(weights)] >= s
        BY <3>3 DEF Covers
      <4>2. Len(weights) # 0
        BY <1>1, <4>1, EmptySeq
      <4>3. /\ Len(opened) \in 1..(1 + Len(weights)) /\ ~(Len(opened) <= 1)
            /\ Len(opened) - 1 = Len(weights) /\ Len(opened) # 0
        BY <1>1, <3>1, <4>2
      <4>4. opened # <<>>
        BY <3>1, <4>3, EmptySeq
      <4> QED
        BY <3>1, <4>1, <4>3, <4>4
    <3> QED
      BY <3>1, <3>2, <3>3 DEF Covers
  <2> QED
    BY <2>1, <2>2 DEF OpenGroup
<1>5. Credit(opened, js) = IF js = <<>> THEN opened ELSE credited
  BY DEF Credit
<1>6. /\ w \in Seq(Nat) /\ n \in Nat /\ n >= 1
      /\ \A i \in 1..(n - 1) : w[i] = 0
      /\ s > 0 => w[n] >= s
  <2>1. CASE opened = <<>>
    <3>1. w = <<0>> /\ n = 1
      BY <2>1
    <3>2. ~(s > 0)
      BY <1>4, <2>1 DEF Covers
    <3>3. w \in Seq(Nat) /\ n \in Nat /\ n >= 1
      <4> HIDE DEF w
      <4> QED
        BY <1>3, <3>1
    <3>4. \A i \in 1..(n - 1) : FALSE
      BY <3>1
    <3> HIDE DEF w, opened
    <3> QED
      BY <3>2, <3>3, <3>4
  <2>2. CASE opened # <<>>
    <3>1. w = opened
      BY <2>2
    <3>2. w \in Seq(Nat) /\ w # <<>>
      BY <1>4, <2>2, <3>1 DEF Covers
    <3>3. \A i \in 1..(n - 1) : w[i] = 0
      BY <1>4, <3>1 DEF Covers
    <3>4. s > 0 => w[n] >= s
      BY <1>4, <3>1 DEF Covers
    <3> HIDE DEF w
    <3>5. n \in Nat /\ n # 0
      BY <3>2, LenProperties, EmptySeq
    <3> QED
      BY <3>2, <3>3, <3>4, <3>5
  <2> QED
    BY <2>1, <2>2
<1> HIDE DEF opened, w, sum
<1>7. CASE js = <<>>
  <2>1. sum = 0
    <3>1. Len(js) = 0
      BY <1>7
    <3> QED
      BY <1>1, <3>1, SumsProperties DEF sum
  <2>2. s + sum = s
    BY <2>1
  <2> QED
    BY <1>4, <1>5, <1>7, <2>2 DEF opened, sum
<1>8. CASE js # <<>>
  <2>1. n \in 1..n /\ w[n] \in Nat
    <3>1. n \in 1..n
      BY <1>6
    <3> QED
      BY <1>6, <3>1, ElementOfSeq
  <2>2. w[n] + sum \in Nat /\ w[n] + sum >= s + sum
    BY <1>2, <1>6, <2>1
  <2>3. credited = [w EXCEPT ![n] = w[n] + sum]
    OBVIOUS
  <2>4. credited \in Seq(Nat) /\ Len(credited) = n
    <3> DEFINE e == w[n] + sum
    <3>1. e \in Nat /\ credited = [w EXCEPT ![n] = e]
      BY <2>2, <2>3
    <3> HIDE DEF e, credited
    <3> QED
      BY <1>6, <2>1, <3>1, ExceptSeq
  <2>5. /\ credited[n] = w[n] + sum
        /\ \A i \in 1..(n - 1) : credited[i] = w[i]
    <3>1. DOMAIN w = 1..n
      BY <1>6
    <3>2. \A i \in 1..(n - 1) : i \in 1..n /\ i # n
      BY <1>6
    <3> QED
      BY <2>1, <3>1, <3>2
  <2> HIDE DEF credited
  <2>6. credited # <<>>
    <3>1. Len(credited) # 0
      BY <1>6, <2>4
    <3> QED
      BY <2>4, <3>1, EmptySeq
  <2>7. Covers(credited, s + sum)
    <3>1. \A i \in 1..(Len(credited) - 1) : credited[i] = 0
      BY <1>6, <2>4, <2>5
    <3>2. credited[Len(credited)] >= s + sum
      BY <2>2, <2>4, <2>5
    <3> QED
      BY <2>4, <2>6, <3>1, <3>2 DEF Covers
  <2> QED
    BY <1>5, <1>8, <2>7 DEF opened, sum
<1> QED
  BY <1>7, <1>8

(* What is queued weighs a natural number.                                 *)
LEMMA SumIsNumber ==
    ASSUME NEW js \in Seq(Entry)
    PROVE  SumWeights(js) \in Nat
<1>1. Len(js) \in 0..Len(js)
  BY LenProperties
<1>2. Sums(js) \in [0..Len(js) -> Nat] /\ SumWeights(js) = Sums(js)[Len(js)]
  BY SumsProperties
<1> QED
  BY <1>1, <1>2

(* Nothing is scheduled at first, and there is no entry.                   *)
LEMMA InitWeights == Init => WInv
<1> SUFFICES ASSUME Init PROVE WInv
  OBVIOUS
<1>1. <<>> \in Seq(Entry) /\ <<>> \in Seq(Nat) /\ Len(<<>>) = 0
  OBVIOUS
<1>2. SumWeights(<<>>) = 0
  BY <1>1, SumsProperties
<1>3. \A i \in 1..(Len(<<>>) - 1) : FALSE
  BY <1>1
<1> QED
  BY <1>1, <1>2, <1>3 DEF Init, WInv, Covers

(* Schedule credits the back entry with what it queues.                    *)
LEMMA ScheduleWeights ==
    ASSUME IInv, WInv, NEW js \in Vectors, ClientSchedule(js)
    PROVE  WInv'
<1>1. js \in Seq(Job) /\ js \in Seq(Entry) /\ jobsQueue \in Seq(Entry)
  BY VectorsAreSequences DEF IInv, TypeOK, Entry
<1>2. SumWeights(jobsQueue) \in Nat
  BY <1>1, SumIsNumber
<1>3. Covers(Credit(OpenGroup(availableWeights, js), js), SumWeights(jobsQueue) + SumWeights(js))
  BY <1>1, <1>2, CreditCovers DEF WInv
<1>4. SumWeights(jobsQueue \o js) = SumWeights(jobsQueue) + SumWeights(js)
  BY <1>1, SumOfConcat
<1>5. /\ jobsQueue' = jobsQueue \o js
      /\ availableWeights' = Credit(OpenGroup(availableWeights, js), js)
  BY DEF ClientSchedule, Schedule
<1>6. Covers(availableWeights', SumWeights(jobsQueue'))
  BY <1>3, <1>4, <1>5
<1> QED
  BY <1>6 DEF WInv

(* fetchWork debits what it takes from the queue.                          *)
LEMMA FetchTakeWeights ==
    ASSUME IInv, WInv, NEW w \in Workers, FetchTake(w)
    PROVE  WInv'
<1>1. PICK k \in 1..availableWork :
          /\ jobsQueue' = SubSeq(jobsQueue, k + 1, Len(jobsQueue))
          /\ availableWeights' = Debit(availableWeights, SubSeq(jobsQueue, 1, k))
  BY Zenon DEF FetchTake
<1>2. k \in 1..Len(jobsQueue) /\ jobsQueue \in Seq(Entry)
  BY DEF IInv, WorkCounted, TypeOK, Entry
<1> DEFINE taken == SubSeq(jobsQueue, 1, k)
           left == SubSeq(jobsQueue, k + 1, Len(jobsQueue))
<1>3. /\ taken \in Seq(Entry) /\ left \in Seq(Entry)
      /\ Len(taken) = k /\ Len(left) = Len(jobsQueue) - k
      /\ \A i \in 1..k : taken[i] = jobsQueue[i]
      /\ \A i \in 1..(Len(jobsQueue) - k) : left[i] = jobsQueue[k + i]
  BY <1>2, QueueSplit
<1> HIDE DEF taken, left
<1>4. SumWeights(jobsQueue) = SumWeights(taken) + SumWeights(left)
  <2>1. taken \o left \in Seq(Entry) /\ Len(jobsQueue) \in Nat
    BY <1>2, <1>3, ConcatProperties
  <2>2. Len(taken \o left) = Len(jobsQueue)
    <3>1. Len(taken \o left) = Len(taken) + Len(left)
      BY <1>3, ConcatProperties
    <3>2. Len(taken) + Len(left) = Len(jobsQueue)
      BY <1>2, <1>3, <2>1
    <3> QED
      BY <3>1, <3>2
  <2>3. \A i \in 1..Len(jobsQueue) : (taken \o left)[i] = jobsQueue[i]
    <3> SUFFICES ASSUME NEW i \in 1..Len(jobsQueue)
                 PROVE  (taken \o left)[i] = jobsQueue[i]
      OBVIOUS
    <3>1. i \in 1..(Len(taken) + Len(left))
      BY <1>2, <1>3, <2>1
    <3>2. (taken \o left)[i] = IF i <= Len(taken) THEN taken[i] ELSE left[i - Len(taken)]
      BY <1>3, <3>1, ConcatProperties
    <3>3. CASE i <= k
      <4>1. i \in 1..k
        BY <3>3
      <4> QED
        BY <1>3, <3>2, <3>3, <4>1
    <3>4. CASE ~(i <= k)
      <4>1. i - k \in 1..(Len(jobsQueue) - k) /\ k + (i - k) = i
        BY <1>2, <2>1, <3>4
      <4> QED
        BY <1>3, <3>2, <3>4, <4>1
    <3> QED
      BY <3>3, <3>4
  <2>4. taken \o left = jobsQueue
    BY <1>2, <2>1, <2>2, <2>3, SeqEqual
  <2>5. SumWeights(taken \o left) = SumWeights(taken) + SumWeights(left)
    BY <1>3, SumOfConcat
  <2> QED
    BY <2>4, <2>5
<1>5. SumWeights(jobsQueue) \in Nat /\ SumWeights(taken) \in Nat /\ SumWeights(left) \in Nat
  BY <1>2, <1>3, SumIsNumber
<1>6. Covers(Debit(availableWeights, taken), SumWeights(jobsQueue) - SumWeights(taken))
  BY <1>3, <1>5, DebitCovers DEF WInv
<1>7. SumWeights(jobsQueue) - SumWeights(taken) = SumWeights(left)
  BY <1>4, <1>5
<1>8. Covers(availableWeights', SumWeights(jobsQueue'))
  BY <1>1, <1>6, <1>7 DEF taken, left
<1> QED
  BY <1>8 DEF WInv

(* A STOP_JOB weighs nothing.                                              *)
LEMMA SendStopWeights ==
    ASSUME IInv, WInv, SendStop
    PROVE  WInv'
<1>1. jobsQueue \in Seq(Entry) /\ <<Stop>> \in Seq(Entry) /\ Stop \in Entry
  BY DEF IInv, TypeOK, Entry
<1>2. jobsQueue' = jobsQueue \o <<Stop>> /\ availableWeights' = availableWeights
  BY <1>1, AppendIsConcat DEF SendStop
<1>3. SumWeights(<<Stop>>) = 0
  <2>1. Len(<<Stop>>) = 1 /\ <<Stop>>[1] = Stop
    OBVIOUS
  <2>2. /\ Sums(<<Stop>>)[0] = 0
        /\ \A n \in 1..1 : Sums(<<Stop>>)[n] = Sums(<<Stop>>)[n - 1] + WeightOf(<<Stop>>[n])
        /\ SumWeights(<<Stop>>) = Sums(<<Stop>>)[1]
    BY <1>1, <2>1, SumsProperties
  <2>3. Sums(<<Stop>>)[1] = Sums(<<Stop>>)[1 - 1] + WeightOf(<<Stop>>[1])
    BY <2>2
  <2>4. WeightOf(<<Stop>>[1]) = 0
    BY <2>1 DEF WeightOf
  <2> QED
    BY <2>2, <2>3, <2>4
<1>4. SumWeights(jobsQueue \o <<Stop>>) = SumWeights(jobsQueue)
  <2>1. SumWeights(jobsQueue \o <<Stop>>) = SumWeights(jobsQueue) + SumWeights(<<Stop>>)
    BY <1>1, SumOfConcat
  <2>2. SumWeights(jobsQueue) \in Nat
    BY <1>1, SumIsNumber
  <2> QED
    BY <1>3, <2>1, <2>2
<1>5. Covers(availableWeights', SumWeights(jobsQueue'))
  BY <1>2, <1>4 DEF WInv
<1> QED
  BY <1>5 DEF WInv

(* Every step keeps the third invariant.                                   *)
LEMMA NextWeights == IInv /\ WInv /\ [Next]_vars => WInv'
<1> SUFFICES ASSUME IInv, WInv, [Next]_vars PROVE WInv'
  OBVIOUS
<1>1. CASE \E js \in Vectors : ClientSchedule(js)
  BY <1>1, ScheduleWeights
<1>2. CASE \E w \in Workers : FetchTake(w)
  BY <1>2, FetchTakeWeights
<1>3. CASE SendStop
  BY <1>3, SendStopWeights
<1>4. CASE UNCHANGED <<jobsQueue, availableWeights>>
  BY <1>4 DEF WInv
<1>5. CASE \E w \in Workers : FetchWait(w) \/ RunJob(w) \/ Exit(w)
  BY <1>4, <1>5 DEF FetchWait, RunJob, Exit, queueVars
<1>6. CASE NoJobLeft \/ \E t \in Threads : SpuriousWakeup(t)
  BY <1>4, <1>6 DEF NoJobLeft, CallNoJobLeft, WaitNoJobLeft, ReturnNoJobLeft, SpuriousWakeup, queueVars
<1>7. CASE Terminated \/ UNCHANGED vars
  BY <1>4, <1>7 DEF Terminated, vars, queueVars
<1> QED
  BY <1>1, <1>2, <1>3, <1>5, <1>6, <1>7 DEF Next, Worker

(* The list holds what WeightsCover says of it.                            *)
LEMMA WeightsAreCovered == WInv => WeightsCover
BY DEF WInv, Covers, WeightsCover, Last

-------------------------------------------------------------------------------
(* The inductive invariant holds in every reachable state.                 *)
THEOREM InvariantHolds == Spec => []IInv
BY InitInvariant, NextInvariant, PTL DEF Spec

(* The state keeps its shape.                                              *)
THEOREM TypeCorrect == Spec => []TypeOK
<1>1. IInv => TypeOK
  BY DEF IInv
<1> QED
  BY <1>1, InvariantHolds, PTL

(* A pool of any size loses no wakeup, although fetchWork, Schedule,       *)
(* nojobleft and the destructor share one condition variable and signal    *)
(* one thread at a time (job_scheduler.cpp:43-45, 80, 99-102).             *)
THEOREM WakeupsReachWorkers == Spec => []NoLostWakeup
<1>1. IInv => NoLostWakeup
  BY DEF IInv
<1> QED
  BY <1>1, InvariantHolds, PTL

(* Whatever the weights, fetchWork never takes a job past a barrier        *)
(* (job_scheduler.cpp:124-126).                                            *)
THEOREM NothingBehindABarrier == Spec => []BarrierLast
<1>1. IInv => BarrierLast
  BY DEF IInv
<1> QED
  BY <1>1, InvariantHolds, PTL

(* So does the second one.                                                 *)
THEOREM WorkInvariantHolds == Spec => []JInv
BY InvariantHolds, InitInvariant, InitWork, NextWork, PTL DEF Spec

(* Whatever the batches, the weights and the interleaving, a job handed to *)
(* the pool is neither dropped nor run twice (job_scheduler.cpp:64-152).   *)
THEOREM JobsRunOnce == Spec => []EachJobOnce
BY OncePerJob, InvariantHolds, WorkInvariantHolds, PTL

(* The destructor's STOP_JOBs are as many as the workers need, and when    *)
(* the last worker has left every job has run (job_scheduler.cpp:41-51).   *)
THEOREM StopsReachWorkers == Spec => []OneStopPerWorker
BY StopPerWorker, InvariantHolds, WorkInvariantHolds, PTL

(* The list of weights never runs out before the queue does, whatever the  *)
(* weights, the groups opened at its front and the sizes of the fetches    *)
(* (job_scheduler.cpp:66-78, 113-121).                                     *)
THEOREM WeightsLast == Spec => []WeightsCover
<1>1. Spec => []WInv
  BY InvariantHolds, InitWeights, NextWeights, PTL DEF Spec
<1> QED
  BY <1>1, WeightsAreCovered, PTL
===============================================================================
