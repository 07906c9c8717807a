----------------------------- MODULE BatchPipeline -----------------------------
(***************************************************************************)
(* One batch after the other through the pool js.  The thread of           *)
(* matchdocjs runs JobRun::Run: it schedules the jobs that fill the hash   *)
(* tables and a first row of barriers, waits until no job is left in the   *)
(* queue, and schedules a second row, the jobs that read the relations, a  *)
(* third row and the jobs that make the results.  A row is one JobBarrier  *)
(* per worker; all rows use one condition variable, each has a counter of  *)
(* its own.                                                                *)
(*                                                                         *)
(* A job whose Run ends in a critical section or a call has that effect in *)
(* one step and returns in another; a job without an effect on the control *)
(* runs and returns in one step.                                           *)
(***************************************************************************)
EXTENDS Integers, Sequences, FiniteSets, Functions

CONSTANTS
    Workers,            \* the threads of js
    Waiter,             \* the thread of matchdocjs
    Quantum,            \* 128*THREADS
    Stop,               \* STOP_JOB
    Batches,            \* bound: the number of batches
    DocTables,          \* the number of JobGenHashes jobs of a batch
    QueryTables,        \* the number of JobGenHashesToken jobs of a batch
    MaxPrunes,          \* bound: the JobMatchPrune jobs of one table
    Lists,              \* the number of word lengths, one list of words each
    MaxRes,             \* bound: the JobGenRes jobs of one list
    Docs,               \* the number of documents of a batch
    KindWeight          \* getWeight() by kind of job

ASSUME ShapeAssumption ==
    /\ {Batches, DocTables, QueryTables, Docs} \subseteq Nat \ {0}
    /\ {MaxPrunes, Lists, MaxRes} \subseteq Nat

THREADS == Cardinality(Workers)

(* The counters of the three rows of barriers.                             *)
count_genhashes == 1
count_barr      == 2
scount_barr     == 3
Rows == {count_genhashes, count_barr, scount_barr}

Kinds == {"GenHashes", "GenHashesToken", "MatchPrune", "Barrier", "GenRes", "GenerateRes"}

(* A job: its kind, its batch, what it belongs to (the table, the row, the *)
(* list) and its number there.                                             *)
Job == [kind : Kinds, batch : 1..Batches, of : Nat, n : Nat]

ASSUME PoolAssumption ==
    /\ Workers # {} /\ IsFiniteSet(Workers) /\ Waiter \notin Workers
    /\ Stop \notin Job /\ Quantum \in Nat \ {0}
    /\ KindWeight \in [Kinds -> Nat \ {0}]

VARIABLES
    jobsQueue, availableWork, availableWeights, cond, jobs, exited,
    stops, inNoJobLeft, scheduled, done,            \* of the pool js
    batch,          \* the number of the current batch
    pc,             \* where JobRun::Run is
    list,           \* the next list of scheduleGenRes
    count,          \* the counter of each row of barriers
    barrWait,       \* the workers blocked on cond_barr
    returning       \* the workers whose job has had its effect

poolVars == <<jobsQueue, availableWork, availableWeights, cond, jobs, exited,
              stops, inNoJobLeft, scheduled, done>>
runVars == <<batch, pc, list>>
barrVars == <<count, barrWait>>
vars == <<poolVars, runVars, barrVars, returning>>

js == INSTANCE JobScheduler WITH
        Barrier <- {j \in Job : j.kind = "Barrier"},
        Weight <- [j \in Job |-> KindWeight[j.kind]]

(* n jobs of a kind that belong together, in the current batch.            *)
Jobs(kind, of, n) ==
    [i \in 1..n |-> [kind |-> kind, batch |-> batch, of |-> of, n |-> i]]

Row(row) == Jobs("Barrier", row, THREADS)

(* The rest of the pool when Schedule is called.                           *)
Schedule(v) ==
    /\ js!Schedule(v)
    /\ UNCHANGED <<jobs, exited, done, stops, inNoJobLeft>>

Init ==
    /\ js!Init
    /\ batch = 0
    /\ pc = "idle"
    /\ list = 0
    /\ count = [r \in Rows |-> 0]
    /\ barrWait = {}
    /\ returning = {}

-------------------------------------------------------------------------------
(* JobRun::Run, on the thread of matchdocjs.                               *)

(* The jobs that have not had their effect yet.                            *)
Pending(kinds) ==
    {j \in scheduled \ done : /\ j.kind \in kinds
                              /\ \A w \in returning : Head(jobs[w]) # j}

(* The client asks for the results of a batch once it has those of the     *)
(* batch before.                                                           *)
StartRun ==
    /\ pc = "idle" /\ batch < Batches
    /\ Pending({"GenerateRes"}) = {}
    /\ batch' = batch + 1
    /\ pc' = "SplitGenHashes"
    /\ UNCHANGED <<poolVars, list, barrVars, returning>>

(* Mutants of SplitGenHashes: nojobleft is not called, or there is no row. *)
SplitGenHashes_NoWait ==
    /\ pc = "SplitGenHashes"
    /\ count' = [count EXCEPT ![count_genhashes] = THREADS - 1]
    /\ Schedule(Jobs("GenHashes", 0, DocTables) \o Jobs("GenHashesToken", 0, QueryTables)
                    \o Row(count_genhashes))
    /\ pc' = "count_barr"
    /\ UNCHANGED <<batch, list, barrWait, returning>>

SplitGenHashes_NoRow ==
    /\ pc = "SplitGenHashes"
    /\ Schedule(Jobs("GenHashes", 0, DocTables) \o Jobs("GenHashesToken", 0, QueryTables))
    /\ pc' = "nojobleft"
    /\ UNCHANGED <<batch, list, count, barrWait, returning>>

(* SplitGenHashes: one vector, the tables first and the row of barriers    *)
(* behind them.                                                            *)
SplitGenHashes ==
    /\ pc = "SplitGenHashes"
    /\ count' = [count EXCEPT ![count_genhashes] = THREADS - 1]
    /\ Schedule(Jobs("GenHashes", 0, DocTables) \o Jobs("GenHashesToken", 0, QueryTables)
                    \o Row(count_genhashes))
    /\ pc' = "nojobleft"
    /\ UNCHANGED <<batch, list, barrWait, returning>>

(* SplitGenerateRes: js->nojobleft()                                       *)
CallNoJobLeft ==
    /\ pc = "nojobleft" /\ ~inNoJobLeft
    /\ js!CallNoJobLeft
    /\ UNCHANGED <<runVars, barrVars, returning>>

(* Mutant of WaitNoJobLeft: it may sleep although no job is left.          *)
WaitNoJobLeft_SleepsFirst ==
    /\ inNoJobLeft /\ Waiter \notin cond
    /\ cond' = cond \union {Waiter}
    /\ UNCHANGED <<jobsQueue, availableWork, availableWeights, jobs, exited, stops,
                   inNoJobLeft, scheduled, done>>
    /\ UNCHANGED <<runVars, barrVars, returning>>

WaitNoJobLeft ==
    /\ js!WaitNoJobLeft
    /\ UNCHANGED <<runVars, barrVars, returning>>

ReturnNoJobLeft ==
    /\ js!ReturnNoJobLeft
    /\ pc' = "count_barr"
    /\ UNCHANGED <<batch, list, barrVars, returning>>

(* The second row.                                                         *)
ScheduleBarr ==
    /\ pc = "count_barr"
    /\ count' = [count EXCEPT ![count_barr] = THREADS - 1]
    /\ Schedule(Row(count_barr))
    /\ pc' = "scheduleGenRes"
    /\ list' = 1
    /\ UNCHANGED <<batch, barrWait, returning>>

(* scheduleGenRes of one length: perhaps an empty vector.                  *)
ScheduleGenRes ==
    /\ pc = "scheduleGenRes" /\ list <= Lists
    /\ \E n \in 0..MaxRes : Schedule(Jobs("GenRes", list, n))
    /\ list' = list + 1
    /\ UNCHANGED <<batch, pc, barrVars, returning>>

(* Mutants of ScheduleResRow: the third row shares the counter of the      *)
(* second, or is not there.                                                *)
ScheduleResRow_SharesCounter ==
    /\ pc = "scheduleGenRes" /\ list > Lists
    /\ count' = [count EXCEPT ![count_barr] = THREADS - 1]
    /\ Schedule(Row(count_barr))
    /\ pc' = "JobGenerateRes"
    /\ UNCHANGED <<batch, list, barrWait, returning>>

ScheduleResRow_NoRow ==
    /\ pc = "scheduleGenRes" /\ list > Lists
    /\ pc' = "JobGenerateRes"
    /\ UNCHANGED <<poolVars, batch, list, barrVars, returning>>

(* The third row.                                                          *)
ScheduleResRow ==
    /\ pc = "scheduleGenRes" /\ list > Lists
    /\ count' = [count EXCEPT ![scount_barr] = THREADS - 1]
    /\ Schedule(Row(scount_barr))
    /\ pc' = "JobGenerateRes"
    /\ UNCHANGED <<batch, list, barrWait, returning>>

(* One JobGenerateRes per document; Run returns.                           *)
ScheduleGenerateRes ==
    /\ pc = "JobGenerateRes"
    /\ Schedule(Jobs("GenerateRes", 0, Docs))
    /\ pc' = "idle"
    /\ UNCHANGED <<batch, list, barrVars, returning>>

JobRun ==
    \/ SplitGenHashes
    \/ CallNoJobLeft \/ WaitNoJobLeft \/ ReturnNoJobLeft
    \/ ScheduleBarr \/ ScheduleGenRes \/ ScheduleResRow \/ ScheduleGenerateRes

-------------------------------------------------------------------------------
(* The workers.                                                            *)

(* The job whose Run the worker is in and which has not had its effect.    *)
Running(w, kinds) ==
    IF jobs[w] = <<>> \/ w \in returning \union barrWait THEN {}
    ELSE {j \in {Head(jobs[w])} : j # Stop /\ j.kind \in kinds}

Effect(w) == returning' = returning \union {w}

(* The prune jobs that search a table of the job's batch.                  *)
Prunes(j, n) == [i \in 1..n |-> [kind |-> "MatchPrune", batch |-> j.batch,
                                 of |-> IF j.kind = "GenHashes" THEN j.n ELSE DocTables + j.n,
                                 n |-> i]]

(* JobGenHashes::Run schedules the searches of its table.                  *)
RunGenHashes(w) == \E j \in Running(w, {"GenHashes"}) :
    /\ \E n \in 0..MaxPrunes : Schedule(Prunes(j, n))
    /\ Effect(w)
    /\ UNCHANGED <<runVars, barrVars>>

(* JobGenHashesToken::Run does not in the first batch.                     *)
RunGenHashesToken(w) == \E j \in Running(w, {"GenHashesToken"}) :
    /\ IF batch = 1 THEN UNCHANGED poolVars
                    ELSE \E n \in 0..MaxPrunes : Schedule(Prunes(j, n))
    /\ Effect(w)
    /\ UNCHANGED <<runVars, barrVars>>

(* JobMatchPrune*::Run and JobGenRes::Run                                  *)
RunPlain(w) == \E j \in Running(w, {"MatchPrune", "GenRes"}) :
    /\ js!RunJob(w)
    /\ UNCHANGED <<runVars, barrVars, returning>>

(* Mutant of BarrierWait: the last worker blocks too.                      *)
BarrierWait_AtZero(w) == \E j \in Running(w, {"Barrier"}) :
    /\ count[j.of] >= 0
    /\ count' = [count EXCEPT ![j.of] = @ - 1]
    /\ barrWait' = barrWait \union {w}
    /\ UNCHANGED <<poolVars, runVars, returning>>

(* JobBarrier::Run: all but the last of a row block, the last wakes them.  *)
BarrierWait(w) == \E j \in Running(w, {"Barrier"}) :
    /\ count[j.of] > 0
    /\ count' = [count EXCEPT ![j.of] = @ - 1]
    /\ barrWait' = barrWait \union {w}
    /\ UNCHANGED <<poolVars, runVars, returning>>

(* The last worker of a row.                                               *)
BarrierOpen(w) == \E j \in Running(w, {"Barrier"}) :
    /\ count[j.of] = 0
    /\ barrWait' = {}
    /\ returning' = returning \union barrWait \union {w}
    /\ UNCHANGED <<poolVars, runVars, count>>

(* JobGenerateRes::Run hands the result to the client.                     *)
RunGenerateRes(w) == \E j \in Running(w, {"GenerateRes"}) :
    /\ Effect(w)
    /\ UNCHANGED <<poolVars, runVars, barrVars>>

(* Run returns and the job is deleted.                                     *)
Return(w) ==
    /\ w \in returning
    /\ js!RunJob(w)
    /\ returning' = returning \ {w}
    /\ UNCHANGED <<runVars, barrVars>>

RunHead(w) ==
    \/ RunGenHashes(w) \/ RunGenHashesToken(w) \/ RunPlain(w)
    \/ BarrierWait(w) \/ BarrierOpen(w) \/ RunGenerateRes(w)
    \/ Return(w)

Fetch(w) ==
    /\ js!FetchWait(w) \/ js!FetchTake(w)
    /\ UNCHANGED <<runVars, barrVars, returning>>

(* pthread_cond_wait in fetchWork or nojobleft returns without a signal.   *)
SpuriousWakeup ==
    /\ \E t \in js!Threads : js!SpuriousWakeup(t)
    /\ UNCHANGED <<runVars, barrVars, returning>>

(* The client has all the results of the last batch.                       *)
Drained == pc = "idle" /\ batch = Batches /\ Pending(Kinds) = {}

Terminated == Drained /\ UNCHANGED vars

Next ==
    \/ StartRun
    \/ JobRun
    \/ \E w \in Workers : RunHead(w) \/ Fetch(w)
    \/ SpuriousWakeup
    \/ Terminated

Spec == Init /\ [][Next]_vars

(* Threads that can run do run some day, and the client drains its batch.  *)
Fairness ==
    /\ WF_vars(StartRun) /\ WF_vars(JobRun)
    /\ \A w \in Workers : WF_vars(RunHead(w)) /\ WF_vars(Fetch(w))

FairSpec == Spec /\ Fairness

-------------------------------------------------------------------------------
(* Properties.                                                              *)

HashKinds == {"GenHashes", "GenHashesToken"}

TypeOK ==
    /\ batch \in 0..Batches
    /\ pc \in {"idle", "SplitGenHashes", "nojobleft", "count_barr", "scheduleGenRes",
               "JobGenerateRes"}
    /\ list \in 0..(Lists + 1)
    /\ count \in [Rows -> 0..(THREADS - 1)]
    /\ barrWait \subseteq Workers /\ returning \subseteq Workers
    /\ scheduled \subseteq Job /\ done \subseteq scheduled
    /\ jobs \in [Workers -> Seq(scheduled)]

(* While a table is in the queue, fetchWork takes one job at a time, or a  *)
(* search of the batch is queued behind the first row already: the weights *)
(* that remain of earlier batches (job_scheduler.cpp:66-69, 104-120) are   *)
(* not enough to fetch a table together with a barrier behind it.          *)
TablesOneByOne ==
    (\E j \in Range(jobsQueue) : j.kind \in HashKinds) =>
        js!MaxWeight = 1 \/ \E s \in Range(jobsQueue) : s.kind = "MatchPrune"

(* A job starts only when everything it reads is complete: a prune job     *)
(* reads tables which other GenHashes jobs than its own fill (JobGenHashes *)
(* of section 3 schedules searches of the tables of sections 1 and 2,      *)
(* JobGenHashes.cpp:116-136), JobGenRes reads every relation,              *)
(* JobGenerateRes the whole bit area.  Nothing but the rows of barriers    *)
(* and nojobleft keeps these apart.                                        *)
PhaseOrder ==
    \A w \in Workers :
        /\ Running(w, {"MatchPrune"}) # {} => Pending(HashKinds) = {}
        /\ Running(w, {"GenRes"}) # {} => Pending(HashKinds \union {"MatchPrune"}) = {}
        /\ Running(w, {"GenerateRes"}) # {} =>
              Pending(HashKinds \union {"MatchPrune", "GenRes"}) = {}

(* The rows share one condition variable, and a broadcast wakes whoever    *)
(* waits: all of them are of one row, and its counter says how many.       *)
OneRow ==
    \A w \in barrWait :
        /\ \A v \in barrWait : Head(jobs[v]).of = Head(jobs[w]).of
        /\ count[Head(jobs[w]).of] + Cardinality(barrWait) = THREADS - 1

(* Besides, a counter is set, without its mutex, only when no barrier job  *)
(* of its row is left anywhere (MatchAll.cpp:43, Results.cpp:142, 158).    *)
RowsKeptApart ==
    [][/\ OneRow'
       /\ \A r \in Rows : count'[r] > count[r] =>
             \A j \in scheduled \ done : ~(j.kind = "Barrier" /\ j.of = r)]_vars

(* When the client has the last result of a batch, RunEnd may delete the   *)
(* bit area and clear the words (top_impl.cpp:214-245): no job that reads  *)
(* them is left, in the queue, in a vector or running.                     *)
RunEndIsSafe ==
    pc = "idle" /\ Pending({"GenerateRes"}) = {} => Pending(Kinds) = {} /\ barrWait = {}

(* Every batch is answered.                                                *)
BatchesEnd == \A b \in 1..Batches : batch = b ~> pc = "idle" /\ Pending(Kinds) = {}

(* What BatchPhases promises of a batch.                                   *)
phases == INSTANCE BatchPhases WITH
    hashing    <- IF pc = "SplitGenHashes"
                  THEN Range(Jobs("GenHashes", 0, DocTables) \o Jobs("GenHashesToken", 0, QueryTables))
                  ELSE Pending(HashKinds),
    pruning    <- Pending({"MatchPrune"}),
    collecting <- Pending({"GenRes"}),
    emitting   <- IF pc = "idle" THEN Pending({"GenerateRes"})
                  ELSE Range(Jobs("GenerateRes", 0, Docs)),
    open       <- pc \notin {"idle", "JobGenerateRes"}

ImplementsPhases == phases!Spec
===============================================================================
