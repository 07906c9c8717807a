# Verification of the SIGMOD 2013 document filter

The program answers a stream of documents against a changing set of keyword queries.
A query is one to five words with a type (exact, hamming, edit) and a distance up to 3; it
matches a document when each of its words is near enough to some word of the document.
The interface is `Includes/core.h`, the implementation `top_impl.cpp` over a pool of
threads. This directory has TLA+ models of it, checked by TLC on small instances, and
theorems about seven of them (the pool, the batch pipeline, the interface, the token index, the
query index, the merge of results and the hash tables), checked by TLAPS for all instances.

All paths below are relative to `src/`. In a module, a definition `X_Something` that follows
a comment "Mutant of X" is a faulty variant of `X`, kept beside it to show which property
notices the fault; no specification uses it.

## 1. Inventory

| Component | State | Operations | Talks to |
|---|---|---|---|
| Interface: `top_impl.cpp` | `match`, `gnflag`, `our_id`, `docids`, `globaldocs`, 64 buffers and the queue `empty_spot` of the free ones | `StartQuery`, `EndQuery`, `MatchDocument`, `GetNextAvailRes` (with `RunEnd`), `InitializeIndex`, `DestroyIndex` | one client thread; two pools; `ResAvail`, `batchEnd` under condition variables |
| Thread pool: `JobScheduler/job_scheduler.*`, `job.h` | `jobsQueue`, `availableWork`, `availableWeights`, one mutex and one condition variable, a vector of jobs per worker | `Schedule`, `fetchWork`, `threadExecute`, `nojobleft`, the destructor | every job. `js` has THREADS workers, `matchdocjs` has one |
| Batch pipeline: `JobRun`, `JobBarrier`, `MatchAll.cpp`, `Results.cpp` | counters `count_genhashes`, `count_barr`, `scount_barr`, one condition variable `cond_barr` | `SplitGenHashes`, `SplitGenerateRes`, `scheduleGenRes`, `JobBarrier::Run` | runs in the thread of `matchdocjs`, schedules on `js` |
| Document reader: `JobDedup` | the buffer of the document, `wordbatchv` | `Run`: split into words, `AddDocToken` for each, give the buffer back | `TokenManager`, `empty_spot` |
| Token index: `TokenManager_Vector`, `TokenStructs_Vector` | per string: requests, `highest_request`, documents, `lastbatch_`; the lists `qbrandnew`, `qbrandnew0..3`, `dbrandnew`; hash tables per length | `AddQueryToken`, `RemoveTokenQmidInfo`, `AddDocToken`, `NewBatch`, `Restart` | interface, jobs |
| Query index: `QueryIndex`, `QidsVault`, `Query` | `vault_` of cells, `emptycells_`, `qmidindex`, `qidindex`, lists of positions per token | `AddQuery`, `RemoveQuery`, `HashLookup` | token index |
| Bit area: `bitarea.*` | bits per document and cell | `Set`, `CheckQmid`, `results` (the merge) | `JobGenRes` writes, `JobGenerateRes` reads |
| Deletion neighbourhoods: `JobGenHashes*`, `JobMatchPrune` | hash tables of words and of tokens with letters deleted | `JobGenHashes::Run`, `JobGenHashesToken::Run`, `QD0..QD3`, `DQ`, `OnTheFly` | pool, relations |
| Word distance: `stavroshtein` in `top_impl.h` | none | `EditHamming`, `EditHammingdiff1..3` | the searches |
| Relations: `Relations`, `TidToWid`, `GenerateRes` | related pairs, a table per thread | `Add`, `GetTids`, `GenerateRes` | searches write, `JobGenRes` reads |
| String lookup: `TokenDuplicateIndex`, `MapStuff` | string to token id | `AddPair`, `Exists`, `LookUpTokenExactManager` | token index, sparsehash |
| Hash tables: `sparsehash-2.0.2` (vendored), `dense_hash_map` of it | an array of buckets, two counters, two marker keys | `find`, `operator[]`, `insert`, `erase`, `clear`, `resize`, copies, ... | string lookup, relations, tables of deletions, `GetMyid` |
| Client: `TestDriver/test.cpp` | its test file | the order of calls | interface |

A batch goes: `MatchDocument` copies a document into a buffer and queues a `JobDedup` on
`matchdocjs`. The first `GetNextAvailRes` queues a `JobRun` behind them. `JobRun::Run`
puts `JobGenHashes` and `JobGenHashesToken` on `js`, then a row of one `JobBarrier` per
worker; the hash jobs schedule `JobMatchPrune` jobs themselves. When the queue is empty
(`nojobleft`) it schedules a second row, the `JobGenRes` jobs, a third row, and one
`JobGenerateRes` per document. Each of those pushes a result and announces it; the
`GetNextAvailRes` that takes the last one runs `RunEnd`, which clears what the batch used.

What is hard about it, and what makes each part correct:

- *Pool.* Workers and `nojobleft` sleep on one condition variable and a signal wakes any one
  of them. A worker takes several jobs at once. Correct: no wakeup is lost, every job runs
  once, no worker takes two STOP_JOBs, nothing waits behind a barrier.
- *Pipeline.* Hash tables and relations have no lock; three rows of barriers, `nojobleft` and
  the FIFO order keep readers and writers apart, the rows share a condition variable, and
  the counters are set without their mutex. Correct: no job reads what is not complete,
  rows do not mix, every batch ends.
- *Interface.* Results are computed later, under other ids, by other threads. Correct: each
  document is returned once, with its own words and the queries of its time.
- *Token index.* Only what is new is searched, while requests rise, fall and come back.
  Correct: nothing a query needs is left out.
- *Query index.* Cells are shared, emptied and recycled with stale entries left behind.
  Correct: the answer is exactly the active queries that match.
- *Strings.* Spaces in any place, words that are shared by documents and by batches, positions of
  words in queries, matches spread over the tables of several threads. Correct: a query is in
  the answer for a document exactly when each of its words matches one of the document's.
- *Hash tables.* Erased buckets on the way of a search, sizes that follow counters. Correct: every
  search ends, and the table is a finite map.
- *Searches, distance, merge.* Index arithmetic in long case distinctions. Correct: they
  agree with a textbook definition.

PROJECT.json lists each hazard at its line with the properties that look for it.

## 2. Modules

| Module | Models | Checked in |
|---|---|---|
| `JobScheduler` | the pool | `JobScheduler_pool`; theorems in `JobScheduler_proofs` |
| `BatchPhases` | what a batch promises (abstract) | as `ImplementsPhases` |
| `BatchPipeline` | `JobRun` and all jobs of a batch, on an `INSTANCE` of `JobScheduler` | `BatchPipeline_*`; theorems in `BatchPipeline_proofs` |
| `CoreContract` | what `core.h` promises the client (abstract) | as `ImplementsCore` |
| `TopImpl` | the interface, the thread of `matchdocjs`, the results queue | `TopImpl_*`; theorems in `TopImpl_proofs` |
| `TokenManager` | the token index over batches | `TokenManager_safety`; theorems in `TokenManager_proofs` |
| `QueryIndex` | cells and lists, and the answer of the bit area | `QueryIndex_safety`; theorems in `QueryIndex_proofs` |
| `DeletionSearch` | one new token and one new word, from the hash jobs to the relation | `DeletionSearch_safety` |
| `WordDistance` | `stavroshtein` | operators of `DeletionSearch`, `DeletionSearch_safety` |
| `Distances` | textbook definitions of hamming and edit distance | used by `WordDistance`, `DeletionSearch`, `DocumentPath` |
| `ResultMerge` | the merge of `bitarea::results` | `ResultMerge_safety`; theorems in `ResultMerge_proofs` |
| `DocumentPath` | strings: the two loops that split them, `JobDedup`, word lists, tables per thread, `GenerateRes`, bit area | `DocumentPath_strings` |
| `Dictionary` | what a `dense_hash_map` promises (abstract): a finite map | as `ImplementsDictionary` |
| `DenseHashtable` | `dense_hashtable` of sparsehash, and `DuplicateIndex` on it | `DenseHashtable_map`; theorems in `DenseHashtable_proofs` |
| `SequenceFacts` | nothing: lemmas about sequences and numbers | cited by `JobScheduler_proofs`, `BatchPipeline_proofs`, `TopImpl_proofs`, `QueryIndex_proofs` and `DenseHashtable_proofs` |

They fit together by stating each other's assumptions: `TopImpl` takes a `JobRun` to leave one
`JobGenerateRes` per document behind, which is `ImplementsPhases` and `BatchesEnd` of
`BatchPipeline`; `TokenManager` takes a batch as one step, which is `PhaseOrder`; its
constants `Share` and `Dist` are `NearPairsFound` and `MaskExact` of `DeletionSearch`;
`QueryIndex` takes the related pairs as given, which is
`RelationsComplete` of `TokenManager`; `ResultMerge` takes groups in order, which is
`GroupsSorted` of `QueryIndex`; `DocumentPath` takes the phases of a batch one after the other
(`PhaseOrder`), every pair that matches as found (`RelationsComplete`) and a cell per query;
every map in every module is one, which is `ImplementsDictionary`, and no two threads use one
while one of them writes it, which is `PhaseOrder` and `ChangesAreQuiet`.

### How states and actions correspond to the code

- **JobScheduler.** One action per critical section of `mtx_availableWork`: `FetchWait` is
  `fetchWork` up to `pthread_cond_wait`, `FetchTake` its loop and the debits, `RunJob` and
  `Exit` the body of `threadExecute`, `Schedule` the whole call with its credits and its
  signal, `SendStop` and `Joined` the destructor. `cond` is the set of sleeping threads;
  `SpuriousWakeup` lets any of them wake. `scheduled` and `done` are history.
- **BatchPipeline.** `pc` is where `JobRun::Run` is; each of its calls into the pool is one step.
  A job that blocks or schedules takes effect in one step and returns in another
  (`returning`); `barrWait` are the workers on `cond_barr`. How many prune and result jobs a
  list gives is chosen freely up to a bound. What they compute is not here. A batch is
  *pending* in a kind of job while one of that kind is queued, held or unfinished.
- **TopImpl.** `pc` is where the client is inside a call; a call has one step per lock it
  takes. `mdq` is the queue of `matchdocjs`, `tasks` the `JobGenerateRes` jobs. A vector keeps
  its storage when it is cleared (`EmptyStore`, `PushBack`, `Clear`), as the code reads
  `docids` after `RunEnd`. Every active query matches every document, so that a result shows
  which queries were active when it was made. `Freedom` is what the client does beyond
  `test.cpp`; empty, it is exactly the order of calls of `test.cpp`.
- **TokenManager.** One action per call: `AddQueryToken`, `RemoveTokenQmidInfo`, `AddDocToken`,
  a whole batch, `RunEnd` with or without `Restart`. A string is a value. The code restarts
  when the process has grown past a limit; the model may restart at every `RunEnd`.
- **QueryIndex.** `AddQuery` has its three cases, `RemoveQuery` its two. `hashvalue` is the sum of
  the code, over the first, third and fifth token. `alive` becomes FALSE where the code would
  read a list that is not there. `AddToken` and `Position` say where the loops of the code stop,
  and `TokensOf` is a recursive function over the words, so that all of it can be reasoned about.
- **DeletionSearch.** `GenHashes` fills all tables and schedules the jobs by section, length and
  chunk; `Prune` runs one of them for the followed pair. `Offsets` and `Chunks` are the loops
  of `JobGenHashes::Run`, `QD`, `DQ` and `OnTheFly` the choice of table and depth.
- **WordDistance.** Each routine is an operator, each loop a fold. Early returns that only save
  time are left out; the letters behind the end of a word are 0, as in the code.
- **DocumentPath.** A string is a sequence of letters and spaces and `at` the loop variable `i`.
  `SplitQuery` and `ReadWord` are once through the loops of `StartQuery` and of `JobDedup::Run`;
  `AddDocToken` gives a new string the next id of its length, notes the document (`InsertDid`) and,
  if the word is new in the batch, appends its key to `wordbatchv`. A key is `id*100 + length` and
  is taken apart again, as in the code. `Search` puts what matches into the tables of the threads
  that find it, `ScheduleGenRes` cuts the word lists into jobs of any size, `GenerateRes` does one
  word of a job, `Results` counts the tokens that are set. `RunEnd` drops the tables of relations or
  keeps them, as the memory in use says.
- **DenseHashtable.** `ht` is one table with its two counters and two flags. An operator on a table
  is what a member function makes of it, an action is one call from outside; a call that gives an
  iterator gives the value there. The loops of `min_buckets` and `maybe_shrink` are the least and
  the greatest size that they may end at; sizes are bounded (`MaxDoublings`), and a call whose table would
  have to be larger is not made (`Fits`, `HasRoom`), as in the code it ends with the exception of
  `min_buckets`. The loops of `copy_from` and of `insert` are recursive functions. Float thresholds are integer percentages. The program
  itself never erases; the other calls are modelled since the table must be right for them too.
- **ResultMerge.** One step per id taken and per loop decision, with the offsets of the code.

## 3. Runs

| Run | Bounds | Shows |
|---|---|---|
| `JobScheduler_pool` | 3 workers, 4 jobs (2 barriers, 1 light, 1 heavy), quantum 2; 42 thousand states | wakeups, single execution, stops, barriers, weights, joining; every job runs, `nojobleft` and the destructor return |
| `BatchPipeline_batches` | 2 workers, 2 batches, 2 tables, up to 1 prune and 2 result jobs, 1 document; 77 thousand states | phase order, tables fetched one by one, rows apart, counters reusable, `RunEnd` safe, implements `BatchPhases`, batches end |
| `TopImpl_client` | 4 documents in any batches, 2 buffers, 2 queries; 60 thousand states | buffers, results, implements `CoreContract`, queries change at rest, calls return |
| `TokenManager_safety` | 3 strings, 3 requests (exact, hamming, edit), 3 batches of 2 documents; 651 thousand states | no pair is lost, documents of a word are those of the batch |
| `QueryIndex_safety` | 3 ids, 6 queries (equal, colliding, different), 3 tokens, all documents of up to 3 pairs; 10 thousand states | answers exact, cells kept, queries shared |
| `ResultMerge_safety` | 6 ids in 1 to 6 groups; 59 thousand states | the answer is sorted and complete |
| `DeletionSearch_safety` | words and tokens of 4 to 7 letters of two kinds and of 4 to 5 of three, all pairs, all levels, lists of 3, 2 to a job; 1.37 million states | each entry searched once, near pairs found, the mask of every pair that is compared is exact |
| `DenseHashtable_map` | 4 keys and both markers, 2 values, 3 hash functions, tables of 4 to 16 buckets, any calls; 8 thousand states | searches end, counters count, implements `Dictionary` |
| `DocumentPath_strings` | 4 sets of queries, 10 batches of one or two documents, 2 batches, 2 threads; 53 thousand states | words and answers exact, the reader ends unless a document ends in a space |
| `TopImpl_latematch`, `TopImpl_earlyquery` | as `TopImpl_client` | findings, section 5 |
| `BatchPipeline_weights` | 2 workers, 3 batches of one document, 2 and 1 tables, quantum 3 | a finding, section 5: the order of the phases fails |

Why the bounds are enough, as far as they are:

- Three workers are the fewest where a signal can go to one of two sleepers while a third works;
  a quantum of 2 with a job of weight 3 makes one fetch take several jobs and another one. Two
  barriers and three workers mean a barrier row that is never full, which the pool must
  survive since it does not interpret barriers.
- Two batches are needed because the counters are reused and `JobGenHashesToken` spawns searches
  from the second batch on. The proportion of weights is that of the code: the tables and a
  row of barriers together are lighter than `2*Quantum` (1529 against 2*3072), so that a fetch
  before the first row takes one job. That holds for the first batches only: weights that are
  never debited pile up (section 5), and `BatchPipeline_batches` passes because two batches leave
  too few of them. `TablesOneByOne` says so: `PhaseOrder` is a theorem as long as it holds
  (section 4), and `BatchPipeline_weights`, the same model with a smaller quantum and one more
  batch, is where it ceases to hold.
- Four documents and two buffers force a buffer to be reused and allow two batches with two
  documents, one of which may come without a query between.
- Three batches let a request rise, fall and come back around a restart.
- Three ids suffice to share a cell, empty it and recycle it for another query while a third one
  uses a stale hash entry.
- Words of 4 letters are the shortest allowed, length differences 0 to 3 all occur, and two kinds
  of letters give every pattern of equal and unequal neighbours; a third kind is added for
  shorter words.
- Four keys and tables of 4 buckets, of which at most 2 may be taken, make the table grow twice; a
  search then crosses erased buckets, wraps around, and meets a table that is shrunk or rebuilt.
  `MaxDoublings` is above what four keys and their erased buckets ever ask for. The hash functions
  send all keys to one bucket, each to the last bucket of a small table, and half of them to each of
  two buckets.
- The strings have a space at the front, at the end, twice, between words and none; words are repeated
  in a document and shared by two documents and by two batches; one length has three words, so that a
  list is cut into jobs of 1, 2 and 3. The finders of a token are any set of threads; that all new
  pairs of one token have the same finders is a bound that keeps the run small.
- Six groups give three passes, with both parities and a last group that is left out of more than
  one of them.

CHECK_DEADLOCK is off where the system may stop: the client of `TopImpl` need not call again
(an unfinished call is caught by `CallsReturn`), the ids of `QueryIndex` are used up, and the
searches, the merge and `DocumentPath` end with what they compute. `DenseHashtable_map` takes the
values as symmetric, which it may since nothing compares them but for equality and it checks no
liveness, and leaves the last answer out of the state (VIEW), which no call reads; steps are still
checked with it. No other run uses symmetry, since most check liveness or number things.

**Fairness.** Threads that can run do run some day: weak fairness of each worker's fetch and of
its job, of the thread in `nojobleft`, of the destructor once it has begun, of `JobRun`, of
the thread of `matchdocjs`, and of the rest of a call that the client has made. The operating
system's scheduler gives that. Nothing is assumed of the client making a call, of spurious
wakeups, or of who gets a signal. In `BatchPipeline` the client also drains its batch
(`StartRun` is fair), as `test.cpp` does. In `DocumentPath` only the reader is fair, which is the one
thread of `matchdocjs`.

**Assumptions of the passing runs.** A wait in a barrier ends by its broadcast only; queries of
hamming and edit type have a distance of at least 1, and hash sums stay below 100000
(`QueryIndex_safety`); words have a length that there is an index for, as `core.h` promises
(`DocumentPath_strings`); the client calls in the order of `test.cpp` (`TopImpl_client`). Section 5
says what happens otherwise.

## 4. Theorems

TLAPS proves these for all values of the constants that satisfy the named assumptions of the
modules (`WorkersAssumption`, `DistAssumption` and so on), which TLC evaluates in the runs.

**Pool** (`JobScheduler_proofs`). The invariant is

    IInv == TypeOK /\ WorkCounted /\ NoLostWakeup /\ BarrierLast

`NoLostWakeup` keeps itself true, but only as long as `availableWork` is the length of the
queue: otherwise a worker would be allowed to sleep, or fetch past the end; hence `WorkCounted`.
The core of the argument: a thread goes to sleep only after it signalled, and a signal with a
sleeper wakes exactly that one, so there is never a second sleeper and a signal cannot go to the
wrong thread; `Schedule` signals in the critical section that adds the work. `BarrierLast` follows since a fetch takes
a prefix of the queue that ends at the first barrier or STOP_JOB. Theorems: `TypeCorrect`,
`WakeupsReachWorkers` (NoLostWakeup), `NothingBehindABarrier` (BarrierLast). `TypeOK` of the pool is
proved only, since no run need check it again.

**Token index** (`TokenManager_proofs`). `RelationsComplete` speaks of one moment, after a batch was
matched. What carries it from batch to batch is `HashedOrDue`: every pair of a hashed word and a
token, within the token's highest request, is related already or the token waits in a list
`qbrandnew0..3` whose level finds it; `HighestCovers` ties active requests to the highest one,
`NewOrHashed` says that what is not hashed is new, `FirstBatch` accounts for the first batch, which
does not search from the words, and `LastBatch` tells the words of this batch from older ones.
Theorems: `TypeCorrect`, `NoPairIsLost` (RelationsComplete), `NoWordIsLeftBehind` (WordsOfTheBatch).

**Pool, the jobs** (`JobScheduler_proofs`, second part). `EachJobOnce` and `OneStopPerWorker` need
an invariant of their own:

    JInv == JobsApart /\ Accounted /\ StopsLast /\ ExitedIdle /\ StopsCounted

`JobsApart` says that a job is at one place of the queue, of one worker's vector or in `done`,
`Accounted` that each scheduled job is somewhere. A STOP_JOB looks like every other, so they are
counted: those in the queue and in vectors, and those still to send, are as many as the workers
that have not left (`StopsCounted`), and no job is behind one (`StopsLast`). Theorems:
`WorkInvariantHolds`, `JobsRunOnce` (EachJobOnce), `StopsReachWorkers` (OneStopPerWorker).

**Pool, the weights** (`JobScheduler_proofs`, third part). `WInv` is `WeightsCover` with the type of
the list: all its entries but the last are 0, and the last covers the weight of what is queued. A
debit that misses the entry of its job can only pop a 0 or charge the last entry, with the same
amount by which the queue gets lighter (`DebitCovers`), and an entry opened at the front is a 0
(`CreditCovers`). The sums and the debits are recursive functions over positions, which are shown to
exist (`RecursionExists` of `SequenceFacts`). Theorem: `WeightsLast` (WeightsCover).

**Interface** (`TopImpl_proofs`). Two invariants. The first one holds for any client:

    AInv == ClientShape /\ ThreadShape /\ SpotsApart /\ SpotsSomewhere /\ BuffersFilled /\ ResultsBacked

each buffer is at one place of `empty_spot`, in the client's hand or in one `JobDedup`
(`SpotsApart`, `SpotsSomewhere`) and holds that job's document (`BuffersFilled`); a result that
was announced is in the vector. Theorems: `NoBufferOverwritten` (BuffersKept), `EveryResultIsThere`
(ResultsBacked). The second one is about ids:

    BInv == CallOrder /\ OurIds /\ DocsCounted /\ ReadingInOrder /\ IdsOfTheBatch
            /\ ResultsUnderway /\ ResultsHad

`our_id` is the number of documents pushed to the batch, `docids` their ids in that order, the
queue holds the rest in order (`OurIds`, `DocsCounted`, `ReadingInOrder`), and each id of the batch
is in exactly one of `tasks`, the results and what the client has (`ResultsUnderway`, `ResultsHad`).
This is false for a client that pushes between results, as the two runs that expect a violation
show, so the theorems have the hypothesis `Freedom = {}`: the client calls
`GetNextAvailRes` once for each document before it changes a query or pushes again, as `test.cpp`
does. Theorems: `TypesHold` (TypeOK), `EachDocumentOnce`, `EachResultRight` (`DeliveredOnce` and
`RightResult`, the properties of the two findings), `NobodyDisturbed` (ChangesAreQuiet), and
`InterfaceImplementsCore` (ImplementsCore): every step is a step of `CoreContract` or leaves
its variables alone, one lemma for each kind of step.

**Query index** (`QueryIndex_proofs`). The invariant ties cells, lists and ids together:

    IInv == Shapes /\ Ordered /\ Empties /\ Members /\ Located /\ Stands /\ Lists /\ Reached

`Members` says that a cell has the ids of the active queries that `qidindex` sends to it and
`Stands` that it has their words, type and distance and is filed under their hash value; `Empties`
that the stack holds the cells without ids, once, without tokens; `Lists` that an entry of a list leads
to a cell with ids and to the position of the token in it, once; `Reached` that each token of a cell with ids
leads to it. The parts need each other: a recycled cell is safe to fill because no list leads to it
(`Lists`), which holds because a removal erases just the entries that `Reached` and `Lists` know of,
and that the removal came to the right cell is `Members`. Stale pairs in `qmidindex` need no more
than that `HashLookup` compares tokens, and that an empty cell has none.
What follows for any constants: `TypeHolds` (TypeOK), `GroupsSortedHolds` (GroupsSorted).

Two theorems have the hypothesis `NonzeroDist`, no hamming or edit query of distance 0, since such
a query is in no list: `CellsKeptHolds` (CellsKept), and `ResultsExactHolds` (ResultsExact). The latter
says that the bits of a cell are the positions of those of its tokens that the document's pairs
meet (`BitsOfCell`), so that counting them compares all of them (`CellAnswers`), and that the cells'
ids, being disjoint, stay apart when they are put behind each other (`FlattenProperties` of
`SequenceFacts`). `core.h:145-147` allows distance 0 for every type, so that this is a real restriction: section 5
says what the code does without it.

`OneCellPerQueryHolds` (OneCellPerQuery) has the hypothesis `LightWeights`: 9 times the weight of a
word, 1 + 3 + 5 for the three tokens that are summed, is below 100000. The weight is the sum
of letters times their places (`Query.cpp:45-58`): words of up to 13 lower-case letters are light,
`core.h` allows 31. Beyond it the theorem is false, as section 5 says. It needs one more
invariant, `Shared`: active queries with the same tokens, type and distance have one cell.

**Result merge** (`ResultMerge_proofs`). The invariant follows a pass from left to right:

    IInv == Groups /\ Buffers /\ Control /\ BetweenPairs /\ InAPair /\ Answered

`source` has every id and is in order by runs of `k \div 2` groups (`Buffers`); what the pass has
written, up to `last`, has the same ids as `source` there and is in order by runs of `k` groups
(`PassUpTo`). In a pair of runs, `Merging` says that what is written is smaller than what either
run has next. That a run ends where the next begins is arithmetic of multiples (`Multiples`), and
a buffer of `N` places with `N` ids has each once (`NoIdTwice`, `NothingElse`). When the passes
end there is one run. Theorems: `TypeHolds` (TypeOK), `AnswerSortedHolds` (AnswerSorted).

**Batch pipeline** (`BatchPipeline_proofs`). The pool is taken as it is, with fetches of any size
that end at a barrier. The first invariant names the row `cur` of barriers that is not open yet (4
when all are):

    IInv == \E cur \in 1..4 : JobsRight /\ AtRow(cur)
    JobsRight == TypeOK /\ Shape /\ Calling /\ InTime /\ PlannedOnce /\ BarrierSomewhere
    AtRow(cur) == cur \in 1..LastRow + 1 /\ InOrder(cur) /\ Counted(cur) /\ Waited(cur)

A worker holds one barrier at most, its last job (`Shape`); the barriers in the queue are of `cur`
and later rows in order, and those held are of `cur` (`InOrder`); queued and held barriers of `cur`
are as many as workers, and so are its counter and the blocked workers, but for one (`Counted`). So
the last worker of a row finds 0 when each other one is blocked, and wakes no one of another row.
That a batch finds all rows of the one before open follows from `Waited`: `nojobleft` returns with
the first row fetched, and `GenerateRes` jobs are behind the third one. This holds whatever the
weights are. Theorems: `InvariantHolds`, `TypeHolds` (TypeOK), `RowsKeptApartHolds` (RowsKeptApart).

The phases need more, and one hypothesis, `[]TablesOneByOne`: while a table is queued, a fetch takes
one job, or a search is queued behind the first row already. The invariant is

    TInv == (\E cur \in 1..4 : At(cur) /\ Phased(cur)) /\ SearchesScheduled /\ SearchBehind
    Phased(cur) == NoneLost /\ VectorsOnce /\ QueuePhased(cur) /\ VectorsPhased(cur)

A job in the queue is behind just the rows that it waits for (`QueuePhased`), jobs in vectors are of
the phase before `cur` (`VectorsPhased`). For tables, searches and result jobs that is kept by any
fetch. The exception is the moment when `nojobleft` returns and the second row is scheduled: a search
that a table schedules after it is behind that row and runs with the jobs that read the relations.
An empty queue means that every worker has its barrier of the first row; a table in front of one of
these was fetched with it, and then a search is queued (`SearchBehind`), so the queue is not empty;
hence no table is left (`SearchesScheduled`). Theorems: `PhaseOrderHolds` (PhaseOrder),
`RunEndIsSafeHolds` (RunEndIsSafe), and the refinement `PhasesImplemented` (ImplementsPhases). The
last needs, besides `TInv`, that no result job is pending when they are about to be scheduled (`ResultsLast`),
and for every step what it adds to the pending jobs (`PendingAdds`) or takes from them: that is the
step of `BatchPhases`, or it leaves its variables alone. The hypothesis is about the weights that
earlier batches leave in `availableWeights`. `BatchPipeline_batches` checks it; it fails in the run of
`BatchPipeline_weights`, and there `PhaseOrder` fails with it. All of this takes the wait in a
barrier to end by its broadcast only, as the model does.

**Hash tables** (`DenseHashtable_proofs`). The invariant says of the table

    Good(h) == Shape(h) /\ Counted(h) /\ Roomy(h) /\ Reached(h) /\ KeysOnce(h)

`Reached` carries the searches: each key is in a bucket of its own probes (`OnTheWay`), and none
before it is empty, so that a search passes erased buckets but comes to the key before it gives up;
with `KeysOnce` it is the only place. An erasure keeps that because its bucket is erased and not
empty. `Counted` says what the two counters count. `Roomy` keeps the elements, erased ones included,
at `enlarge_size` or below: as the occupancy is less than 100 percent, a bucket is empty. That a
search comes to it is arithmetic: the distance of two triangular numbers is a product with an odd
factor, which does not help a power of two to divide it (`OddFree`), so that the probes differ
(`ProbesDiffer`) and reach all buckets (`ProbesReach`). An insertion finds its place before it makes
room, and uses the place if `resize_delta` did not copy the table: then it left the buckets alone
(`PlaceStays`, `AsItWas`). A copy goes over the old buckets in order; what is copied after each is a
recursive function, shown to exist (`LoopExists`) and to keep what each of its steps keeps
(`LoopStays`). For the refinement, each call is shown to do to `contents` what the same call of
`Dictionary` does to its map, and to return the same. Theorems: `TableIsGood` (the invariant),
`TypeHolds` (TypeOK), `ProbesEndHolds` (ProbesEnd), `DictionaryImplemented` (ImplementsDictionary).
They hold for every hash function, any sizes, an `HT_EMPTY_PCT` of at most half the occupancy, which
`set_resizing_parameters` sees to, and an occupancy below 100 percent (the code's are 28 and 70). At
100 percent, which `set_resizing_parameters` allows and nobody asks for, `resize_delta` would let the last
bucket be taken, and a search for another key would not end.

Some inductions over data could be proved because they need no operator as a parameter: a least
counterexample in a set of numbers (`SmallestNat`) replaces the induction, and the recursive
functions (of `TokensOf`, `FlattenSeq`, the weights of the pool) are shown to exist first.

Only model-checked: `TablesOneByOne` (which is false for some constants), `DeletionSearch`,
`WordDistance` and `DocumentPath`, and all liveness. Liveness under fairness is outside
what the prover handles, and so is induction with an operator as a parameter, which the
folds of `WordDistance` and the recursive table of `Distances` would need; `DeletionSearch` and
`DocumentPath` are built on these two.

## 5. Where code and documentation differ

Shown by a run:

- `TopImpl_latematch`: `our_id` is reset only after a query, `docids` after every batch; a document
  pushed after a batch was read, with no query between, is looked up past the end of `docids`.
- `TopImpl_earlyquery`: `batchEnd` starts at 1 and a first batch with no query before it leaves that
  unit, so a later `StartQuery` does not wait and its query shows in results of earlier documents.
- `BatchPipeline_weights`: `Schedule` of a row of barriers pushes a weight of 0 at the front of
  `availableWeights` (`job_scheduler.cpp:66-69`) but credits the row at the back (line 78). The next
  `fetchWork` takes one job and pops that 0 (lines 115-120), so that the weight of the job is debited
  nowhere. Up to two such weights per batch stay for ever, until `maxWeight` (line 106) is large
  enough for a worker to take the last hash job together with a barrier of the first row;
  `nojobleft` then returns before that job has run, and its searches come too late for `JobGenRes`.
  With the quantum of the code, 128*THREADS, it takes some 17,000 batches.

Seen while modelling, with no run of their own:

- A hamming or edit query of distance 0 is filed in no list and never matches: `ResultsExact`
  fails with `Queries <- ZeroQueries` in `QueryIndex_safety.cfg`.
- `GetNextAvailRes` with nothing outstanding waits for ever (`top_impl.cpp:342`); `core.h:223-224`
  says it returns `EC_NO_AVAIL_RES`. `test.cpp` never calls it so, and neither does the client of
  `TopImpl`.
- A barrier waits without a loop around `pthread_cond_wait` (`JobBarrier.cpp:15`). Should the wait
  return early, a search would read tables that are still filled and `PhaseOrder` would fail.
- A second `StartQuery` or `EndQuery` with results outstanding waits for `batchEnd`, which only the
  waiting client could bring about (`top_impl.cpp:253`): checking `CallsReturn` with `Freedom` =
  `{"queryBeforeDrain"}` shows it.
- `HashLookup` wants `hashvalue/100000` to be type and distance (`QueryIndex.cpp:105`); for
  long words the sum alone passes 100000 and equal queries are not found. With `Weight` at 30000
  `OneCellPerQuery` fails.
- `EndQuery` of a query of distance 0 reads a list that does not exist
  (`TokenStructs_Vector.cc:100`): `CellsKept` fails with `ZeroQueries`, too.
- A document that ends in a space is never read to its end: the loop continues at
  `JobDedup.cpp:60` without setting `doc_end`. `ReaderEnds` states this, and that every other
  document is read to its end.
- A query that ends in a space gets an empty word (`top_impl.cpp:265`). `AddQueryToken` refuses it
  by its length and leaves the `tid` of the caller as it was, which is not initialised; the word is
  counted all the same, so that the query never matches (`AnswersExact`).
- `JobDedup.cpp:77` indexes `wordbatchv` with the length of a word that `AddDocToken` may have refused.
  `core.h:184-187` excludes such words.
- `SetDimis` and the `Run` functions of `JobDedup`, `JobGenRes`, `JobGenHashes` and
  `JobGenHashesToken` end without a return statement although they are not void, which is undefined. No caller uses the
  values, and the models take them to return.
- `RunEnd` restarts above 75 * 1024 * 1024 KB (`top_impl.cpp:227`), which is 75 GB and not MB; the
  models restart or not, at any `RunEnd`.

## 6. Not modelled

- *The rest of sparsehash*: `sparsehashtable.h`, allocators, traits and the library's own tests; the
  program uses `dense_hash_map` and `dense_hash_set`, which are the same table. Allocation failure
  and the assertions of the library are left out, and so are changed load factors.
- *MurmurHash3*: vendored arithmetic. A hash function is any function: strings that collide are
  compared in vain and no more.
- *The effect of undefined behaviour*: a query with an empty word once it shares a cell or is removed
  (an uninitialised `tid`), words of a length that has no index, a list that does not exist.
- *`DestroyIndex` in the middle of a batch*, which destroys the barrier's mutex before it joins its
  users (`top_impl.cpp:185`). `test.cpp` destroys after the last result; then every worker has left
  the last row's wait (`RunEndIsSafe`), though it need not have released the mutex.
- *Reading the test file and comparing answers* in `test.cpp`.
- *`HammingDistance`, `TranslateTypeDistance`* in `top_impl.h`: never called.
- *Build files, timer, generated documentation, the second `core.h`*: no behaviour.

## 7. Plan

Done, in this order: `JobScheduler` with its proofs, `BatchPipeline` over it, `TopImpl`,
`TokenManager` with its proofs, `QueryIndex`, `ResultMerge`, `WordDistance`, `DeletionSearch`,
`DenseHashtable` against `Dictionary`, `DocumentPath`; then the proofs of `TopImpl` with its
refinement, of the jobs and weights of the pool, of `QueryIndex`, of `ResultMerge`, of
`BatchPipeline`, and of `DenseHashtable` with its refinement of `Dictionary`.

Next, modelling:

1. `DestroyIndex` at any moment in `TopImpl`.
2. A composition of `QueryIndex` and `TokenManager` over one batch: requests of a token as the
   union of those of the cells that lead to it.

Next, proofs: `WordsExact` of `DocumentPath`, which needs no distance, and `OneJobPerEntry` of
`DeletionSearch`, the arithmetic of its chunks.
