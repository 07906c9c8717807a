-------------------------------- MODULE TopImpl --------------------------------
(***************************************************************************)
(* The interface of top_impl.cpp as its one client thread uses it, the     *)
(* thread of matchdocjs that runs JobDedup and JobRun in order, and the    *)
(* JobGenerateRes jobs that the pool js runs for a batch (BatchPipeline    *)
(* shows what happens in between; here a JobRun leaves these jobs behind,  *)
(* to run in any order).                                                   *)
(*                                                                         *)
(* Queries and documents are abstract: every active query matches every    *)
(* document, so a result is the set of the queries that were active when   *)
(* it was made.  A std::vector that is cleared keeps its storage, and the  *)
(* code reads behind its end: Store is the storage and its length.         *)
(***************************************************************************)
EXTENDS Integers, Sequences, FiniteSets, SequencesExt

CONSTANTS
    Queries,        \* query ids
    MaxDocs,        \* bound: documents 1..MaxDocs are pushed, in this order
    Spots,          \* DOCSBUFFERSIZE, the number of document buffers
    Freedom         \* what the client does beyond TestDriver/test.cpp

ASSUME SizeAssumption == MaxDocs \in Nat /\ Spots \in Nat \ {0}

(* test.cpp calls GetNextAvailRes once per document before it starts or    *)
(* ends a query, and at no other time.  core.h allows more:                *)
(*   "matchAfterGet"     a document after the first result of a batch      *)
(*   "queryBeforeDrain"  a query while results are outstanding             *)
ASSUME FreedomAssumption == Freedom \subseteq {"matchAfterGet", "queryBeforeDrain"}

Docs == 1..MaxDocs

VARIABLES
    pc,             \* where the client thread is
    arg,            \* the query of its call, or the buffer it was given
    result,         \* the result it has taken and not yet returned
    draining,       \* a result of the batch has been asked for
    match, gnflag, our_id,      \* globals of top_impl.cpp
    active,         \* the active queries
    started,        \* the queries started so far
    empty_spot,     \* the queue of free buffers
    buff,           \* matchdocjs_buff
    docids,         \* the client's ids of the documents of the batch
    globaldocs,     \* our ids of the documents that were read
    words,          \* for each of our ids, the documents whose words it has
    mdq,            \* the queue of matchdocjs; its thread is in the head job
    releasing,      \* the JobDedup at the head has read its document
    tasks,          \* the JobGenerateRes jobs that have not run
    docs,           \* js->docs
    unannounced,    \* results pushed to docs, ResAvail not yet incremented
    ResAvail, docsofbatch, batchEnd,    \* of js
    asked,          \* history: for each document, the queries when it was pushed
    returned        \* history: what GetNextAvailRes returned

clientVars == <<pc, arg, result, draining, match, gnflag, our_id>>
queryVars  == <<active, started>>
bufferVars == <<empty_spot, buff>>
batchVars  == <<docids, globaldocs, words>>
threadVars == <<mdq, releasing, tasks>>
resultVars == <<docs, unannounced, ResAvail, docsofbatch, batchEnd>>
history    == <<asked, returned>>
vars == <<clientVars, queryVars, bufferVars, batchVars, threadVars, resultVars, history>>

(* A vector: its storage and how much of it is in use.                     *)
EmptyStore == [at |-> <<>>, len |-> 0]
PushBack(v, x) ==
    [at |-> SubSeq(v.at, 1, v.len) \o <<x>> \o SubSeq(v.at, v.len + 2, Len(v.at)),
     len |-> v.len + 1]
Clear(v) == [v EXCEPT !.len = 0]

NoResult == [did |-> 0, words |-> {}, queries |-> {}]

Init ==
    /\ pc = "ready" /\ arg = 0 /\ result = NoResult /\ draining = FALSE
    /\ match = FALSE /\ gnflag = FALSE /\ our_id = 0
    /\ active = {} /\ started = {}
    /\ empty_spot = [i \in 1..Spots |-> i]
    /\ buff = [s \in 1..Spots |-> 0]
    /\ docids = EmptyStore /\ globaldocs = EmptyStore
    /\ words = [i \in Docs |-> {}]
    /\ mdq = <<>> /\ releasing = FALSE /\ tasks = <<>>
    /\ docs = <<>> /\ unannounced = 0
    /\ ResAvail = 0 /\ docsofbatch = 0 /\ batchEnd = 1
    /\ asked = <<>> /\ returned = <<>>

(* The documents whose result the client has not had.                      *)
Outstanding == Len(asked) - Len(returned)

-------------------------------------------------------------------------------
(* StartQuery and EndQuery: the first after a batch waits for batchEnd.     *)

MayChangeQueries == pc = "ready" /\ (Outstanding = 0 \/ "queryBeforeDrain" \in Freedom)

StartQuery(q) ==
    /\ MayChangeQueries
    /\ q \notin started
    /\ pc' = "start" /\ arg' = q
    /\ UNCHANGED <<result, draining, match, gnflag, our_id, queryVars, bufferVars, batchVars,
                   threadVars, resultVars, history>>

EndQuery(q) ==
    /\ MayChangeQueries
    /\ q \in active
    /\ pc' = "end" /\ arg' = q
    /\ UNCHANGED <<result, draining, match, gnflag, our_id, queryVars, bufferVars, batchVars,
                   threadVars, resultVars, history>>

AwaitBatchEnd ==
    /\ pc \in {"start", "end"} /\ ~match
    /\ batchEnd > 0
    /\ batchEnd' = batchEnd - 1
    /\ match' = TRUE
    /\ UNCHANGED <<result, pc, arg, draining, gnflag, our_id, queryVars, bufferVars, batchVars,
                   threadVars, docs, unannounced, ResAvail, docsofbatch, history>>

(* indexx->AddQuery, indexx->RemoveQuery                                   *)
ChangeQueries ==
    /\ pc \in {"start", "end"} /\ match
    /\ active' = IF pc = "start" THEN active \union {arg} ELSE active \ {arg}
    /\ started' = IF pc = "start" THEN started \union {arg} ELSE started
    /\ pc' = "ready" /\ arg' = 0
    /\ draining' = FALSE
    /\ UNCHANGED <<result, match, gnflag, our_id, bufferVars, batchVars, threadVars, resultVars, history>>

-------------------------------------------------------------------------------
(* MatchDocument                                                           *)

(* Mutant of Match: our ids go on from the batch before.                   *)
Match_KeepsOurId ==
    /\ pc = "ready" /\ Len(asked) < MaxDocs
    /\ ~draining \/ "matchAfterGet" \in Freedom
    /\ match' = FALSE
    /\ asked' = Append(asked, active)
    /\ pc' = "spot"
    /\ UNCHANGED <<result, arg, our_id, draining, gnflag, queryVars, bufferVars, batchVars,
                   threadVars, resultVars, returned>>

(* The call: the first document after a query starts a batch of its own.   *)
Match ==
    /\ pc = "ready" /\ Len(asked) < MaxDocs
    /\ ~draining \/ "matchAfterGet" \in Freedom
    /\ our_id' = IF match THEN 0 ELSE our_id
    /\ match' = FALSE
    /\ asked' = Append(asked, active)
    /\ pc' = "spot"
    /\ UNCHANGED <<result, arg, draining, gnflag, queryVars, bufferVars, batchVars, threadVars,
                   resultVars, returned>>

(* Mutant of TakeSpot: the buffer stays in the queue.                      *)
TakeSpot_NoPop ==
    /\ pc = "spot" /\ empty_spot # <<>>
    /\ arg' = Head(empty_spot)
    /\ docsofbatch' = docsofbatch + 1
    /\ pc' = "push"
    /\ UNCHANGED <<result, draining, match, gnflag, our_id, queryVars, bufferVars, batchVars,
                   threadVars, docs, unannounced, ResAvail, batchEnd, history>>

(* Wait for a free buffer.                                                 *)
TakeSpot ==
    /\ pc = "spot" /\ empty_spot # <<>>
    /\ arg' = Head(empty_spot)
    /\ empty_spot' = Tail(empty_spot)
    /\ docsofbatch' = docsofbatch + 1
    /\ pc' = "push"
    /\ UNCHANGED <<result, draining, match, gnflag, our_id, queryVars, buff, batchVars, threadVars,
                   docs, unannounced, ResAvail, batchEnd, history>>

(* Copy the document and schedule a JobDedup for it.                       *)
PushDocument ==
    /\ pc = "push"
    /\ buff' = [buff EXCEPT ![arg] = Len(asked)]
    /\ mdq' = Append(mdq, [kind |-> "JobDedup", dn |-> our_id, doc |-> Len(asked), spot |-> arg])
    /\ our_id' = our_id + 1
    /\ gnflag' = TRUE
    /\ docids' = PushBack(docids, Len(asked))
    /\ pc' = "ready" /\ arg' = 0
    /\ UNCHANGED <<result, draining, match, queryVars, empty_spot, globaldocs, words, releasing, tasks,
                   resultVars, history>>

-------------------------------------------------------------------------------
(* GetNextAvailRes                                                         *)

(* Mutant of GetNextAvailRes: every call starts the batch.                 *)
GetNextAvailRes_KeepsFlag ==
    /\ pc = "ready"
    /\ Outstanding > 0
    /\ mdq' = IF gnflag THEN Append(mdq, [kind |-> "JobRun"]) ELSE mdq
    /\ draining' = TRUE
    /\ pc' = "await"
    /\ UNCHANGED <<result, arg, match, gnflag, our_id, queryVars, bufferVars, batchVars, releasing,
                   tasks, resultVars, history>>

(* The first call after a MatchDocument starts the batch.                  *)
GetNextAvailRes ==
    /\ pc = "ready"
    /\ Outstanding > 0
    /\ mdq' = IF gnflag THEN Append(mdq, [kind |-> "JobRun"]) ELSE mdq
    /\ gnflag' = FALSE
    /\ draining' = TRUE
    /\ pc' = "await"
    /\ UNCHANGED <<result, arg, match, our_id, queryVars, bufferVars, batchVars, releasing, tasks,
                   resultVars, history>>

(* Mutant of AwaitResult: it does not look at ResAvail.                    *)
AwaitResult_NoWait ==
    /\ pc = "await"
    /\ ResAvail' = ResAvail - 1
    /\ pc' = "take"
    /\ UNCHANGED <<result, arg, draining, match, gnflag, our_id, queryVars, bufferVars, batchVars,
                   threadVars, docs, unannounced, docsofbatch, batchEnd, history>>

(* Wait for a result to be announced.                                      *)
AwaitResult ==
    /\ pc = "await" /\ ResAvail > 0
    /\ ResAvail' = ResAvail - 1
    /\ pc' = "take"
    /\ UNCHANGED <<result, arg, draining, match, gnflag, our_id, queryVars, bufferVars, batchVars,
                   threadVars, docs, unannounced, docsofbatch, batchEnd, history>>

TakeResult_NoErase ==
    /\ pc = "take"
    /\ docsofbatch' = docsofbatch - 1
    /\ IF docsofbatch' = 0
       THEN /\ globaldocs' = Clear(globaldocs) /\ docids' = Clear(docids)
            /\ words' = [i \in Docs |-> {}]
            /\ batchEnd' = batchEnd + 1
       ELSE UNCHANGED <<batchVars, batchEnd>>
    /\ pc' = "return" /\ result' = Head(docs)
    /\ UNCHANGED <<arg, draining, match, gnflag, our_id, queryVars, bufferVars, threadVars,
                   docs, unannounced, ResAvail, history>>

(* Under mtx_Res: count the document, end the batch with the last one      *)
(* (RunEnd), take the first result.                                        *)
TakeResult ==
    /\ pc = "take"
    /\ docsofbatch' = docsofbatch - 1
    /\ IF docsofbatch' = 0
       THEN /\ globaldocs' = Clear(globaldocs) /\ docids' = Clear(docids)
            /\ words' = [i \in Docs |-> {}]
            /\ batchEnd' = batchEnd + 1
       ELSE UNCHANGED <<batchVars, batchEnd>>
    /\ IF docs = <<>>                            \* EC_NO_AVAIL_RES
       THEN pc' = "ready" /\ UNCHANGED <<result, docs>>
       ELSE pc' = "return" /\ result' = Head(docs) /\ docs' = Tail(docs)
    /\ UNCHANGED <<arg, draining, match, gnflag, our_id, queryVars, bufferVars, threadVars,
                   unannounced, ResAvail, history>>

(* The client's id is looked up afterwards: RunEnd may have cleared docids. *)
ReturnResult ==
    /\ pc = "return"
    /\ returned' = Append(returned,
                          [doc     |-> IF result.did \in DOMAIN docids.at
                                      THEN docids.at[result.did] ELSE 0,
                           words   |-> result.words,
                           queries |-> result.queries])
    /\ pc' = "ready" /\ result' = NoResult
    /\ UNCHANGED <<arg, draining, match, gnflag, our_id, queryVars, bufferVars, batchVars, threadVars,
                   resultVars, asked>>

-------------------------------------------------------------------------------
(* The thread of matchdocjs.                                               *)

NextIs(kind) == mdq # <<>> /\ Head(mdq).kind = kind /\ ~releasing

(* JobDedup::Run: the words of the document, then globaldocs.              *)
ReadDocument ==
    /\ NextIs("JobDedup")
    /\ LET did == Head(mdq).dn + 1
       IN  /\ words' = [words EXCEPT ![did] = @ \union {buff[Head(mdq).spot]}]
           /\ globaldocs' = PushBack(globaldocs, did)
    /\ releasing' = TRUE
    /\ UNCHANGED <<clientVars, queryVars, bufferVars, docids, mdq, tasks, resultVars, history>>

(* Mutant of ReleaseSpot: the buffer is not given back.                    *)
ReleaseSpot_Lost ==
    /\ releasing
    /\ releasing' = FALSE
    /\ mdq' = Tail(mdq)
    /\ UNCHANGED <<clientVars, queryVars, bufferVars, batchVars, tasks, resultVars, history>>

(* JobDedup::Run gives the buffer back.                                    *)
ReleaseSpot ==
    /\ releasing
    /\ empty_spot' = Append(empty_spot, Head(mdq).spot)
    /\ releasing' = FALSE
    /\ mdq' = Tail(mdq)
    /\ UNCHANGED <<clientVars, queryVars, buff, batchVars, tasks, resultVars, history>>

(* JobRun::Run leaves one JobGenerateRes for each entry of globaldocs.     *)
RunBatch ==
    /\ NextIs("JobRun")
    /\ tasks' = tasks \o [i \in 1..globaldocs.len |-> i]
    /\ mdq' = Tail(mdq)
    /\ UNCHANGED <<clientVars, queryVars, bufferVars, batchVars, releasing, resultVars, history>>

-------------------------------------------------------------------------------
(* The workers of js.                                                      *)

(* JobGenerateRes::Run pushes a result under mtx_Res ...                   *)
PushResult(k) ==
    /\ LET i   == tasks[k]
           did == IF i \in DOMAIN globaldocs.at THEN globaldocs.at[i] ELSE 0
       IN  docs' = Append(docs, [did     |-> did,
                                 words   |-> IF did \in Docs THEN words[did] ELSE {},
                                 queries |-> active])
    /\ tasks' = RemoveAt(tasks, k)
    /\ unannounced' = unannounced + 1
    /\ UNCHANGED <<clientVars, queryVars, bufferVars, batchVars, mdq, releasing,
                   ResAvail, docsofbatch, batchEnd, history>>

(* ... and announces it under mtx_ResAvail.                                *)
Announce ==
    /\ unannounced > 0
    /\ unannounced' = unannounced - 1
    /\ ResAvail' = ResAvail + 1
    /\ UNCHANGED <<clientVars, queryVars, bufferVars, batchVars, threadVars,
                   docs, docsofbatch, batchEnd, history>>

-------------------------------------------------------------------------------
(* DestroyIndex joins the thread of matchdocjs, then those of js.          *)

DestroyIndex ==
    /\ pc = "ready"
    /\ pc' = "destroy"
    /\ UNCHANGED <<result, arg, draining, match, gnflag, our_id, queryVars, bufferVars, batchVars,
                   threadVars, resultVars, history>>

Destroyed ==
    /\ pc = "destroy"
    /\ mdq = <<>> /\ tasks = <<>> /\ unannounced = 0
    /\ pc' = "gone"
    /\ UNCHANGED <<result, arg, draining, match, gnflag, our_id, queryVars, bufferVars, batchVars,
                   threadVars, resultVars, history>>

Terminated == pc = "gone" /\ UNCHANGED vars

(* The steps inside a call of the client.                                  *)
Call ==
    \/ AwaitBatchEnd \/ ChangeQueries
    \/ TakeSpot \/ PushDocument
    \/ AwaitResult \/ TakeResult \/ ReturnResult
    \/ Destroyed

MatchThread == ReadDocument \/ ReleaseSpot \/ RunBatch

Workers == (\E k \in DOMAIN tasks : PushResult(k)) \/ Announce

Next ==
    \/ \E q \in Queries : StartQuery(q) \/ EndQuery(q)
    \/ Match \/ GetNextAvailRes \/ DestroyIndex
    \/ Call
    \/ MatchThread
    \/ Workers
    \/ Terminated

Spec == Init /\ [][Next]_vars

(* The threads run; the client need not make another call.                 *)
Fairness == WF_vars(Call) /\ WF_vars(MatchThread) /\ WF_vars(Workers)

FairSpec == Spec /\ Fairness

-------------------------------------------------------------------------------
(* Properties.                                                              *)

TypeOK ==
    /\ pc \in {"ready", "start", "end", "spot", "push", "await", "take", "return",
               "destroy", "gone"}
    /\ our_id \in 0..MaxDocs
    /\ active \subseteq started /\ started \subseteq Queries
    /\ empty_spot \in Seq(1..Spots)
    /\ buff \in [1..Spots -> 0..MaxDocs]
    /\ docids.len \in 0..MaxDocs /\ globaldocs.len \in 0..MaxDocs
    /\ words \in [Docs -> SUBSET Docs]
    /\ \A n \in {unannounced, ResAvail, docsofbatch, batchEnd} : n \in Nat
    /\ asked \in Seq(SUBSET Queries)

(* No document is returned twice, and none that was not pushed             *)
(* (core.h:205, test.cpp:123-134).                                         *)
DeliveredOnce ==
    /\ \A i \in DOMAIN returned : returned[i].doc \in DOMAIN asked
    /\ \A i, k \in DOMAIN returned : returned[i].doc = returned[k].doc => i = k

(* The result returned for a document is made of its own words and of the  *)
(* queries that were active when it was pushed (core.h:201-202), although  *)
(* it is computed later, under an id of ours, and the client's id is read  *)
(* from docids after RunEnd may have cleared it (top_impl.cpp:371).        *)
RightResult ==
    \A i \in DOMAIN returned :
        LET r == returned[i]
        IN  r.doc \in DOMAIN asked => r.words = {r.doc} /\ r.queries = asked[r.doc]

(* Every call does what core.h says of it.                                 *)
core == INSTANCE CoreContract
ImplementsCore == core!Spec

(* A buffer is free, or given to the client, or holds the document of one  *)
(* JobDedup until that has read it: 64 buffers serve any number of         *)
(* documents and none is overwritten while it is needed.                   *)
Holders(s) ==
    {<<"free", i>> : i \in {i \in DOMAIN empty_spot : empty_spot[i] = s}}
    \union {<<"given", 0>> : x \in {x \in {arg} : pc = "push" /\ x = s}}
    \union {<<"job", i>> : i \in {i \in DOMAIN mdq : mdq[i].kind = "JobDedup" /\ mdq[i].spot = s}}

BuffersKept ==
    /\ \A s \in 1..Spots : Cardinality(Holders(s)) = 1
    /\ \A i \in DOMAIN mdq : mdq[i].kind = "JobDedup" => buff[mdq[i].spot] = mdq[i].doc

(* Every announced result is there to be taken: GetNextAvailRes does not   *)
(* come away empty-handed (top_impl.cpp:362-365).                          *)
ResultsBacked ==
    ResAvail + unannounced + (IF pc = "take" THEN 1 ELSE 0) = Len(docs)

(* RunEnd clears what the jobs of a batch read and write, and the index of *)
(* queries has no lock: RunEnd runs when no thread is at work on the       *)
(* batch, and the queries change when nobody reads them.                   *)
QuietThreads == mdq = <<>> /\ tasks = <<>>
QuietChange ==
    /\ globaldocs'.len < globaldocs.len => QuietThreads /\ unannounced = 0
    /\ active' # active => QuietThreads /\ Outstanding = 0
ChangesAreQuiet == [][QuietChange]_vars

(* Every call of the interface returns.                                    *)
CallsReturn == pc \notin {"ready", "gone"} ~> pc \in {"ready", "gone"}
===============================================================================
