------------------------------- MODULE Runner -------------------------------
(***************************************************************************)
(* bench.Run (bench/runner.go): one batch of queries spread over `threads' *)
(* goroutines that help themselves from a shared atomic counter.           *)
(*                                                                         *)
(* The caller normalises its arguments, sets GOMAXPROCS, starts the        *)
(* goroutines one by one (the first ones run while the last ones are not   *)
(* started yet), waits on a WaitGroup and then merges what each goroutine  *)
(* left in its own slot of `outs'.                                         *)
(*                                                                         *)
(* A query is its index in the batch.  The answer of a query is not        *)
(* interpreted: a goroutine's checksum is a formal sum that says how often *)
(* the answer of each query was added.  A duration is represented by the   *)
(* chunk it measures, so that `samples' tells which chunks were timed.     *)
(***************************************************************************)
EXTENDS Integers, Sequences, FiniteSets

CONSTANTS
  ThreadArgs,   \* values of the `threads' argument
  ChunkArgs,    \* values of the workload's Chunk field
  BatchSizes,   \* numbers of queries in a batch
  HostProcs     \* GOMAXPROCS when Run is called

ASSUME RunnerAssumption ==
  /\ ThreadArgs \subseteq Int
  /\ ChunkArgs \subseteq Int
  /\ BatchSizes \subseteq Nat
  /\ HostProcs \in Nat \ {0}

VARIABLES
  threads, chunk, \* arguments, normalised by Enter
  nq,             \* len(queries)
  procs,          \* the process-wide GOMAXPROCS
  prev,           \* the value the deferred call restores
  main,           \* control state of the goroutine that called Run
  spawned,        \* iterations of the loop that starts the goroutines
  wg,             \* WaitGroup counter
  next,           \* the shared atomic counter
  pc,             \* control state of each worker goroutine
  lo, pos, hi,    \* current chunk [lo, hi) and next query to answer in it
  sum, samples,   \* checksum and timed chunks, local to each worker
  outs,           \* result slots, one per worker
  collected,      \* slots already merged by the caller
  checksum, all   \* merged checksum and merged samples

callerVars == <<threads, chunk, procs, prev, main, spawned, collected, checksum, all>>
workerVars == <<pc, lo, pos, hi, sum, samples, outs>>
vars == <<nq, next, wg, callerVars, workerVars>>

AtLeastOne(x) == IF x < 1 THEN 1 ELSE x

Query  == 0 .. (nq - 1)
Worker == 0 .. (AtLeastOne(threads) - 1)

Least(a, b) == IF a < b THEN a ELSE b

NoAnswer == [q \in Query |-> 0]
EmptyOut == [samples |-> <<>>, checksum |-> NoAnswer]

-----------------------------------------------------------------------------
(* The goroutine that calls Run. *)

Init ==
  /\ threads \in ThreadArgs
  /\ chunk \in ChunkArgs
  /\ nq \in BatchSizes
  /\ procs = HostProcs
  /\ prev = HostProcs
  /\ main = "call"
  /\ spawned = 0 /\ wg = 0 /\ next = 0
  /\ pc = [w \in Worker |-> "unborn"]
  /\ lo = [w \in Worker |-> 0]
  /\ pos = [w \in Worker |-> 0]
  /\ hi = [w \in Worker |-> 0]
  /\ sum = [w \in Worker |-> NoAnswer]
  /\ samples = [w \in Worker |-> <<>>]
  /\ outs = [w \in Worker |-> EmptyOut]
  /\ collected = 0
  /\ checksum = NoAnswer
  /\ all = <<>>

\* Mutant of Enter: zero threads are kept.
EnterThreadsZero ==
  /\ main = "call"
  /\ main' = "spawn"
  /\ chunk' = AtLeastOne(chunk)
  /\ prev' = procs
  /\ procs' = AtLeastOne(threads)
  /\ UNCHANGED <<nq, next, wg, threads, spawned, collected, checksum, all, workerVars>>

\* Arguments are normalised and GOMAXPROCS is set to the number of threads.
Enter ==
  /\ main = "call"
  /\ main' = "spawn"
  /\ threads' = AtLeastOne(threads)
  /\ chunk' = AtLeastOne(chunk)
  /\ prev' = procs
  /\ procs' = threads'
  /\ UNCHANGED <<nq, next, wg, spawned, collected, checksum, all, workerVars>>

\* Mutant of Spawn: the first goroutine is not counted.
SpawnUncounted ==
  /\ main = "spawn"
  /\ spawned < threads
  /\ wg' = wg + (IF spawned = 0 THEN 0 ELSE 1)
  /\ pc' = [pc EXCEPT ![spawned] = "claim"]
  /\ spawned' = spawned + 1
  /\ UNCHANGED <<nq, next, threads, chunk, procs, prev, main, collected, checksum, all,
                 lo, pos, hi, sum, samples, outs>>

\* wg.Add(1), then `go': the counter already includes a goroutine that starts.
Spawn ==
  /\ main = "spawn"
  /\ spawned < threads
  /\ wg' = wg + 1
  /\ pc' = [pc EXCEPT ![spawned] = "claim"]
  /\ spawned' = spawned + 1
  /\ UNCHANGED <<nq, next, threads, chunk, procs, prev, main, collected, checksum, all,
                 lo, pos, hi, sum, samples, outs>>

\* Mutant of Wait: the caller does not wait for the last goroutine.
WaitButOne ==
  /\ main = "spawn"
  /\ spawned = threads
  /\ wg <= 1
  /\ main' = "collect"
  /\ UNCHANGED <<nq, next, wg, threads, chunk, procs, prev, spawned, collected,
                 checksum, all, workerVars>>

\* wg.Wait() returns.
Wait ==
  /\ main = "spawn"
  /\ spawned = threads
  /\ wg = 0
  /\ main' = "collect"
  /\ UNCHANGED <<nq, next, wg, threads, chunk, procs, prev, spawned, collected,
                 checksum, all, workerVars>>

\* Mutant of Collect: the checksum of a slot replaces the total.
CollectLast ==
  /\ main = "collect"
  /\ collected < threads
  /\ checksum' = [q \in Query |-> outs[collected].checksum[q]]
  /\ all' = all \o outs[collected].samples
  /\ collected' = collected + 1
  /\ UNCHANGED <<nq, next, wg, threads, chunk, procs, prev, main, spawned, workerVars>>

\* One iteration of the loop over outs.
Collect ==
  /\ main = "collect"
  /\ collected < threads
  /\ checksum' = [q \in Query |-> checksum[q] + outs[collected].checksum[q]]
  /\ all' = all \o outs[collected].samples
  /\ collected' = collected + 1
  /\ UNCHANGED <<nq, next, wg, threads, chunk, procs, prev, main, spawned, workerVars>>

\* Mutant of Return: GOMAXPROCS is not restored.
ReturnKeepsProcs ==
  /\ main = "collect"
  /\ collected = threads
  /\ main' = "returned"
  /\ UNCHANGED <<nq, next, wg, threads, chunk, procs, prev, spawned, collected, checksum, all,
                 workerVars>>

\* The statistics are returned and the deferred call restores GOMAXPROCS.
Return ==
  /\ main = "collect"
  /\ collected = threads
  /\ main' = "returned"
  /\ procs' = prev
  /\ UNCHANGED <<nq, next, wg, threads, chunk, prev, spawned, collected, checksum, all,
                 workerVars>>

-----------------------------------------------------------------------------
(* A worker goroutine. *)

\* Claiming with a counter that moves by `step', a loop that ends when `over', and then
\* continues at `exit'.
ClaimBy(w, step, over, exit) ==
  /\ pc[w] = "claim"
  /\ next' = next + step
  /\ \/ /\ over
        /\ pc' = [pc EXCEPT ![w] = exit]
        /\ UNCHANGED <<lo, pos, hi>>
     \/ /\ ~over
        /\ lo' = [lo EXCEPT ![w] = next]
        /\ pos' = [pos EXCEPT ![w] = next]
        /\ hi' = [hi EXCEPT ![w] = Least(next + chunk, nq)]
        /\ pc' = [pc EXCEPT ![w] = "run"]
  /\ UNCHANGED <<nq, wg, callerVars, sum, samples, outs>>

\* Mutants of Claim: the counter moves by one query; the short last chunk is dropped;
\* an exhausted batch does not end the loop.
ClaimByOne(w) == ClaimBy(w, 1, next >= nq, "publish")
ClaimDropsLast(w) == ClaimBy(w, chunk, next + chunk > nq, "publish")
ClaimContinues(w) == ClaimBy(w, chunk, next >= nq, "claim")

\* lo := int(next.Add(chunk)) - chunk reads the counter and moves it in one step:
\* a chunk that starts there is taken, or the loop ends.
Claim(w) ==
  /\ pc[w] = "claim"
  /\ next' = next + chunk
  /\ \/ /\ next >= nq
        /\ pc' = [pc EXCEPT ![w] = "publish"]
        /\ UNCHANGED <<lo, pos, hi>>
     \/ /\ next < nq
        /\ lo' = [lo EXCEPT ![w] = next]
        /\ pos' = [pos EXCEPT ![w] = next]
        /\ hi' = [hi EXCEPT ![w] = Least(next + chunk, nq)]
        /\ pc' = [pc EXCEPT ![w] = "run"]
  /\ UNCHANGED <<nq, wg, callerVars, sum, samples, outs>>

\* sum += wl.Run(g, q, s) for the next query of the chunk.
Answer(w) ==
  /\ pc[w] = "run"
  /\ pos[w] < hi[w]
  /\ sum' = [sum EXCEPT ![w][pos[w]] = @ + 1]
  /\ pos' = [pos EXCEPT ![w] = @ + 1]
  /\ UNCHANGED <<nq, wg, next, callerVars, pc, lo, hi, samples, outs>>

\* Mutant of EndChunk: only full chunks are timed.
EndChunkFull(w) ==
  /\ pc[w] = "run"
  /\ pos[w] = hi[w]
  /\ samples' = IF hi[w] - lo[w] = chunk
                THEN [samples EXCEPT ![w] = Append(@, lo[w])] ELSE samples
  /\ pc' = [pc EXCEPT ![w] = "claim"]
  /\ UNCHANGED <<nq, wg, next, callerVars, lo, pos, hi, sum, outs>>

\* The chunk is over: its duration is recorded.
EndChunk(w) ==
  /\ pc[w] = "run"
  /\ pos[w] = hi[w]
  /\ samples' = [samples EXCEPT ![w] = Append(@, lo[w])]
  /\ pc' = [pc EXCEPT ![w] = "claim"]
  /\ UNCHANGED <<nq, wg, next, callerVars, lo, pos, hi, sum, outs>>

\* outs[w] = workerOut{...}
Publish(w) ==
  /\ pc[w] = "publish"
  /\ outs' = [outs EXCEPT ![w] = [samples |-> samples[w], checksum |-> sum[w]]]
  /\ pc' = [pc EXCEPT ![w] = "done"]
  /\ UNCHANGED <<nq, wg, next, callerVars, lo, pos, hi, sum, samples>>

\* The deferred wg.Done().
Done(w) ==
  /\ pc[w] = "done"
  /\ wg' = wg - 1
  /\ pc' = [pc EXCEPT ![w] = "gone"]
  /\ UNCHANGED <<nq, next, callerVars, lo, pos, hi, sum, samples, outs>>

WorkerStep(w) == Claim(w) \/ Answer(w) \/ EndChunk(w) \/ Publish(w) \/ Done(w)

MainStep == Enter \/ Spawn \/ Wait \/ Collect \/ Return

\* The call has returned; nothing is left to happen.
Returned == main = "returned" /\ UNCHANGED vars

Next ==
  \/ MainStep
  \/ \E w \in Worker : WorkerStep(w)
  \/ Returned

Spec == Init /\ [][Next]_vars

\* Every goroutine a behaviour may start.
WorkerIds == UNION {0 .. (AtLeastOne(t) - 1) : t \in ThreadArgs}

\* The Go scheduler eventually runs every goroutine that can make a step.
Fairness ==
  /\ WF_vars(MainStep)
  /\ \A w \in WorkerIds : WF_vars(w \in Worker /\ WorkerStep(w))

FairSpec == Spec /\ Fairness

-----------------------------------------------------------------------------
(* Correctness. *)

\* Types and ranges of all the variables of one call of Run.
TypeOK ==
  /\ threads \in Int /\ chunk \in Int
  /\ nq \in Nat
  /\ procs \in Nat \ {0} /\ prev \in Nat \ {0}
  /\ main \in {"call", "spawn", "collect", "returned"}
  /\ main # "call" => threads >= 1 /\ chunk >= 1
  /\ spawned \in 0 .. AtLeastOne(threads)
  /\ collected \in 0 .. AtLeastOne(threads)
  /\ wg \in Int /\ next \in Nat
  /\ pc \in [Worker -> {"unborn", "claim", "run", "publish", "done", "gone"}]
  /\ main = "call" => \A w \in Worker : pc[w] = "unborn"
  /\ lo \in [Worker -> Nat] /\ pos \in [Worker -> Nat] /\ hi \in [Worker -> Nat]
  /\ sum \in [Worker -> [Query -> Nat]]
  /\ samples \in [Worker -> Seq(Nat)]
  /\ outs \in [Worker -> [samples : Seq(Nat), checksum : [Query -> Nat]]]
  /\ checksum \in [Query -> Nat]
  /\ all \in Seq(Nat)

\* The queries that only goroutine w may answer or has answered: the rest of its
\* chunk, and what is in its checksum.
Holds(w, q) == sum[w][q] > 0 \/ (pc[w] = "run" /\ q \in pos[w] .. (hi[w] - 1))

\* The counter hands every query to one goroutine only, at every moment: chunks
\* taken by goroutines that race on next.Add never overlap.
ClaimsDisjoint ==
  \A v, w \in Worker, q \in Query : Holds(v, q) /\ Holds(w, q) => v = w

\* Run answers every query of the batch exactly once, so that its checksum depends
\* on neither the schedule nor the number of threads (runner.go:124).
EveryQueryOnce == main = "returned" => checksum = [q \in Query |-> 1]

\* wg.Wait() does not let the caller read a slot of outs before its goroutine has
\* written it: what is merged is what each goroutine computed.
MergeAfterPublish ==
  main \in {"collect", "returned"} =>
    \A w \in Worker : outs[w] = [samples |-> samples[w], checksum |-> sum[w]]

\* The merged samples hold one duration per chunk of the batch, the short last chunk
\* included: percentiles are over exactly these (runner.go:101, 112, 123).
ChunksTimedOnce ==
  main = "returned" =>
    /\ {all[i] : i \in DOMAIN all} = {q \in Query : q % chunk = 0}
    /\ \A i, j \in DOMAIN all : all[i] = all[j] => i = j

\* Every goroutine overshoots the batch at most once before it stops, which bounds
\* the shared counter by the size of the batch plus one chunk per thread and one.
CounterOvershoot == next < nq + chunk * (AtLeastOne(threads) + 1) \/ main = "call"

\* Parallelism is bounded by the thread axis while goroutines run, and the process
\* gets its own GOMAXPROCS back (runner.go:76-77).
ProcsRestored ==
  /\ \A w \in Worker : pc[w] \in {"claim", "run"} => procs = threads
  /\ main = "returned" => procs = HostProcs

-----------------------------------------------------------------------------
(* The inductive invariant behind these properties, in named parts. *)

Alive == {w \in Worker : pc[w] \notin {"unborn", "gone"}}

\* A chunk in progress lies inside the batch and below the counter.
ChunkInRange ==
  \A w \in Worker : pc[w] = "run" =>
    /\ lo[w] <= pos[w] /\ pos[w] <= hi[w]
    /\ hi[w] <= nq /\ hi[w] <= next

\* What is left of a chunk is not in the checksum yet, and nothing is there twice.
AtMostOnce ==
  \A w \in Worker, q \in Query :
    /\ sum[w][q] <= 1
    /\ pc[w] = "run" /\ q \in pos[w] .. (hi[w] - 1) => sum[w][q] = 0

\* The queries below the counter are exactly those some goroutine holds.
ClaimedBelowNext ==
  \A q \in Query : q < next <=> \E w \in Worker : Holds(w, q)

\* A goroutine leaves its loop only when nothing is left to claim.
LeftWhenExhausted ==
  \A w \in Worker : pc[w] \in {"publish", "done", "gone"} => next >= nq

Published ==
  \A w \in Worker : pc[w] \in {"done", "gone"} =>
    outs[w] = [samples |-> samples[w], checksum |-> sum[w]]

\* The WaitGroup counts the goroutines that are started and not finished.
WaitGroupCounts ==
  /\ \A w \in Worker : pc[w] = "unborn" <=> w >= spawned
  /\ main = "call" => spawned = 0
  /\ wg = Cardinality(Alive)
  /\ main \in {"collect", "returned"} => \A w \in Worker : pc[w] = "gone"

MergedSoFar ==
  /\ \A q \in Query :
       checksum[q] = IF \E w \in Worker : w < collected /\ sum[w][q] > 0 THEN 1 ELSE 0
  /\ collected > 0 => main \in {"collect", "returned"}
  /\ main = "returned" => collected = threads

ProcsTracked ==
  /\ prev = HostProcs
  /\ procs = IF main \in {"call", "returned"} THEN HostProcs ELSE threads

IInv ==
  /\ TypeOK
  /\ ChunkInRange
  /\ AtMostOnce
  /\ ClaimsDisjoint
  /\ ClaimedBelowNext
  /\ LeftWhenExhausted
  /\ Published
  /\ WaitGroupCounts
  /\ MergedSoFar
  /\ ProcsTracked

-----------------------------------------------------------------------------
(* Run implements BatchRun. *)

Answered == {q \in Query : \E w \in Worker : sum[w][q] > 0}

Batch == INSTANCE BatchRun WITH
           size <- nq,
           answered <- Answered,
           status <- IF main = "returned" THEN "returned" ELSE "serving",
           result <- IF main = "returned" THEN checksum ELSE NoAnswer

\* Every step of Run is a step of the abstract batch, or changes nothing it shows.
ImplementsBatch == Batch!Spec

\* And the abstract batch makes progress under the fairness of the Go scheduler: the
\* goroutines exhaust the batch and the caller is not stuck in wg.Wait().
ImplementsFairBatch == Batch!FairSpec
=============================================================================
