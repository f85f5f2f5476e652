---------------------------- MODULE RunnerProofs ----------------------------
(* Proofs about Runner, for every number of threads, chunk and batch size. *)
EXTENDS Runner, NaturalFacts, FiniteSetTheorems

\* The normalised number of threads is at least one, and normalising twice
\* changes nothing: runner.go:73-75.
LEMMA AtLeastOneFacts ==
  ASSUME NEW x \in Int
  PROVE  /\ AtLeastOne(x) \in Nat \ {0}
         /\ AtLeastOne(AtLeastOne(x)) = AtLeastOne(x)
         /\ x >= 1 => AtLeastOne(x) = x
  BY DEF AtLeastOne

\* The end of a chunk: runner.go:107.
LEMMA LeastFacts ==
  ASSUME NEW a \in Nat, NEW b \in Nat
  PROVE  Least(a, b) \in Nat /\ Least(a, b) <= a /\ Least(a, b) <= b
  BY DEF Least

\* Counting one more answer leaves a formal checksum well typed.
LEMMA IncrementType ==
  ASSUME NEW D, NEW f \in [D -> Nat], NEW d
  PROVE  [f EXCEPT ![d] = @ + 1] \in [D -> Nat]
<1>1. CASE d \in D
  BY <1>1
<1>2. CASE d \notin D
  BY <1>2
<1>. QED BY <1>1, <1>2

\* The goroutines form a finite set.
LEMMA WorkerFinite ==
  ASSUME threads \in Int
  PROVE  IsFiniteSet(Worker)
<1>1. 0 \in Int /\ AtLeastOne(threads) - 1 \in Int
  BY AtLeastOneFacts
<1>. QED BY <1>1, FS_Interval DEF Worker

\* Types of the initial state: runner.go:72, 83-94.
LEMMA InitType == Init => TypeOK
<1> SUFFICES ASSUME Init PROVE TypeOK
  OBVIOUS
<1> USE RunnerAssumption DEF Init
<1>1. threads \in Int /\ chunk \in Int /\ nq \in Nat
  OBVIOUS
<1>2. AtLeastOne(threads) \in Nat \ {0}
  BY <1>1, AtLeastOneFacts
<1>3. NoAnswer \in [Query -> Nat]
  BY DEF NoAnswer
<1>4. EmptyOut \in [samples : Seq(Nat), checksum : [Query -> Nat]]
  BY <1>3 DEF EmptyOut
<1> QED BY <1>1, <1>2, <1>3, <1>4 DEF TypeOK

\* Every step of every goroutine keeps the types: runner.go:72-127.
LEMMA NextType == TypeOK /\ [Next]_vars => TypeOK'
<1> SUFFICES ASSUME TypeOK, [Next]_vars PROVE TypeOK'
  OBVIOUS
<1> USE DEF TypeOK, callerVars, workerVars
<1>0. AtLeastOne(threads) \in Nat \ {0}
  BY AtLeastOneFacts
<1>1. CASE Enter
  <2>1. threads' = AtLeastOne(threads) /\ chunk' = AtLeastOne(chunk)
    BY <1>1 DEF Enter
  <2>2. AtLeastOne(threads') = AtLeastOne(threads) /\ chunk' \in Nat \ {0}
    BY <2>1, AtLeastOneFacts
  <2>3. Worker' = Worker /\ Query' = Query
    BY <2>2, <1>1 DEF Enter, Worker, Query
  <2> QED BY <1>0, <1>1, <2>1, <2>2, <2>3 DEF Enter
<1>2. CASE Spawn
  <2>1. spawned \in Worker
    BY <1>0, <1>2, AtLeastOneFacts DEF Spawn, Worker
  <2>2. Worker' = Worker /\ Query' = Query
    BY <1>2 DEF Spawn, Worker, Query
  <2>3. pc' \in [Worker -> {"unborn", "claim", "run", "publish", "done", "gone"}]
    BY <1>2, <2>1 DEF Spawn
  <2>4. spawned' \in 0 .. AtLeastOne(threads)
    BY <1>0, <1>2, AtLeastOneFacts DEF Spawn
  <2> QED BY <1>0, <1>2, <2>2, <2>3, <2>4 DEF Spawn
<1>3. CASE Wait
  BY <1>3 DEF Wait, Worker, Query
<1>4. CASE Collect
  <2>1. collected \in Worker
    BY <1>0, <1>4, AtLeastOneFacts DEF Collect, Worker
  <2>2. outs[collected] \in [samples : Seq(Nat), checksum : [Query -> Nat]]
    BY <2>1
  <2>3. checksum' \in [Query -> Nat]
    BY <1>4, <2>2 DEF Collect
  <2>4. all' \in Seq(Nat)
    BY <1>4, <2>2 DEF Collect
  <2>5. collected' \in 0 .. AtLeastOne(threads)
    BY <1>0, <1>4, <2>1, AtLeastOneFacts DEF Collect
  <2>6. Worker' = Worker /\ Query' = Query
    BY <1>4 DEF Collect, Worker, Query
  <2> QED BY <1>4, <2>3, <2>4, <2>5, <2>6 DEF Collect
<1>5. CASE Return
  BY <1>5 DEF Return, Worker, Query
<1>6. ASSUME NEW w \in Worker, WorkerStep(w)
      PROVE  TypeOK'
  <2>0. /\ callerVars' = callerVars /\ nq' = nq
        /\ Worker' = Worker /\ Query' = Query
        /\ main # "call" /\ main' # "call"
    BY <1>6 DEF WorkerStep, Claim, Answer, EndChunk, Publish, Done, Worker, Query
  <2>1. CASE Claim(w)
    <3>1. /\ chunk \in Nat /\ nq \in Nat /\ next \in Nat
          /\ lo \in [Worker -> Nat] /\ pos \in [Worker -> Nat] /\ hi \in [Worker -> Nat]
          /\ pc \in [Worker -> {"unborn", "claim", "run", "publish", "done", "gone"}]
      BY <2>0
    <3>2. /\ wg' = wg /\ sum' = sum /\ samples' = samples /\ outs' = outs
          /\ next' = next + chunk
      BY <2>1 DEF Claim
    <3>3. /\ lo' \in [Worker -> Nat] /\ pos' \in [Worker -> Nat] /\ hi' \in [Worker -> Nat]
          /\ pc' \in [Worker -> {"unborn", "claim", "run", "publish", "done", "gone"}]
      <4> HIDE DEF TypeOK, callerVars, workerVars
      <4>2. \/ pc' = [pc EXCEPT ![w] = "publish"] /\ lo' = lo /\ pos' = pos /\ hi' = hi
            \/ /\ lo' = [lo EXCEPT ![w] = next] /\ pos' = [pos EXCEPT ![w] = next]
               /\ hi' = [hi EXCEPT ![w] = Least(next + chunk, nq)]
               /\ pc' = [pc EXCEPT ![w] = "run"]
        BY <2>1 DEF Claim
      <4>1. next + chunk \in Nat
        BY <3>1
      <4>3. Least(next + chunk, nq) \in Nat
        BY <3>1, <4>1, LeastFacts
      <4> QED BY <3>1, <4>2, <4>3
    <3>4. next' \in Nat
      BY <3>1, <3>2
    <3>5. /\ threads' = threads /\ chunk' = chunk /\ procs' = procs /\ prev' = prev
          /\ main' = main /\ spawned' = spawned /\ collected' = collected
          /\ checksum' = checksum /\ all' = all
      BY <2>0
    <3> QED BY <2>0, <3>2, <3>3, <3>4, <3>5
  <2>2. CASE Answer(w)
    <3>1. [sum[w] EXCEPT ![pos[w]] = @ + 1] \in [Query -> Nat]
      <4>1. sum[w] \in [Query -> Nat]
        OBVIOUS
      <4> QED BY <4>1, IncrementType
    <3>2. sum' \in [Worker -> [Query -> Nat]] /\ pos' \in [Worker -> Nat]
      <4>1. sum' = [sum EXCEPT ![w] = [sum[w] EXCEPT ![pos[w]] = @ + 1]]
        BY <2>2 DEF Answer
      <4> QED BY <2>2, <3>1, <4>1 DEF Answer
    <3>3. /\ wg' = wg /\ next' = next /\ pc' = pc /\ lo' = lo /\ hi' = hi
          /\ samples' = samples /\ outs' = outs
      BY <2>2 DEF Answer
    <3> QED BY <2>0, <3>2, <3>3
  <2>3. CASE EndChunk(w)
    <3>1. samples' \in [Worker -> Seq(Nat)]
      BY <2>3 DEF EndChunk
    <3>2. pc' \in [Worker -> {"unborn", "claim", "run", "publish", "done", "gone"}]
      BY <2>3 DEF EndChunk
    <3>3. /\ wg' = wg /\ next' = next /\ lo' = lo /\ pos' = pos /\ hi' = hi
          /\ sum' = sum /\ outs' = outs
      BY <2>3 DEF EndChunk
    <3> QED BY <2>0, <3>1, <3>2, <3>3
  <2>4. CASE Publish(w)
    BY <2>0, <2>4 DEF Publish
  <2>5. CASE Done(w)
    BY <2>0, <2>5 DEF Done
  <2> QED BY <1>6, <2>1, <2>2, <2>3, <2>4, <2>5 DEF WorkerStep
<1>7. CASE UNCHANGED vars
  BY <1>7 DEF vars, Worker, Query
<1> QED BY <1>1, <1>2, <1>3, <1>4, <1>5, <1>6, <1>7 DEF Next, MainStep, Returned

\* Run keeps its variables within their types and ranges, for all arguments.
THEOREM TypeCorrect == Spec => []TypeOK
BY InitType, NextType, PTL DEF Spec

-----------------------------------------------------------------------------
(* The inductive invariant, one lemma per action. *)

\* Before the first step no query is claimed and no goroutine exists.
LEMMA InitIInv == Init => IInv
<1> SUFFICES ASSUME Init PROVE IInv
  OBVIOUS
<1>1. TypeOK
  BY InitType
<1>2. \A w \in Worker : pc[w] = "unborn" /\ \A q \in Query : sum[w][q] = 0
  BY DEF Init, NoAnswer
<1>3. \A w \in Worker, q \in Query : ~Holds(w, q)
  BY <1>2 DEF Holds
<1>4. ChunkInRange /\ AtMostOnce /\ ClaimsDisjoint /\ LeftWhenExhausted /\ Published
  BY <1>2, <1>3 DEF ChunkInRange, AtMostOnce, ClaimsDisjoint, LeftWhenExhausted, Published
<1>5. ClaimedBelowNext
  <2>1. next = 0
    BY DEF Init
  <2>2. \A q \in Query : ~(q < next)
    BY <2>1, <1>1 DEF Query, TypeOK
  <2> QED BY <2>2, <1>3 DEF ClaimedBelowNext
<1>6. WaitGroupCounts
  <2>1. Alive = {}
    BY <1>2 DEF Alive
  <2>2. spawned = 0 /\ wg = 0 /\ main = "call"
    BY DEF Init
  <2>3. \A w \in Worker : w >= spawned
    BY <1>1, <2>2, AtLeastOneFacts DEF Worker, TypeOK
  <2> QED BY <1>2, <2>1, <2>2, <2>3, FS_EmptySet DEF WaitGroupCounts
<1>7. MergedSoFar
  <2>1. collected = 0 /\ main = "call" /\ checksum = [q \in Query |-> 0]
    BY DEF Init, NoAnswer
  <2> QED BY <1>2, <2>1 DEF MergedSoFar
<1>8. ProcsTracked
  BY DEF Init, ProcsTracked
<1> QED BY <1>1, <1>4, <1>5, <1>6, <1>7, <1>8 DEF IInv

\* A goroutine that runs was started, and the caller is still in its loop or in
\* wg.Wait().  It changes no variable of the caller.
LEMMA WorkerFrame ==
  ASSUME IInv, NEW w \in Worker, WorkerStep(w)
  PROVE  /\ main = "spawn" /\ main' = main
         /\ callerVars' = callerVars /\ nq' = nq
         /\ threads' = threads /\ chunk' = chunk /\ procs' = procs /\ prev' = prev
         /\ spawned' = spawned /\ collected' = collected /\ collected = 0
         /\ checksum' = checksum /\ all' = all
         /\ Worker' = Worker /\ Query' = Query
         /\ pc[w] \notin {"unborn", "gone"}
         /\ TypeOK /\ TypeOK'
<1>1. callerVars' = callerVars /\ nq' = nq /\ pc[w] \notin {"unborn", "gone"}
  BY DEF WorkerStep, Claim, Answer, EndChunk, Publish, Done
<1>2. /\ threads' = threads /\ chunk' = chunk /\ procs' = procs /\ prev' = prev
      /\ spawned' = spawned /\ collected' = collected
      /\ checksum' = checksum /\ all' = all /\ main' = main
  BY <1>1 DEF callerVars
<1>3. Worker' = Worker /\ Query' = Query
  BY <1>1, <1>2 DEF Worker, Query
<1>4. main \notin {"call", "collect", "returned"}
  BY <1>1 DEF IInv, TypeOK, WaitGroupCounts
<1>5. main = "spawn" /\ collected = 0
  BY <1>4 DEF IInv, TypeOK, MergedSoFar
<1>6. TypeOK /\ TypeOK'
  BY NextType DEF IInv, Next
<1> QED BY <1>1, <1>2, <1>3, <1>5, <1>6

\* Claim: the chunk starts at the counter, below which every query is held.
LEMMA ClaimIInv ==
  ASSUME IInv, NEW w \in Worker, Claim(w)
  PROVE  IInv'
<1>1. WorkerStep(w)
  BY DEF WorkerStep
<1>2. /\ main = "spawn" /\ main' = main /\ nq' = nq /\ chunk' = chunk
      /\ threads' = threads /\ procs' = procs /\ prev' = prev
      /\ spawned' = spawned /\ collected' = collected /\ checksum' = checksum
      /\ Worker' = Worker /\ Query' = Query /\ TypeOK /\ TypeOK'
  BY <1>1, WorkerFrame
<1>3. /\ nq \in Nat /\ next \in Nat /\ chunk \in Nat \ {0}
      /\ pc \in [Worker -> {"unborn", "claim", "run", "publish", "done", "gone"}]
      /\ lo \in [Worker -> Nat] /\ pos \in [Worker -> Nat] /\ hi \in [Worker -> Nat]
      /\ sum \in [Worker -> [Query -> Nat]]
  <2>1. TypeOK /\ main # "call"
    BY <1>2
  <2>2. chunk \in Int /\ chunk >= 1 /\ nq \in Nat /\ next \in Nat
    BY <2>1 DEF TypeOK
  <2>3. /\ pc \in [Worker -> {"unborn", "claim", "run", "publish", "done", "gone"}]
        /\ lo \in [Worker -> Nat] /\ pos \in [Worker -> Nat] /\ hi \in [Worker -> Nat]
        /\ sum \in [Worker -> [Query -> Nat]]
    BY <2>1 DEF TypeOK
  <2> QED BY <2>2, <2>3
<1>4. /\ pc[w] = "claim" /\ next' = next + chunk
      /\ wg' = wg /\ sum' = sum /\ samples' = samples /\ outs' = outs
  BY DEF Claim
<1>5. /\ ChunkInRange /\ AtMostOnce /\ ClaimsDisjoint /\ ClaimedBelowNext
      /\ LeftWhenExhausted /\ Published /\ WaitGroupCounts /\ MergedSoFar /\ ProcsTracked
  BY DEF IInv
<1>6. /\ pc'[w] \in {"publish", "run"}
      /\ \A v \in Worker \ {w} : /\ pc'[v] = pc[v] /\ lo'[v] = lo[v]
                                 /\ pos'[v] = pos[v] /\ hi'[v] = hi[v]
  BY <1>3 DEF Claim
<1>7. MergedSoFar' /\ ProcsTracked'
  BY <1>2, <1>4, <1>5 DEF MergedSoFar, ProcsTracked
<1>8. Alive' = Alive
  BY <1>2, <1>4, <1>6 DEF Alive
<1>9. WaitGroupCounts'
  BY <1>2, <1>4, <1>5, <1>6, <1>8 DEF WaitGroupCounts
<1>10. Published'
  BY <1>2, <1>4, <1>5, <1>6 DEF Published
<1>12. \A v \in Worker \ {w}, q \in Query : Holds(v, q)' <=> Holds(v, q)
  BY <1>4, <1>6 DEF Holds
<1>13. CASE next >= nq
  <2>1. pc' = [pc EXCEPT ![w] = "publish"]
    BY <1>3, <1>13 DEF Claim
  <2>2. pc'[w] = "publish"
    BY <1>3, <2>1
  <2>3. \A v \in Worker, q \in Query : Holds(v, q)' <=> Holds(v, q)
    BY <1>4, <1>12, <2>2 DEF Holds
  <2>4. \A q \in Query : q < next /\ q < next'
    BY <1>3, <1>4, <1>13 DEF Query
  <2>5. ChunkInRange'
    <3> SUFFICES ASSUME NEW v \in Worker, pc'[v] = "run"
                 PROVE  /\ lo'[v] <= pos'[v] /\ pos'[v] <= hi'[v]
                        /\ hi'[v] <= nq /\ hi'[v] <= next'
      BY <1>2 DEF ChunkInRange
    <3>1. v # w /\ pc[v] = "run"
      BY <1>6, <2>2
    <3>2. lo[v] <= pos[v] /\ pos[v] <= hi[v] /\ hi[v] <= nq /\ hi[v] <= next
      BY <3>1, <1>5 DEF ChunkInRange
    <3> QED BY <3>1, <3>2, <1>3, <1>4, <1>6
  <2>6. AtMostOnce'
    BY <1>2, <1>4, <1>5, <1>6, <2>2 DEF AtMostOnce
  <2>7. ClaimsDisjoint'
    BY <1>2, <1>5, <2>3 DEF ClaimsDisjoint
  <2>8. ClaimedBelowNext'
    BY <1>2, <1>5, <2>3, <2>4 DEF ClaimedBelowNext
  <2>9. LeftWhenExhausted'
    <3>1. next' >= nq
      BY <1>3, <1>4, <1>13
    <3> QED BY <3>1, <1>2 DEF LeftWhenExhausted
  <2> QED BY <1>2, <1>7, <1>9, <1>10, <2>5, <2>6, <2>7, <2>8, <2>9 DEF IInv
<1>14. CASE next < nq
  <2>1. /\ pc' = [pc EXCEPT ![w] = "run"] /\ lo' = [lo EXCEPT ![w] = next]
        /\ pos' = [pos EXCEPT ![w] = next]
        /\ hi' = [hi EXCEPT ![w] = Least(next + chunk, nq)]
    BY <1>3, <1>14 DEF Claim
  <2>2. /\ pc'[w] = "run" /\ lo'[w] = next /\ pos'[w] = next
        /\ hi'[w] \in Nat /\ next < hi'[w] /\ hi'[w] <= nq /\ hi'[w] <= next'
        /\ hi'[w] = Least(next', nq)
    <3>1. pc'[w] = "run" /\ lo'[w] = next /\ pos'[w] = next /\ hi'[w] = Least(next', nq)
      BY <1>3, <1>4, <2>1
    <3>2. next' \in Nat /\ next < next'
      BY <1>3, <1>4
    <3> QED BY <3>1, <3>2, <1>3, <1>14 DEF Least
  <2>3. \A v \in Worker, q \in Query : q >= next => ~Holds(v, q) /\ sum[v][q] = 0
    <3>1. \A v \in Worker, q \in Query : q >= next => ~Holds(v, q)
      BY <1>3, <1>5 DEF ClaimedBelowNext, Query
    <3> QED BY <3>1, <1>3 DEF Holds
  <2>4. \A q \in Query : Holds(w, q)' <=> Holds(w, q) \/ q \in next .. (hi'[w] - 1)
    BY <1>4, <2>2 DEF Holds
  <2>5. ChunkInRange'
    <3> SUFFICES ASSUME NEW v \in Worker, pc'[v] = "run"
                 PROVE  /\ lo'[v] <= pos'[v] /\ pos'[v] <= hi'[v]
                        /\ hi'[v] <= nq /\ hi'[v] <= next'
      BY <1>2 DEF ChunkInRange
    <3>1. CASE v = w
      BY <3>1, <2>2, <1>3
    <3>2. CASE v # w
      <4>1. lo[v] <= pos[v] /\ pos[v] <= hi[v] /\ hi[v] <= nq /\ hi[v] <= next
        BY <3>2, <1>5, <1>6 DEF ChunkInRange
      <4> QED BY <3>2, <4>1, <1>3, <1>4, <1>6
    <3> QED BY <3>1, <3>2
  <2>6. AtMostOnce'
    <3> SUFFICES ASSUME NEW v \in Worker, NEW q \in Query
                 PROVE  /\ sum[v][q] <= 1
                        /\ pc'[v] = "run" /\ q \in pos'[v] .. (hi'[v] - 1) => sum[v][q] = 0
      BY <1>2, <1>4 DEF AtMostOnce
    <3>1. CASE v = w
      <4>1. q \in Int
        BY DEF Query
      <4> QED BY <3>1, <4>1, <1>3, <1>5, <2>2, <2>3 DEF AtMostOnce
    <3>2. CASE v # w
      BY <3>2, <1>5, <1>6 DEF AtMostOnce
    <3> QED BY <3>1, <3>2
  <2>7. ClaimsDisjoint'
    <3> SUFFICES ASSUME NEW u \in Worker, NEW v \in Worker, NEW q \in Query,
                        Holds(u, q)', Holds(v, q)'
                 PROVE  u = v
      BY <1>2 DEF ClaimsDisjoint
    <3>1. CASE q \in next .. (hi'[w] - 1)
      <4>1. q >= next
        BY <3>1, <1>3
      <4>2. u = w /\ v = w
        BY <4>1, <1>12, <2>3
      <4> QED BY <4>2
    <3>2. CASE q \notin next .. (hi'[w] - 1)
      <4>1. Holds(u, q) /\ Holds(v, q)
        BY <3>2, <1>12, <2>4
      <4> QED BY <4>1, <1>5 DEF ClaimsDisjoint
    <3> QED BY <3>1, <3>2
  <2>8. ClaimedBelowNext'
    <3> SUFFICES ASSUME NEW q \in Query
                 PROVE  q < next' <=> \E v \in Worker : Holds(v, q)'
      BY <1>2 DEF ClaimedBelowNext
    <3>1. q \in Nat /\ q < nq
      BY <1>3 DEF Query
    <3>2. q < next' <=> q < next \/ q \in next .. (hi'[w] - 1)
      <4>1. hi'[w] = Least(next', nq) /\ next' \in Nat /\ next' > next
        BY <1>3, <1>4, <2>2
      <4>2. CASE next' < nq
        <5>1. hi'[w] = next'
          BY <4>1, <4>2 DEF Least
        <5> QED BY <5>1, <3>1, <4>1, <4>2, <1>3
      <4>3. CASE next' >= nq
        <5>1. hi'[w] = nq
          BY <4>1, <4>3, <1>3 DEF Least
        <5>2. q < next'
          BY <3>1, <4>1, <4>3, <1>3
        <5>3. q < next \/ q \in next .. (nq - 1)
          BY <3>1, <1>3
        <5> QED BY <5>1, <5>2, <5>3
      <4> QED BY <4>1, <4>2, <4>3, <1>3
    <3>3. q < next <=> \E v \in Worker : Holds(v, q)
      BY <1>5 DEF ClaimedBelowNext
    <3>4. (\E v \in Worker : Holds(v, q)')
            <=> (\E v \in Worker : Holds(v, q)) \/ q \in next .. (hi'[w] - 1)
      BY <1>12, <2>4
    <3> QED BY <3>2, <3>3, <3>4
  <2>9. LeftWhenExhausted'
    <3>1. \A v \in Worker : pc[v] \notin {"publish", "done", "gone"}
      BY <1>3, <1>5, <1>14 DEF LeftWhenExhausted
    <3> QED BY <3>1, <1>2, <1>6, <2>2 DEF LeftWhenExhausted
  <2> QED BY <1>2, <1>7, <1>9, <1>10, <2>5, <2>6, <2>7, <2>8, <2>9 DEF IInv
<1> QED BY <1>3, <1>13, <1>14

\* The part of the invariant that only reads what a step of worker w leaves alone,
\* when w keeps the same claims.
LEMMA SameHolds ==
  ASSUME IInv, NEW w \in Worker, WorkerStep(w), next' = next,
         \A v \in Worker, q \in Query : Holds(v, q)' <=> Holds(v, q)
  PROVE  ClaimsDisjoint' /\ ClaimedBelowNext' /\ ProcsTracked'
<1>1. Worker' = Worker /\ Query' = Query /\ main' = main /\ procs' = procs /\ prev' = prev
      /\ threads' = threads
  BY WorkerFrame
<1> QED BY <1>1 DEF IInv, ClaimsDisjoint, ClaimedBelowNext, ProcsTracked

\* Answer: a query moves from what is left of the chunk to the checksum.
LEMMA AnswerIInv ==
  ASSUME IInv, NEW w \in Worker, Answer(w)
  PROVE  IInv'
<1>1. WorkerStep(w)
  BY DEF WorkerStep
<1>2. /\ main = "spawn" /\ main' = main /\ nq' = nq /\ threads' = threads
      /\ spawned' = spawned /\ collected' = collected /\ checksum' = checksum
      /\ collected = 0
      /\ Worker' = Worker /\ Query' = Query /\ TypeOK /\ TypeOK'
  BY <1>1, WorkerFrame
<1>3. /\ nq \in Nat /\ next \in Nat
      /\ pc \in [Worker -> {"unborn", "claim", "run", "publish", "done", "gone"}]
      /\ lo \in [Worker -> Nat] /\ pos \in [Worker -> Nat] /\ hi \in [Worker -> Nat]
      /\ sum \in [Worker -> [Query -> Nat]]
  BY <1>2 DEF TypeOK
<1>4. /\ pc[w] = "run" /\ pos[w] < hi[w] /\ next' = next /\ wg' = wg /\ pc' = pc
      /\ lo' = lo /\ hi' = hi /\ samples' = samples /\ outs' = outs
      /\ pos' = [pos EXCEPT ![w] = @ + 1]
      /\ sum' = [sum EXCEPT ![w] = [sum[w] EXCEPT ![pos[w]] = @ + 1]]
  BY DEF Answer
<1>5. /\ ChunkInRange /\ AtMostOnce /\ ClaimsDisjoint /\ ClaimedBelowNext
      /\ LeftWhenExhausted /\ Published /\ WaitGroupCounts /\ MergedSoFar /\ ProcsTracked
  BY DEF IInv
<1>6. /\ lo[w] <= pos[w] /\ hi[w] <= nq /\ hi[w] <= next
      /\ pos[w] \in Nat /\ hi[w] \in Nat /\ lo[w] \in Nat
  BY <1>3, <1>4, <1>5 DEF ChunkInRange
<1>7. pos[w] \in Query
  BY <1>3, <1>4, <1>6 DEF Query
<1>8. pos'[w] = pos[w] + 1 /\ \A v \in Worker \ {w} : pos'[v] = pos[v]
  BY <1>3, <1>4
<1>9. /\ sum'[w][pos[w]] = sum[w][pos[w]] + 1
      /\ \A q \in Query \ {pos[w]} : sum'[w][q] = sum[w][q]
      /\ \A v \in Worker \ {w} : sum'[v] = sum[v]
  BY <1>3, <1>4, <1>7
<1>10. sum[w][pos[w]] = 0
  BY <1>4, <1>5, <1>6, <1>7 DEF AtMostOnce
<1>11. \A v \in Worker, q \in Query : Holds(v, q)' <=> Holds(v, q)
  <2> SUFFICES ASSUME NEW v \in Worker, NEW q \in Query
               PROVE  Holds(v, q)' <=> Holds(v, q)
    OBVIOUS
  <2>1. CASE v # w
    BY <2>1, <1>4, <1>8, <1>9 DEF Holds
  <2>2. CASE v = w /\ q = pos[w]
    <3>1. sum'[w][q] > 0
      BY <2>2, <1>9, <1>10
    <3>2. q \in pos[w] .. (hi[w] - 1)
      BY <2>2, <1>4, <1>6
    <3> QED BY <2>2, <3>1, <3>2, <1>4 DEF Holds
  <2>3. CASE v = w /\ q # pos[w]
    <3>1. q \in pos[w] .. (hi[w] - 1) <=> q \in pos'[w] .. (hi[w] - 1)
      BY <2>3, <1>6, <1>8 DEF Query
    <3> QED BY <2>3, <3>1, <1>4, <1>9 DEF Holds
  <2> QED BY <2>1, <2>2, <2>3
<1>12. ClaimsDisjoint' /\ ClaimedBelowNext' /\ ProcsTracked'
  BY <1>1, <1>4, <1>11, SameHolds
<1>13. ChunkInRange'
  <2> SUFFICES ASSUME NEW v \in Worker, pc[v] = "run"
               PROVE  lo[v] <= pos'[v] /\ pos'[v] <= hi[v] /\ hi[v] <= nq /\ hi[v] <= next
    BY <1>2, <1>4 DEF ChunkInRange
  <2>1. CASE v = w
    BY <2>1, <1>4, <1>6, <1>8
  <2>2. CASE v # w
    BY <2>2, <1>5, <1>8 DEF ChunkInRange
  <2> QED BY <2>1, <2>2
<1>14. AtMostOnce'
  <2> SUFFICES ASSUME NEW v \in Worker, NEW q \in Query
               PROVE  /\ sum'[v][q] <= 1
                      /\ pc[v] = "run" /\ q \in pos'[v] .. (hi[v] - 1) => sum'[v][q] = 0
    BY <1>2, <1>4 DEF AtMostOnce
  <2>1. CASE v # w
    BY <2>1, <1>5, <1>8, <1>9 DEF AtMostOnce
  <2>2. CASE v = w /\ q = pos[w]
    BY <2>2, <1>6, <1>8, <1>9, <1>10
  <2>3. CASE v = w /\ q # pos[w]
    <3>1. q \in pos'[w] .. (hi[w] - 1) => q \in pos[w] .. (hi[w] - 1)
      BY <1>6, <1>8
    <3> QED BY <2>3, <3>1, <1>5, <1>9 DEF AtMostOnce
  <2> QED BY <2>1, <2>2, <2>3
<1>15. LeftWhenExhausted'
  BY <1>2, <1>4, <1>5 DEF LeftWhenExhausted
<1>16. Published'
  BY <1>2, <1>4, <1>5, <1>9 DEF Published
<1>17. WaitGroupCounts'
  <2>1. Alive' = Alive
    BY <1>2, <1>4 DEF Alive
  <2> QED BY <2>1, <1>2, <1>4, <1>5 DEF WaitGroupCounts
<1>18. MergedSoFar'
  <2>1. \A v \in Worker : ~(v < collected)
    BY <1>2 DEF Worker
  <2> QED BY <2>1, <1>2, <1>5 DEF MergedSoFar
<1> QED BY <1>2, <1>12, <1>13, <1>14, <1>15, <1>16, <1>17, <1>18 DEF IInv

\* EndChunk: nothing is left of the chunk.
LEMMA EndChunkIInv ==
  ASSUME IInv, NEW w \in Worker, EndChunk(w)
  PROVE  IInv'
<1>1. WorkerStep(w)
  BY DEF WorkerStep
<1>2. /\ main = "spawn" /\ main' = main /\ nq' = nq /\ threads' = threads
      /\ spawned' = spawned /\ collected' = collected /\ checksum' = checksum
      /\ Worker' = Worker /\ Query' = Query /\ TypeOK /\ TypeOK'
  BY <1>1, WorkerFrame
<1>3. /\ pc \in [Worker -> {"unborn", "claim", "run", "publish", "done", "gone"}]
      /\ pos \in [Worker -> Nat] /\ hi \in [Worker -> Nat] /\ samples \in [Worker -> Seq(Nat)]
  BY <1>2 DEF TypeOK
<1>4. /\ pc[w] = "run" /\ pos[w] = hi[w] /\ next' = next /\ wg' = wg /\ sum' = sum
      /\ lo' = lo /\ pos' = pos /\ hi' = hi /\ outs' = outs
      /\ pc' = [pc EXCEPT ![w] = "claim"]
      /\ samples' = [samples EXCEPT ![w] = Append(@, lo[w])]
  BY DEF EndChunk
<1>5. pc'[w] = "claim" /\ \A v \in Worker \ {w} : pc'[v] = pc[v] /\ samples'[v] = samples[v]
  BY <1>3, <1>4
<1>6. /\ ChunkInRange /\ AtMostOnce /\ LeftWhenExhausted /\ Published /\ WaitGroupCounts
      /\ MergedSoFar
  BY DEF IInv
<1>7. \A v \in Worker, q \in Query : Holds(v, q)' <=> Holds(v, q)
  <2>1. \A q \in Query : q \notin pos[w] .. (hi[w] - 1)
    BY <1>3, <1>4
  <2> QED BY <2>1, <1>4, <1>5 DEF Holds
<1>8. ClaimsDisjoint' /\ ClaimedBelowNext' /\ ProcsTracked'
  BY <1>1, <1>4, <1>7, SameHolds
<1>9. ChunkInRange' /\ AtMostOnce'
  BY <1>2, <1>4, <1>5, <1>6 DEF ChunkInRange, AtMostOnce
<1>10. LeftWhenExhausted' /\ Published'
  BY <1>2, <1>4, <1>5, <1>6 DEF LeftWhenExhausted, Published
<1>11. WaitGroupCounts'
  <2>1. Alive' = Alive
    BY <1>2, <1>4, <1>5 DEF Alive
  <2> QED BY <2>1, <1>2, <1>4, <1>5, <1>6 DEF WaitGroupCounts
<1>12. MergedSoFar'
  BY <1>2, <1>4, <1>6 DEF MergedSoFar
<1> QED BY <1>2, <1>8, <1>9, <1>10, <1>11, <1>12 DEF IInv

\* Publish: the slot receives what the goroutine holds.
LEMMA PublishIInv ==
  ASSUME IInv, NEW w \in Worker, Publish(w)
  PROVE  IInv'
<1>1. WorkerStep(w)
  BY DEF WorkerStep
<1>2. /\ main = "spawn" /\ main' = main /\ nq' = nq /\ threads' = threads
      /\ spawned' = spawned /\ collected' = collected /\ checksum' = checksum
      /\ Worker' = Worker /\ Query' = Query /\ TypeOK /\ TypeOK'
  BY <1>1, WorkerFrame
<1>3. /\ pc \in [Worker -> {"unborn", "claim", "run", "publish", "done", "gone"}]
      /\ outs \in [Worker -> [samples : Seq(Nat), checksum : [Query -> Nat]]]
  BY <1>2 DEF TypeOK
<1>4. /\ pc[w] = "publish" /\ next' = next /\ wg' = wg /\ sum' = sum /\ samples' = samples
      /\ lo' = lo /\ pos' = pos /\ hi' = hi
      /\ pc' = [pc EXCEPT ![w] = "done"]
      /\ outs' = [outs EXCEPT ![w] = [samples |-> samples[w], checksum |-> sum[w]]]
  BY DEF Publish
<1>5. /\ pc'[w] = "done" /\ outs'[w] = [samples |-> samples[w], checksum |-> sum[w]]
      /\ \A v \in Worker \ {w} : pc'[v] = pc[v] /\ outs'[v] = outs[v]
  BY <1>3, <1>4
<1>6. /\ ChunkInRange /\ AtMostOnce /\ LeftWhenExhausted /\ Published /\ WaitGroupCounts
      /\ MergedSoFar
  BY DEF IInv
<1>7. \A v \in Worker, q \in Query : Holds(v, q)' <=> Holds(v, q)
  BY <1>4, <1>5 DEF Holds
<1>8. ClaimsDisjoint' /\ ClaimedBelowNext' /\ ProcsTracked'
  BY <1>1, <1>4, <1>7, SameHolds
<1>9. ChunkInRange' /\ AtMostOnce'
  BY <1>2, <1>4, <1>5, <1>6 DEF ChunkInRange, AtMostOnce
<1>10. LeftWhenExhausted' /\ Published'
  BY <1>2, <1>4, <1>5, <1>6 DEF LeftWhenExhausted, Published
<1>11. WaitGroupCounts'
  <2>1. Alive' = Alive
    BY <1>2, <1>4, <1>5 DEF Alive
  <2> QED BY <2>1, <1>2, <1>4, <1>5, <1>6 DEF WaitGroupCounts
<1>12. MergedSoFar'
  BY <1>2, <1>4, <1>6 DEF MergedSoFar
<1> QED BY <1>2, <1>8, <1>9, <1>10, <1>11, <1>12 DEF IInv

\* Done: one goroutine fewer, in the WaitGroup as among the live ones.
LEMMA DoneIInv ==
  ASSUME IInv, NEW w \in Worker, Done(w)
  PROVE  IInv'
<1>1. WorkerStep(w)
  BY DEF WorkerStep
<1>2. /\ main = "spawn" /\ main' = main /\ nq' = nq /\ threads' = threads
      /\ spawned' = spawned /\ collected' = collected /\ checksum' = checksum
      /\ Worker' = Worker /\ Query' = Query /\ TypeOK /\ TypeOK'
  BY <1>1, WorkerFrame
<1>3. /\ pc \in [Worker -> {"unborn", "claim", "run", "publish", "done", "gone"}]
      /\ threads \in Int /\ spawned \in Nat
  BY <1>2, AtLeastOneFacts DEF TypeOK
<1>4. /\ pc[w] = "done" /\ next' = next /\ wg' = wg - 1 /\ sum' = sum /\ samples' = samples
      /\ lo' = lo /\ pos' = pos /\ hi' = hi /\ outs' = outs
      /\ pc' = [pc EXCEPT ![w] = "gone"]
  BY DEF Done
<1>5. pc'[w] = "gone" /\ \A v \in Worker \ {w} : pc'[v] = pc[v]
  BY <1>3, <1>4
<1>6. /\ ChunkInRange /\ AtMostOnce /\ LeftWhenExhausted /\ Published /\ WaitGroupCounts
      /\ MergedSoFar
  BY DEF IInv
<1>7. \A v \in Worker, q \in Query : Holds(v, q)' <=> Holds(v, q)
  BY <1>4, <1>5 DEF Holds
<1>8. ClaimsDisjoint' /\ ClaimedBelowNext' /\ ProcsTracked'
  BY <1>1, <1>4, <1>7, SameHolds
<1>9. ChunkInRange' /\ AtMostOnce'
  BY <1>2, <1>4, <1>5, <1>6 DEF ChunkInRange, AtMostOnce
<1>10. LeftWhenExhausted' /\ Published'
  BY <1>2, <1>4, <1>5, <1>6 DEF LeftWhenExhausted, Published
<1>11. WaitGroupCounts'
  <2>1. w \in Alive
    BY <1>4 DEF Alive
  <2>2. Alive' = Alive \ {w}
    BY <1>2, <1>5 DEF Alive
  <2>3. IsFiniteSet(Alive)
    BY <1>3, WorkerFinite, FS_Subset DEF Alive
  <2>4. Cardinality(Alive \ {w}) = Cardinality(Alive) - 1
    BY <2>1, <2>3, FS_RemoveElement
  <2>5. wg' = Cardinality(Alive')
    BY <2>2, <2>4, <1>4, <1>6 DEF WaitGroupCounts
  <2>6. \A v \in Worker : pc'[v] = "unborn" <=> v >= spawned
    BY <1>4, <1>5, <1>6 DEF WaitGroupCounts
  <2> QED BY <2>5, <2>6, <1>2 DEF WaitGroupCounts
<1>12. MergedSoFar'
  BY <1>2, <1>4, <1>6 DEF MergedSoFar
<1> QED BY <1>2, <1>8, <1>9, <1>10, <1>11, <1>12 DEF IInv

\* A step of the caller changes no claim.
LEMMA CallerFrame ==
  ASSUME IInv, MainStep
  PROVE  /\ TypeOK /\ TypeOK' /\ Worker' = Worker /\ Query' = Query
         /\ AtLeastOne(threads') = AtLeastOne(threads)
         /\ nq' = nq /\ next' = next /\ lo' = lo /\ pos' = pos /\ hi' = hi
         /\ sum' = sum /\ samples' = samples /\ outs' = outs
<1>1. TypeOK /\ TypeOK'
  BY NextType DEF IInv, Next
<1>2. AtLeastOne(threads') = AtLeastOne(threads)
  <2>1. CASE Enter
    <3>1. threads' = AtLeastOne(threads)
      BY <2>1 DEF Enter
    <3> QED BY <3>1, <1>1, AtLeastOneFacts DEF TypeOK
  <2>2. CASE Spawn \/ Wait \/ Collect \/ Return
    BY <2>2 DEF Spawn, Wait, Collect, Return
  <2> QED BY <2>1, <2>2 DEF MainStep
<1>3. /\ nq' = nq /\ next' = next /\ lo' = lo /\ pos' = pos /\ hi' = hi
      /\ sum' = sum /\ samples' = samples /\ outs' = outs
  BY DEF MainStep, Enter, Spawn, Wait, Collect, Return, workerVars
<1> QED BY <1>1, <1>2, <1>3 DEF Worker, Query

\* Enter: the arguments are normalised before any goroutine exists.
LEMMA EnterIInv ==
  ASSUME IInv, Enter
  PROVE  IInv'
<1>1. MainStep
  BY DEF MainStep
<1>2. /\ TypeOK /\ TypeOK' /\ Worker' = Worker /\ Query' = Query
      /\ nq' = nq /\ next' = next /\ lo' = lo /\ pos' = pos /\ hi' = hi
      /\ sum' = sum /\ samples' = samples /\ outs' = outs
  BY <1>1, CallerFrame
<1>3. /\ main = "call" /\ main' = "spawn" /\ wg' = wg /\ pc' = pc
      /\ spawned' = spawned /\ collected' = collected /\ checksum' = checksum
      /\ prev' = procs /\ procs' = threads'
  BY DEF Enter, workerVars
<1>4. IInv
  OBVIOUS
<1>5. \A v \in Worker, q \in Query : Holds(v, q)' <=> Holds(v, q)
  BY <1>2, <1>3 DEF Holds
<1>6. ClaimsDisjoint' /\ ClaimedBelowNext'
  BY <1>2, <1>4, <1>5 DEF IInv, ClaimsDisjoint, ClaimedBelowNext
<1>7. ChunkInRange' /\ AtMostOnce' /\ LeftWhenExhausted' /\ Published'
  BY <1>2, <1>3, <1>4 DEF IInv, ChunkInRange, AtMostOnce, LeftWhenExhausted, Published
<1>8. WaitGroupCounts'
  <2>1. Alive' = Alive
    BY <1>2, <1>3 DEF Alive
  <2> QED BY <2>1, <1>2, <1>3, <1>4 DEF IInv, WaitGroupCounts
<1>9. MergedSoFar'
  BY <1>2, <1>3, <1>4 DEF IInv, MergedSoFar
<1>10. ProcsTracked'
  BY <1>3, <1>4 DEF IInv, ProcsTracked
<1> QED BY <1>2, <1>6, <1>7, <1>8, <1>9, <1>10 DEF IInv

\* Spawn: one live goroutine more, already counted by the WaitGroup.
LEMMA SpawnIInv ==
  ASSUME IInv, Spawn
  PROVE  IInv'
<1>1. MainStep
  BY DEF MainStep
<1>2. /\ TypeOK /\ TypeOK' /\ Worker' = Worker /\ Query' = Query
      /\ nq' = nq /\ next' = next /\ lo' = lo /\ pos' = pos /\ hi' = hi
      /\ sum' = sum /\ samples' = samples /\ outs' = outs
  BY <1>1, CallerFrame
<1>3. /\ main = "spawn" /\ main' = main /\ spawned < threads /\ wg' = wg + 1
      /\ pc' = [pc EXCEPT ![spawned] = "claim"] /\ spawned' = spawned + 1
      /\ collected' = collected /\ checksum' = checksum /\ threads' = threads
      /\ prev' = prev /\ procs' = procs
  BY DEF Spawn
<1>4. IInv
  OBVIOUS
<1>5. /\ threads \in Int /\ AtLeastOne(threads) = threads /\ spawned \in Nat
      /\ pc \in [Worker -> {"unborn", "claim", "run", "publish", "done", "gone"}]
  BY <1>2, <1>3, AtLeastOneFacts DEF TypeOK
<1>6. spawned \in Worker
  BY <1>3, <1>5 DEF Worker
<1>7. pc[spawned] = "unborn" /\ pc'[spawned] = "claim"
      /\ \A v \in Worker \ {spawned} : pc'[v] = pc[v]
  <2>1. \A v \in Worker : pc[v] = "unborn" <=> v >= spawned
    BY <1>4 DEF IInv, WaitGroupCounts
  <2>2. spawned >= spawned
    BY <1>5
  <2> QED BY <1>3, <1>5, <1>6, <2>1, <2>2
<1>8. \A v \in Worker, q \in Query : Holds(v, q)' <=> Holds(v, q)
  BY <1>2, <1>7 DEF Holds
<1>9. ClaimsDisjoint' /\ ClaimedBelowNext'
  BY <1>2, <1>4, <1>8 DEF IInv, ClaimsDisjoint, ClaimedBelowNext
<1>10. ChunkInRange' /\ AtMostOnce' /\ LeftWhenExhausted' /\ Published'
  BY <1>2, <1>4, <1>7 DEF IInv, ChunkInRange, AtMostOnce, LeftWhenExhausted, Published
<1>11. WaitGroupCounts'
  <2>1. spawned \notin Alive /\ Alive' = Alive \cup {spawned}
    BY <1>2, <1>6, <1>7 DEF Alive
  <2>2. IsFiniteSet(Alive)
    BY <1>5, WorkerFinite, FS_Subset DEF Alive
  <2>3. wg' = Cardinality(Alive')
    BY <2>1, <2>2, <1>3, <1>4, FS_AddElement DEF IInv, WaitGroupCounts
  <2>4. \A v \in Worker : pc'[v] = "unborn" <=> v >= spawned + 1
    <3> SUFFICES ASSUME NEW v \in Worker
                 PROVE  pc'[v] = "unborn" <=> v >= spawned + 1
      OBVIOUS
    <3>1. v \in Int /\ (pc[v] = "unborn" <=> v >= spawned)
      BY <1>4 DEF Worker, IInv, WaitGroupCounts
    <3> QED BY <3>1, <1>5, <1>7
  <2> QED BY <2>3, <2>4, <1>2, <1>3 DEF WaitGroupCounts
<1>12. MergedSoFar' /\ ProcsTracked'
  BY <1>2, <1>3, <1>4 DEF IInv, MergedSoFar, ProcsTracked
<1> QED BY <1>2, <1>9, <1>10, <1>11, <1>12 DEF IInv

\* Wait: a WaitGroup at zero means that every goroutine was started and is gone.
LEMMA WaitIInv ==
  ASSUME IInv, Wait
  PROVE  IInv'
<1>1. MainStep
  BY DEF MainStep
<1>2. /\ TypeOK /\ TypeOK' /\ Worker' = Worker /\ Query' = Query
      /\ nq' = nq /\ next' = next /\ lo' = lo /\ pos' = pos /\ hi' = hi
      /\ sum' = sum /\ samples' = samples /\ outs' = outs
  BY <1>1, CallerFrame
<1>3. /\ main = "spawn" /\ main' = "collect" /\ spawned = threads /\ wg = 0 /\ wg' = wg
      /\ pc' = pc /\ spawned' = spawned /\ threads' = threads
      /\ collected' = collected /\ checksum' = checksum /\ prev' = prev /\ procs' = procs
  BY DEF Wait, workerVars
<1>4. IInv
  OBVIOUS
<1>5. threads \in Int /\ AtLeastOne(threads) = threads
  BY <1>2, <1>3, AtLeastOneFacts DEF TypeOK
<1>6. \A v \in Worker, q \in Query : Holds(v, q)' <=> Holds(v, q)
  BY <1>2, <1>3 DEF Holds
<1>7. ClaimsDisjoint' /\ ClaimedBelowNext'
  BY <1>2, <1>4, <1>6 DEF IInv, ClaimsDisjoint, ClaimedBelowNext
<1>8. ChunkInRange' /\ AtMostOnce' /\ LeftWhenExhausted' /\ Published'
  BY <1>2, <1>3, <1>4 DEF IInv, ChunkInRange, AtMostOnce, LeftWhenExhausted, Published
<1>9. WaitGroupCounts'
  <2>1. Alive' = Alive
    BY <1>2, <1>3 DEF Alive
  <2>2. IsFiniteSet(Alive)
    BY <1>5, WorkerFinite, FS_Subset DEF Alive
  <2>3. Alive = {}
    BY <2>2, <1>3, <1>4, FS_EmptySet DEF IInv, WaitGroupCounts
  <2>4. \A v \in Worker : pc[v] # "unborn"
    <3>1. \A v \in Worker : ~(v >= spawned)
      BY <1>3, <1>5 DEF Worker
    <3> QED BY <3>1, <1>4 DEF IInv, WaitGroupCounts
  <2>5. \A v \in Worker : pc[v] = "gone"
    BY <2>3, <2>4 DEF Alive
  <2> QED BY <2>1, <2>5, <1>2, <1>3, <1>4 DEF IInv, WaitGroupCounts
<1>10. MergedSoFar' /\ ProcsTracked'
  BY <1>2, <1>3, <1>4 DEF IInv, MergedSoFar, ProcsTracked
<1> QED BY <1>2, <1>7, <1>8, <1>9, <1>10 DEF IInv

\* Collect: the slot read was published, and no query of it was merged before.
LEMMA CollectIInv ==
  ASSUME IInv, Collect
  PROVE  IInv'
<1>1. MainStep
  BY DEF MainStep
<1>2. /\ TypeOK /\ TypeOK' /\ Worker' = Worker /\ Query' = Query
      /\ nq' = nq /\ next' = next /\ lo' = lo /\ pos' = pos /\ hi' = hi
      /\ sum' = sum /\ samples' = samples /\ outs' = outs
  BY <1>1, CallerFrame
<1>3. /\ main = "collect" /\ main' = main /\ collected < threads /\ wg' = wg
      /\ pc' = pc /\ spawned' = spawned /\ threads' = threads
      /\ collected' = collected + 1 /\ prev' = prev /\ procs' = procs
      /\ checksum' = [q \in Query |-> checksum[q] + outs[collected].checksum[q]]
  BY DEF Collect, workerVars
<1>4. IInv
  OBVIOUS
<1>5. /\ threads \in Int /\ AtLeastOne(threads) = threads /\ collected \in Nat
      /\ sum \in [Worker -> [Query -> Nat]] /\ checksum \in [Query -> Nat]
  BY <1>2, <1>3, AtLeastOneFacts DEF TypeOK
<1>6. \A v \in Worker, q \in Query : Holds(v, q)' <=> Holds(v, q)
  BY <1>2, <1>3 DEF Holds
<1>7. ClaimsDisjoint' /\ ClaimedBelowNext'
  BY <1>2, <1>4, <1>6 DEF IInv, ClaimsDisjoint, ClaimedBelowNext
<1>8. ChunkInRange' /\ AtMostOnce' /\ LeftWhenExhausted' /\ Published'
  BY <1>2, <1>3, <1>4 DEF IInv, ChunkInRange, AtMostOnce, LeftWhenExhausted, Published
<1>9. WaitGroupCounts'
  <2>1. Alive' = Alive
    BY <1>2, <1>3 DEF Alive
  <2> QED BY <2>1, <1>2, <1>3, <1>4 DEF IInv, WaitGroupCounts
<1>10. ProcsTracked'
  BY <1>3, <1>4 DEF IInv, ProcsTracked
<1>11. MergedSoFar'
  <2>1. collected \in Worker
    BY <1>3, <1>5 DEF Worker
  <2>2. outs[collected].checksum = sum[collected]
    <3>1. pc[collected] = "gone"
      BY <2>1, <1>3, <1>4 DEF IInv, WaitGroupCounts
    <3>2. outs[collected] = [samples |-> samples[collected], checksum |-> sum[collected]]
      BY <3>1, <2>1, <1>4 DEF IInv, Published
    <3> QED BY <3>2
  <2>3. ASSUME NEW q \in Query
        PROVE  checksum'[q] = IF \E v \in Worker : v < collected + 1 /\ sum[v][q] > 0
                              THEN 1 ELSE 0
    <3>1. checksum'[q] = checksum[q] + sum[collected][q]
      BY <1>3, <2>2
    <3>2. checksum[q] = IF \E v \in Worker : v < collected /\ sum[v][q] > 0 THEN 1 ELSE 0
      BY <1>4 DEF IInv, MergedSoFar
    <3>3. sum[collected][q] \in {0, 1}
      <4>1. sum[collected][q] \in Nat /\ sum[collected][q] <= 1
        BY <2>1, <1>4, <1>5 DEF IInv, AtMostOnce
      <4> QED BY <4>1
    <3>4. \A v \in Worker : v < collected + 1 <=> v < collected \/ v = collected
      BY <1>5 DEF Worker
    <3>5. CASE sum[collected][q] = 0
      <4>1. (\E v \in Worker : v < collected + 1 /\ sum[v][q] > 0)
              <=> (\E v \in Worker : v < collected /\ sum[v][q] > 0)
        BY <3>4, <3>5
      <4> QED BY <4>1, <3>1, <3>2, <3>5
    <3>6. CASE sum[collected][q] = 1
      <4>1. \A v \in Worker : v < collected => ~(sum[v][q] > 0)
        <5> SUFFICES ASSUME NEW v \in Worker, v < collected, sum[v][q] > 0
                     PROVE  FALSE
          OBVIOUS
        <5>1. Holds(v, q) /\ Holds(collected, q)
          BY <3>6 DEF Holds
        <5>2. v = collected
          BY <5>1, <2>1, <1>4 DEF IInv, ClaimsDisjoint
        <5> QED BY <5>2, <1>5
      <4>2. \E v \in Worker : v < collected + 1 /\ sum[v][q] > 0
        BY <2>1, <3>4, <3>6
      <4>3. checksum[q] = 0
        BY <4>1, <3>2
      <4> QED BY <4>2, <4>3, <3>1, <3>6
    <3> QED BY <3>3, <3>5, <3>6
  <2> QED BY <2>3, <1>2, <1>3 DEF MergedSoFar
<1> QED BY <1>2, <1>7, <1>8, <1>9, <1>10, <1>11 DEF IInv

\* Return: all the slots are merged.
LEMMA ReturnIInv ==
  ASSUME IInv, Return
  PROVE  IInv'
<1>1. MainStep
  BY DEF MainStep
<1>2. /\ TypeOK /\ TypeOK' /\ Worker' = Worker /\ Query' = Query
      /\ nq' = nq /\ next' = next /\ lo' = lo /\ pos' = pos /\ hi' = hi
      /\ sum' = sum /\ samples' = samples /\ outs' = outs
  BY <1>1, CallerFrame
<1>3. /\ main = "collect" /\ main' = "returned" /\ collected = threads /\ wg' = wg
      /\ pc' = pc /\ spawned' = spawned /\ threads' = threads
      /\ collected' = collected /\ checksum' = checksum /\ prev' = prev /\ procs' = prev
  BY DEF Return, workerVars
<1>4. IInv
  OBVIOUS
<1>5. \A v \in Worker, q \in Query : Holds(v, q)' <=> Holds(v, q)
  BY <1>2, <1>3 DEF Holds
<1>6. ClaimsDisjoint' /\ ClaimedBelowNext'
  BY <1>2, <1>4, <1>5 DEF IInv, ClaimsDisjoint, ClaimedBelowNext
<1>7. ChunkInRange' /\ AtMostOnce' /\ LeftWhenExhausted' /\ Published'
  BY <1>2, <1>3, <1>4 DEF IInv, ChunkInRange, AtMostOnce, LeftWhenExhausted, Published
<1>8. WaitGroupCounts'
  <2>1. Alive' = Alive
    BY <1>2, <1>3 DEF Alive
  <2> QED BY <2>1, <1>2, <1>3, <1>4 DEF IInv, WaitGroupCounts
<1>9. MergedSoFar' /\ ProcsTracked'
  BY <1>2, <1>3, <1>4 DEF IInv, MergedSoFar, ProcsTracked
<1> QED BY <1>2, <1>6, <1>7, <1>8, <1>9 DEF IInv

\* A step that changes nothing keeps the invariant.
LEMMA StutterIInv ==
  ASSUME IInv, UNCHANGED vars
  PROVE  IInv'
<1>1. Worker' = Worker /\ Query' = Query
  BY DEF vars, callerVars, Worker, Query
<1>2. Alive' = Alive
  BY <1>1 DEF vars, workerVars, Alive
<1>3. TypeOK'
  BY NextType DEF IInv
<1>4. \A v \in Worker, q \in Query : Holds(v, q)' <=> Holds(v, q)
  BY DEF Holds, vars, workerVars
<1>5. ClaimsDisjoint' /\ ClaimedBelowNext'
  BY <1>1, <1>4 DEF IInv, vars, ClaimsDisjoint, ClaimedBelowNext
<1>6. ChunkInRange' /\ AtMostOnce' /\ LeftWhenExhausted' /\ Published'
  BY <1>1 DEF IInv, vars, workerVars, ChunkInRange, AtMostOnce, LeftWhenExhausted, Published
<1>7. WaitGroupCounts'
  BY <1>1, <1>2 DEF IInv, vars, callerVars, workerVars, WaitGroupCounts
<1>8. MergedSoFar' /\ ProcsTracked'
  BY <1>1 DEF IInv, vars, callerVars, workerVars, MergedSoFar, ProcsTracked
<1> QED BY <1>3, <1>5, <1>6, <1>7, <1>8 DEF IInv

\* Every step keeps the invariant.
LEMMA NextIInv == IInv /\ [Next]_vars => IInv'
<1> SUFFICES ASSUME IInv, [Next]_vars PROVE IInv'
  OBVIOUS
<1>1. CASE MainStep
  BY <1>1, EnterIInv, SpawnIInv, WaitIInv, CollectIInv, ReturnIInv DEF MainStep
<1>2. ASSUME NEW w \in Worker, WorkerStep(w)
      PROVE  IInv'
  BY <1>2, ClaimIInv, AnswerIInv, EndChunkIInv, PublishIInv, DoneIInv DEF WorkerStep
<1>3. CASE UNCHANGED vars
  BY <1>3, StutterIInv
<1> QED BY <1>1, <1>2, <1>3 DEF Next, Returned

\* The invariant holds in every reachable state, for all arguments.
THEOREM Invariant == Spec => []IInv
BY InitIInv, NextIInv, PTL DEF Spec

-----------------------------------------------------------------------------
(* What the invariant implies. *)

\* Chunks taken by goroutines that race on next.Add never overlap: runner.go:103.
THEOREM DisjointClaims == Spec => []ClaimsDisjoint
<1>1. IInv => ClaimsDisjoint
  BY DEF IInv
<1> QED BY <1>1, Invariant, PTL

\* wg.Wait() separates every write of outs from every read of it: runner.go:114-124.
THEOREM PublishedBeforeMerge == Spec => []MergeAfterPublish
<1>1. IInv => MergeAfterPublish
  BY DEF IInv, WaitGroupCounts, Published, MergeAfterPublish
<1> QED BY <1>1, Invariant, PTL

\* GOMAXPROCS follows the thread axis and is restored: runner.go:76-77.
THEOREM ProcsAreRestored == Spec => []ProcsRestored
<1>1. ASSUME IInv PROVE ProcsRestored
  <2>1. \A w \in Worker : pc[w] \in {"claim", "run"} => main = "spawn"
    BY <1>1 DEF IInv, TypeOK, WaitGroupCounts
  <2> QED BY <2>1, <1>1 DEF IInv, ProcsTracked, ProcsRestored
<1> QED BY <1>1, Invariant, PTL

\* When every goroutine is gone, each query is in the checksum of one of them.
LEMMA EveryoneGone ==
  ASSUME IInv, main \in {"collect", "returned"}
  PROVE  \A q \in Query : \E w \in Worker : sum[w][q] > 0
<1>1. \A w \in Worker : pc[w] = "gone"
  BY DEF IInv, WaitGroupCounts
<1>2. threads \in Int /\ AtLeastOne(threads) \in Nat \ {0}
  BY AtLeastOneFacts DEF IInv, TypeOK
<1>3. 0 \in Worker
  BY <1>2 DEF Worker
<1>4. next >= nq
  BY <1>1, <1>3 DEF IInv, LeftWhenExhausted
<1>5. \A q \in Query : q < next
  BY <1>4 DEF IInv, TypeOK, Query
<1>6. \A q \in Query : \E w \in Worker : Holds(w, q)
  BY <1>5 DEF IInv, ClaimedBelowNext
<1> QED BY <1>1, <1>6 DEF Holds

\* A merged checksum counts every query once.
LEMMA ReturnedChecksum ==
  ASSUME IInv, main = "returned"
  PROVE  checksum = [q \in Query |-> 1]
<1>1. threads \in Int /\ threads >= 1 /\ collected = threads /\ checksum \in [Query -> Nat]
  BY DEF IInv, TypeOK, MergedSoFar
<1>2. \A w \in Worker : w < collected
  BY <1>1, AtLeastOneFacts DEF Worker
<1>3. \A q \in Query : \E w \in Worker : w < collected /\ sum[w][q] > 0
  BY <1>2, EveryoneGone
<1>4. \A q \in Query : checksum[q] = 1
  BY <1>3 DEF IInv, MergedSoFar
<1> QED BY <1>1, <1>4

\* Run answers each query of the batch exactly once and merges all the answers, for
\* every number of threads, every chunk, every batch and every schedule.
THEOREM AnsweredOnce == Spec => []EveryQueryOnce
<1>1. IInv => EveryQueryOnce
  BY ReturnedChecksum DEF EveryQueryOnce
<1> QED BY <1>1, Invariant, PTL

-----------------------------------------------------------------------------
(* Run implements BatchRun. *)

\* Init maps to the initial states of the abstract batch.
LEMMA BatchInit == Init => Batch!Init
<1> SUFFICES ASSUME Init PROVE Batch!Init
  OBVIOUS
<1>1. \A w \in Worker, q \in Query : sum[w][q] = 0
  BY DEF Init, NoAnswer
<1>2. Answered = {}
  BY <1>1 DEF Answered
<1> QED BY <1>2 DEF Init, Batch!Init, Batch!Batch, NoAnswer, Query

\* A step of Run is an answer, the return, or invisible to the caller.
LEMMA BatchStep == IInv /\ [Next]_vars => [Batch!Next]_(Batch!vars)
<1> SUFFICES ASSUME IInv, [Next]_vars PROVE [Batch!Next]_(Batch!vars)
  OBVIOUS
<1>1. ASSUME NEW w \in Worker, Answer(w)
      PROVE  Batch!Answer
  <2>1. WorkerStep(w)
    BY <1>1 DEF WorkerStep
  <2>2. /\ main = "spawn" /\ main' = main /\ nq' = nq /\ Worker' = Worker /\ Query' = Query
        /\ sum \in [Worker -> [Query -> Nat]] /\ pos[w] \in Nat /\ hi[w] \in Nat /\ nq \in Nat
    BY <2>1, WorkerFrame DEF TypeOK
  <2>3. /\ pc[w] = "run" /\ pos[w] < hi[w] /\ hi[w] <= nq
        /\ sum' = [sum EXCEPT ![w] = [sum[w] EXCEPT ![pos[w]] = @ + 1]]
    BY <1>1 DEF Answer, IInv, ChunkInRange
  <2>4. pos[w] \in Query
    BY <2>2, <2>3 DEF Query
  <2>5. /\ sum'[w][pos[w]] = sum[w][pos[w]] + 1
        /\ \A q \in Query \ {pos[w]} : sum'[w][q] = sum[w][q]
        /\ \A v \in Worker \ {w} : sum'[v] = sum[v]
    BY <2>2, <2>3, <2>4
  <2>6. Holds(w, pos[w])
    BY <2>2, <2>3 DEF Holds
  <2>7. sum[w][pos[w]] = 0
    BY <2>2, <2>3, <2>4 DEF IInv, AtMostOnce
  <2>8. pos[w] \notin Answered
    <3> SUFFICES ASSUME NEW v \in Worker, sum[v][pos[w]] > 0
                 PROVE  FALSE
      BY DEF Answered
    <3>1. v = w
      BY <2>4, <2>6 DEF Holds, IInv, ClaimsDisjoint
    <3> QED BY <3>1, <2>7
  <2>9. Answered' = Answered \cup {pos[w]}
    <3>1. ASSUME NEW q \in Query \ {pos[w]}
          PROVE  (\E v \in Worker : sum'[v][q] > 0) <=> (\E v \in Worker : sum[v][q] > 0)
      BY <2>5
    <3>2. sum'[w][pos[w]] > 0
      BY <2>5, <2>7
    <3> QED BY <3>1, <3>2, <2>2, <2>4 DEF Answered
  <2>10. NoAnswer' = NoAnswer
    BY <2>2 DEF NoAnswer
  <2> QED BY <2>2, <2>4, <2>8, <2>9, <2>10 DEF Batch!Answer, Batch!Batch, Query
<1>2. CASE Return
  <2>1. main = "collect" /\ main' = "returned" /\ nq' = nq
    BY <1>2 DEF Return
  <2>2. IInv' /\ Query' = Query /\ Worker' = Worker /\ sum' = sum
    BY <1>2, ReturnIInv, CallerFrame DEF MainStep
  <2>3. checksum' = [q \in Query |-> 1]
    <3>1. (IInv /\ main = "returned" => checksum = [q \in Query |-> 1])'
      BY ReturnedChecksum, PTL
    <3> QED BY <3>1, <2>1, <2>2
  <2>4. Answered = Query
    BY <2>1, EveryoneGone DEF Answered
  <2>5. Answered' = Answered
    BY <2>2 DEF Answered
  <2> QED BY <2>1, <2>3, <2>4, <2>5 DEF Batch!Return, Batch!Next, Batch!Batch, Query
<1>3. ASSUME sum' = sum, Worker' = Worker, Query' = Query, nq' = nq, main' # "returned",
             main # "returned"
      PROVE  UNCHANGED Batch!vars
  BY <1>3 DEF Batch!vars, Answered, NoAnswer
<1>4. CASE Enter \/ Spawn \/ Wait \/ Collect
  <2>1. main # "returned" /\ main' # "returned"
    BY <1>4 DEF Enter, Spawn, Wait, Collect
  <2> QED BY <2>1, <1>3, <1>4, CallerFrame DEF MainStep
<1>5. ASSUME NEW w \in Worker, WorkerStep(w), ~Answer(w)
      PROVE  UNCHANGED Batch!vars
  <2>1. sum' = sum
    BY <1>5 DEF WorkerStep, Claim, EndChunk, Publish, Done
  <2> QED BY <2>1, <1>3, <1>5, WorkerFrame
<1>6. CASE UNCHANGED vars
  BY <1>6 DEF vars, callerVars, workerVars, Batch!vars, Answered, NoAnswer, Worker, Query
<1> QED BY <1>1, <1>2, <1>4, <1>5, <1>6 DEF Next, MainStep, Returned, Batch!Next

\* Whatever the goroutines do, the caller of Run sees a batch whose queries are
\* answered one at a time, each once, before the combination of all the answers is
\* returned.
THEOREM RunRefinesBatch == Spec => ImplementsBatch
BY Invariant, BatchInit, BatchStep, PTL DEF Spec, ImplementsBatch, Batch!Spec

-----------------------------------------------------------------------------
(* The timed chunks. *)

\* Chunk c, named by its first query, is one goroutine w works on or has timed.
Times(w, c) ==
  \/ pc[w] = "run" /\ lo[w] = c
  \/ \E i \in DOMAIN samples[w] : samples[w][i] = c

\* The chunks below the counter are those some goroutine works on or has timed, each
\* is one goroutine's, and it is timed once.
TimesInv ==
  /\ main = "call" => next = 0
  /\ main # "call" => next % chunk = 0
  /\ \A w \in Worker, c \in Nat : Times(w, c) => c \in Query /\ c < next /\ c % chunk = 0
  /\ \A c \in Query : c < next /\ c % chunk = 0 => \E w \in Worker : Times(w, c)
  /\ \A v, w \in Worker, c \in Nat : Times(v, c) /\ Times(w, c) => v = w
  /\ \A w \in Worker : \A i, j \in DOMAIN samples[w] : samples[w][i] = samples[w][j] => i = j
  /\ \A w \in Worker : pc[w] = "run" => \A i \in DOMAIN samples[w] : samples[w][i] # lo[w]

\* The merged samples are those of the slots merged so far, each once.
MergedTimes ==
  /\ \A i \in DOMAIN all : \E w \in Worker :
       w < collected /\ \E j \in DOMAIN samples[w] : all[i] = samples[w][j]
  /\ \A w \in Worker : w < collected =>
       \A j \in DOMAIN samples[w] : \E i \in DOMAIN all : all[i] = samples[w][j]
  /\ \A i, j \in DOMAIN all : all[i] = all[j] => i = j

\* The goroutines that have left the loop.
Left == {w \in Worker : pc[w] \in {"publish", "done", "gone"}}

\* Only a claim that ends a goroutine moves the counter past the batch.
OvershootInv == main # "call" => next < nq + chunk * (Cardinality(Left) + 1)

\* Nothing is timed before the first chunk.
LEMMA InitTimes == Init => TimesInv /\ MergedTimes /\ OvershootInv
<1> SUFFICES ASSUME Init PROVE TimesInv /\ MergedTimes /\ OvershootInv
  OBVIOUS
<1>1. main = "call" /\ next = 0 /\ collected = 0 /\ all = <<>>
  BY DEF Init
<1>2. \A w \in Worker : pc[w] = "unborn" /\ samples[w] = <<>>
  BY DEF Init
<1>3. \A w \in Worker, c \in Nat : ~Times(w, c)
  BY <1>2 DEF Times
<1>4. \A c \in Query : ~(c < next)
  BY <1>1 DEF Query
<1>5. TimesInv
  BY <1>1, <1>2, <1>3, <1>4 DEF TimesInv
<1>6. \A w \in Worker : ~(w < collected)
  BY <1>1 DEF Worker
<1>7. MergedTimes
  BY <1>1, <1>6 DEF MergedTimes
<1>8. OvershootInv
  BY <1>1 DEF OvershootInv
<1> QED BY <1>5, <1>7, <1>8

\* The caller only merges: it moves no counter and times no chunk.
LEMMA CallerTimes ==
  ASSUME IInv, TimesInv, OvershootInv, MainStep
  PROVE  TimesInv' /\ OvershootInv'
<1>1. /\ TypeOK /\ TypeOK' /\ Worker' = Worker /\ Query' = Query
      /\ nq' = nq /\ next' = next /\ lo' = lo /\ samples' = samples
  BY CallerFrame
<1>2. /\ pc \in [Worker -> {"unborn", "claim", "run", "publish", "done", "gone"}]
      /\ nq \in Nat /\ next \in Nat /\ chunk \in Int /\ chunk' \in Int
  BY <1>1 DEF TypeOK
<1>3. \A w \in Worker : pc'[w] # pc[w] => pc[w] = "unborn" /\ pc'[w] = "claim"
  <2>1. CASE Spawn
    <3>1. pc' = [pc EXCEPT ![spawned] = "claim"] /\ main = "spawn" /\ spawned < threads
      BY <2>1 DEF Spawn
    <3>2. spawned \in Worker
      BY <1>1, <3>1, AtLeastOneFacts DEF TypeOK, Worker
    <3>3. pc[spawned] = "unborn"
      BY <1>1, <3>2 DEF IInv, WaitGroupCounts, Worker, TypeOK
    <3> QED BY <1>2, <3>1, <3>2, <3>3
  <2>2. CASE ~Spawn
    BY <2>2 DEF MainStep, Enter, Wait, Collect, Return, workerVars
  <2> QED BY <2>1, <2>2
<1>4. \A w \in Worker : pc'[w] = "run" <=> pc[w] = "run"
  BY <1>3
<1>5. \A w \in Worker, c \in Nat : Times(w, c)' <=> Times(w, c)
  BY <1>1, <1>4 DEF Times
<1>6. Left' = Left
  BY <1>1, <1>3 DEF Left
<1>7. main' # "call"
  BY DEF MainStep, Enter, Spawn, Wait, Collect, Return
<1>8. CASE Enter
  <2>1. main = "call" /\ chunk' = AtLeastOne(chunk)
    BY <1>8 DEF Enter
  <2>2. chunk' \in Nat \ {0} /\ next = 0
    BY <1>2, <2>1, AtLeastOneFacts DEF TimesInv
  <2>3. PICK d \in Nat \ {0} : d = chunk'
    BY <2>2
  <2>9. next' % chunk' = 0
    <3>1. 0 = d * 0
      OBVIOUS
    <3>2. 0 % d = 0
      BY <3>1, MultipleDivisible
    <3> QED BY <3>2, <1>1, <2>2, <2>3
  <2>4. \A w \in Worker, c \in Nat : ~Times(w, c)
    BY <2>2 DEF TimesInv
  <2>5. \A c \in Query : ~(c < next)
    BY <2>2 DEF Query
  <2>6. TimesInv'
    BY <1>1, <1>4, <1>5, <1>7, <2>4, <2>5, <2>9 DEF TimesInv
  <2>7. Left = {}
    BY <2>1, <1>1 DEF Left, TypeOK
  <2>8. next' < nq' + chunk' * (Cardinality(Left') + 1)
    <3>1. Cardinality(Left') = 0
      BY <1>6, <2>7, FS_EmptySet
    <3>2. next < nq + d * (0 + 1)
      BY <1>2, <2>2
    <3> QED BY <1>1, <2>3, <3>1, <3>2
  <2> QED BY <2>6, <2>8 DEF OvershootInv
<1>9. CASE ~Enter
  <2>1. main # "call" /\ chunk' = chunk
    BY <1>9 DEF MainStep, Spawn, Wait, Collect, Return
  <2>2. TimesInv'
    <3>1. /\ next % chunk = 0
          /\ \A w \in Worker, c \in Nat : Times(w, c) => c \in Query /\ c < next /\ c % chunk = 0
          /\ \A c \in Query : c < next /\ c % chunk = 0 => \E w \in Worker : Times(w, c)
          /\ \A v, w \in Worker, c \in Nat : Times(v, c) /\ Times(w, c) => v = w
          /\ \A w \in Worker : \A i, j \in DOMAIN samples[w] :
                samples[w][i] = samples[w][j] => i = j
          /\ \A w \in Worker : pc[w] = "run" => \A i \in DOMAIN samples[w] : samples[w][i] # lo[w]
      BY <2>1 DEF TimesInv
    <3>2. Query \subseteq Nat
      BY <1>2 DEF Query
    <3> QED BY <1>1, <1>4, <1>5, <1>7, <2>1, <3>1, <3>2 DEF TimesInv
  <2>3. OvershootInv'
    BY <1>1, <1>6, <2>1 DEF OvershootInv
  <2> QED BY <2>2, <2>3
<1> QED BY <1>8, <1>9

\* A goroutine that takes a chunk becomes the one that times it; one that leaves moves
\* the counter for the last time.
LEMMA ClaimTimes ==
  ASSUME IInv, TimesInv, OvershootInv, NEW w \in Worker, Claim(w)
  PROVE  TimesInv' /\ OvershootInv'
<1>1. WorkerStep(w)
  BY DEF WorkerStep
<1>2. /\ main = "spawn" /\ main' = main /\ nq' = nq /\ chunk' = chunk
      /\ Worker' = Worker /\ Query' = Query /\ TypeOK /\ threads \in Int
  BY <1>1, WorkerFrame DEF TypeOK
<1>3. /\ nq \in Nat /\ next \in Nat /\ chunk \in Nat \ {0}
      /\ pc \in [Worker -> {"unborn", "claim", "run", "publish", "done", "gone"}]
      /\ lo \in [Worker -> Nat] /\ samples \in [Worker -> Seq(Nat)]
  <2>1. main # "call" /\ (main # "call" => threads >= 1 /\ chunk >= 1) /\ chunk \in Int
    BY <1>2 DEF TypeOK
  <2>2. /\ nq \in Nat /\ next \in Nat
        /\ pc \in [Worker -> {"unborn", "claim", "run", "publish", "done", "gone"}]
        /\ lo \in [Worker -> Nat] /\ samples \in [Worker -> Seq(Nat)]
    BY <1>2 DEF TypeOK
  <2> QED BY <2>1, <2>2
<1>4. /\ pc[w] = "claim" /\ next' = next + chunk /\ samples' = samples
  BY DEF Claim
<1>5. next' \in Nat /\ next < next' /\ next % chunk = 0 /\ next' % chunk' = 0
  <2>1. next % chunk = 0
    BY <1>2 DEF TimesInv
  <2>2. (next + chunk) % chunk = 0
    BY <2>1, <1>3, DivisibleNext
  <2> QED BY <2>1, <2>2, <1>2, <1>3, <1>4
<1>6. IsFiniteSet(Left) /\ Cardinality(Left) \in Nat
  <2>1. IsFiniteSet(Left)
    BY <1>2, WorkerFinite, FS_Subset DEF Left
  <2> QED BY <2>1, FS_CardinalityType
<1>7. \A v \in Worker, c \in Nat : Times(v, c) => c \in Query /\ c < next /\ c % chunk = 0
  BY DEF TimesInv
<1>8. CASE next >= nq
  <2>1. pc' = [pc EXCEPT ![w] = "publish"] /\ lo' = lo
    BY <1>3, <1>8 DEF Claim
  <2>2. pc'[w] = "publish" /\ \A v \in Worker \ {w} : pc'[v] = pc[v]
    BY <1>3, <2>1
  <2>3. \A v \in Worker : pc'[v] = "run" <=> pc[v] = "run"
    BY <1>4, <2>2
  <2>4. \A v \in Worker, c \in Nat : Times(v, c)' <=> Times(v, c)
    BY <1>4, <2>1, <2>3 DEF Times
  <2>5. \A c \in Query : c \in Nat /\ c < next
    BY <1>3, <1>8 DEF Query
  <2>6. \A c \in Nat : c < next => c < next'
    BY <1>3, <1>5
  <2>7. TimesInv'
    BY <1>2, <1>4, <1>5, <2>1, <2>3, <2>4, <2>5, <2>6 DEF TimesInv
  <2>8. Left' = Left \cup {w} /\ w \notin Left
    BY <1>2, <1>4, <2>2 DEF Left
  <2>9. Cardinality(Left') = Cardinality(Left) + 1
    BY <1>6, <2>8, FS_AddElement
  <2>10. next < nq + chunk * (Cardinality(Left) + 1)
    BY <1>2 DEF OvershootInv
  <2>11. PICK k \in Nat : k = Cardinality(Left)
    BY <1>6
  <2>12. chunk * ((k + 1) + 1) = chunk * (k + 1) + chunk
    BY <1>3
  <2>13. chunk * (k + 1) \in Nat
    BY <1>3, ProductMonotone
  <2>14. next + chunk < nq + chunk * ((k + 1) + 1)
    BY <1>3, <2>10, <2>11, <2>12, <2>13
  <2>15. OvershootInv'
    BY <1>2, <1>4, <2>9, <2>11, <2>14 DEF OvershootInv
  <2> QED BY <2>7, <2>15
<1>9. CASE next < nq
  <2>1. pc' = [pc EXCEPT ![w] = "run"] /\ lo' = [lo EXCEPT ![w] = next]
    BY <1>3, <1>9 DEF Claim
  <2>2. /\ pc'[w] = "run" /\ lo'[w] = next
        /\ \A v \in Worker \ {w} : pc'[v] = pc[v] /\ lo'[v] = lo[v]
    BY <1>3, <2>1
  <2>3. \A v \in Worker, c \in Nat : Times(v, c)' <=> Times(v, c) \/ (v = w /\ c = next)
    <3>1. ASSUME NEW v \in Worker \ {w}, NEW c \in Nat
          PROVE  Times(v, c)' <=> Times(v, c)
      BY <1>4, <2>2 DEF Times
    <3>2. ASSUME NEW c \in Nat
          PROVE  Times(w, c)' <=> Times(w, c) \/ c = next
      BY <1>4, <2>2 DEF Times
    <3> QED BY <3>1, <3>2
  <2>4. next \in Query /\ ~(next < next)
    BY <1>3, <1>9 DEF Query
  <2>5. \A v \in Worker : ~Times(v, next)
    BY <1>3, <1>7, <2>4
  <2>6. \A v \in Worker, c \in Nat :
          Times(v, c)' => c \in Query /\ c < next' /\ c % chunk = 0
    <3>1. \A c \in Nat : c < next => c < next'
      BY <1>3, <1>5
    <3> QED BY <3>1, <1>5, <1>7, <2>3, <2>4
  <2>7. ASSUME NEW c \in Query, c < next', c % chunk = 0
        PROVE  \E v \in Worker : Times(v, c)'
    <3>1. c \in Nat
      BY <1>3 DEF Query
    <3>2. CASE c < next
      BY <3>1, <3>2, <2>3, <2>7 DEF TimesInv
    <3>3. CASE c = next
      BY <3>1, <3>3, <2>3
    <3>4. CASE next < c
      BY <3>1, <3>4, <1>3, <1>4, <1>5, <2>7, DivisibleGap
    <3> QED BY <3>1, <3>2, <3>3, <3>4, <1>3
  <2>8. \A u, v \in Worker, c \in Nat : Times(u, c)' /\ Times(v, c)' => u = v
    <3>1. \A u, v \in Worker, c \in Nat : Times(u, c) /\ Times(v, c) => u = v
      BY DEF TimesInv
    <3> QED BY <3>1, <2>3, <2>5
  <2>9. ASSUME NEW v \in Worker, pc'[v] = "run", NEW i \in DOMAIN samples[v]
        PROVE  samples[v][i] # lo'[v]
    <3>1. CASE v = w
      <4>1. samples[w][i] \in Nat /\ Times(w, samples[w][i])
        BY <3>1, <1>3 DEF Times
      <4> QED BY <4>1, <3>1, <2>2, <2>5
    <3>2. CASE v # w
      BY <3>2, <2>2, <2>9 DEF TimesInv
    <3> QED BY <3>1, <3>2
  <2>10. \A v \in Worker : \A i, j \in DOMAIN samples[v] :
           samples[v][i] = samples[v][j] => i = j
    BY DEF TimesInv
  <2>11. TimesInv'
    BY <1>2, <1>4, <1>5, <2>6, <2>7, <2>8, <2>9, <2>10 DEF TimesInv
  <2>12. Left' = Left
    BY <1>2, <1>4, <2>2 DEF Left
  <2>13. OvershootInv'
    <3>1. PICK k \in Nat : k = Cardinality(Left)
      BY <1>6
    <3>2. PICK p \in Nat : p = chunk * k
      BY <1>3, ProductMonotone
    <3>3. chunk * (k + 1) = p + chunk
      BY <1>3, <3>2
    <3>4. PICK b \in Nat : b = chunk * (k + 1)
      BY <1>3, ProductMonotone
    <3>5. next + chunk < nq + b
      <4>1. b = p + chunk
        BY <3>3, <3>4
      <4> QED BY <1>3, <1>9, <4>1
    <3> QED BY <1>2, <1>4, <2>12, <3>1, <3>4, <3>5 DEF OvershootInv
  <2> QED BY <2>11, <2>13
<1> QED BY <1>3, <1>8, <1>9

\* The other steps of a goroutine: a chunk that ends is timed by who worked on it.
LEMMA WorkTimes ==
  ASSUME IInv, TimesInv, OvershootInv, NEW w \in Worker,
         Answer(w) \/ EndChunk(w) \/ Publish(w) \/ Done(w)
  PROVE  TimesInv' /\ OvershootInv'
<1>1. WorkerStep(w)
  BY DEF WorkerStep
<1>2. /\ main = "spawn" /\ main' = main /\ nq' = nq /\ chunk' = chunk
      /\ Worker' = Worker /\ Query' = Query /\ TypeOK
  BY <1>1, WorkerFrame
<1>3. /\ pc \in [Worker -> {"unborn", "claim", "run", "publish", "done", "gone"}]
      /\ lo \in [Worker -> Nat] /\ samples \in [Worker -> Seq(Nat)]
  BY <1>2 DEF TypeOK
<1>4. next' = next /\ lo' = lo
  BY DEF Answer, EndChunk, Publish, Done
<1>5. Left' = Left
  BY <1>2, <1>3 DEF Left, Answer, EndChunk, Publish, Done
<1>6. OvershootInv'
  BY <1>2, <1>4, <1>5 DEF OvershootInv
<1>7. Query \subseteq Nat
  BY <1>2 DEF Query, TypeOK
<1>8. CASE EndChunk(w)
  <2>1. /\ pc[w] = "run" /\ pc' = [pc EXCEPT ![w] = "claim"]
        /\ samples' = [samples EXCEPT ![w] = Append(@, lo[w])]
    BY <1>8 DEF EndChunk
  <2>2. /\ pc'[w] = "claim" /\ samples'[w] = Append(samples[w], lo[w])
        /\ \A v \in Worker \ {w} : pc'[v] = pc[v] /\ samples'[v] = samples[v]
    BY <1>3, <2>1
  <2>3. PICK s \in Seq(Nat), c \in Nat : s = samples[w] /\ c = lo[w]
    BY <1>3
  <2>4. /\ DOMAIN Append(s, c) = DOMAIN s \cup {Len(s) + 1} /\ Len(s) + 1 \notin DOMAIN s
        /\ Append(s, c)[Len(s) + 1] = c
        /\ \A i \in DOMAIN s : Append(s, c)[i] = s[i]
    OBVIOUS
  <2>5. \A d \in Nat : Times(w, d)' <=> Times(w, d)
    BY <1>4, <2>1, <2>2, <2>3, <2>4 DEF Times
  <2>6. \A v \in Worker, d \in Nat : Times(v, d)' <=> Times(v, d)
    BY <1>4, <2>2, <2>5, ZenonT(30) DEF Times
  <2>7. ASSUME NEW v \in Worker, NEW i \in DOMAIN samples'[v], NEW j \in DOMAIN samples'[v],
               samples'[v][i] = samples'[v][j]
        PROVE  i = j
    <3>1. \A k, l \in DOMAIN samples[v] : samples[v][k] = samples[v][l] => k = l
      BY DEF TimesInv
    <3>2. CASE v = w
      <4>1. \A k \in DOMAIN s : s[k] # c
        BY <2>1, <2>3 DEF TimesInv
      <4>2. i \in DOMAIN Append(s, c) /\ j \in DOMAIN Append(s, c)
            /\ Append(s, c)[i] = Append(s, c)[j]
        BY <2>2, <2>3, <2>7, <3>2
      <4>3. \A k, l \in DOMAIN s : s[k] = s[l] => k = l
        BY <2>3, <3>1, <3>2
      <4> QED BY <2>4, <4>1, <4>2, <4>3
    <3>3. CASE v # w
      BY <2>2, <2>7, <3>1, <3>3
    <3> QED BY <3>2, <3>3
  <2>8. \A v \in Worker : pc'[v] = "run" =>
          pc[v] = "run" /\ samples'[v] = samples[v]
    BY <2>2
  <2>9. /\ next % chunk = 0
        /\ \A v \in Worker, d \in Nat : Times(v, d) => d \in Query /\ d < next /\ d % chunk = 0
        /\ \A d \in Query : d < next /\ d % chunk = 0 => \E v \in Worker : Times(v, d)
        /\ \A u, v \in Worker, d \in Nat : Times(u, d) /\ Times(v, d) => u = v
        /\ \A v \in Worker : pc[v] = "run" => \A i \in DOMAIN samples[v] : samples[v][i] # lo[v]
    BY <1>2 DEF TimesInv
  <2>10. TimesInv'
    BY <1>2, <1>4, <1>7, <2>6, <2>7, <2>8, <2>9 DEF TimesInv
  <2> QED BY <1>6, <2>10
<1>9. CASE ~EndChunk(w)
  <2>1. samples' = samples
    BY <1>9 DEF Answer, Publish, Done
  <2>2. \A v \in Worker : pc'[v] = "run" <=> pc[v] = "run"
    BY <1>3, <1>9 DEF Answer, Publish, Done
  <2>3. \A v \in Worker, d \in Nat : Times(v, d)' <=> Times(v, d)
    BY <1>4, <2>1, <2>2 DEF Times
  <2>4. TimesInv'
    BY <1>2, <1>4, <1>7, <2>1, <2>2, <2>3 DEF TimesInv
  <2> QED BY <1>6, <2>4
<1> QED BY <1>8, <1>9

\* What two sequences one after the other hold.
LEMMA ConcatFacts ==
  ASSUME NEW S, NEW s \in Seq(S), NEW t \in Seq(S)
  PROVE  /\ \A i \in DOMAIN s : i \in DOMAIN (s \o t) /\ (s \o t)[i] = s[i]
         /\ \A j \in DOMAIN t : Len(s) + j \in DOMAIN (s \o t) /\ (s \o t)[Len(s) + j] = t[j]
         /\ \A i \in DOMAIN (s \o t) :
              i \in DOMAIN s \/ \E j \in DOMAIN t : i = Len(s) + j
<1>1. /\ DOMAIN s = 1 .. Len(s) /\ DOMAIN t = 1 .. Len(t) /\ Len(s) \in Nat /\ Len(t) \in Nat
      /\ DOMAIN (s \o t) = 1 .. (Len(s) + Len(t))
  OBVIOUS
<1>2. ASSUME NEW i \in DOMAIN s
      PROVE  i \in DOMAIN (s \o t) /\ (s \o t)[i] = s[i]
  BY <1>1
<1>3. ASSUME NEW j \in DOMAIN t
      PROVE  Len(s) + j \in DOMAIN (s \o t) /\ (s \o t)[Len(s) + j] = t[j]
  BY <1>1
<1>4. ASSUME NEW i \in DOMAIN (s \o t), i \notin DOMAIN s
      PROVE  \E j \in DOMAIN t : i = Len(s) + j
  <2>1. i - Len(s) \in DOMAIN t /\ i = Len(s) + (i - Len(s))
    BY <1>1, <1>4
  <2> QED BY <2>1
<1> QED BY <1>2, <1>3, <1>4

\* Collect: the samples of one more slot, none of which is merged already.
LEMMA CollectTimes ==
  ASSUME IInv, TimesInv, MergedTimes, Collect
  PROVE  MergedTimes'
<1>1. MainStep
  BY DEF MainStep
<1>2. /\ TypeOK /\ Worker' = Worker /\ samples' = samples
  BY <1>1, CallerFrame
<1>3. /\ main = "collect" /\ collected < threads /\ collected' = collected + 1
      /\ all' = all \o outs[collected].samples
  BY DEF Collect
<1>4. /\ threads \in Int /\ AtLeastOne(threads) = threads /\ collected \in Nat
      /\ samples \in [Worker -> Seq(Nat)] /\ all \in Seq(Nat)
  BY <1>2, <1>3, AtLeastOneFacts DEF TypeOK
<1>5. collected \in Worker
  BY <1>3, <1>4 DEF Worker
<1>6. outs[collected].samples = samples[collected]
  <2>1. pc[collected] = "gone"
    BY <1>3, <1>5 DEF IInv, WaitGroupCounts
  <2>2. outs[collected] = [samples |-> samples[collected], checksum |-> sum[collected]]
    BY <2>1, <1>5 DEF IInv, Published
  <2> QED BY <2>2
<1>7. PICK s \in Seq(Nat), t \in Seq(Nat) : s = all /\ t = samples[collected]
  BY <1>4, <1>5
<1>8. all' = s \o t
  BY <1>3, <1>6, <1>7
<1>9. \A w \in Worker : w < collected' <=> w < collected \/ w = collected
  BY <1>3, <1>4 DEF Worker
<1>10. ASSUME NEW i \in DOMAIN s, NEW j \in DOMAIN t, s[i] = t[j]
       PROVE  FALSE
  <2>1. PICK w \in Worker : w < collected /\ \E k \in DOMAIN samples[w] : s[i] = samples[w][k]
    BY <1>7 DEF MergedTimes
  <2>2. s[i] \in Nat
    OBVIOUS
  <2>3. Times(w, s[i]) /\ Times(collected, s[i])
    BY <1>7, <1>10, <2>1 DEF Times
  <2>4. w = collected
    BY <1>5, <2>2, <2>3 DEF TimesInv
  <2> QED BY <1>4, <2>1, <2>4
<1>11. \A i \in DOMAIN all' : \E w \in Worker :
         w < collected' /\ \E j \in DOMAIN samples[w] : all'[i] = samples[w][j]
  <2> SUFFICES ASSUME NEW i \in DOMAIN (s \o t)
               PROVE  \E w \in Worker :
                        w < collected' /\ \E j \in DOMAIN samples[w] : (s \o t)[i] = samples[w][j]
    BY <1>8
  <2>1. CASE i \in DOMAIN s
    <3>1. (s \o t)[i] = s[i]
      BY <2>1, ConcatFacts
    <3> QED BY <1>7, <1>9, <2>1, <3>1 DEF MergedTimes
  <2>2. ASSUME NEW j \in DOMAIN t, i = Len(s) + j
        PROVE  \E w \in Worker :
                 w < collected' /\ \E k \in DOMAIN samples[w] : (s \o t)[i] = samples[w][k]
    <3>1. (s \o t)[i] = t[j]
      BY <2>2, ConcatFacts
    <3>2. j \in DOMAIN samples[collected] /\ (s \o t)[i] = samples[collected][j]
      BY <1>7, <3>1
    <3>3. collected < collected'
      BY <1>5, <1>9
    <3> QED BY <1>5, <3>2, <3>3
  <2>3. i \in DOMAIN s \/ \E j \in DOMAIN t : i = Len(s) + j
    BY ConcatFacts
  <2> QED BY <2>1, <2>2, <2>3
<1>12. \A w \in Worker : w < collected' =>
         \A j \in DOMAIN samples[w] : \E i \in DOMAIN all' : all'[i] = samples[w][j]
  <2> SUFFICES ASSUME NEW w \in Worker, w < collected', NEW j \in DOMAIN samples[w]
               PROVE  \E i \in DOMAIN (s \o t) : (s \o t)[i] = samples[w][j]
    BY <1>8
  <2>1. CASE w = collected
    <3>1. j \in DOMAIN t /\ samples[w][j] = t[j]
      BY <1>7, <2>1
    <3>2. Len(s) + j \in DOMAIN (s \o t) /\ (s \o t)[Len(s) + j] = t[j]
      BY <3>1, ConcatFacts
    <3> QED BY <3>1, <3>2
  <2>2. CASE w < collected
    <3>1. PICK i \in DOMAIN s : s[i] = samples[w][j]
      BY <1>7, <2>2 DEF MergedTimes
    <3> QED BY <3>1, ConcatFacts
  <2> QED BY <1>9, <2>1, <2>2
<1>13. \A i, k \in DOMAIN all' : all'[i] = all'[k] => i = k
  <2> SUFFICES ASSUME NEW i \in DOMAIN (s \o t), NEW k \in DOMAIN (s \o t),
                      (s \o t)[i] = (s \o t)[k]
               PROVE  i = k
    BY <1>8
  <2>1. \A a, b \in DOMAIN s : s[a] = s[b] => a = b
    BY <1>7 DEF MergedTimes
  <2>2. \A a, b \in DOMAIN t : t[a] = t[b] => a = b
    BY <1>5, <1>7 DEF TimesInv
  <2>3. CASE i \in DOMAIN s /\ k \in DOMAIN s
    BY <2>1, <2>3, ConcatFacts
  <2>4. CASE i \in DOMAIN s /\ k \notin DOMAIN s
    <3>1. PICK j \in DOMAIN t : k = Len(s) + j
      BY <2>4, ConcatFacts
    <3>2. s[i] = t[j]
      BY <2>4, <3>1, ConcatFacts, SMTT(30)
    <3> QED BY <1>10, <2>4, <3>2
  <2>5. CASE i \notin DOMAIN s /\ k \in DOMAIN s
    <3>1. PICK j \in DOMAIN t : i = Len(s) + j
      BY <2>5, ConcatFacts
    <3>2. s[k] = t[j]
      BY <2>5, <3>1, ConcatFacts, SMTT(30)
    <3> QED BY <1>10, <2>5, <3>2
  <2>6. CASE i \notin DOMAIN s /\ k \notin DOMAIN s
    <3>1. PICK a \in DOMAIN t, b \in DOMAIN t : i = Len(s) + a /\ k = Len(s) + b
      BY <2>6, ConcatFacts
    <3>2. t[a] = t[b]
      BY <3>1, ConcatFacts
    <3> QED BY <2>2, <3>1, <3>2
  <2> QED BY <2>3, <2>4, <2>5, <2>6
<1> QED BY <1>2, <1>11, <1>12, <1>13 DEF MergedTimes

\* Every step keeps the three.
LEMMA NextTimes ==
  IInv /\ TimesInv /\ MergedTimes /\ OvershootInv /\ [Next]_vars
    => TimesInv' /\ MergedTimes' /\ OvershootInv'
<1> SUFFICES ASSUME IInv, TimesInv, MergedTimes, OvershootInv, [Next]_vars
             PROVE  TimesInv' /\ MergedTimes' /\ OvershootInv'
  OBVIOUS
<1>1. CASE MainStep
  <2>1. Worker' = Worker /\ samples' = samples
    BY <1>1, CallerFrame
  <2>2. CASE ~Collect
    <3>1. all' = all /\ collected' = collected
      BY <1>1, <2>2 DEF MainStep, Enter, Spawn, Wait, Return
    <3> QED BY <1>1, <2>1, <3>1, CallerTimes DEF MergedTimes
  <2> QED BY <1>1, <2>2, CallerTimes, CollectTimes
<1>2. ASSUME NEW w \in Worker, WorkerStep(w)
      PROVE  TimesInv' /\ MergedTimes' /\ OvershootInv'
  <2>1. /\ Worker' = Worker /\ all' = all /\ collected' = collected /\ collected = 0
        /\ threads \in Int
    BY <1>2, WorkerFrame DEF TypeOK
  <2>2. \A v \in Worker : ~(v < collected)
    BY <2>1 DEF Worker
  <2>3. MergedTimes'
    BY <2>1, <2>2 DEF MergedTimes
  <2> QED BY <1>2, <2>3, ClaimTimes, WorkTimes DEF WorkerStep
<1>3. CASE UNCHANGED vars
  <2>1. Worker' = Worker /\ Query' = Query /\ Left' = Left
    BY <1>3 DEF vars, callerVars, workerVars, Worker, Query, Left
  <2>2. \A v \in Worker, c \in Nat : Times(v, c)' <=> Times(v, c)
    BY <1>3 DEF vars, workerVars, Times
  <2>3. /\ main' = main /\ next' = next /\ chunk' = chunk /\ nq' = nq /\ samples' = samples
        /\ pc' = pc /\ lo' = lo /\ all' = all /\ collected' = collected
    BY <1>3 DEF vars, callerVars, workerVars
  <2>4. Query \subseteq Nat
    BY DEF Query, IInv, TypeOK
  <2>5. TimesInv'
    BY <2>1, <2>2, <2>3, <2>4 DEF TimesInv
  <2> QED BY <2>1, <2>3, <2>5 DEF MergedTimes, OvershootInv
<1> QED BY <1>1, <1>2, <1>3 DEF Next, Returned

LEMMA TimesInvariant == Spec => [](IInv /\ TimesInv /\ MergedTimes /\ OvershootInv)
BY InitIInv, InitTimes, NextIInv, NextTimes, PTL DEF Spec

\* The percentiles are over one duration per chunk of the batch, whatever the schedule
\* of the goroutines: runner.go:101, 112, 123.
THEOREM TimedOnce == Spec => []ChunksTimedOnce
<1>1. ASSUME IInv, TimesInv, MergedTimes
      PROVE  ChunksTimedOnce
  <2> SUFFICES ASSUME main = "returned" PROVE
         /\ {all[i] : i \in DOMAIN all} = {q \in Query : q % chunk = 0}
         /\ \A i, j \in DOMAIN all : all[i] = all[j] => i = j
    BY DEF ChunksTimedOnce
  <2>1. /\ threads \in Int /\ threads >= 1 /\ collected = threads /\ nq \in Nat /\ next \in Nat
        /\ all \in Seq(Nat) /\ samples \in [Worker -> Seq(Nat)]
    BY <1>1 DEF IInv, TypeOK, MergedSoFar
  <2>2. \A w \in Worker : w < collected
    BY <2>1, AtLeastOneFacts DEF Worker
  <2>3. 0 \in Worker
    BY <2>1, AtLeastOneFacts DEF Worker
  <2>4. \A w \in Worker : pc[w] = "gone"
    BY <1>1 DEF IInv, WaitGroupCounts
  <2>5. next >= nq
    BY <1>1, <2>3, <2>4 DEF IInv, LeftWhenExhausted
  <2>6. ASSUME NEW i \in DOMAIN all
        PROVE  all[i] \in Query /\ all[i] % chunk = 0
    <3>1. PICK w \in Worker : \E j \in DOMAIN samples[w] : all[i] = samples[w][j]
      BY <1>1 DEF MergedTimes
    <3>2. all[i] \in Nat /\ Times(w, all[i])
      BY <2>1, <3>1 DEF Times
    <3> QED BY <1>1, <3>2 DEF TimesInv
  <2>7. ASSUME NEW q \in Query, q % chunk = 0
        PROVE  \E i \in DOMAIN all : all[i] = q
    <3>1. q \in Nat /\ q < next
      BY <2>1, <2>5 DEF Query
    <3>2. PICK w \in Worker : Times(w, q)
      BY <1>1, <2>7, <3>1 DEF TimesInv
    <3>3. PICK j \in DOMAIN samples[w] : samples[w][j] = q
      BY <2>4, <3>2 DEF Times
    <3> QED BY <1>1, <2>2, <3>3 DEF MergedTimes
  <2> QED BY <1>1, <2>6, <2>7 DEF MergedTimes
<1> QED BY <1>1, TimesInvariant, PTL

\* However the goroutines race, the shared counter stays below the batch plus one chunk
\* per goroutine and one: runner.go:102-106.
THEOREM OvershootBounded == Spec => []CounterOvershoot
<1>1. ASSUME IInv, OvershootInv
      PROVE  CounterOvershoot
  <2> SUFFICES ASSUME main # "call" PROVE next < nq + chunk * (AtLeastOne(threads) + 1)
    BY DEF CounterOvershoot
  <2>1. /\ threads \in Int /\ chunk \in Nat /\ nq \in Nat /\ next \in Nat
    BY <1>1 DEF IInv, TypeOK
  <2>2. PICK n \in Nat : n = AtLeastOne(threads)
    BY <2>1, AtLeastOneFacts
  <2>3. IsFiniteSet(Worker) /\ Cardinality(Worker) = n
    <3>1. Worker = 0 .. (n - 1)
      BY <2>2 DEF Worker
    <3>2. Cardinality(0 .. (n - 1)) = IF 0 > n - 1 THEN 0 ELSE (n - 1) - 0 + 1
      BY FS_Interval
    <3> QED BY <2>1, <3>1, <3>2, WorkerFinite
  <2>4. Cardinality(Left) \in Nat /\ Cardinality(Left) <= n
    BY <2>3, FS_Subset, FS_CardinalityType DEF Left
  <2>5. PICK k \in Nat : k = Cardinality(Left)
    BY <2>4
  <2>6. chunk * (k + 1) <= chunk * (n + 1)
    BY <2>1, <2>4, <2>5, ProductMonotone
  <2>7. PICK a \in Nat, b \in Nat : a = chunk * (k + 1) /\ b = chunk * (n + 1)
    BY <2>1, ProductMonotone
  <2>8. next < nq + a /\ a <= b
    BY <1>1, <2>5, <2>6, <2>7 DEF OvershootInv
  <2>9. next < nq + b
    BY <2>1, <2>8
  <2> QED BY <2>2, <2>7, <2>9
<1> QED BY <1>1, TimesInvariant, PTL
=============================================================================
