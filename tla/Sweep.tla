------------------------------- MODULE Sweep -------------------------------
(***************************************************************************)
(* The sweep of gsbench (cmd/gsbench/main.go): every graph, every          *)
(* structure that can be built on it, and every point of its workloads,    *)
(* batch sizes and threads, each measured by a warm-up pass and timed      *)
(* passes; then the report of module Report.  bench.Run is one step here;  *)
(* module Runner is its detail.                                            *)
(*                                                                         *)
(* A checksum is the number of the set of queries that was answered, when  *)
(* the answers are right, and Wrong otherwise.                             *)
(***************************************************************************)
EXTENDS Report

CONSTANTS
  Setups,   \* records: graphs, a sequence of [kind, n, m]; builders, a sequence of
            \* [name, max, mayFail], where max = 0 means no limit; points, a sequence of
            \* [workload, queries, threads]; all three in the order of the loops; runs;
            \* faulty, the structures that may answer wrongly, now and then; walls and
            \* sizes, the durations of a pass and the sizes of an index that may occur
  Known     \* the kinds that Generate knows

ASSUME SweepAssumption ==
  \A s \in Setups :
    /\ s.graphs \in Seq([kind : STRING, n : Nat, m : Nat]) /\ IsInjective(s.graphs)
    /\ s.builders \in Seq([name : STRING, max : Nat, mayFail : BOOLEAN])
    /\ \A j, l \in DOMAIN s.builders : s.builders[j].name = s.builders[l].name => j = l
    /\ s.points \in Seq([workload : STRING, queries : Nat, threads : Int]) /\ IsInjective(s.points)
    /\ s.runs \in Nat /\ s.walls \subseteq Nat /\ s.sizes \subseteq Nat

\* The loop over the threads is inside the loops over the workloads and their batches.
ASSUME ProductAssumption ==
  \A s \in Setups : \A x, y \in DOMAIN s.points : \E z \in DOMAIN s.points :
    s.points[z] = [s.points[x] EXCEPT !.threads = s.points[y].threads]

VARIABLES
  setup,
  phase,            \* "graph", "structure", "point", "write" or "failed"
  g, b, p, pass,    \* loop indices; pass 0 is the warm-up
  draws, querySets, \* sets of queries drawn so far; the set that belongs to each key
  checksums,        \* the first checksum of each key, for this graph
  bytes,            \* the size of the index
  best,             \* the fastest pass of the point
  timed,            \* history: the durations of the timed passes of each point
  results, warned,  \* the measures; the keys, with their graph, that were reported
  report, verdict   \* what is written at the end

measures == <<best, timed>>
output == <<report, verdict>>
vars == <<setup, phase, g, b, p, pass, draws, querySets, checksums, bytes, measures,
          results, warned, output>>

Graphs   == setup.graphs
Builders == setup.builders
Points   == setup.points

Wrong == -1
Key(pt) == <<pt.workload, pt.queries>>
Keys == {Key(pt) : pt \in Range(Points)}
None == [wall |-> 0, sum |-> 0]

\* len(queries) / wall, or 0 for no duration; exact when the durations divide the batch sizes.
Throughput(queries, wall) == IF wall = 0 THEN 0 ELSE queries \div wall

Init ==
  /\ setup \in Setups
  /\ phase = "graph" /\ g = 1 /\ b = 1 /\ p = 1 /\ pass = 0
  /\ draws = 0 /\ querySets = <<>> /\ checksums = <<>> /\ bytes = 0
  /\ best = None /\ timed = <<>>
  /\ results = <<>> /\ warned = {}
  /\ report = <<>> /\ verdict = <<>>

\* The graph is generated, and the queries of every key are drawn once for all.
Generate ==
  /\ phase = "graph" /\ g <= Len(Graphs) /\ Graphs[g].kind \in Known
  /\ draws' = draws + 1
  /\ querySets' = [k \in Keys |-> draws']
  /\ checksums' = <<>>
  /\ phase' = "structure" /\ b' = 1
  /\ UNCHANGED <<setup, g, p, pass, bytes, measures, results, warned, output>>

\* An unknown kind ends the program: the measures of the graphs before it are not written.
GenerateFails ==
  /\ phase = "graph" /\ g <= Len(Graphs) /\ Graphs[g].kind \notin Known
  /\ phase' = "failed"
  /\ UNCHANGED <<setup, g, b, p, pass, draws, querySets, checksums, bytes, measures, results,
                 warned, output>>

\* After the last graph, the tables and the verdict.
Write ==
  /\ phase = "graph" /\ g > Len(Graphs)
  /\ report' = WriteReport(results) /\ verdict' = writeVerdict(results)
  /\ phase' = "write"
  /\ UNCHANGED <<setup, g, b, p, pass, draws, querySets, checksums, bytes, measures, results,
                 warned>>

TooLarge(i, j) == Builders[j].max > 0 /\ Graphs[i].n > Builders[j].max

\* Mutant of Skip: the structures after one that is skipped are skipped too.
SkipRest ==
  /\ phase = "structure" /\ b <= Len(Builders) /\ (TooLarge(g, b) \/ Builders[b].mayFail)
  /\ b' = Len(Builders) + 1
  /\ UNCHANGED <<setup, phase, g, p, pass, draws, querySets, checksums, bytes, measures,
                 results, warned, output>>

\* A structure above its limit, or whose constructor returns an error, is left out.
Skip ==
  /\ phase = "structure" /\ b <= Len(Builders) /\ (TooLarge(g, b) \/ Builders[b].mayFail)
  /\ b' = b + 1
  /\ UNCHANGED <<setup, phase, g, p, pass, draws, querySets, checksums, bytes, measures,
                 results, warned, output>>

\* Mutant of Build: each structure draws its own queries.
BuildAndDraw ==
  /\ phase = "structure" /\ b <= Len(Builders) /\ ~TooLarge(g, b)
  /\ draws' = draws + 1 /\ querySets' = [k \in Keys |-> draws']
  /\ bytes' \in setup.sizes
  /\ phase' = "point" /\ p' = 1 /\ pass' = 0
  /\ UNCHANGED <<setup, g, b, checksums, measures, results, warned, output>>

Build ==
  /\ phase = "structure" /\ b <= Len(Builders) /\ ~TooLarge(g, b)
  /\ bytes' \in setup.sizes
  /\ phase' = "point" /\ p' = 1 /\ pass' = 0
  /\ UNCHANGED <<setup, g, b, draws, querySets, checksums, measures, results, warned, output>>

NextGraph ==
  /\ phase = "structure" /\ b > Len(Builders)
  /\ phase' = "graph" /\ g' = g + 1
  /\ UNCHANGED <<setup, b, p, pass, draws, querySets, checksums, bytes, measures, results,
                 warned, output>>

\* What a pass of bench.Run may return.
Outcomes ==
  LET right == querySets[Key(Points[p])]
  IN [wall : setup.walls,
      sum : IF Builders[b].name \in setup.faulty THEN {right, Wrong} ELSE {right}]

\* The timed passes of the point, with one more.
Timed(wall) ==
  LET x == <<g, b, p>>
  IN [y \in DOMAIN timed \cup {x} |->
        IF y # x THEN timed[y]
        ELSE IF x \in DOMAIN timed THEN Append(timed[x], wall) ELSE <<wall>>]

\* Mutant of Pass: the warm-up counts as a timed pass.
PassWarm ==
  /\ phase = "point" /\ p <= Len(Points) /\ (pass <= 1 \/ pass <= setup.runs)
  /\ \E st \in Outcomes :
       /\ best' = IF pass = 0 \/ st.wall < best.wall THEN st ELSE best
       /\ timed' = IF pass = 0 THEN timed ELSE Timed(st.wall)
  /\ pass' = pass + 1
  /\ UNCHANGED <<setup, phase, g, b, p, draws, querySets, checksums, bytes, results, warned,
                 output>>

\* The warm-up, the first timed pass, and the others up to runs.
Pass ==
  /\ phase = "point" /\ p <= Len(Points) /\ (pass <= 1 \/ pass <= setup.runs)
  /\ \E st \in Outcomes :
       /\ best' = IF pass = 0 THEN None
                  ELSE IF pass = 1 \/ st.wall < best.wall THEN st ELSE best
       /\ timed' = IF pass = 0 THEN timed ELSE Timed(st.wall)
  /\ pass' = pass + 1
  /\ UNCHANGED <<setup, phase, g, b, p, draws, querySets, checksums, bytes, results, warned,
                 output>>

\* Mutant of Compare: the first divergence of a key is taken as its new reference and the
\* message is left for the next one.
CompareLast(k) ==
  /\ checksums' = [l \in DOMAIN checksums \cup {k} |-> IF l = k THEN best.sum ELSE checksums[l]]
  /\ UNCHANGED warned

\* The checksum of the fastest pass is compared with the first one of the key; one that
\* diverges is reported and does not replace it.
Compare(k) ==
  IF k \in DOMAIN checksums /\ checksums[k] # best.sum
  THEN warned' = warned \cup {<<g, k>>} /\ UNCHANGED checksums
  ELSE /\ checksums' = [l \in DOMAIN checksums \cup {k} |->
                          IF l = k THEN best.sum ELSE checksums[l]]
       /\ UNCHANGED warned

Measured == phase = "point" /\ p <= Len(Points) /\ ~(pass <= 1 \/ pass <= setup.runs)

\* The measure of the point; the field graph, its number in the sweep, is not in the code.
Result ==
  [graph |-> g, kind |-> Graphs[g].kind, n |-> Graphs[g].n, m |-> Graphs[g].m,
   structure |-> Builders[b].name, bytes |-> bytes,
   workload |-> Points[p].workload, queries |-> Points[p].queries,
   threads |-> Points[p].threads,
   rate |-> Throughput(Points[p].queries, best.wall), sum |-> best.sum]

Record ==
  /\ Measured
  /\ Compare(Key(Points[p]))
  /\ results' = Append(results, Result)
  /\ p' = p + 1 /\ pass' = 0
  /\ UNCHANGED <<setup, phase, g, b, draws, querySets, bytes, measures, output>>

NextStructure ==
  /\ phase = "point" /\ p > Len(Points)
  /\ phase' = "structure" /\ b' = b + 1
  /\ UNCHANGED <<setup, g, p, pass, draws, querySets, checksums, bytes, measures, results,
                 warned, output>>

Stay == phase \in {"write", "failed"} /\ UNCHANGED vars

Next == \/ Generate \/ GenerateFails \/ Write \/ Skip \/ Build \/ NextGraph
        \/ Pass \/ Record \/ NextStructure \/ Stay

Spec == Init /\ [][Next]_vars

-----------------------------------------------------------------------------
\* When nothing was reported for a key, all its measures on a graph have the same
\* checksum, whatever the threads and the structure (main.go:132-137).
SilenceMeansEqual ==
  \A r, s \in Range(results) :
    r.graph = s.graph /\ Key(r) = Key(s) /\ r.sum # s.sum => <<r.graph, Key(r)>> \in warned

\* Structures that answer rightly are never reported: they were asked the same queries.
NoFalseAlarm == setup.faulty = {} => warned = {}

\* From the passes to the tables: each cell shows the fastest of the timed passes of its
\* point, the warm-up left out, and the cells are those of the whole product; a structure
\* is missing from a graph only if it is too large for it or its constructor may fail
\* (main.go:98-148, report.go:258-286).
EveryMeasureShown ==
  phase = "write" =>
    \A i \in DOMAIN Graphs, j \in DOMAIN Builders, x \in DOMAIN Points :
      IF <<i, j, x>> \in DOMAIN timed
      THEN LET pt == Points[x]
               passes == timed[<<i, j, x>>]
               row == report[Graphs[i]].throughput[pt.workload][Builders[j].name]
           IN /\ Len(passes) = (IF setup.runs < 1 THEN 1 ELSE setup.runs)
              /\ row.cells[pt.queries][pt.threads].rate
                   = Throughput(pt.queries, Min(Range(passes)))
      ELSE Builders[j].mayFail \/ TooLarge(i, j)

RowOf(r) == report[Graph(r)].throughput[r.workload][r.structure]

Largest(r) == Max({x.queries : x \in {y \in Range(results) : Load(y) = Load(r)}})

\* The measures of the row of r, at the largest batch of its own workload.
AtLargest(r) ==
  {x \in Range(results) : /\ Graph(x) = Graph(r) /\ x.structure = r.structure
                          /\ x.workload = r.workload /\ x.queries = Largest(r)}

\* The largest batch of all the workloads on the graph of r.
LargestOfAll(r) == Max({x.queries : x \in {y \in Range(results) : Graph(y) = Graph(r)}})

\* Where the workload of a row goes up to the largest batch of all, as with -queries, scaling
\* is the best throughput over the one at the fewest threads, at that batch, and a dash only
\* if the latter is 0.  A workload with smaller batches of its own, as the traversals have
\* by default, has a dash in every row, and never the ratio of two batches
\* (report.go:287-299).
ScalingRight ==
  phase = "write" =>
    \A r \in Range(results) :
      LET base == CHOOSE x \in AtLargest(r) : \A y \in AtLargest(r) : x.threads <= y.threads
      IN RowOf(r).scaling = IF Largest(r) = LargestOfAll(r) /\ base.rate > 0
                            THEN <<Max({x.rate : x \in AtLargest(r)}), base.rate>> ELSE <<>>

\* The verdict names, for each graph and workload, a structure that was measured on it and
\* that no other one beats (main.go:195-231).
VerdictUnbeaten ==
  \A r \in Range(results) :
    /\ Load(r) \in DOMAIN verdict
    /\ LET v == verdict[Load(r)]
       IN /\ Load(v.fastest) = Load(r) /\ Load(v.compact) = Load(r)
          /\ {v.fastest, v.compact} \subseteq Range(results)
          /\ r.rate <= v.fastest.rate /\ v.compact.bytes <= r.bytes

\* Each index is compared with the CSR of its own graph, wherever the CSR comes in the
\* order of the structures (report.go:210-224).
RatiosToOwnCSR ==
  \A r, c \in Range(results) :
    Graph(r) = Graph(c) /\ c.structure = "csr"
      => report[Graph(r)].memory[r.structure].ratio = IF c.bytes > 0 THEN <<r.bytes, c.bytes>> ELSE <<>>

\* What the report says of one structure against another is so on each graph, although a
\* structure may be missing from some of them.
ComparisonsRight == phase = "write" => VerdictUnbeaten /\ RatiosToOwnCSR
=============================================================================
