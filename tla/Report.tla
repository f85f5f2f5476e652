------------------------------- MODULE Report -------------------------------
(***************************************************************************)
(* The report of gsbench (bench/report.go, and writeVerdict of             *)
(* cmd/gsbench/main.go), as functions of the sequence of the measures.     *)
(* Formatting is left out: a cell is the measure it shows, NoCell the dash.*)
(***************************************************************************)
EXTENDS Integers, Sequences, FiniteSetsExt, Functions

NoCell == [structure |-> "", rate |-> 0]

-----------------------------------------------------------------------------
(* The tables of one graph, over its measures `sub', a function of their positions. *)

Graph(r) == [kind |-> r.kind, n |-> r.n, m |-> r.m]
Load(r) == [kind |-> r.kind, n |-> r.n, wl |-> r.workload]

\* The graphs that were measured: writeVerdict and WriteReport make one group of each.
groupKeys(ms) == {Graph(r) : r \in Range(ms)}

\* The measures of the group gk, in the order in which they were taken.
Group(ms, gk) == Restrict(ms, {i \in DOMAIN ms : Graph(ms[i]) = gk})

Of(ms, f) == {r[f] : r \in Range(ms)}

\* Mutant of key: the batch size is left out of the key.
keyNoQueries(r) == <<r.structure, r.workload, r.threads>>

key(r) == <<r.structure, r.workload, r.threads, r.queries>>

\* The index of the cells: a measure replaces the one of the same key.
Index(sub) ==
  LET Latest(k) == CHOOSE i \in DOMAIN sub :
                   key(sub[i]) = k /\ \A j \in DOMAIN sub : key(sub[j]) = k => j <= i
  IN [k \in {key(sub[i]) : i \in DOMAIN sub} |-> sub[Latest(k)]]

CellOf(index, s, wl, th, q) ==
  LET k == key([structure |-> s, workload |-> wl, threads |-> th, queries |-> q])
  IN IF k \in DOMAIN index THEN index[k] ELSE NoCell

\* Mutant of ScalingBatch: the base and the best are read at the smallest batch.
SmallestBatch(sub) == Min(Of(sub, "queries"))

\* The batch at which scaling is read: the largest one of all the workloads.
ScalingBatch(sub) == Max(Of(sub, "queries"))

\* The row of structure s in the table of workload wl.  base is its throughput at the
\* fewest threads, last its fastest measure, the first of equals.
ThroughputRow(sub, index, s, wl) ==
  LET ths == Of(sub, "threads")
      At(th) == CellOf(index, s, wl, th, ScalingBatch(sub))
      best == Max({At(th).rate : th \in ths})
      base == At(Min(ths)).rate
  IN [cells |-> [q \in Of(sub, "queries") |-> [th \in ths |-> CellOf(index, s, wl, th, q)]],
      last |-> IF best > 0 THEN At(Min({th \in ths : At(th).rate = best})) ELSE NoCell,
      scaling |-> IF base > 0 /\ best > 0 THEN <<best, base>> ELSE <<>>]

writeThroughputTables(sub) ==
  LET index == Index(sub)
  IN [wl \in Of(sub, "workload") |->
        [s \in Of(sub, "structure") |-> ThroughputRow(sub, index, s, wl)]]

PositionsOf(sub, s) == {i \in DOMAIN sub : sub[i].structure = s}

First(sub, s) == sub[Min(PositionsOf(sub, s))]

\* The size that the rows are compared with: that of the last measure of a CSR, 0 without one.
csrBytes(sub) ==
  IF PositionsOf(sub, "csr") = {} THEN 0 ELSE sub[Max(PositionsOf(sub, "csr"))].bytes

writeMemoryTable(sub) ==
  [s \in Of(sub, "structure") |->
     [bytes |-> First(sub, s).bytes,
      ratio |-> IF csrBytes(sub) > 0 THEN <<First(sub, s).bytes, csrBytes(sub)>> ELSE <<>>]]

WriteReport(ms) ==
  [gk \in groupKeys(ms) |->
     [memory |-> writeMemoryTable(Group(ms, gk)),
      throughput |-> writeThroughputTables(Group(ms, gk))]]

\* Mutant of VerdictKey: one winner per graph, whatever the workload.
VerdictKeyGraph(r) == [kind |-> r.kind, n |-> r.n, wl |-> ""]

VerdictKey(r) == Load(r)

\* The fastest measure and the most compact one of each graph and workload, the first
\* of equals.
writeVerdict(ms) ==
  [k \in {VerdictKey(r) : r \in Range(ms)} |->
     LET of == {i \in DOMAIN ms : VerdictKey(ms[i]) = k}
     IN [fastest |-> ms[Min({i \in of : \A j \in of : ms[j].rate <= ms[i].rate})],
         compact |-> ms[Min({i \in of : \A j \in of : ms[i].bytes <= ms[j].bytes})]]]
=============================================================================
