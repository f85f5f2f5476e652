---------------------------- MODULE SweepProofs ----------------------------
(***************************************************************************)
(* Proofs about the program and the script that runs it: modules Sweep and *)
(* Campaign, which share no name.                                          *)
(***************************************************************************)
EXTENDS Sweep, Campaign, NaturalFacts

(***************************************************************************)
(* The inductive invariant of SilenceMeansEqual: the measures of the graph *)
(* under way have the checksum of their key, unless the key was reported;  *)
(* those of another graph belong to one that is over.                      *)
(***************************************************************************)

OfThisGraph(r) ==
  /\ phase \in {"structure", "point"}
  /\ Key(r) \in DOMAIN checksums
  /\ r.sum = checksums[Key(r)] \/ <<g, Key(r)>> \in warned

Compared ==
  /\ g \in Nat
  /\ results \in Seq(Range(results))
  /\ \A r \in Range(results) : r.graph \in Nat /\ r.graph <= g /\ (r.graph = g => OfThisGraph(r))
  /\ SilenceMeansEqual

\* Appending a measure adds it to the set of the measures, and nothing else.
LEMMA AppendRange ==
  ASSUME NEW s, s \in Seq(Range(s)), NEW x
  PROVE  /\ Append(s, x) \in Seq(Range(Append(s, x)))
         /\ Range(Append(s, x)) = Range(s) \cup {x}
<1> DEFINE T == Range(s) \cup {x}
<1>1. s \in Seq(T)
  <2>1. Range(s) \subseteq T
    OBVIOUS
  <2> HIDE DEF T
  <2>2. \A i \in 1..Len(s) : s[i] \in T
    BY <2>1
  <2> QED BY <2>2
<1>2. x \in T
  OBVIOUS
<1> HIDE DEF T
<1>3. /\ Append(s, x) \in Seq(T) /\ Len(Append(s, x)) = Len(s) + 1 /\ Len(s) \in Nat
      /\ \A i \in 1..Len(s) : Append(s, x)[i] = s[i]
      /\ Append(s, x)[Len(s) + 1] = x
  BY <1>1, <1>2
<1>4. DOMAIN s = 1..Len(s) /\ DOMAIN Append(s, x) = 1..(Len(s) + 1)
  BY <1>1, <1>3
<1>5. Range(Append(s, x)) = Range(s) \cup {x}
  <2>1. \A i \in 1..(Len(s) + 1) : i \in 1..Len(s) \/ i = Len(s) + 1
    BY <1>3
  <2>2. \A i \in 1..Len(s) : i \in 1..(Len(s) + 1)
    BY <1>3
  <2>3. Len(s) + 1 \in 1..(Len(s) + 1)
    BY <1>3
  <2> QED BY <1>3, <1>4, <2>1, <2>2, <2>3, Zenon DEF Range
<1> QED BY <1>3, <1>5 DEF T

\* Steps that record no measure and stay on the graph: the checksums are those of before.
LEMMA ComparedElsewhere ==
  ASSUME Compared, UNCHANGED <<g, checksums, results, warned>>,
         phase \in {"structure", "point"} => phase' \in {"structure", "point"}
  PROVE  Compared'
BY DEF Compared, OfThisGraph, SilenceMeansEqual

\* The measure that is recorded agrees with the checksum of its key, or is reported.
LEMMA ComparedRecord == Compared /\ Record => Compared'
<1> SUFFICES ASSUME Compared, Record PROVE Compared'
  OBVIOUS
<1>1. PICK k, new :
        /\ k = Key(Points[p]) /\ new = Result
        /\ UNCHANGED <<phase, g>> /\ phase = "point" /\ g \in Nat
        /\ results' = Append(results, new) /\ Compare(k)
  BY DEF Record, Measured, Compared
<1>2. new.graph = g /\ Key(new) = k /\ new.sum = best.sum
  BY <1>1 DEF Result, Key
<1>3. /\ warned \subseteq warned' /\ k \in DOMAIN checksums'
      /\ \A l \in DOMAIN checksums : l \in DOMAIN checksums' /\ checksums'[l] = checksums[l]
      /\ best.sum = checksums'[k] \/ <<g, k>> \in warned'
  <2>1. CASE k \in DOMAIN checksums /\ checksums[k] # best.sum
    BY <1>1, <2>1 DEF Compare
  <2>2. CASE ~(k \in DOMAIN checksums /\ checksums[k] # best.sum)
    BY <1>1, <2>2 DEF Compare
  <2> QED BY <2>1, <2>2
<1>4. results' \in Seq(Range(results')) /\ Range(results') = Range(results) \cup {new}
  BY <1>1, AppendRange DEF Compared
<1>5. \A r \in Range(results) : r.graph = g => OfThisGraph(r)'
  BY <1>1, <1>3 DEF Compared, OfThisGraph, Key
<1>6. OfThisGraph(new)'
  BY <1>1, <1>2, <1>3 DEF OfThisGraph, Key
<1>7. \A r \in Range(results') :
        r.graph \in Nat /\ r.graph <= g' /\ (r.graph = g' => OfThisGraph(r)')
  <2>1. g <= g
    BY <1>1, SMT
  <2> QED BY <1>1, <1>2, <1>4, <1>5, <1>6, <2>1 DEF Compared
<1>8. SilenceMeansEqual'
  <2> SUFFICES ASSUME NEW r \in Range(results'), NEW s \in Range(results'),
                      r.graph = s.graph, Key(r) = Key(s), r.sum # s.sum
               PROVE  <<r.graph, Key(r)>> \in warned'
    BY DEF SilenceMeansEqual, Key
  <2>1. CASE r.graph = g
    BY <1>1, <1>7, <2>1 DEF OfThisGraph, Key
  <2>2. CASE r.graph # g
    BY <1>2, <1>3, <1>4, <2>2 DEF Compared, SilenceMeansEqual
  <2> QED BY <2>1, <2>2
<1> QED BY <1>1, <1>4, <1>7, <1>8 DEF Compared

\* The next graph has no measure yet, those of before are of graphs that are over.
LEMMA ComparedNextGraph == Compared /\ NextGraph => Compared'
<1> SUFFICES ASSUME Compared, NextGraph PROVE Compared'
  OBVIOUS
<1>1. g \in Nat /\ g' = g + 1 /\ UNCHANGED <<results, warned>>
  BY DEF Compared, NextGraph
<1>2. \A r \in Range(results) : r.graph \in Nat /\ r.graph <= g' /\ r.graph # g'
  BY <1>1, SMT DEF Compared
<1> QED BY <1>1, <1>2, SMT DEF Compared, SilenceMeansEqual

\* Outside a graph there is no measure of the number g: the checksums may start again.
LEMMA ComparedGraph ==
  ASSUME Compared, phase = "graph", UNCHANGED <<g, results, warned>>
  PROVE  Compared'
BY DEF Compared, OfThisGraph, SilenceMeansEqual

LEMMA ComparedNext == Compared /\ [Next]_vars => Compared'
<1> SUFFICES ASSUME Compared, [Next]_vars PROVE Compared'
  OBVIOUS
<1>1. CASE Generate \/ GenerateFails \/ Write
  BY <1>1, ComparedGraph DEF Generate, GenerateFails, Write, measures
<1>2. CASE Skip \/ Build \/ Pass \/ NextStructure
  BY <1>2, ComparedElsewhere DEF Skip, Build, Pass, NextStructure, measures
<1>3. CASE NextGraph
  BY <1>3, ComparedNextGraph
<1>4. CASE Record
  BY <1>4, ComparedRecord
<1>5. CASE Stay \/ UNCHANGED vars
  BY <1>5, ComparedElsewhere DEF Stay, vars
<1> QED BY <1>1, <1>2, <1>3, <1>4, <1>5 DEF Next

\* Silence means equal answers, for every product of graphs, structures and points and
\* whatever a structure answers.
THEOREM Silence == Spec => []SilenceMeansEqual
<1>1. Init => Compared
  <2>1. ASSUME Init PROVE results = <<>> /\ g = 1
    BY <2>1 DEF Init
  <2>2. Range(<<>>) = {}
    BY DEF Range
  <2> QED BY <2>1, <2>2, SMT DEF Compared, SilenceMeansEqual
<1>2. Compared => SilenceMeansEqual
  BY DEF Compared
<1> QED BY <1>1, <1>2, ComparedNext, PTL DEF Spec

-----------------------------------------------------------------------------
(***************************************************************************)
(* The inductive invariant of NoFalseAlarm: every checksum is that of the  *)
(* queries of its key, which do not change while the graph is swept.       *)
(***************************************************************************)

AllRight ==
  /\ setup \in Setups /\ pass \in Nat
  /\ setup.faulty = {} =>
       /\ phase \in {"structure", "point"} =>
            \A k \in DOMAIN checksums : checksums[k] = querySets[k]
       /\ phase = "point" /\ pass > 1 => best.sum = querySets[Key(Points[p])]
       /\ warned = {}

LEMMA AllRightNext == AllRight /\ [Next]_vars => AllRight'
<1> SUFFICES ASSUME AllRight, [Next]_vars PROVE AllRight'
  OBVIOUS
<1>s. UNCHANGED setup
  BY DEF Next, vars, Generate, GenerateFails, Write, Skip, Build, NextGraph, Pass, Record,
         NextStructure, Stay
<1>p. pass' \in Nat
  BY SMT DEF AllRight, Next, vars, Generate, GenerateFails, Write, Skip, Build, NextGraph,
             Pass, Record, NextStructure, Stay
<1> SUFFICES ASSUME setup.faulty = {}
             PROVE  /\ phase' \in {"structure", "point"} =>
                         \A k \in DOMAIN checksums' : checksums'[k] = querySets'[k]
                    /\ phase' = "point" /\ pass' > 1 => best'.sum = querySets'[Key(Points[p])']
                    /\ warned' = {}
  BY <1>s, <1>p DEF AllRight
<1> USE DEF AllRight, measures, output
<1>1. CASE Generate \/ GenerateFails \/ Write \/ NextGraph
  BY <1>1 DEF Generate, GenerateFails, Write, NextGraph
<1>2. CASE Skip \/ NextStructure
  BY <1>2 DEF Skip, NextStructure
<1>3. CASE Build
  BY <1>3, SMT DEF Build
<1>4. CASE Pass
  <2>1. PICK st \in Outcomes :
          best' = (IF pass = 0 THEN None
                   ELSE IF pass = 1 \/ st.wall < best.wall THEN st ELSE best)
    BY <1>4 DEF Pass
  <2>2. st.sum = querySets[Key(Points[p])]
    BY <2>1 DEF Outcomes
  <2>3. /\ phase = "point" /\ pass' = pass + 1
        /\ UNCHANGED <<phase, p, querySets, checksums, warned>>
        /\ Key(Points[p])' = Key(Points[p])
    BY <1>4, <1>s DEF Pass, Points, Key
  <2>4. pass' > 1 => best'.sum = querySets[Key(Points[p])]
    BY <2>1, <2>2, <2>3, SMT
  <2> QED BY <2>3, <2>4
<1>5. CASE Record
  <2> DEFINE k == Key(Points[p])
  <2>1. /\ phase = "point" /\ UNCHANGED <<phase, querySets>> /\ pass' = 0 /\ Compare(k)
    BY <1>5 DEF Record, Measured
  <2>2. pass > 1
    <3>1. setup.runs \in Nat
      BY SweepAssumption
    <3> QED BY <1>5, <3>1, SMT DEF Record, Measured
  <2>3. best.sum = querySets[k]
    BY <2>1, <2>2
  <2> HIDE DEF k
  <2>4. /\ warned' = {}
        /\ checksums' = [l \in DOMAIN checksums \cup {k} |->
                           IF l = k THEN best.sum ELSE checksums[l]]
    BY <2>1, <2>3 DEF Compare
  <2>5. \A l \in DOMAIN checksums' : checksums'[l] = querySets[l]
    BY <2>1, <2>3, <2>4
  <2>6. ~(pass' > 1)
    BY <2>1, SMT
  <2> QED BY <2>1, <2>4, <2>5, <2>6
<1>6. CASE Stay \/ UNCHANGED vars
  BY <1>6, <1>s DEF Stay, vars, Points, Key
<1> QED BY <1>1, <1>2, <1>3, <1>4, <1>5, <1>6 DEF Next

\* Structures that answer rightly are never reported, whatever the sweep.
THEOREM FalseAlarm == Spec => []NoFalseAlarm
<1>1. Init => AllRight
  BY SMT DEF Init, AllRight
<1>2. AllRight => NoFalseAlarm
  BY DEF AllRight, NoFalseAlarm
<1> QED BY <1>1, <1>2, AllRightNext, PTL DEF Spec

-----------------------------------------------------------------------------
(* Finite lists, and the ends of finite sets of integers. *)

\* An element of a sequence over S.
LEMMA ElementOf ==
  ASSUME NEW S, NEW q \in Seq(S), NEW j \in DOMAIN q
  PROVE  q[j] \in S
OBVIOUS

LEMMA Extremes ==
  ASSUME NEW S, IsFiniteSet(S), S \subseteq Int, S # {}
  PROVE  /\ Min(S) \in S /\ \A y \in S : Min(S) <= y
         /\ Max(S) \in S /\ \A y \in S : Max(S) >= y
<1>1. Min(S) \in S /\ \A y \in S : Min(S) <= y
  BY FiniteExtremes DEF Min
<1>2. Max(S) \in S /\ \A y \in S : Max(S) >= y
  BY FiniteExtremes DEF Max
<1> QED BY <1>1, <1>2

LEMMA MinIs ==
  ASSUME NEW S, S \subseteq Int, NEW x \in S, \A y \in S : x <= y
  PROVE  Min(S) = x
<1>1. \E l \in S : \A y \in S : l <= y
  OBVIOUS
<1>2. PICK l \in S : l = Min(S) /\ \A y \in S : l <= y
  BY <1>1 DEF Min
<1>3. l <= x /\ x <= l /\ l \in Int /\ x \in Int
  BY <1>2
<1>4. l = x
  BY <1>3
<1> QED BY <1>2, <1>4

LEMMA MaxIs ==
  ASSUME NEW S, S \subseteq Int, NEW x \in S, \A y \in S : x >= y
  PROVE  Max(S) = x
<1>1. \E l \in S : \A y \in S : l >= y
  OBVIOUS
<1>2. PICK l \in S : l = Max(S) /\ \A y \in S : l >= y
  BY <1>1 DEF Max
<1>3. l <= x /\ x <= l /\ l \in Int /\ x \in Int
  BY <1>2
<1>4. l = x
  BY <1>3
<1> QED BY <1>2, <1>4

\* The elements of a list are finitely many.
LEMMA ListFinite ==
  ASSUME NEW q, q \in Seq(Range(q))
  PROVE  /\ IsFiniteSet(DOMAIN q) /\ DOMAIN q \subseteq Nat /\ IsFiniteSet(Range(q))
<1>1. Len(q) \in Nat /\ DOMAIN q = 1 .. Len(q)
  OBVIOUS
<1>2. IsFiniteSet(1 .. Len(q))
  BY <1>1, FS_Interval
<1>3. 1 .. Len(q) \subseteq Nat
  BY <1>1
<1>4. Range(q) = {q[j] : j \in 1 .. Len(q)}
  BY <1>1 DEF Range
<1>5. IsFiniteSet({q[j] : j \in 1 .. Len(q)})
  BY <1>2, ImageFinite
<1> QED BY <1>1, <1>2, <1>3, <1>4, <1>5

-----------------------------------------------------------------------------
(***************************************************************************)
(* The inductive invariant of what the report shows: where the loops are,  *)
(* what has been timed, and which measures there are.                      *)
(***************************************************************************)

Timings == IF setup.runs < 1 THEN 1 ELSE setup.runs

Loops ==
  /\ setup \in Setups
  /\ phase \in {"graph", "structure", "point", "write", "failed"}
  /\ g \in Nat /\ b \in Nat /\ p \in Nat /\ pass \in Nat
  /\ g >= 1 /\ b >= 1 /\ p >= 1
  /\ phase \in {"structure", "point"} => g <= Len(Graphs) /\ b <= Len(Builders) + 1
  /\ phase = "point" => b <= Len(Builders) /\ p <= Len(Points) + 1 /\ pass <= Timings + 1
                        /\ bytes \in setup.sizes
  /\ phase = "write" => g > Len(Graphs)

\* The loops have left the point x of structure j on graph i behind.
Over(i, j, x) ==
  \/ i < g
  \/ i = g /\ phase \in {"structure", "point"} /\ j < b
  \/ i = g /\ phase = "point" /\ j = b /\ x < p

\* The point that is being timed.
Timing(i, j, x) == phase = "point" /\ pass > 1 /\ i = g /\ j = b /\ x = p

\* Each point left behind has as many timed passes as it should, or its structure has none
\* at all, for a reason.
TimedSoFar ==
  /\ \A y \in DOMAIN timed :
       /\ timed[y] \in Seq(setup.walls) /\ timed[y] # <<>>
       /\ \E i \in DOMAIN Graphs, j \in DOMAIN Builders, x \in DOMAIN Points :
            y = <<i, j, x>> /\ (Over(i, j, x) \/ Timing(i, j, x))
  /\ \A i \in DOMAIN Graphs, j \in DOMAIN Builders, x \in DOMAIN Points : Over(i, j, x) =>
       IF <<i, j, x>> \in DOMAIN timed THEN Len(timed[<<i, j, x>>]) = Timings
       ELSE /\ Builders[j].mayFail \/ TooLarge(i, j)
            /\ i = g /\ j = b => phase # "point"
            /\ \A z \in DOMAIN Points : <<i, j, z>> \notin DOMAIN timed

\* The passes of the point under way, and the fastest of them.
BestSoFar ==
  phase = "point" /\ pass > 1 =>
    /\ p <= Len(Points) /\ <<g, b, p>> \in DOMAIN timed
    /\ Len(timed[<<g, b, p>>]) = pass - 1
    /\ best.wall = Min(Range(timed[<<g, b, p>>]))

\* r is the measure of the point x of structure j on graph i.
Shows(r, i, j, x) ==
  /\ Graph(r) = Graphs[i] /\ r.structure = Builders[j].name
  /\ r.workload = Points[x].workload /\ r.queries = Points[x].queries
  /\ r.threads = Points[x].threads
  /\ r.rate = Throughput(Points[x].queries, Min(Range(timed[<<i, j, x>>])))
  /\ r.bytes \in Nat

\* The measures are those of the points that were timed and left behind.
Recorded ==
  /\ results \in Seq(Range(results))
  /\ \A r \in Range(results) : 
       \E i \in DOMAIN Graphs, j \in DOMAIN Builders, x \in DOMAIN Points :
         Over(i, j, x) /\ <<i, j, x>> \in DOMAIN timed /\ Shows(r, i, j, x)
  /\ \A i \in DOMAIN Graphs, j \in DOMAIN Builders, x \in DOMAIN Points :
       Over(i, j, x) /\ <<i, j, x>> \in DOMAIN timed =>
         \E r \in Range(results) : Shows(r, i, j, x)

\* An index has one size.
OneSize ==
  /\ \A r, s \in Range(results) :
       Graph(r) = Graph(s) /\ r.structure = s.structure => r.bytes = s.bytes
  /\ phase = "point" =>
       \A r \in Range(results) :
         Graph(r) = Graphs[g] /\ r.structure = Builders[b].name => r.bytes = bytes

Written == phase = "write" => report = WriteReport(results) /\ verdict = writeVerdict(results)

TablesIInv == Loops /\ TimedSoFar /\ BestSoFar /\ Recorded /\ OneSize /\ Written

LEMMA SetupFacts ==
  ASSUME setup \in Setups
  PROVE  /\ Graphs \in Seq([kind : STRING, n : Nat, m : Nat]) /\ IsInjective(Graphs)
         /\ Builders \in Seq([name : STRING, max : Nat, mayFail : BOOLEAN])
         /\ \A j, l \in DOMAIN Builders : Builders[j].name = Builders[l].name => j = l
         /\ Points \in Seq([workload : STRING, queries : Nat, threads : Int])
         /\ IsInjective(Points)
         /\ setup.runs \in Nat /\ setup.walls \subseteq Nat /\ setup.sizes \subseteq Nat
BY SweepAssumption DEF Graphs, Builders, Points

LEMMA LoopFacts ==
  ASSUME setup \in Setups
  PROVE  /\ Len(Graphs) \in Nat /\ DOMAIN Graphs = 1 .. Len(Graphs)
         /\ Len(Builders) \in Nat /\ DOMAIN Builders = 1 .. Len(Builders)
         /\ Len(Points) \in Nat /\ DOMAIN Points = 1 .. Len(Points)
         /\ Timings \in Nat /\ Timings >= 1 /\ setup.runs \in Nat
<1>1. Timings \in Nat /\ Timings >= 1 /\ setup.runs \in Nat
  BY SetupFacts DEF Timings
<1>2. Len(Graphs) \in Nat /\ DOMAIN Graphs = 1 .. Len(Graphs)
  BY SetupFacts
<1>3. Len(Builders) \in Nat /\ DOMAIN Builders = 1 .. Len(Builders)
  BY SetupFacts
<1>4. Len(Points) \in Nat /\ DOMAIN Points = 1 .. Len(Points)
  BY SetupFacts
<1> QED BY <1>1, <1>2, <1>3, <1>4

\* The loops move, and no point is left behind that was not before.
SamePoints ==
  \A i \in DOMAIN Graphs, j \in DOMAIN Builders, x \in DOMAIN Points :
    /\ Over(i, j, x)' <=> Over(i, j, x)
    /\ Timing(i, j, x)' <=> Timing(i, j, x)
    /\ Over(i, j, x)' /\ i = g' /\ j = b' /\ phase' = "point" => i = g /\ j = b /\ phase = "point"

LEMMA TimedSame ==
  ASSUME TimedSoFar, Recorded, UNCHANGED <<setup, timed, results>>, SamePoints
  PROVE  TimedSoFar' /\ Recorded'
<1>1. /\ Graphs' = Graphs /\ Builders' = Builders /\ Points' = Points /\ Timings' = Timings
      /\ \A i, j : TooLarge(i, j)' <=> TooLarge(i, j)
      /\ \A r, i, j, x : Shows(r, i, j, x)' <=> Shows(r, i, j, x)
  BY DEF Graphs, Builders, Points, Timings, TooLarge, Shows
<1>2. TimedSoFar'
  <2>1. ASSUME NEW y \in DOMAIN timed'
        PROVE  /\ timed'[y] \in Seq(setup'.walls) /\ timed'[y] # <<>>
               /\ \E i \in DOMAIN Graphs', j \in DOMAIN Builders', x \in DOMAIN Points' :
                    y = <<i, j, x>> /\ (Over(i, j, x)' \/ Timing(i, j, x)')
    BY <1>1 DEF TimedSoFar, SamePoints
  <2>2. ASSUME NEW i \in DOMAIN Graphs', NEW j \in DOMAIN Builders', NEW x \in DOMAIN Points',
               Over(i, j, x)'
        PROVE  IF <<i, j, x>> \in DOMAIN timed' THEN Len(timed'[<<i, j, x>>]) = Timings'
               ELSE /\ Builders'[j].mayFail \/ TooLarge(i, j)'
                    /\ i = g' /\ j = b' => phase' # "point"
                    /\ \A z \in DOMAIN Points' : <<i, j, z>> \notin DOMAIN timed'
    BY <1>1, <2>2 DEF TimedSoFar, SamePoints
  <2> QED BY <2>1, <2>2 DEF TimedSoFar
<1>3. Recorded'
  <2>1. ASSUME NEW r \in Range(results')
        PROVE  \E i \in DOMAIN Graphs', j \in DOMAIN Builders', x \in DOMAIN Points' :
                 Over(i, j, x)' /\ <<i, j, x>> \in DOMAIN timed' /\ Shows(r, i, j, x)'
    BY <1>1 DEF Recorded, SamePoints
  <2>2. ASSUME NEW i \in DOMAIN Graphs', NEW j \in DOMAIN Builders', NEW x \in DOMAIN Points',
               Over(i, j, x)', <<i, j, x>> \in DOMAIN timed'
        PROVE  \E r \in Range(results') : Shows(r, i, j, x)'
    BY <1>1, <2>2 DEF Recorded, SamePoints
  <2>3. results' \in Seq(Range(results'))
    BY DEF Recorded
  <2> QED BY <2>1, <2>2, <2>3 DEF Recorded
<1> QED BY <1>2, <1>3

LEMMA TablesInit == Init => TablesIInv
<1> SUFFICES ASSUME Init PROVE TablesIInv
  OBVIOUS
<1>1. /\ setup \in Setups /\ phase = "graph" /\ g = 1 /\ b = 1 /\ p = 1 /\ pass = 0
      /\ timed = <<>> /\ results = <<>>
  BY DEF Init
<1>2. DOMAIN timed = {} /\ Range(results) = {} /\ results \in Seq({})
  BY <1>1 DEF Range
<1>3. Loops
  BY <1>1 DEF Loops
<1>4. \A i \in DOMAIN Graphs : \A j, x : ~Over(i, j, x)
  BY <1>1, LoopFacts DEF Over
<1>5. TimedSoFar /\ Recorded
  BY <1>2, <1>4 DEF TimedSoFar, Recorded
<1>6. BestSoFar /\ OneSize /\ Written
  BY <1>1, <1>2 DEF BestSoFar, OneSize, Written
<1> QED BY <1>3, <1>5, <1>6 DEF TablesIInv

\* The steps between two structures, which measure nothing.
LEMMA TablesQuiet ==
  ASSUME TablesIInv, Generate \/ GenerateFails \/ Write \/ Build \/ Stay \/ UNCHANGED vars
  PROVE  TablesIInv'
<1> USE DEF TablesIInv, measures, output
<1>1. UNCHANGED <<setup, timed, results>>
  BY DEF Generate, GenerateFails, Write, Build, Stay, vars
<1>2. Graphs' = Graphs /\ Builders' = Builders /\ Points' = Points /\ Timings' = Timings
  BY <1>1 DEF Graphs, Builders, Points, Timings
<1>3. Loops'
  BY <1>1, <1>2, LoopFacts DEF Loops, Generate, GenerateFails, Write, Build, Stay, vars
<1>4. SamePoints
  <2> SUFFICES ASSUME NEW i \in DOMAIN Graphs, NEW j \in DOMAIN Builders, NEW x \in DOMAIN Points
               PROVE  /\ Over(i, j, x)' <=> Over(i, j, x)
                      /\ Timing(i, j, x)' <=> Timing(i, j, x)
                      /\ Over(i, j, x)' /\ i = g' /\ j = b' /\ phase' = "point"
                           => i = g /\ j = b /\ phase = "point"
    BY DEF SamePoints
  <2>1. i \in Nat /\ j \in Nat /\ x \in Nat /\ i >= 1 /\ j >= 1 /\ x >= 1 /\ g \in Nat /\ b \in Nat
    BY LoopFacts DEF Loops
  <2>2. CASE Generate
    BY <2>1, <2>2 DEF Generate, Over, Timing
  <2>3. CASE GenerateFails \/ Write
    BY <2>3 DEF GenerateFails, Write, Over, Timing
  <2>4. CASE Build
    BY <2>1, <2>4 DEF Build, Over, Timing
  <2>5. CASE Stay \/ UNCHANGED vars
    BY <2>5 DEF Stay, vars, Over, Timing
  <2> QED BY <2>2, <2>3, <2>4, <2>5
<1>5. TimedSoFar' /\ Recorded'
  BY <1>1, <1>4, TimedSame
<1>6. BestSoFar'
  <2>1. CASE Stay \/ UNCHANGED vars
    BY <1>2, <2>1 DEF BestSoFar, Stay, vars
  <2>2. CASE Build
    BY <2>2 DEF BestSoFar, Build
  <2>3. CASE Generate \/ GenerateFails \/ Write
    BY <2>3 DEF BestSoFar, Generate, GenerateFails, Write
  <2> QED BY <2>1, <2>2, <2>3
<1>7. OneSize'
  <2>1. CASE Build
    <3>1. \A r \in Range(results) : ~(Graph(r) = Graphs[g] /\ r.structure = Builders[b].name)
      <4> SUFFICES ASSUME NEW r \in Range(results), Graph(r) = Graphs[g],
                          r.structure = Builders[b].name
                   PROVE  FALSE
        OBVIOUS
      <4>1. PICK i \in DOMAIN Graphs, j \in DOMAIN Builders, x \in DOMAIN Points :
              Over(i, j, x) /\ Shows(r, i, j, x)
        BY DEF Recorded
      <4>2. g \in DOMAIN Graphs /\ b \in DOMAIN Builders /\ phase = "structure"
        BY <2>1, LoopFacts DEF Build, Loops
      <4>3. i = g
        BY <4>1, <4>2, SetupFacts DEF Shows, IsInjective, Loops
      <4>4. j = b
        BY <4>1, <4>2, SetupFacts DEF Shows, Loops
      <4> QED BY <4>1, <4>2, <4>3, <4>4 DEF Over, Loops
    <3> QED BY <1>1, <1>2, <2>1, <3>1 DEF OneSize, Build
  <2>2. CASE Generate \/ GenerateFails \/ Write
    BY <1>1, <2>2 DEF OneSize, Generate, GenerateFails, Write
  <2>3. CASE Stay \/ UNCHANGED vars
    BY <1>1, <1>2, <2>3 DEF OneSize, Stay, vars
  <2> QED BY <2>1, <2>2, <2>3
<1>8. Written'
  <2>1. CASE Write
    BY <2>1 DEF Written, Write
  <2>2. CASE Generate \/ GenerateFails \/ Build
    BY <2>2 DEF Written, Generate, GenerateFails, Build
  <2>3. CASE Stay \/ UNCHANGED vars
    BY <2>3 DEF Written, Stay, vars
  <2> QED BY <2>1, <2>2, <2>3
<1> QED BY <1>3, <1>5, <1>6, <1>7, <1>8

\* The steps to the next structure and to the next graph: all the points were measured.
LEMMA TablesOn ==
  ASSUME TablesIInv, NextStructure \/ NextGraph
  PROVE  TablesIInv'
<1> USE DEF TablesIInv, measures, output
<1>1. /\ UNCHANGED <<setup, timed, results>> /\ phase' \in {"structure", "graph"}
      /\ phase \in {"structure", "point"} /\ g \in Nat /\ b \in Nat
  BY DEF NextStructure, NextGraph, Loops
<1>2. Graphs' = Graphs /\ Builders' = Builders /\ Points' = Points /\ Timings' = Timings
  BY <1>1 DEF Graphs, Builders, Points, Timings
<1>3. Loops'
  BY <1>1, <1>2, LoopFacts DEF Loops, NextStructure, NextGraph
<1>4. SamePoints
  <2> SUFFICES ASSUME NEW i \in DOMAIN Graphs, NEW j \in DOMAIN Builders, NEW x \in DOMAIN Points
               PROVE  (Over(i, j, x)' <=> Over(i, j, x)) /\ (Timing(i, j, x)' <=> Timing(i, j, x))
    BY <1>1 DEF SamePoints
  <2>1. i \in Nat /\ j \in Nat /\ x \in Nat /\ j <= Len(Builders) /\ x <= Len(Points)
        /\ Len(Builders) \in Nat /\ Len(Points) \in Nat /\ p \in Nat
    BY LoopFacts DEF Loops
  <2>2. CASE NextStructure
    BY <1>1, <2>1, <2>2 DEF NextStructure, Over, Timing
  <2>3. CASE NextGraph
    BY <1>1, <2>1, <2>3 DEF NextGraph, Over, Timing
  <2> QED BY <2>2, <2>3
<1>5. TimedSoFar' /\ Recorded'
  BY <1>1, <1>4, TimedSame
<1>6. BestSoFar' /\ OneSize' /\ Written'
  BY <1>1 DEF BestSoFar, OneSize, Written
<1> QED BY <1>3, <1>5, <1>6

\* A structure that is left out has no timed pass.
LEMMA TablesSkip == TablesIInv /\ Skip => TablesIInv'
<1> SUFFICES ASSUME TablesIInv, Skip PROVE TablesIInv'
  OBVIOUS
<1> USE DEF TablesIInv, measures, output
<1>1. /\ UNCHANGED <<setup, phase, g, p, pass, timed, results, report, verdict>> /\ b' = b + 1
      /\ phase = "structure" /\ g \in Nat /\ b \in Nat /\ b <= Len(Builders)
      /\ TooLarge(g, b) \/ Builders[b].mayFail
  BY DEF Skip, Loops
<1>2. /\ Graphs' = Graphs /\ Builders' = Builders /\ Points' = Points /\ Timings' = Timings
      /\ \A i, j : TooLarge(i, j)' <=> TooLarge(i, j)
      /\ \A r, i, j, x : Shows(r, i, j, x)' <=> Shows(r, i, j, x)
  BY <1>1 DEF Graphs, Builders, Points, Timings, TooLarge, Shows
<1>3. Loops'
  BY <1>1, <1>2, LoopFacts DEF Loops
<1>4. ASSUME NEW i \in DOMAIN Graphs, NEW j \in DOMAIN Builders, NEW x \in DOMAIN Points
      PROVE  /\ Over(i, j, x)' <=> Over(i, j, x) \/ (i = g /\ j = b)
             /\ ~Timing(i, j, x) /\ ~Timing(i, j, x)'
  <2>1. i \in Nat /\ j \in Nat /\ x \in Nat
    BY LoopFacts DEF Loops
  <2> QED BY <1>1, <2>1 DEF Over, Timing
<1>5. \A x \in DOMAIN Points : <<g, b, x>> \notin DOMAIN timed
  <2> SUFFICES ASSUME NEW x \in DOMAIN Points, <<g, b, x>> \in DOMAIN timed PROVE FALSE
    OBVIOUS
  <2>1. g \in DOMAIN Graphs /\ b \in DOMAIN Builders
    BY <1>1, LoopFacts DEF Loops
  <2>2. Over(g, b, x)
    <3>1. PICK i \in DOMAIN Graphs, j \in DOMAIN Builders, z \in DOMAIN Points :
            <<g, b, x>> = <<i, j, z>> /\ (Over(i, j, z) \/ Timing(i, j, z))
      BY DEF TimedSoFar
    <3> QED BY <1>4, <3>1
  <2> QED BY <1>1, <2>2 DEF Over
<1>6. TimedSoFar'
  <2>1. ASSUME NEW y \in DOMAIN timed'
        PROVE  /\ timed'[y] \in Seq(setup'.walls) /\ timed'[y] # <<>>
               /\ \E i \in DOMAIN Graphs', j \in DOMAIN Builders', x \in DOMAIN Points' :
                    y = <<i, j, x>> /\ (Over(i, j, x)' \/ Timing(i, j, x)')
    BY <1>1, <1>2, <1>4 DEF TimedSoFar
  <2>2. ASSUME NEW i \in DOMAIN Graphs', NEW j \in DOMAIN Builders', NEW x \in DOMAIN Points',
               Over(i, j, x)'
        PROVE  IF <<i, j, x>> \in DOMAIN timed' THEN Len(timed'[<<i, j, x>>]) = Timings'
               ELSE /\ Builders'[j].mayFail \/ TooLarge(i, j)'
                    /\ i = g' /\ j = b' => phase' # "point"
                    /\ \A z \in DOMAIN Points' : <<i, j, z>> \notin DOMAIN timed'
    <3>1. CASE Over(i, j, x)
      BY <1>1, <1>2, <2>2, <3>1 DEF TimedSoFar
    <3>2. CASE i = g /\ j = b
      BY <1>1, <1>2, <1>5, <3>2
    <3> QED BY <1>2, <1>4, <2>2, <3>1, <3>2
  <2> QED BY <2>1, <2>2 DEF TimedSoFar
<1>7. Recorded'
  <2>1. ASSUME NEW r \in Range(results')
        PROVE  \E i \in DOMAIN Graphs', j \in DOMAIN Builders', x \in DOMAIN Points' :
                 Over(i, j, x)' /\ <<i, j, x>> \in DOMAIN timed' /\ Shows(r, i, j, x)'
    BY <1>1, <1>2, <1>4 DEF Recorded
  <2>2. ASSUME NEW i \in DOMAIN Graphs', NEW j \in DOMAIN Builders', NEW x \in DOMAIN Points',
               Over(i, j, x)', <<i, j, x>> \in DOMAIN timed'
        PROVE  \E r \in Range(results') : Shows(r, i, j, x)'
    <3>1. Over(i, j, x)
      BY <1>1, <1>2, <1>4, <1>5, <2>2
    <3> QED BY <1>1, <1>2, <2>2, <3>1 DEF Recorded
  <2>3. results' \in Seq(Range(results'))
    BY <1>1 DEF Recorded
  <2> QED BY <2>1, <2>2, <2>3 DEF Recorded
<1>8. BestSoFar' /\ OneSize' /\ Written'
  BY <1>1 DEF BestSoFar, OneSize, Written
<1> QED BY <1>3, <1>6, <1>7, <1>8

\* The shortest duration, with one more.
LEMMA ShortestAppended ==
  ASSUME NEW W, W \subseteq Nat, NEW q \in Seq(W), q # <<>>, NEW w \in W
  PROVE  /\ Append(q, w) \in Seq(W) /\ Append(q, w) # <<>> /\ Len(Append(q, w)) = Len(q) + 1
         /\ Min(Range(Append(q, w))) = IF w < Min(Range(q)) THEN w ELSE Min(Range(q))
<1>1. Len(q) \in Nat /\ DOMAIN q = 1 .. Len(q) /\ Len(q) # 0
  OBVIOUS
<1>2. /\ Append(q, w) \in Seq(W) /\ Len(Append(q, w)) = Len(q) + 1
  OBVIOUS
<1>3. Append(q, w) # <<>>
  BY <1>1, <1>2
<1>4. q \in Seq(Range(q)) /\ Range(q) \subseteq Nat /\ Range(q) # {}
  <2>1. \A j \in 1 .. Len(q) : q[j] \in Range(q) /\ q[j] \in W
    BY <1>1 DEF Range
  <2>2. q \in [1 .. Len(q) -> Range(q)]
    BY <1>1, <2>1
  <2>3. Range(q) \subseteq Nat
    BY <1>1, <2>1 DEF Range
  <2>4. 1 \in 1 .. Len(q)
    BY <1>1
  <2> QED BY <1>1, <2>1, <2>2, <2>3, <2>4
<1>5. Range(Append(q, w)) = Range(q) \cup {w}
  BY <1>4, AppendRange
<1>6. Min(Range(q)) \in Range(q) /\ \A y \in Range(q) : Min(Range(q)) <= y
  <2>1. IsFiniteSet(Range(q))
    BY <1>4, ListFinite
  <2>2. Range(q) \subseteq Int
    BY <1>4
  <2> QED BY <1>4, <2>1, <2>2, Extremes
<1>7. PICK l, S : l = Min(Range(q)) /\ S = Range(q) \cup {w}
  OBVIOUS
<1>8. /\ S \subseteq Int /\ l \in Nat /\ w \in Nat /\ l \in S /\ w \in S
      /\ \A y \in S : y = w \/ (l <= y /\ y \in Nat)
  BY <1>4, <1>6, <1>7
<1>9. Min(S) = IF w < l THEN w ELSE l
  <2>1. CASE w < l
    <3>1. \A y \in S : w <= y
      BY <1>8, <2>1
    <3> QED BY <1>8, <2>1, <3>1, MinIs
  <2>2. CASE ~(w < l)
    <3>1. \A y \in S : l <= y
      BY <1>8, <2>2
    <3> QED BY <1>8, <2>2, <3>1, MinIs
  <2> QED BY <2>1, <2>2
<1> QED BY <1>2, <1>3, <1>5, <1>7, <1>9

LEMMA OneDuration ==
  ASSUME NEW W, W \subseteq Nat, NEW w \in W
  PROVE  <<w>> \in Seq(W) /\ <<w>> # <<>> /\ Len(<<w>>) = 1 /\ Min(Range(<<w>>)) = w
<1>1. Range(<<w>>) = {w}
  BY DEF Range
<1>2. Min({w}) = w
  <2>1. {w} \subseteq Int /\ w \in {w} /\ \A y \in {w} : w <= y
    OBVIOUS
  <2> QED BY <2>1, MinIs
<1> QED BY <1>1, <1>2

LEMMA TablesPass == TablesIInv /\ Pass => TablesIInv'
<1> SUFFICES ASSUME TablesIInv, Pass PROVE TablesIInv'
  OBVIOUS
<1> USE DEF TablesIInv
<1>1. /\ UNCHANGED <<setup, phase, g, b, p, bytes, results>> /\ pass' = pass + 1
      /\ phase = "point" /\ p <= Len(Points) /\ (pass <= 1 \/ pass <= setup.runs)
      /\ g \in Nat /\ b \in Nat /\ p \in Nat /\ pass \in Nat
  BY DEF Pass, Loops
<1>2. /\ Graphs' = Graphs /\ Builders' = Builders /\ Points' = Points /\ Timings' = Timings
      /\ \A i, j : TooLarge(i, j)' <=> TooLarge(i, j)
      /\ \A i, j, x : Over(i, j, x)' <=> Over(i, j, x)
  BY <1>1 DEF Graphs, Builders, Points, Timings, TooLarge, Over
<1>3. Loops'
  <2>1. pass <= Timings
    BY <1>1, LoopFacts DEF Loops, Timings
  <2> QED BY <1>1, <1>2, <2>1, LoopFacts DEF Loops
<1>4. OneSize' /\ Written'
  BY <1>1, <1>2 DEF OneSize, Written
<1>5. PICK st \in Outcomes :
        /\ best' = (IF pass = 0 THEN None
                    ELSE IF pass = 1 \/ st.wall < best.wall THEN st ELSE best)
        /\ timed' = IF pass = 0 THEN timed ELSE Timed(st.wall)
  BY DEF Pass
<1>6. CASE pass = 0
  <2>1. \A i, j, x : ~Timing(i, j, x) /\ ~Timing(i, j, x)'
    BY <1>1, <1>6 DEF Timing
  <2>2. SamePoints
    BY <1>1, <1>2, <2>1 DEF SamePoints
  <2>3. TimedSoFar' /\ Recorded'
    BY <1>1, <1>5, <1>6, <2>2, TimedSame
  <2>4. BestSoFar'
    BY <1>1, <1>6 DEF BestSoFar
  <2> QED BY <1>3, <1>4, <2>3, <2>4
<1>7. CASE pass # 0
  <2>1. PICK c, w : c = <<g, b, p>> /\ w = st.wall
    OBVIOUS
  <2>2. w \in setup.walls /\ setup.walls \subseteq Nat
    BY <2>1, SetupFacts DEF Outcomes, Loops
  <2>3. g \in DOMAIN Graphs /\ b \in DOMAIN Builders /\ p \in DOMAIN Points
    BY <1>1, LoopFacts DEF Loops
  <2>4. /\ DOMAIN timed' = DOMAIN timed \cup {c}
        /\ \A y \in DOMAIN timed : y # c => timed'[y] = timed[y]
        /\ timed'[c] = IF c \in DOMAIN timed THEN Append(timed[c], w) ELSE <<w>>
    BY <1>5, <1>7, <2>1 DEF Timed
  <2>5. /\ ~Over(g, b, p)
        /\ \A i, j, x : Timing(i, j, x)' <=> i = g /\ j = b /\ x = p
        /\ \A i, j, x : Timing(i, j, x) => i = g /\ j = b /\ x = p
    BY <1>1, <1>7 DEF Over, Timing
  <2>6. /\ timed'[c] \in Seq(setup.walls) /\ timed'[c] # <<>> /\ Len(timed'[c]) = pass
        /\ best'.wall = Min(Range(timed'[c]))
    <3>1. CASE pass = 1
      <4>1. c \notin DOMAIN timed
        <5> SUFFICES ASSUME c \in DOMAIN timed PROVE FALSE
          OBVIOUS
        <5>1. PICK i \in DOMAIN Graphs, j \in DOMAIN Builders, x \in DOMAIN Points :
                c = <<i, j, x>> /\ (Over(i, j, x) \/ Timing(i, j, x))
          BY DEF TimedSoFar
        <5>2. ~Timing(i, j, x)
          BY <3>1 DEF Timing
        <5> QED BY <2>1, <2>5, <5>1, <5>2
      <4> QED BY <1>5, <2>1, <2>2, <2>4, <3>1, <4>1, OneDuration
    <3>2. CASE pass # 1
      <4>1. /\ c \in DOMAIN timed /\ Len(timed[c]) = pass - 1
            /\ best.wall = Min(Range(timed[c]))
            /\ timed[c] \in Seq(setup.walls) /\ timed[c] # <<>>
        BY <1>1, <1>7, <2>1, <3>2 DEF BestSoFar, TimedSoFar
      <4>2. best'.wall = IF w < Min(Range(timed[c])) THEN w ELSE Min(Range(timed[c]))
        BY <1>5, <1>7, <2>1, <3>2, <4>1
      <4>3. /\ timed'[c] \in Seq(setup.walls) /\ timed'[c] # <<>>
            /\ Len(timed'[c]) = Len(timed[c]) + 1
            /\ Min(Range(timed'[c])) = IF w < Min(Range(timed[c])) THEN w ELSE Min(Range(timed[c]))
        BY <2>2, <2>4, <4>1, ShortestAppended
      <4> QED BY <1>1, <4>1, <4>2, <4>3
    <3> QED BY <3>1, <3>2
  <2>7. BestSoFar'
    BY <1>1, <1>2, <2>1, <2>4, <2>6 DEF BestSoFar
  <2>8. ASSUME NEW i \in DOMAIN Graphs, NEW j \in DOMAIN Builders, NEW x \in DOMAIN Points,
               Over(i, j, x)
        PROVE  /\ <<i, j, x>> # c
               /\ <<i, j, x>> \in DOMAIN timed' <=> <<i, j, x>> \in DOMAIN timed
               /\ <<i, j, x>> \in DOMAIN timed => timed'[<<i, j, x>>] = timed[<<i, j, x>>]
               /\ \A r : <<i, j, x>> \in DOMAIN timed =>
                           (Shows(r, i, j, x)' <=> Shows(r, i, j, x))
    <3>1. <<i, j, x>> # c
      BY <2>1, <2>5, <2>8
    <3>2. /\ <<i, j, x>> \in DOMAIN timed' <=> <<i, j, x>> \in DOMAIN timed
          /\ <<i, j, x>> \in DOMAIN timed => timed'[<<i, j, x>>] = timed[<<i, j, x>>]
      BY <2>4, <3>1
    <3> QED BY <1>2, <3>1, <3>2 DEF Shows
  <2>9. TimedSoFar'
    <3>1. ASSUME NEW y \in DOMAIN timed'
          PROVE  /\ timed'[y] \in Seq(setup'.walls) /\ timed'[y] # <<>>
                 /\ \E i \in DOMAIN Graphs', j \in DOMAIN Builders', x \in DOMAIN Points' :
                      y = <<i, j, x>> /\ (Over(i, j, x)' \/ Timing(i, j, x)')
      <4>1. CASE y = c
        BY <1>1, <1>2, <2>1, <2>3, <2>5, <2>6, <4>1
      <4>2. CASE y # c
        <5>1. y \in DOMAIN timed /\ timed'[y] = timed[y]
          BY <2>4, <4>2
        <5>2. PICK i \in DOMAIN Graphs, j \in DOMAIN Builders, x \in DOMAIN Points :
                y = <<i, j, x>> /\ (Over(i, j, x) \/ Timing(i, j, x))
          BY <5>1 DEF TimedSoFar
        <5> QED BY <1>1, <1>2, <2>5, <5>1, <5>2 DEF TimedSoFar
      <4> QED BY <4>1, <4>2
    <3>2. ASSUME NEW i \in DOMAIN Graphs', NEW j \in DOMAIN Builders', NEW x \in DOMAIN Points',
                 Over(i, j, x)'
          PROVE  IF <<i, j, x>> \in DOMAIN timed' THEN Len(timed'[<<i, j, x>>]) = Timings'
                 ELSE /\ Builders'[j].mayFail \/ TooLarge(i, j)'
                      /\ i = g' /\ j = b' => phase' # "point"
                      /\ \A z \in DOMAIN Points' : <<i, j, z>> \notin DOMAIN timed'
      <4>1. Over(i, j, x)
        BY <1>2, <3>2
      <4>2. CASE <<i, j, x>> \in DOMAIN timed
        BY <1>2, <2>8, <4>1, <4>2 DEF TimedSoFar
      <4>3. CASE <<i, j, x>> \notin DOMAIN timed
        <5>1. /\ Builders[j].mayFail \/ TooLarge(i, j)
              /\ i = g /\ j = b => phase # "point"
              /\ \A z \in DOMAIN Points : <<i, j, z>> \notin DOMAIN timed
          BY <1>2, <4>1, <4>3 DEF TimedSoFar
        <5>2. \A z \in DOMAIN Points : <<i, j, z>> # c
          BY <1>1, <2>1, <5>1
        <5>3. \A z \in DOMAIN Points : <<i, j, z>> \notin DOMAIN timed'
          BY <2>4, <5>1, <5>2
        <5> QED BY <1>1, <1>2, <5>1, <5>3
      <4> QED BY <4>2, <4>3
    <3> QED BY <3>1, <3>2 DEF TimedSoFar
  <2>10. Recorded'
    <3>1. ASSUME NEW r \in Range(results')
          PROVE  \E i \in DOMAIN Graphs', j \in DOMAIN Builders', x \in DOMAIN Points' :
                   Over(i, j, x)' /\ <<i, j, x>> \in DOMAIN timed' /\ Shows(r, i, j, x)'
      <4>1. PICK i \in DOMAIN Graphs, j \in DOMAIN Builders, x \in DOMAIN Points :
              Over(i, j, x) /\ <<i, j, x>> \in DOMAIN timed /\ Shows(r, i, j, x)
        BY <1>1 DEF Recorded
      <4> QED BY <1>2, <2>8, <4>1
    <3>2. ASSUME NEW i \in DOMAIN Graphs', NEW j \in DOMAIN Builders', NEW x \in DOMAIN Points',
                 Over(i, j, x)', <<i, j, x>> \in DOMAIN timed'
          PROVE  \E r \in Range(results') : Shows(r, i, j, x)'
      <4>1. Over(i, j, x)
        BY <1>2, <3>2
      <4>2. <<i, j, x>> \in DOMAIN timed
        BY <1>2, <2>8, <3>2, <4>1
      <4>3. PICK r \in Range(results) : Shows(r, i, j, x)
        BY <1>2, <4>1, <4>2 DEF Recorded
      <4> QED BY <1>1, <1>2, <2>8, <4>1, <4>2, <4>3
    <3>3. results' \in Seq(Range(results'))
      BY <1>1 DEF Recorded
    <3> QED BY <3>1, <3>2, <3>3 DEF Recorded
  <2> QED BY <1>3, <1>4, <2>7, <2>9, <2>10
<1> QED BY <1>6, <1>7

LEMMA TablesRecord == TablesIInv /\ Record => TablesIInv'
<1> SUFFICES ASSUME TablesIInv, Record PROVE TablesIInv'
  OBVIOUS
<1> USE DEF TablesIInv
<1>1. /\ UNCHANGED <<setup, phase, g, b, timed, bytes>> /\ pass' = 0 /\ p' = p + 1
      /\ results' = Append(results, Result)
      /\ phase = "point" /\ p <= Len(Points) /\ pass > 1 /\ pass > setup.runs
      /\ g \in Nat /\ b \in Nat /\ p \in Nat /\ pass \in Nat
  <2>1. setup.runs \in Nat
    BY LoopFacts DEF Loops
  <2> QED BY <2>1 DEF Record, Measured, Loops, measures
<1>2. /\ Graphs' = Graphs /\ Builders' = Builders /\ Points' = Points /\ Timings' = Timings
      /\ \A i, j : TooLarge(i, j)' <=> TooLarge(i, j)
      /\ \A r, i, j, x : Shows(r, i, j, x)' <=> Shows(r, i, j, x)
  BY <1>1 DEF Graphs, Builders, Points, Timings, TooLarge, Shows
<1>3. g \in DOMAIN Graphs /\ b \in DOMAIN Builders /\ p \in DOMAIN Points
  BY <1>1, LoopFacts DEF Loops
<1>4. Loops'
  BY <1>1, <1>2, LoopFacts DEF Loops
<1>5. PICK new : new = Result
  OBVIOUS
<1>6. /\ results' \in Seq(Range(results')) /\ Range(results') = Range(results) \cup {new}
  BY <1>1, <1>5, AppendRange DEF Recorded
<1>7. <<g, b, p>> \in DOMAIN timed /\ Len(timed[<<g, b, p>>]) = Timings /\ Shows(new, g, b, p)
  <2>1. <<g, b, p>> \in DOMAIN timed /\ Len(timed[<<g, b, p>>]) = pass - 1
        /\ best.wall = Min(Range(timed[<<g, b, p>>]))
    BY <1>1 DEF BestSoFar
  <2>2. pass - 1 = Timings
    BY <1>1, LoopFacts DEF Loops, Timings
  <2>3. bytes \in Nat
    <3>1. bytes \in setup.sizes
      BY <1>1 DEF Loops
    <3>2. setup.sizes \subseteq Nat
      BY SetupFacts DEF Loops
    <3> QED BY <3>1, <3>2
  <2>4. Graph(new) = Graphs[g]
    <3>1. Graphs[g] \in [kind : STRING, n : Nat, m : Nat]
      <4>1. Graphs \in Seq([kind : STRING, n : Nat, m : Nat])
        BY SetupFacts DEF Loops
      <4> QED BY <1>3, <4>1, ElementOf
    <3>2. Graph(new) = [kind |-> Graphs[g].kind, n |-> Graphs[g].n, m |-> Graphs[g].m]
      BY <1>5 DEF Result, Graph
    <3> QED BY <3>1, <3>2
  <2>5. /\ new.structure = Builders[b].name /\ new.workload = Points[p].workload
        /\ new.queries = Points[p].queries /\ new.threads = Points[p].threads
        /\ new.rate = Throughput(Points[p].queries, best.wall) /\ new.bytes = bytes
    BY <1>5 DEF Result
  <2> QED BY <2>1, <2>2, <2>3, <2>4, <2>5 DEF Shows
<1>8. ASSUME NEW i \in DOMAIN Graphs, NEW j \in DOMAIN Builders, NEW x \in DOMAIN Points
      PROVE  /\ Over(i, j, x)' <=> Over(i, j, x) \/ (i = g /\ j = b /\ x = p)
             /\ Timing(i, j, x) => i = g /\ j = b /\ x = p
  <2>1. i \in Nat /\ j \in Nat /\ x \in Nat
    BY LoopFacts DEF Loops
  <2> QED BY <1>1, <2>1 DEF Over, Timing
<1>9. TimedSoFar'
  <2>1. ASSUME NEW y \in DOMAIN timed'
        PROVE  /\ timed'[y] \in Seq(setup'.walls) /\ timed'[y] # <<>>
               /\ \E i \in DOMAIN Graphs', j \in DOMAIN Builders', x \in DOMAIN Points' :
                    y = <<i, j, x>> /\ (Over(i, j, x)' \/ Timing(i, j, x)')
    BY <1>1, <1>2, <1>8 DEF TimedSoFar
  <2>2. ASSUME NEW i \in DOMAIN Graphs', NEW j \in DOMAIN Builders', NEW x \in DOMAIN Points',
               Over(i, j, x)'
        PROVE  IF <<i, j, x>> \in DOMAIN timed' THEN Len(timed'[<<i, j, x>>]) = Timings'
               ELSE /\ Builders'[j].mayFail \/ TooLarge(i, j)'
                    /\ i = g' /\ j = b' => phase' # "point"
                    /\ \A z \in DOMAIN Points' : <<i, j, z>> \notin DOMAIN timed'
    <3>1. CASE Over(i, j, x)
      BY <1>1, <1>2, <2>2, <3>1 DEF TimedSoFar
    <3>2. CASE i = g /\ j = b /\ x = p
      BY <1>1, <1>2, <1>7, <3>2
    <3> QED BY <1>2, <1>8, <2>2, <3>1, <3>2
  <2> QED BY <2>1, <2>2 DEF TimedSoFar
<1>10. Recorded'
  <2>1. ASSUME NEW r \in Range(results')
        PROVE  \E i \in DOMAIN Graphs', j \in DOMAIN Builders', x \in DOMAIN Points' :
                 Over(i, j, x)' /\ <<i, j, x>> \in DOMAIN timed' /\ Shows(r, i, j, x)'
    <3>1. CASE r \in Range(results)
      <4>1. PICK i \in DOMAIN Graphs, j \in DOMAIN Builders, x \in DOMAIN Points :
              Over(i, j, x) /\ <<i, j, x>> \in DOMAIN timed /\ Shows(r, i, j, x)
        BY <3>1 DEF Recorded
      <4> QED BY <1>1, <1>2, <1>8, <4>1
    <3>2. CASE r = new
      BY <1>1, <1>2, <1>3, <1>7, <1>8, <3>2
    <3> QED BY <1>6, <3>1, <3>2
  <2>2. ASSUME NEW i \in DOMAIN Graphs', NEW j \in DOMAIN Builders', NEW x \in DOMAIN Points',
               Over(i, j, x)', <<i, j, x>> \in DOMAIN timed'
        PROVE  \E r \in Range(results') : Shows(r, i, j, x)'
    <3>1. CASE Over(i, j, x)
      <4>1. PICK r \in Range(results) : Shows(r, i, j, x)
        BY <1>1, <1>2, <2>2, <3>1 DEF Recorded
      <4> QED BY <1>2, <1>6, <4>1
    <3>2. CASE i = g /\ j = b /\ x = p
      BY <1>2, <1>6, <1>7, <3>2
    <3> QED BY <1>2, <1>8, <2>2, <3>1, <3>2
  <2> QED BY <1>6, <2>1, <2>2 DEF Recorded
<1>11. OneSize'
  <2>1. Graph(new) = Graphs[g] /\ new.structure = Builders[b].name /\ new.bytes = bytes
    BY <1>5, <1>7 DEF Shows, Result
  <2>2. \A r \in Range(results) :
          Graph(r) = Graphs[g] /\ r.structure = Builders[b].name => r.bytes = bytes
    BY <1>1 DEF OneSize
  <2> QED BY <1>1, <1>2, <1>6, <2>1, <2>2 DEF OneSize
<1>12. BestSoFar' /\ Written'
  BY <1>1 DEF BestSoFar, Written
<1> QED BY <1>4, <1>9, <1>10, <1>11, <1>12

LEMMA TablesNext == TablesIInv /\ [Next]_vars => TablesIInv'
BY TablesQuiet, TablesOn, TablesSkip, TablesPass, TablesRecord DEF Next

LEMMA TablesInvariant == Spec => []TablesIInv
BY TablesInit, TablesNext, PTL DEF Spec

-----------------------------------------------------------------------------
(* The tables, as functions of the measures. *)

\* The measures of a group, by their positions.
LEMMA GroupFacts ==
  ASSUME NEW ms, ms \in Seq(Range(ms)), NEW gk, NEW sub, sub = Group(ms, gk)
  PROVE  /\ DOMAIN sub \subseteq DOMAIN ms /\ IsFiniteSet(DOMAIN sub) /\ DOMAIN sub \subseteq Nat
         /\ \A k \in DOMAIN sub : sub[k] = ms[k]
         /\ Range(sub) = {r \in Range(ms) : Graph(r) = gk}
<1>1. IsFiniteSet(DOMAIN ms) /\ DOMAIN ms \subseteq Nat
  BY ListFinite
<1>2. /\ DOMAIN sub = {k \in DOMAIN ms : Graph(ms[k]) = gk}
      /\ \A k \in DOMAIN sub : sub[k] = ms[k]
  BY DEF Group, Restrict
<1>3. IsFiniteSet(DOMAIN sub)
  BY <1>1, <1>2, FS_Subset
<1>4. Range(sub) = {r \in Range(ms) : Graph(r) = gk}
  BY <1>2, Zenon DEF Range
<1> QED BY <1>1, <1>2, <1>3, <1>4

\* A cell is a measure that has its key, if there is one.
LEMMA IndexFacts ==
  ASSUME NEW sub, IsFiniteSet(DOMAIN sub), DOMAIN sub \subseteq Nat, NEW r \in Range(sub)
  PROVE  /\ key(r) \in DOMAIN Index(sub)
         /\ Index(sub)[key(r)] \in Range(sub) /\ key(Index(sub)[key(r)]) = key(r)
<1>1. PICK k : k = key(r)
  OBVIOUS
<1>2. PICK S : S = {i \in DOMAIN sub : key(sub[i]) = k}
  OBVIOUS
<1>3. IsFiniteSet(S) /\ S \subseteq Int /\ S # {}
  <2>1. S # {}
    BY <1>1, <1>2 DEF Range
  <2> QED BY <1>2, <2>1, FS_Subset
<1>4. \E i \in S : \A j \in S : i >= j
  BY <1>3, FiniteExtremes
<1>5. \E i \in DOMAIN sub : key(sub[i]) = k /\ \A j \in DOMAIN sub : key(sub[j]) = k => j <= i
  <2>1. PICK i \in S : \A j \in S : i >= j
    BY <1>4
  <2>2. \A j \in S : j <= i
    BY <1>3, <2>1
  <2> QED BY <1>2, <2>1, <2>2
<1>6. PICK i \in DOMAIN sub :
        /\ key(sub[i]) = k
        /\ i = CHOOSE i1 \in DOMAIN sub :
                 key(sub[i1]) = k /\ \A j \in DOMAIN sub : key(sub[j]) = k => j <= i1
  BY <1>5
<1>7. k \in {key(sub[j]) : j \in DOMAIN sub}
  BY <1>6
<1>8. k \in DOMAIN Index(sub) /\ Index(sub)[k] = sub[i]
  BY <1>6, <1>7 DEF Index
<1>9. sub[i] \in Range(sub)
  BY DEF Range
<1> QED BY <1>1, <1>6, <1>8, <1>9

\* The measures of a graph have one key each: a cell is the measure of its key.
LEMMA CellFacts ==
  ASSUME NEW sub, IsFiniteSet(DOMAIN sub), DOMAIN sub \subseteq Nat, NEW r \in Range(sub),
         NEW cell, cell = CellOf(Index(sub), r.structure, r.workload, r.threads, r.queries)
  PROVE  /\ cell \in Range(sub)
         /\ cell.structure = r.structure /\ cell.workload = r.workload
         /\ cell.threads = r.threads /\ cell.queries = r.queries
<1>1. key([structure |-> r.structure, workload |-> r.workload, threads |-> r.threads,
           queries |-> r.queries]) = key(r)
  BY DEF key
<1>2. cell = Index(sub)[key(r)]
  BY <1>1, IndexFacts DEF CellOf
<1>3. cell \in Range(sub) /\ key(cell) = key(r)
  BY <1>2, IndexFacts
<1> QED BY <1>3 DEF key

LEMMA Axes ==
  ASSUME NEW sub, NEW r \in Range(sub)
  PROVE  /\ r.structure \in Of(sub, "structure") /\ r.workload \in Of(sub, "workload")
         /\ r.queries \in Of(sub, "queries") /\ r.threads \in Of(sub, "threads")
BY DEF Of

\* At the end every point is left behind.
LEMMA AllOver ==
  ASSUME TablesIInv, phase = "write"
  PROVE  /\ \A i \in DOMAIN Graphs, j \in DOMAIN Builders, x \in DOMAIN Points : Over(i, j, x)
         /\ report = WriteReport(results) /\ verdict = writeVerdict(results)
         /\ results \in Seq(Range(results))
<1>1. ASSUME NEW i \in DOMAIN Graphs
      PROVE  i < g
  BY LoopFacts DEF TablesIInv, Loops
<1> QED BY <1>1 DEF TablesIInv, Written, Over, Recorded

\* A measure shows one point, and all the measures that show it have one rate.
LEMMA OnePoint ==
  ASSUME setup \in Setups, NEW r, NEW s,
         NEW i \in DOMAIN Graphs, NEW j \in DOMAIN Builders, NEW x \in DOMAIN Points,
         NEW k \in DOMAIN Graphs, NEW l \in DOMAIN Builders, NEW y \in DOMAIN Points,
         Shows(r, i, j, x), Shows(s, k, l, y)
  PROVE  /\ Graph(r) = Graph(s) => i = k
         /\ r.structure = s.structure => j = l
         /\ (r.workload = s.workload /\ r.queries = s.queries /\ r.threads = s.threads => x = y)
         /\ (i = k /\ j = l /\ x = y => r.rate = s.rate)
<1>1. ASSUME Graph(r) = Graph(s)
      PROVE  i = k
  <2>1. Graphs[i] = Graphs[k]
    BY <1>1 DEF Shows
  <2>2. IsInjective(Graphs)
    BY SetupFacts
  <2> QED BY <2>1, <2>2 DEF IsInjective
<1>2. r.structure = s.structure => j = l
  BY SetupFacts DEF Shows
<1>3. ASSUME r.workload = s.workload, r.queries = s.queries, r.threads = s.threads
      PROVE  x = y
  <2>1. Points \in Seq([workload : STRING, queries : Nat, threads : Int])
    BY SetupFacts
  <2>2. /\ Points[x] \in [workload : STRING, queries : Nat, threads : Int]
        /\ Points[y] \in [workload : STRING, queries : Nat, threads : Int]
    BY <2>1, ElementOf
  <2>3. /\ Points[x].workload = Points[y].workload /\ Points[x].queries = Points[y].queries
        /\ Points[x].threads = Points[y].threads
    BY <1>3 DEF Shows
  <2>4. Points[x] = Points[y]
    BY <2>2, <2>3
  <2>5. IsInjective(Points)
    BY SetupFacts
  <2> QED BY <2>4, <2>5 DEF IsInjective
<1>4. i = k /\ j = l /\ x = y => r.rate = s.rate
  BY DEF Shows
<1> QED BY <1>1, <1>2, <1>3, <1>4

\* The row of a measure.
LEMMA RowFacts ==
  ASSUME TablesIInv, phase = "write", NEW r \in Range(results),
         NEW sub, sub = Group(results, Graph(r))
  PROVE  /\ RowOf(r) = ThroughputRow(sub, Index(sub), r.structure, r.workload)
         /\ report[Graph(r)].memory = writeMemoryTable(sub)
         /\ IsFiniteSet(DOMAIN sub) /\ DOMAIN sub \subseteq Nat /\ r \in Range(sub)
         /\ Range(sub) = {s \in Range(results) : Graph(s) = Graph(r)}
<1>1. /\ IsFiniteSet(DOMAIN sub) /\ DOMAIN sub \subseteq Nat
      /\ Range(sub) = {s \in Range(results) : Graph(s) = Graph(r)}
  BY AllOver, GroupFacts
<1>2. r \in Range(sub)
  BY <1>1
<1>3. report[Graph(r)] = [memory |-> writeMemoryTable(sub), throughput |-> writeThroughputTables(sub)]
  <2>1. Graph(r) \in groupKeys(results)
    BY DEF groupKeys
  <2> QED BY <2>1, AllOver DEF WriteReport
<1>4. RowOf(r) = ThroughputRow(sub, Index(sub), r.structure, r.workload)
  <2>1. r.structure \in Of(sub, "structure") /\ r.workload \in Of(sub, "workload")
    BY <1>2, Axes
  <2>2. RowOf(r) = writeThroughputTables(sub)[r.workload][r.structure]
    BY <1>3 DEF RowOf
  <2> QED BY <2>1, <2>2 DEF writeThroughputTables
<1> QED BY <1>1, <1>2, <1>3, <1>4

\* A cell of the row of r is a measure of the point that it stands for.
LEMMA CellShown ==
  ASSUME TablesIInv, phase = "write", NEW r \in Range(results),
         NEW sub, sub = Group(results, Graph(r)),
         NEW s \in Range(sub), s.structure = r.structure
  PROVE  CellOf(Index(sub), r.structure, s.workload, s.threads, s.queries).rate = s.rate
<1>1. PICK cell : cell = CellOf(Index(sub), s.structure, s.workload, s.threads, s.queries)
  OBVIOUS
<1>2. /\ IsFiniteSet(DOMAIN sub) /\ DOMAIN sub \subseteq Nat
      /\ Range(sub) = {t \in Range(results) : Graph(t) = Graph(r)}
  BY RowFacts
<1>3. /\ cell \in Range(sub) /\ cell.structure = s.structure /\ cell.workload = s.workload
      /\ cell.threads = s.threads /\ cell.queries = s.queries
  BY <1>1, <1>2, CellFacts
<1>4. s \in Range(results) /\ cell \in Range(results) /\ Graph(s) = Graph(cell)
  BY <1>2, <1>3
<1>5. PICK i \in DOMAIN Graphs, j \in DOMAIN Builders, x \in DOMAIN Points : Shows(s, i, j, x)
  BY <1>4 DEF TablesIInv, Recorded
<1>6. PICK k \in DOMAIN Graphs, l \in DOMAIN Builders, y \in DOMAIN Points : Shows(cell, k, l, y)
  BY <1>4 DEF TablesIInv, Recorded
<1>7. setup \in Setups
  BY DEF TablesIInv, Loops
<1>8. i = k /\ j = l /\ x = y
  BY <1>3, <1>4, <1>5, <1>6, <1>7, OnePoint
<1>9. cell.rate = s.rate
  BY <1>5, <1>6, <1>7, <1>8, OnePoint
<1> QED BY <1>1, <1>9

\* Each cell shows the fastest timed pass of its point, and the cells are those of all the
\* points that could be measured, for every product of graphs, structures and points, any
\* durations and any number of passes.
THEOREM MeasuresShown == Spec => []EveryMeasureShown
<1>1. TablesIInv => EveryMeasureShown
  <2> SUFFICES ASSUME TablesIInv, phase = "write",
                      NEW i \in DOMAIN Graphs, NEW j \in DOMAIN Builders, NEW x \in DOMAIN Points
               PROVE  IF <<i, j, x>> \in DOMAIN timed
                      THEN /\ Len(timed[<<i, j, x>>]) = (IF setup.runs < 1 THEN 1 ELSE setup.runs)
                           /\ report[Graphs[i]].throughput[Points[x].workload][Builders[j].name]
                                .cells[Points[x].queries][Points[x].threads].rate
                                = Throughput(Points[x].queries, Min(Range(timed[<<i, j, x>>])))
                      ELSE Builders[j].mayFail \/ TooLarge(i, j)
    BY DEF EveryMeasureShown
  <2>1. Over(i, j, x)
    BY AllOver
  <2>2. CASE <<i, j, x>> \notin DOMAIN timed
    BY <2>1, <2>2 DEF TablesIInv, TimedSoFar
  <2>3. CASE <<i, j, x>> \in DOMAIN timed
    <3>1. Len(timed[<<i, j, x>>]) = Timings
      BY <2>1, <2>3 DEF TablesIInv, TimedSoFar
    <3>2. PICK r \in Range(results) : Shows(r, i, j, x)
      BY <2>1, <2>3 DEF TablesIInv, Recorded
    <3>3. PICK sub : sub = Group(results, Graph(r))
      OBVIOUS
    <3>4. r \in Range(sub) /\ RowOf(r) = ThroughputRow(sub, Index(sub), r.structure, r.workload)
      BY <3>3, RowFacts
    <3>5. r.queries \in Of(sub, "queries") /\ r.threads \in Of(sub, "threads")
      BY <3>4, Axes
    <3>6. RowOf(r).cells[r.queries][r.threads]
            = CellOf(Index(sub), r.structure, r.workload, r.threads, r.queries)
      BY <3>4, <3>5 DEF ThroughputRow
    <3>7. RowOf(r).cells[r.queries][r.threads].rate = r.rate
      BY <3>3, <3>4, <3>6, CellShown
    <3>8. /\ Graph(r) = Graphs[i] /\ r.structure = Builders[j].name
          /\ r.workload = Points[x].workload /\ r.queries = Points[x].queries
          /\ r.threads = Points[x].threads
          /\ r.rate = Throughput(Points[x].queries, Min(Range(timed[<<i, j, x>>])))
      BY <3>2 DEF Shows
    <3> QED BY <2>3, <3>1, <3>7, <3>8 DEF RowOf, Timings
  <2> QED BY <2>2, <2>3
<1> QED BY <1>1, TablesInvariant, PTL

\* What a measure is made of.
LEMMA MeasureType ==
  ASSUME TablesIInv, NEW r \in Range(results)
  PROVE  r.rate \in Nat /\ r.bytes \in Nat /\ r.queries \in Nat /\ r.threads \in Int
<1>1. PICK i \in DOMAIN Graphs, j \in DOMAIN Builders, x \in DOMAIN Points :
        Shows(r, i, j, x) /\ <<i, j, x>> \in DOMAIN timed
  BY DEF TablesIInv, Recorded
<1>2. PICK q : q = timed[<<i, j, x>>]
  OBVIOUS
<1>3. q \in Seq(setup.walls) /\ q # <<>> /\ setup.walls \subseteq Nat
  <2>1. setup.walls \subseteq Nat
    BY SetupFacts DEF TablesIInv, Loops
  <2> QED BY <1>1, <1>2, <2>1 DEF TablesIInv, TimedSoFar
<1>4. Min(Range(q)) \in Nat
  <2>1. Len(q) \in Nat /\ DOMAIN q = 1 .. Len(q) /\ Len(q) # 0
    BY <1>3
  <2>2. \A l \in DOMAIN q : q[l] \in Nat /\ q[l] \in Range(q)
    BY <1>3, ElementOf DEF Range
  <2>3. Range(q) \subseteq Nat
    BY <2>2 DEF Range
  <2>4. Range(q) # {}
    <3>1. 1 \in DOMAIN q
      BY <2>1
    <3> QED BY <2>2, <3>1
  <2>5. \E w \in Range(q) : \A y \in Range(q) : w <= y
    BY <2>3, <2>4, LeastElement
  <2>6. Min(Range(q)) \in Range(q)
    BY <2>5 DEF Min
  <2> QED BY <2>3, <2>6
<1>5. Points[x] \in [workload : STRING, queries : Nat, threads : Int]
  <2>1. Points \in Seq([workload : STRING, queries : Nat, threads : Int])
    BY SetupFacts DEF TablesIInv, Loops
  <2> QED BY <2>1, ElementOf
<1>6. /\ r.rate = Throughput(Points[x].queries, Min(Range(q))) /\ r.bytes \in Nat
      /\ r.queries = Points[x].queries /\ r.threads = Points[x].threads
  BY <1>1, <1>2 DEF Shows
<1>7. \A c \in Nat, w \in Nat : Throughput(c, w) \in Nat
  BY DEF Throughput
<1> QED BY <1>4, <1>5, <1>6, <1>7

\* A finite set of positions has a first one with the largest value, and with the least.
LEMMA FirstOfEquals ==
  ASSUME NEW D, IsFiniteSet(D), D \subseteq Nat, D # {}, NEW v \in [D -> Nat],
         NEW of, \/ of = {i \in D : \A j \in D : v[j] <= v[i]}
                 \/ of = {i \in D : \A j \in D : v[i] <= v[j]}
  PROVE  Min(of) \in of
<1>1. PICK V : V = {v[i] : i \in D}
  OBVIOUS
<1>2. IsFiniteSet(V)
  BY <1>1, ImageFinite
<1>3. \A l \in D : v[l] \in V /\ v[l] \in Nat
  BY <1>1
<1>4. V \subseteq Int /\ V # {}
  <2>1. \A y \in V : y \in Int
    <3>1. \A y \in V : \E l \in D : y = v[l]
      BY <1>1
    <3> QED BY <1>3, <3>1
  <2> QED BY <1>3, <2>1
<1>5. of # {}
  <2>1. PICK a \in V : \A y \in V : a <= y
    BY <1>2, <1>4, FiniteExtremes
  <2>2. PICK c \in V : \A y \in V : c >= y
    BY <1>2, <1>4, FiniteExtremes
  <2>3. PICK i \in D : v[i] = a
    BY <1>1
  <2>4. PICK j \in D : v[j] = c
    BY <1>1
  <2>5. \A l \in D : v[i] <= v[l]
    BY <1>3, <2>1, <2>3
  <2>6. \A l \in D : v[l] <= v[j]
    BY <1>3, <2>2, <2>4
  <2> QED BY <2>5, <2>6
<1>6. of \subseteq Nat
  OBVIOUS
<1>7. \E x \in of : \A y \in of : x <= y
  BY <1>5, <1>6, LeastElement
<1> QED BY <1>7 DEF Min

LEMMA UnbeatenFacts ==
  ASSUME TablesIInv, phase = "write"
  PROVE  VerdictUnbeaten
<1> SUFFICES ASSUME NEW r \in Range(results)
             PROVE  /\ Load(r) \in DOMAIN verdict
                    /\ Load(verdict[Load(r)].fastest) = Load(r)
                    /\ Load(verdict[Load(r)].compact) = Load(r)
                    /\ verdict[Load(r)].fastest \in Range(results)
                    /\ verdict[Load(r)].compact \in Range(results)
                    /\ r.rate <= verdict[Load(r)].fastest.rate
                    /\ verdict[Load(r)].compact.bytes <= r.bytes
  BY DEF VerdictUnbeaten
<1>1. PICK k, D : k = Load(r) /\ D = {i \in DOMAIN results : Load(results[i]) = k}
  OBVIOUS
<1>2. PICK i \in D : results[i] = r
  BY <1>1 DEF Range
<1>3. IsFiniteSet(D) /\ D \subseteq Nat /\ D # {}
  <2>1. IsFiniteSet(DOMAIN results) /\ DOMAIN results \subseteq Nat
    BY AllOver, ListFinite
  <2> QED BY <1>1, <1>2, <2>1, FS_Subset
<1>4. \A j \in D : /\ results[j] \in Range(results) /\ Load(results[j]) = k
                   /\ results[j].rate \in Nat /\ results[j].bytes \in Nat
  <2>1. \A j \in D : results[j] \in Range(results)
    BY <1>1 DEF Range
  <2> QED BY <1>1, <2>1, MeasureType
<1>5. PICK hi, lo : /\ hi = {j \in D : \A l \in D : results[l].rate <= results[j].rate}
                    /\ lo = {j \in D : \A l \in D : results[j].bytes <= results[l].bytes}
  OBVIOUS
<1>6. Min(hi) \in hi
  <2> DEFINE v == [j \in D |-> results[j].rate]
  <2>1. v \in [D -> Nat]
    BY <1>4
  <2>2. hi = {j \in D : \A l \in D : v[l] <= v[j]}
    BY <1>5
  <2> HIDE DEF v
  <2> QED BY <1>3, <2>1, <2>2, FirstOfEquals
<1>7. Min(lo) \in lo
  <2> DEFINE v == [j \in D |-> results[j].bytes]
  <2>1. v \in [D -> Nat]
    BY <1>4
  <2>2. lo = {j \in D : \A l \in D : v[j] <= v[l]}
    BY <1>5
  <2> HIDE DEF v
  <2> QED BY <1>3, <2>1, <2>2, FirstOfEquals
<1>8. /\ k \in DOMAIN verdict
      /\ verdict[k] = [fastest |-> results[Min(hi)], compact |-> results[Min(lo)]]
  <2>1. verdict = writeVerdict(results)
    BY AllOver
  <2>2. k \in {Load(s) : s \in Range(results)}
    BY <1>1
  <2> QED BY <1>1, <1>5, <2>1, <2>2 DEF writeVerdict, VerdictKey
<1>9. results[i].rate <= results[Min(hi)].rate /\ results[Min(lo)].bytes <= results[i].bytes
      /\ Min(hi) \in D /\ Min(lo) \in D
  BY <1>5, <1>6, <1>7
<1> QED BY <1>1, <1>2, <1>4, <1>8, <1>9

\* All the measures of a structure on a graph have the size that its row shows.
LEMMA RatioFacts ==
  ASSUME TablesIInv, phase = "write"
  PROVE  RatiosToOwnCSR
<1> SUFFICES ASSUME NEW r \in Range(results), NEW c \in Range(results),
                    Graph(r) = Graph(c), c.structure = "csr"
             PROVE  report[Graph(r)].memory[r.structure].ratio
                      = IF c.bytes > 0 THEN <<r.bytes, c.bytes>> ELSE <<>>
  BY DEF RatiosToOwnCSR
<1>1. PICK sub : sub = Group(results, Graph(r))
  OBVIOUS
<1>2. /\ report[Graph(r)].memory = writeMemoryTable(sub)
      /\ IsFiniteSet(DOMAIN sub) /\ DOMAIN sub \subseteq Nat
      /\ Range(sub) = {s \in Range(results) : Graph(s) = Graph(r)}
  BY <1>1, RowFacts
<1>3. ASSUME NEW s \in Range(sub), NEW k \in PositionsOf(sub, s.structure)
      PROVE  sub[k].bytes = s.bytes
  <2>1. sub[k] \in Range(sub) /\ sub[k].structure = s.structure
    BY DEF PositionsOf, Range
  <2>2. sub[k] \in Range(results) /\ s \in Range(results) /\ Graph(sub[k]) = Graph(s)
    BY <1>2, <2>1
  <2> QED BY <2>1, <2>2 DEF TablesIInv, OneSize
<1>4. ASSUME NEW s \in Range(sub)
      PROVE  /\ PositionsOf(sub, s.structure) # {}
             /\ Min(PositionsOf(sub, s.structure)) \in PositionsOf(sub, s.structure)
             /\ Max(PositionsOf(sub, s.structure)) \in PositionsOf(sub, s.structure)
  <2>1. PICK S : S = PositionsOf(sub, s.structure)
    OBVIOUS
  <2>2. S \subseteq DOMAIN sub /\ S # {}
    BY <2>1 DEF PositionsOf, Range
  <2>3. IsFiniteSet(S) /\ S \subseteq Int
    BY <1>2, <2>2, FS_Subset
  <2> QED BY <2>1, <2>2, <2>3, Extremes
<1>5. r \in Range(sub) /\ c \in Range(sub)
  BY <1>2
<1>6. First(sub, r.structure).bytes = r.bytes
  BY <1>3, <1>4, <1>5 DEF First
<1>7. csrBytes(sub) = c.bytes
  BY <1>3, <1>4, <1>5 DEF csrBytes
<1>8. writeMemoryTable(sub)[r.structure].ratio
        = IF csrBytes(sub) > 0 THEN <<First(sub, r.structure).bytes, csrBytes(sub)>> ELSE <<>>
  <2>1. r.structure \in Of(sub, "structure")
    BY <1>5, Axes
  <2> QED BY <2>1 DEF writeMemoryTable
<1> QED BY <1>2, <1>6, <1>7, <1>8

\* The verdict and the ratios compare what they say, on each graph, although a structure may
\* be missing from some of them.
THEOREM Comparisons == Spec => []ComparisonsRight
<1>1. TablesIInv => ComparisonsRight
  BY UnbeatenFacts, RatioFacts DEF ComparisonsRight
<1> QED BY <1>1, TablesInvariant, PTL

\* A structure that has one measure on a graph has one of every point.
LEMMA Whole ==
  ASSUME TablesIInv, phase = "write", NEW r \in Range(results), NEW z \in DOMAIN Points
  PROVE  \E s \in Range(results) :
           /\ Graph(s) = Graph(r) /\ s.structure = r.structure
           /\ s.workload = Points[z].workload /\ s.queries = Points[z].queries
           /\ s.threads = Points[z].threads
<1>1. PICK i \in DOMAIN Graphs, j \in DOMAIN Builders, x \in DOMAIN Points :
        Shows(r, i, j, x) /\ <<i, j, x>> \in DOMAIN timed
  BY DEF TablesIInv, Recorded
<1>2. Over(i, j, z)
  BY AllOver
<1>3. <<i, j, z>> \in DOMAIN timed
  BY <1>1, <1>2 DEF TablesIInv, TimedSoFar
<1>4. PICK s \in Range(results) : Shows(s, i, j, z)
  BY <1>2, <1>3 DEF TablesIInv, Recorded
<1> QED BY <1>1, <1>4 DEF Shows

\* Each number of threads that some structure was measured with, with any batch, is one that
\* the structure of r was measured with at the largest batch of its workload.
LEMMA LargestFacts ==
  ASSUME TablesIInv, phase = "write", NEW r \in Range(results)
  PROVE  /\ \A y \in Range(results) : Load(y) = Load(r) => y.queries <= Largest(r)
         /\ \A t \in Range(results) : \E s \in AtLargest(r) : s.threads = t.threads
<1>1. PICK S : S = {x.queries : x \in {y \in Range(results) : Load(y) = Load(r)}}
  OBVIOUS
<1>2. \A y \in Range(results) : y.queries \in Nat
  BY MeasureType
<1>3. IsFiniteSet(S) /\ S \subseteq Int /\ S # {}
  <2>1. IsFiniteSet(Range(results))
    BY AllOver, ListFinite
  <2>2. PICK D : D = {y \in Range(results) : Load(y) = Load(r)}
    OBVIOUS
  <2>3. IsFiniteSet(D)
    BY <2>1, <2>2, FS_Subset
  <2>4. PICK f : f = [y \in D |-> y.queries]
    OBVIOUS
  <2>5. S = {f[y] : y \in D}
    BY <1>1, <2>2, <2>4
  <2>6. IsFiniteSet(S)
    BY <2>3, <2>5, ImageFinite
  <2> QED BY <1>1, <1>2, <2>6
<1>4. Largest(r) \in S /\ \A q \in S : Largest(r) >= q
  BY <1>1, <1>3, Extremes DEF Largest
<1>5. ASSUME NEW y \in Range(results), Load(y) = Load(r)
      PROVE  y.queries <= Largest(r)
  <2>1. y.queries \in S
    BY <1>1, <1>5
  <2> QED BY <1>3, <1>4, <2>1
<1>6. ASSUME NEW t \in Range(results)
      PROVE  \E s \in AtLargest(r) : s.threads = t.threads
  <2>1. PICK a \in Range(results) : Load(a) = Load(r) /\ a.queries = Largest(r)
    BY <1>1, <1>4
  <2>2. PICK i \in DOMAIN Graphs, j \in DOMAIN Builders, x \in DOMAIN Points : Shows(a, i, j, x)
    BY DEF TablesIInv, Recorded
  <2>3. PICK k \in DOMAIN Graphs, l \in DOMAIN Builders, y \in DOMAIN Points : Shows(t, k, l, y)
    BY DEF TablesIInv, Recorded
  <2>4. PICK z \in DOMAIN Points : Points[z] = [Points[x] EXCEPT !.threads = Points[y].threads]
    BY ProductAssumption DEF Points, TablesIInv, Loops
  <2>5. Points[x] \in [workload : STRING, queries : Nat, threads : Int]
    <3>1. Points \in Seq([workload : STRING, queries : Nat, threads : Int])
      BY SetupFacts DEF TablesIInv, Loops
    <3> QED BY <3>1, ElementOf
  <2>6. /\ Points[z].workload = Points[x].workload /\ Points[z].queries = Points[x].queries
        /\ Points[z].threads = Points[y].threads
    BY <2>4, <2>5
  <2>7. PICK s \in Range(results) :
          /\ Graph(s) = Graph(r) /\ s.structure = r.structure
          /\ s.workload = Points[z].workload /\ s.queries = Points[z].queries
          /\ s.threads = Points[z].threads
    BY Whole
  <2>8. /\ a.workload = Points[x].workload /\ a.queries = Points[x].queries
        /\ t.threads = Points[y].threads
    BY <2>2, <2>3 DEF Shows
  <2>9. a.workload = r.workload
    BY <2>1 DEF Load
  <2>10. s \in AtLargest(r)
    BY <2>1, <2>6, <2>7, <2>8, <2>9 DEF AtLargest
  <2> QED BY <2>6, <2>7, <2>8, <2>10
<1> QED BY <1>5, <1>6

\* The batch that the table reads is the largest one of the graph, which that of a workload
\* does not exceed.
LEMMA BatchFacts ==
  ASSUME TablesIInv, phase = "write", NEW r \in Range(results),
         NEW sub, sub = Group(results, Graph(r))
  PROVE  ScalingBatch(sub) = LargestOfAll(r) /\ Largest(r) <= LargestOfAll(r)
<1>1. Range(sub) = {s \in Range(results) : Graph(s) = Graph(r)} /\ IsFiniteSet(DOMAIN sub)
  BY RowFacts
<1>2. PICK S : S = {s.queries : s \in Range(sub)}
  OBVIOUS
<1>3. ScalingBatch(sub) = Max(S) /\ LargestOfAll(r) = Max(S)
  BY <1>1, <1>2 DEF ScalingBatch, Of, LargestOfAll
<1>4. \A q \in S : q \in Nat
  BY <1>1, <1>2, MeasureType
<1>5. IsFiniteSet(S)
  <2>1. PICK f : f = [k \in DOMAIN sub |-> sub[k].queries]
    OBVIOUS
  <2>2. S = {f[k] : k \in DOMAIN sub}
    BY <1>2, <2>1 DEF Range
  <2> QED BY <1>1, <2>2, ImageFinite
<1>6. Largest(r) \in S
  <2>1. PICK s \in AtLargest(r) : s.threads = r.threads
    BY LargestFacts
  <2>2. s \in Range(sub) /\ s.queries = Largest(r)
    BY <1>1, <2>1 DEF AtLargest
  <2> QED BY <1>2, <2>2
<1>7. Max(S) \in S /\ \A q \in S : Max(S) >= q
  BY <1>4, <1>5, <1>6, Extremes
<1>8. Largest(r) \in Nat /\ Max(S) \in Nat /\ Max(S) >= Largest(r)
  BY <1>4, <1>6, <1>7
<1> QED BY <1>3, <1>8

\* A row whose workload does not go up to that batch has no cell there, for any threads.
LEMMA DashFacts ==
  ASSUME TablesIInv, phase = "write", NEW r \in Range(results),
         NEW sub, sub = Group(results, Graph(r)),
         Largest(r) # LargestOfAll(r), NEW th
  PROVE  CellOf(Index(sub), r.structure, r.workload, th, ScalingBatch(sub)) = NoCell
<1>1. Range(sub) = {s \in Range(results) : Graph(s) = Graph(r)}
  BY RowFacts
<1>2. PICK k : /\ k = key([structure |-> r.structure, workload |-> r.workload,
                           threads |-> th, queries |-> ScalingBatch(sub)])
               /\ k = <<r.structure, r.workload, th, LargestOfAll(r)>>
  BY BatchFacts DEF key
<1>3. ASSUME k \in DOMAIN Index(sub) PROVE FALSE
  <2>1. PICK i \in DOMAIN sub : key(sub[i]) = k
    BY <1>3 DEF Index
  <2>2. sub[i] \in Range(sub)
    BY DEF Range
  <2>3. sub[i] \in Range(results) /\ Graph(sub[i]) = Graph(r)
    BY <1>1, <2>2
  <2>4. sub[i].workload = r.workload /\ sub[i].queries = LargestOfAll(r)
    BY <1>2, <2>1 DEF key
  <2>5. Load(sub[i]) = Load(r)
    BY <2>3, <2>4 DEF Load, Graph
  <2>6. LargestOfAll(r) <= Largest(r)
    BY <2>3, <2>4, <2>5, LargestFacts
  <2>7. LargestOfAll(r) \in Nat
    BY <2>3, <2>4, MeasureType
  <2>8. Largest(r) \in Nat
    <3>1. PICK s \in AtLargest(r) : s.threads = r.threads
      BY LargestFacts
    <3>2. s \in Range(results) /\ s.queries = Largest(r)
      BY <3>1 DEF AtLargest
    <3> QED BY <3>2, MeasureType
  <2>9. Largest(r) <= LargestOfAll(r)
    BY BatchFacts
  <2> QED BY <2>6, <2>7, <2>8, <2>9
<1> QED BY <1>2, <1>3 DEF CellOf

\* Where the workload of a row goes up to the largest batch of all, scaling is the best
\* throughput at that batch over the one with the fewest threads, and is shown unless the
\* latter is 0: the cells that are read are never empty.  Elsewhere they always are, and the
\* row has a dash.
THEOREM Scaling == Spec => []ScalingRight
<1>1. TablesIInv => ScalingRight
  <2> SUFFICES ASSUME TablesIInv, phase = "write", NEW r \in Range(results),
                      NEW base, base = CHOOSE x \in AtLargest(r) :
                                         \A y \in AtLargest(r) : x.threads <= y.threads
               PROVE  RowOf(r).scaling = IF Largest(r) = LargestOfAll(r) /\ base.rate > 0
                        THEN <<Max({x.rate : x \in AtLargest(r)}), base.rate>> ELSE <<>>
    BY DEF ScalingRight
  <2>1. PICK sub : sub = Group(results, Graph(r))
    OBVIOUS
  <2>2. PICK ths : ths = Of(sub, "threads")
    OBVIOUS
  <2>3. PICK Cells : Cells = [th \in ths |-> CellOf(Index(sub), r.structure, r.workload, th, Largest(r))]
    OBVIOUS
  <2>4. /\ RowOf(r) = ThroughputRow(sub, Index(sub), r.structure, r.workload)
        /\ IsFiniteSet(DOMAIN sub) /\ r \in Range(sub)
        /\ Range(sub) = {s \in Range(results) : Graph(s) = Graph(r)}
    BY <2>1, RowFacts
  <2>5. CASE Largest(r) # LargestOfAll(r)
    <3>1. CellOf(Index(sub), r.structure, r.workload, Min(ths), ScalingBatch(sub)) = NoCell
      BY <2>1, <2>5, DashFacts
    <3>2. ~(NoCell.rate > 0)
      BY DEF NoCell
    <3> QED BY <2>2, <2>4, <2>5, <3>1, <3>2 DEF ThroughputRow
  <2>6. CASE Largest(r) = LargestOfAll(r)
    <3>1. ScalingBatch(sub) = Largest(r)
      BY <2>1, <2>6, BatchFacts
    <3>2. ths = {s.threads : s \in AtLargest(r)}
      <4>1. \A t \in Range(sub) : \E s \in AtLargest(r) : s.threads = t.threads
        BY <2>4, LargestFacts
      <4>2. AtLargest(r) \subseteq Range(sub)
        BY <2>4 DEF AtLargest
      <4> QED BY <2>2, <4>1, <4>2 DEF Of
    <3>3. ASSUME NEW s \in AtLargest(r)
          PROVE  /\ s.threads \in ths /\ s.threads \in Int /\ s.rate \in Nat
                 /\ Cells[s.threads].rate = s.rate
      <4>1. /\ s \in Range(results) /\ s \in Range(sub) /\ s.structure = r.structure
            /\ s.workload = r.workload /\ s.queries = Largest(r)
        BY <2>4 DEF AtLargest
      <4>2. CellOf(Index(sub), r.structure, s.workload, s.threads, s.queries).rate = s.rate
        BY <2>1, <4>1, CellShown
      <4>3. s.threads \in ths
        BY <3>2
      <4>4. s.threads \in Int /\ s.rate \in Nat
        BY <4>1, MeasureType
      <4> QED BY <2>3, <4>1, <4>2, <4>3, <4>4
    <3>4. IsFiniteSet(ths) /\ ths \subseteq Int /\ ths # {}
      <4>1. ths = {sub[k].threads : k \in DOMAIN sub}
        BY <2>2 DEF Of, Range
      <4>2. PICK f : f = [k \in DOMAIN sub |-> sub[k].threads]
        OBVIOUS
      <4>3. ths = {f[k] : k \in DOMAIN sub}
        BY <4>1, <4>2
      <4>4. IsFiniteSet(ths)
        BY <2>4, <4>3, ImageFinite
      <4>5. ths \subseteq Int
        BY <3>2, <3>3
      <4>6. ths # {}
        BY <2>2, <2>4, Axes
      <4> QED BY <4>4, <4>5, <4>6
    <3>5. PICK rates : rates = {Cells[th].rate : th \in ths}
      OBVIOUS
    <3>6. rates = {x.rate : x \in AtLargest(r)}
      <4>1. \A th \in ths : \E s \in AtLargest(r) : Cells[th].rate = s.rate
        BY <3>2, <3>3
      <4> QED BY <3>3, <3>5, <4>1
    <3>7. IsFiniteSet(rates) /\ rates \subseteq Int /\ rates # {}
      <4>1. PICK f : f = [th \in ths |-> Cells[th].rate]
        OBVIOUS
      <4>2. rates = {f[th] : th \in ths}
        BY <3>5, <4>1
      <4>3. IsFiniteSet(rates)
        BY <3>4, <4>2, ImageFinite
      <4>4. rates \subseteq Int
        BY <3>3, <3>6
      <4> QED BY <3>4, <3>5, <4>3, <4>4
    <3>8. Max(rates) \in rates /\ \A y \in rates : Max(rates) >= y
      BY <3>7, Extremes
    <3>9. Min(ths) \in ths /\ \A y \in ths : Min(ths) <= y
      BY <3>4, Extremes
    <3>10. PICK s \in AtLargest(r) : s.threads = Min(ths)
      BY <3>2, <3>9
    <3>11. base \in AtLargest(r) /\ \A y \in AtLargest(r) : base.threads <= y.threads
      <4>1. \A y \in AtLargest(r) : s.threads <= y.threads
        BY <3>3, <3>9, <3>10
      <4> QED BY <3>10, <4>1
    <3>12. base.threads = Min(ths)
      <4>1. base.threads <= s.threads /\ s.threads <= base.threads
        BY <3>3, <3>9, <3>10, <3>11
      <4>2. base.threads \in Int /\ s.threads \in Int
        BY <3>3, <3>10, <3>11
      <4> QED BY <3>10, <4>1, <4>2
    <3>13. base.rate = Cells[Min(ths)].rate /\ base.rate \in rates /\ base.rate \in Nat
      <4>1. Cells[base.threads].rate = base.rate /\ base.rate \in Nat
        BY <3>3, <3>11
      <4>2. Cells[Min(ths)].rate \in rates
        BY <3>5, <3>9
      <4>3. Cells[base.threads] = Cells[Min(ths)]
        BY <3>12
      <4> QED BY <4>1, <4>2, <4>3
    <3>14. base.rate > 0 => Max(rates) > 0
      <4>1. Max(rates) \in Int /\ Max(rates) >= base.rate
        BY <3>7, <3>8, <3>13
      <4>2. \A m \in Int : m >= base.rate /\ base.rate > 0 => m > 0
        BY <3>13
      <4> QED BY <4>1, <4>2
    <3>15. RowOf(r).scaling = IF Cells[Min(ths)].rate > 0 /\ Max(rates) > 0
                              THEN <<Max(rates), Cells[Min(ths)].rate>> ELSE <<>>
      <4>1. \A th \in ths :
              Cells[th] = CellOf(Index(sub), r.structure, r.workload, th, ScalingBatch(sub))
        BY <2>3, <3>1
      <4>2. rates = {CellOf(Index(sub), r.structure, r.workload, th, ScalingBatch(sub)).rate : th \in ths}
        BY <3>5, <4>1
      <4>3. Cells[Min(ths)] = CellOf(Index(sub), r.structure, r.workload, Min(ths), ScalingBatch(sub))
        BY <3>9, <4>1
      <4> QED BY <2>2, <2>4, <4>2, <4>3 DEF ThroughputRow
    <3> QED BY <2>6, <3>6, <3>13, <3>14, <3>15
  <2> QED BY <2>5, <2>6
<1> QED BY <1>1, TablesInvariant, PTL

-----------------------------------------------------------------------------
(* The script. *)

(***************************************************************************)
(* The inductive invariant.  Behind the sweep under way every file is of   *)
(* this campaign and whole up to its last buffer; ahead of it every CSV is *)
(* older; and what pc says of the CSV of the sweep under way.              *)
(***************************************************************************)

\* The CSV of sweep r is of this campaign and lacks at most its last block.
Kept(r) == csv[r].from = campaign /\ csv[r].blocks + 1 >= Blocks

Behind == \A r \in Sweeps : r < run => Kept(r) /\ md[r].from = campaign
Ahead == \A r \in Sweeps : r > run => csv[r].from < campaign

UnderWay ==
  /\ pc = "rows" => csv[run].from = campaign
  /\ pc \in {"md", "bench"} => Kept(run)
  /\ pc = "bench" => run = NRuns /\ md[run].from = campaign
  /\ pc \in {"csv", "rows", "md", "bench"} => <<campaign, run>> \in swept

Ended ==
  /\ status = "running" <=> pc # "idle"
  /\ Succeeded => run = NRuns /\ Kept(run) /\ md[run].from = campaign

NoLater == \A r \in Sweeps : csv[r].from <= campaign

Fresh == campaign = 0 => status = "done" /\ \A r \in Sweeps : csv[r].from = 0

ScriptIInv ==
  /\ TypeOK /\ Fresh
  /\ campaign > 0 => Behind /\ Ahead /\ UnderWay
  /\ Ended /\ NoLater /\ OnlySweptReplaces

\* The invariant holds at the start.
LEMMA ScriptInitIInv == ScriptInit => ScriptIInv
BY CampaignAssumption, SMT
DEF ScriptInit, ScriptIInv, TypeOK, Fresh, Behind, Ahead, UnderWay, Ended, NoLater, OnlySweptReplaces, Succeeded,
    Sweeps, NoFile, Kept

\* A step that touches no CSV and no markdown keeps what is said of them.
LEMMA FilesKept ==
  ASSUME ScriptIInv, UNCHANGED <<campaign, run, csv, md>>, swept \subseteq swept'
  PROVE  (campaign' > 0 => Behind' /\ Ahead') /\ NoLater' /\ OnlySweptReplaces'
<1>1. (campaign' > 0 => Behind' /\ Ahead') /\ NoLater'
  BY DEF ScriptIInv, Behind, Ahead, NoLater, Kept
<1>2. OnlySweptReplaces'
  BY DEF ScriptIInv, OnlySweptReplaces
<1> QED BY <1>1, <1>2

\* So does a step that gives the sweep under way, which was measured, a file of this
\* campaign.
LEMMA FileWritten ==
  ASSUME ScriptIInv, campaign > 0, <<campaign, run>> \in swept,
         UNCHANGED <<campaign, run, md, swept>>,
         NEW k \in 0 .. Blocks,
         csv' = [csv EXCEPT ![run] = [from |-> campaign, blocks |-> k]]
  PROVE  /\ csv' \in [Sweeps -> [from : Nat, blocks : 0 .. Blocks]]
         /\ csv'[run] = [from |-> campaign, blocks |-> k]
         /\ Behind' /\ Ahead' /\ NoLater' /\ OnlySweptReplaces'
<1> DEFINE f == [from |-> campaign, blocks |-> k]
<1>1. /\ campaign \in Nat /\ run \in Sweeps /\ run \in Int
      /\ csv \in [Sweeps -> [from : Nat, blocks : 0 .. Blocks]]
  BY SMT DEF ScriptIInv, TypeOK, Sweeps
<1>2. f \in [from : Nat, blocks : 0 .. Blocks] /\ f.from = campaign
  BY <1>1
<1>3. /\ csv' = [csv EXCEPT ![run] = f]
      /\ csv' \in [Sweeps -> [from : Nat, blocks : 0 .. Blocks]]
  BY <1>1, <1>2
<1>4. csv'[run] = f /\ \A r \in Sweeps : r # run => csv'[r] = csv[r]
  BY <1>1, <1>3
<1> HIDE DEF f
<1>5. Behind' /\ Ahead'
  <2>1. \A r \in Sweeps : r < run => csv'[r] = csv[r] /\ md'[r] = md[r]
    BY <1>1, <1>4, SMT DEF Sweeps
  <2>2. \A r \in Sweeps : r > run => csv'[r] = csv[r]
    BY <1>1, <1>4, SMT DEF Sweeps
  <2> QED BY <2>1, <2>2 DEF ScriptIInv, Behind, Ahead, Kept
<1>6. NoLater'
  BY <1>1, <1>2, <1>4, SMT DEF ScriptIInv, NoLater
<1>7. OnlySweptReplaces'
  BY <1>1, <1>2, <1>4 DEF ScriptIInv, OnlySweptReplaces
<1> QED BY <1>3, <1>4, <1>5, <1>6, <1>7 DEF f

\* A step under way belongs to a campaign.
LEMMA RunningIsStarted == ScriptIInv /\ status = "running" => campaign > 0 /\ pc # "idle"
BY SMT DEF ScriptIInv, TypeOK, Fresh, Ended

\* A new campaign finds the files of older ones.
LEMMA StartKeeps == ScriptIInv /\ Start => ScriptIInv'
<1> SUFFICES ASSUME ScriptIInv, Start PROVE ScriptIInv'
  OBVIOUS
<1> USE CampaignAssumption DEF ScriptIInv, Start, files
<1>1. TypeOK' /\ Fresh'
  BY SMT DEF TypeOK, Fresh, Sweeps
<1>2. Behind' /\ Ahead' /\ NoLater'
  <2>1. \A r \in Sweeps : csv[r].from \in Nat /\ csv[r].from <= campaign
    BY DEF TypeOK, NoLater
  <2>2. \A r \in Sweeps : csv'[r].from < campaign'
    BY <2>1, SMT DEF TypeOK
  <2>3. \A r \in Sweeps : csv'[r].from <= campaign'
    BY <2>1, SMT DEF TypeOK
  <2>4. \A r \in Sweeps : ~(r < run')
    BY SMT DEF Sweeps
  <2> QED BY <2>2, <2>3, <2>4 DEF Behind, Ahead, NoLater
<1>3. UnderWay' /\ Ended'
  BY SMT DEF UnderWay, Ended, Succeeded
<1>4. OnlySweptReplaces'
  BY DEF OnlySweptReplaces
<1> QED BY <1>1, <1>2, <1>3, <1>4

\* The script stops, whatever the reason.
LEMMA StopKeeps ==
  ASSUME ScriptIInv, status = "running", status' = "failed", pc' = "idle",
         UNCHANGED <<campaign, run, csv, md, swept>>
  PROVE  ScriptIInv'
<1>1. TypeOK' /\ Fresh' /\ UnderWay' /\ Ended'
  BY RunningIsStarted, SMT DEF ScriptIInv, TypeOK, Fresh, UnderWay, Ended, Succeeded
<1> QED BY <1>1, FilesKept DEF ScriptIInv

\* The sweep that is done gives way to the next one, or to the last command.
LEMMA MarkdownKeeps == ScriptIInv /\ WriteMarkdown => ScriptIInv'
<1> SUFFICES ASSUME ScriptIInv, WriteMarkdown PROVE ScriptIInv'
  OBVIOUS
<1> USE CampaignAssumption
<1>1. /\ UNCHANGED <<campaign, status, csv, swept>> /\ pc = "md"
      /\ campaign > 0 /\ status = "running"
      /\ campaign \in Nat /\ run \in Sweeps /\ run \in Int
      /\ md \in [Sweeps -> [from : Nat, blocks : 0 .. Blocks]]
  BY RunningIsStarted, SMT DEF WriteMarkdown, At, ScriptIInv, TypeOK, Sweeps
<1>2. PICK k \in {0, 1} : md' = [md EXCEPT ![run] = [from |-> campaign, blocks |-> k]]
  <2>1. PICK d \in (IF DeviceFails THEN {0, 1} ELSE {1}) :
          md' = [md EXCEPT ![run] = [from |-> campaign, blocks |-> d]]
    BY DEF WriteMarkdown
  <2>2. d \in {0, 1}
    BY <2>1
  <2> QED BY <2>1, <2>2
<1>3. [from |-> campaign, blocks |-> k] \in [from : Nat, blocks : 0 .. Blocks]
  BY <1>1, SMT
<1>4. /\ md' \in [Sweeps -> [from : Nat, blocks : 0 .. Blocks]]
      /\ md'[run].from = campaign /\ \A r \in Sweeps : r # run => md'[r] = md[r]
  BY <1>1, <1>2, <1>3
<1>5. \/ run < NRuns /\ run' = run + 1 /\ pc' = "shell"
      \/ run = NRuns /\ run' = run /\ pc' = "bench"
  BY <1>1, SMT DEF WriteMarkdown, Sweeps
<1>6. Kept(run) /\ <<campaign, run>> \in swept
  BY <1>1 DEF ScriptIInv, UnderWay
<1>7. TypeOK' /\ Fresh' /\ NoLater' /\ OnlySweptReplaces'
  <2>1. run' \in Sweeps /\ pc' \in {"shell", "bench"}
    BY <1>1, <1>5, SMT DEF Sweeps
  <2>2. TypeOK'
    BY <1>1, <1>4, <2>1 DEF ScriptIInv, TypeOK
  <2>3. Fresh'
    BY <1>1, SMT DEF Fresh
  <2>4. NoLater' /\ OnlySweptReplaces'
    BY <1>1 DEF ScriptIInv, NoLater, OnlySweptReplaces
  <2> QED BY <2>2, <2>3, <2>4
<1>8. Behind'
  <2>1. \A r \in Sweeps : r < run' => r < run \/ r = run
    BY <1>1, <1>5, SMT DEF Sweeps
  <2>2. \A r \in Sweeps : r < run => r # run
    BY <1>1, SMT DEF Sweeps
  <2>3. \A r \in Sweeps : Kept(r)' = Kept(r)
    BY <1>1 DEF Kept
  <2> QED BY <1>1, <1>4, <1>6, <2>1, <2>2, <2>3 DEF ScriptIInv, Behind
<1>9. Ahead'
  BY <1>1, <1>5, SMT DEF ScriptIInv, Ahead, Sweeps
<1>10. UnderWay' /\ Ended'
  BY <1>1, <1>4, <1>5, <1>6, SMT DEF UnderWay, Ended, Kept, Succeeded
<1> QED BY <1>7, <1>8, <1>9, <1>10 DEF ScriptIInv

\* Every step keeps the invariant: one case for each action.
LEMMA ScriptNextIInv == ScriptIInv /\ [ScriptNext]_scriptVars => ScriptIInv'
<1> SUFFICES ASSUME ScriptIInv, [ScriptNext]_scriptVars PROVE ScriptIInv'
  OBVIOUS
<1> USE CampaignAssumption DEF files, At
<1>1. CASE Start
  BY <1>1, StartKeeps
<1>2. CASE Kill \/ SweepFails \/ CreateFails \/ WriteFails
  BY <1>2, StopKeeps DEF Kill, SweepFails, CreateFails, WriteFails, Stop
<1>3. CASE Shell
  <2>1. TypeOK' /\ Fresh' /\ UnderWay' /\ Ended'
    BY <1>3, RunningIsStarted, SMT DEF Shell, ScriptIInv, TypeOK, Fresh, UnderWay, Ended, Succeeded
  <2> QED BY <1>3, <2>1, FilesKept DEF Shell, ScriptIInv
<1>4. CASE SweepEnds
  <2>1. TypeOK' /\ Fresh' /\ UnderWay' /\ Ended'
    BY <1>4, RunningIsStarted, SMT
    DEF SweepEnds, ScriptIInv, TypeOK, Fresh, UnderWay, Ended, Succeeded
  <2> QED BY <1>4, <2>1, FilesKept DEF SweepEnds, ScriptIInv
<1>5. CASE CreateCSV
  <2>1. campaign > 0 /\ <<campaign, run>> \in swept /\ 0 \in 0 .. Blocks
    BY <1>5, RunningIsStarted, SMT DEF CreateCSV, ScriptIInv, UnderWay
  <2>2. /\ csv' \in [Sweeps -> [from : Nat, blocks : 0 .. Blocks]]
        /\ csv'[run] = [from |-> campaign, blocks |-> 0]
        /\ Behind' /\ Ahead' /\ NoLater' /\ OnlySweptReplaces'
    BY <1>5, <2>1, FileWritten DEF CreateCSV, Empty
  <2>3. TypeOK' /\ Fresh' /\ UnderWay' /\ Ended'
    BY <1>5, <2>1, <2>2, SMT
    DEF CreateCSV, ScriptIInv, TypeOK, Fresh, UnderWay, Ended, Succeeded
  <2> QED BY <2>2, <2>3 DEF ScriptIInv
<1>6. CASE WriteBlock \/ (Flush /\ csv' # csv)
  <2>1. /\ campaign > 0 /\ <<campaign, run>> \in swept /\ pc = "rows"
        /\ csv[run].from = campaign /\ csv[run] \in [from : Nat, blocks : 0 .. Blocks]
    BY <1>6, RunningIsStarted, SMT DEF WriteBlock, Flush, ScriptIInv, TypeOK, UnderWay
  <2>2. csv[run].blocks + 1 \in 0 .. Blocks
    BY <1>6, <2>1, SMT DEF WriteBlock, Flush
  <2>3. csv' = [csv EXCEPT ![run] = [from |-> campaign, blocks |-> csv[run].blocks + 1]]
    <3>1. csv' = [csv EXCEPT ![run] = [csv[run] EXCEPT !.blocks = csv[run].blocks + 1]]
      BY <1>6 DEF WriteBlock, Flush
    <3>2. [csv[run] EXCEPT !.blocks = csv[run].blocks + 1]
            = [from |-> campaign, blocks |-> csv[run].blocks + 1]
      BY <2>1
    <3> QED BY <3>1, <3>2
  <2>4. UNCHANGED <<campaign, run, md, swept>>
    BY <1>6 DEF WriteBlock, Flush
  <2>5. /\ csv' \in [Sweeps -> [from : Nat, blocks : 0 .. Blocks]]
        /\ csv'[run] = [from |-> campaign, blocks |-> csv[run].blocks + 1]
        /\ Behind' /\ Ahead' /\ NoLater' /\ OnlySweptReplaces'
    BY <2>1, <2>2, <2>3, <2>4, FileWritten
  <2>6. \/ pc' = pc /\ status' = status
        \/ pc' = "md" /\ status' = status /\ csv[run].blocks + 1 = Blocks
    BY <1>6 DEF WriteBlock, Flush
  <2>7. TypeOK' /\ Fresh' /\ UnderWay' /\ Ended'
    BY <2>1, <2>2, <2>4, <2>5, <2>6, SMT
    DEF ScriptIInv, TypeOK, Fresh, UnderWay, Ended, Succeeded, Kept
  <2> QED BY <2>5, <2>7 DEF ScriptIInv
<1>7. CASE Flush /\ csv' = csv
  <2>1. TypeOK' /\ Fresh' /\ UnderWay' /\ Ended'
    BY <1>7, RunningIsStarted, SMT
    DEF Flush, ScriptIInv, TypeOK, Fresh, UnderWay, Ended, Succeeded, Kept
  <2> QED BY <1>7, <2>1, FilesKept DEF Flush, ScriptIInv
<1>8. CASE WriteMarkdown
  BY <1>8, MarkdownKeeps
<1>9. CASE Overhead
  <2>1. TypeOK' /\ Fresh' /\ UnderWay' /\ Ended'
    BY <1>9, RunningIsStarted, SMT
    DEF Overhead, ScriptIInv, TypeOK, Fresh, UnderWay, Ended, Succeeded, Kept
  <2> QED BY <1>9, <2>1, FilesKept DEF Overhead, ScriptIInv
<1>10. CASE ScriptStay \/ UNCHANGED scriptVars
  <2>1. UNCHANGED scriptVars
    BY <1>10 DEF ScriptStay
  <2>2. TypeOK' /\ Fresh' /\ UnderWay' /\ Ended'
    BY <2>1 DEF scriptVars, ScriptIInv, TypeOK, Fresh, UnderWay, Ended, Succeeded, Kept
  <2> QED BY <2>1, <2>2, FilesKept DEF scriptVars, ScriptIInv
<1> QED
  BY <1>1, <1>2, <1>3, <1>4, <1>5, <1>6, <1>7, <1>8, <1>9, <1>10 DEF ScriptNext

THEOREM ScriptInvariant == ScriptSpec => []ScriptIInv
BY ScriptInitIInv, ScriptNextIInv, PTL DEF ScriptSpec

\* Whatever the number of sweeps, of campaigns and of blocks, and whatever fails or is
\* killed, a script that exits with 0 leaves the files of its own campaign.
THEOREM OneCampaign == ScriptSpec => []SuccessIsOneCampaign
<1>1. ScriptIInv => SuccessIsOneCampaign
  BY CampaignAssumption, SMT
  DEF ScriptIInv, TypeOK, Fresh, SuccessIsOneCampaign, Succeeded, Ended, Behind, Kept, Sweeps
<1> QED BY <1>1, ScriptInvariant, PTL

\* ... and each of its CSV files lacks at most its last block.
THEOREM LastBuffer == ScriptSpec => []OnlyLastBufferLost
<1>1. ScriptIInv => OnlyLastBufferLost
  BY CampaignAssumption, SMTT(30)
  DEF ScriptIInv, TypeOK, Fresh, OnlyLastBufferLost, Succeeded, Ended, Behind, Kept, Torn, Sweeps
<1> QED BY <1>1, ScriptInvariant, PTL

\* The measures of a campaign are replaced only by a sweep measured to its end.
THEOREM SweptReplaces == ScriptSpec => []OnlySweptReplaces
<1>1. ScriptIInv => OnlySweptReplaces
  BY DEF ScriptIInv
<1> QED BY <1>1, ScriptInvariant, PTL

\* A campaign that stops spoils at most the CSV of the sweep under way, and not even that one
\* before the sweep was measured to its end.
THEOREM Stopped == ScriptSpec => []StoppedBetween
<1>1. ScriptIInv => StoppedBetween
  BY CampaignAssumption, SMTT(30)
  DEF ScriptIInv, TypeOK, StoppedBetween, Behind, Ahead, Kept, Torn, Sweeps
<1> QED BY <1>1, ScriptInvariant, PTL
=============================================================================
