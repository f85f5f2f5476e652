------------------------------ MODULE Campaign ------------------------------
(***************************************************************************)
(* A measurement campaign: scripts/run-bench.sh calls gsbench once per     *)
(* sweep, each call leaves a text, a CSV and a markdown file in the same   *)
(* directory (the end of main), and scripts/report.py loads every CSV      *)
(* found there.  Campaigns follow one another in that directory, and one   *)
(* may stop anywhere: interrupted, a sweep that fails, a full disk.        *)
(*                                                                         *)
(* A CSV file is written in Blocks of the writer's buffer, the last one by *)
(* the deferred Flush.  A file is the campaign that created it and the     *)
(* number of its blocks that the system has accepted; nothing is synced,   *)
(* so what a power cut takes away is not modelled.                         *)
(***************************************************************************)
EXTENDS Integers, FiniteSets

CONSTANTS
  NRuns,        \* sweeps of the script
  Blocks,       \* blocks of a CSV file
  MaxCampaigns, \* bound on the campaigns started
  DeviceFails   \* whether a create or a write may fail

ASSUME CampaignAssumption ==
  NRuns \in Nat \ {0} /\ Blocks \in Nat \ {0} /\ DeviceFails \in BOOLEAN

VARIABLES
  campaign, run, \* the campaign and the sweep under way
  pc,            \* where the script and gsbench are
  status,        \* of the script: "running", "done" (exit 0) or "failed"
  csv, md, txt,  \* the files of each sweep
  swept          \* history: the <<campaign, sweep>> measured to the end

files == <<csv, md, txt>>
scriptVars == <<campaign, run, pc, status, files, swept>>

Sweeps == 1 .. NRuns
NoFile == [from |-> 0, blocks |-> 0]
Empty == [from |-> campaign, blocks |-> 0]

ScriptInit ==
  /\ campaign = 0 /\ run = 1 /\ pc = "idle" /\ status = "done"
  /\ csv = [r \in Sweeps |-> NoFile] /\ md = csv /\ txt = csv
  /\ swept = {}

At(label) == status = "running" /\ pc = label

Start ==
  /\ status # "running" /\ campaign < MaxCampaigns
  /\ campaign' = campaign + 1 /\ run' = 1 /\ pc' = "shell" /\ status' = "running"
  /\ UNCHANGED <<files, swept>>

\* Mutant of Stop: without set -e the script goes on with the next sweep.
CarryOn ==
  IF run < NRuns THEN run' = run + 1 /\ pc' = "shell" /\ UNCHANGED status
  ELSE pc' = "bench" /\ UNCHANGED <<run, status>>

\* A command that fails ends the script (set -e).
Stop == status' = "failed" /\ pc' = "idle" /\ UNCHANGED run

\* An interrupt from the terminal: a signal to the group of the script and of gsbench, which
\* ends both.  A signal to the script alone, which leaves gsbench running, is not modelled.
Kill ==
  /\ status = "running"
  /\ status' = "failed" /\ pc' = "idle"
  /\ UNCHANGED <<campaign, run, files, swept>>

\* The shell truncates the text file before gsbench starts.
Shell ==
  /\ At("shell")
  /\ txt' = [txt EXCEPT ![run] = Empty]
  /\ pc' = "sweep"
  /\ UNCHANGED <<campaign, run, status, csv, md, swept>>

\* Mutant of SweepFails: an error in the course of the sweep is reported and main goes on.
SweepFailsQuietly == At("sweep") /\ pc' = "csv" /\ UNCHANGED <<campaign, run, status, files, swept>>

\* A wrong argument, or an unknown kind after other graphs were measured: check exits, with
\* no measure written.
SweepFails == At("sweep") /\ Stop /\ UNCHANGED <<campaign, files, swept>>

\* The sweep ends and its text report is written; the result of Flush is not read.
SweepEnds ==
  /\ At("sweep")
  /\ swept' = swept \cup {<<campaign, run>>}
  /\ \E b \in IF DeviceFails THEN {0, 1} ELSE {1} : txt' = [txt EXCEPT ![run].blocks = b]
  /\ pc' = "csv"
  /\ UNCHANGED <<campaign, run, status, csv, md>>

\* os.Create truncates the file of the campaign before.
CreateCSV ==
  /\ At("csv")
  /\ csv' = [csv EXCEPT ![run] = Empty]
  /\ pc' = "rows"
  /\ UNCHANGED <<campaign, run, status, md, txt, swept>>

CreateFails ==
  /\ DeviceFails /\ (At("csv") \/ At("md"))
  /\ Stop /\ UNCHANGED <<campaign, files, swept>>

\* A full buffer goes to the disk in the course of WriteCSV.
WriteBlock ==
  /\ At("rows") /\ csv[run].blocks + 1 < Blocks
  /\ csv' = [csv EXCEPT ![run].blocks = @ + 1]
  /\ UNCHANGED <<campaign, run, pc, status, md, txt, swept>>

\* Mutant of WriteFails: the error of a write is dropped and main goes on.
WriteFailsQuietly ==
  /\ DeviceFails /\ At("rows") /\ csv[run].blocks + 1 < Blocks
  /\ pc' = "md" /\ UNCHANGED <<campaign, run, status, files, swept>>

\* The error of a write that fills the buffer is returned, and check exits.
WriteFails ==
  /\ DeviceFails /\ At("rows") /\ csv[run].blocks + 1 < Blocks
  /\ Stop /\ UNCHANGED <<campaign, files, swept>>

\* The deferred Flush writes what is left; its error, like that of Close, is not read.
Flush ==
  /\ At("rows") /\ csv[run].blocks + 1 = Blocks
  /\ \/ csv' = [csv EXCEPT ![run].blocks = @ + 1]
     \/ DeviceFails /\ UNCHANGED csv
  /\ pc' = "md"
  /\ UNCHANGED <<campaign, run, status, md, txt, swept>>

\* The markdown report is created and written; the results of Flush and Close are not read.
WriteMarkdown ==
  /\ At("md")
  /\ \E b \in IF DeviceFails THEN {0, 1} ELSE {1} :
       md' = [md EXCEPT ![run] = [from |-> campaign, blocks |-> b]]
  /\ IF run < NRuns THEN run' = run + 1 /\ pc' = "shell" ELSE run' = run /\ pc' = "bench"
  /\ UNCHANGED <<campaign, status, csv, txt, swept>>

\* The benchmark of the three ways to read, the last command of the script.
Overhead ==
  /\ At("bench")
  /\ status' \in {"done", "failed"} /\ pc' = "idle"
  /\ UNCHANGED <<campaign, run, files, swept>>

ScriptStay == status # "running" /\ campaign = MaxCampaigns /\ UNCHANGED scriptVars

ScriptNext ==
  \/ Start \/ Kill \/ Shell \/ SweepFails \/ SweepEnds \/ CreateCSV \/ CreateFails
  \/ WriteBlock \/ WriteFails \/ Flush \/ WriteMarkdown \/ Overhead \/ ScriptStay

ScriptSpec == ScriptInit /\ [][ScriptNext]_scriptVars

-----------------------------------------------------------------------------
\* Types of the variables.
TypeOK ==
  /\ campaign \in Nat /\ run \in Sweeps /\ status \in {"running", "done", "failed"}
  /\ pc \in {"idle", "shell", "sweep", "csv", "rows", "md", "bench"}
  /\ csv \in [Sweeps -> [from : Nat, blocks : 0 .. Blocks]]
  /\ md \in [Sweeps -> [from : Nat, blocks : 0 .. Blocks]]
  /\ swept \subseteq Nat \X Sweeps

\* What load reads: the sweeps whose CSV has rows, each with its campaign.
load == {<<csv[r].from, r>> : r \in {s \in Sweeps : csv[s].blocks > 0}}

Torn(r) == csv[r].from # 0 /\ csv[r].blocks + 1 < Blocks

Succeeded == campaign > 0 /\ status = "done"

\* After a script that succeeded, what is loaded is one campaign: no CSV is left from the
\* one before (run-bench.sh:8, report.py:17-28).
SuccessIsOneCampaign ==
  Succeeded => \A r \in Sweeps : csv[r].from = campaign /\ md[r].from = campaign

\* After a script that succeeded, a CSV lacks at most what the last Flush had to write:
\* the error of any other write stopped it (report.go:343, main.go:165).
OnlyLastBufferLost == Succeeded => \A r \in Sweeps : ~Torn(r)

\* The measures of a campaign are replaced only by a sweep that was measured to its end
\* (main.go:162-165).
OnlySweptReplaces == \A r \in Sweeps : csv[r].from # 0 => <<csv[r].from, r>> \in swept

\* A campaign that stops spoils at most one CSV, that of the sweep under way: those before
\* are its own, whole up to their last buffer, and those after are left as they were.  Even
\* that one is touched only when its sweep was measured to the end: the measures of a sweep
\* that fails half way are lost, and those of an older campaign stay (main.go:79, 162-165).
StoppedBetween ==
  /\ OnlySweptReplaces
  /\ campaign > 0 =>
       /\ \A r \in Sweeps : r < run => csv[r].from = campaign /\ ~Torn(r)
       /\ \A r \in Sweeps : r > run => csv[r].from # campaign

\* "WriteCSV ecrit toutes les mesures brutes, une ligne par point de mesure"
\* (report.go:322): after a script that succeeded every CSV is whole.
EveryMeasureWritten == Succeeded => \A r \in Sweeps : csv[r].blocks = Blocks
=============================================================================
