------------------------------- MODULE Campaign -------------------------------
(***************************************************************************)
(* A measured campaign and the bundle it leaves: run_adapter_campaign and  *)
(* its helpers (zkbench/campaign.py), scripts/resummarize_campaign.py,     *)
(* which an operator may run on the bundle at any time, and                *)
(* validate_result_bundle (zkbench/result_validation.py), which judges it. *)
(*                                                                         *)
(* Actors: campaign processes that were given the same output directory,   *)
(* the operator's resummarize, and whatever may kill them.  The adapter    *)
(* runs are those of AdapterRunner, reduced to how they may end.           *)
(***************************************************************************)
EXTENDS Naturals, Sequences, FiniteSets, SequencesExt

CONSTANTS
    Campaigns,    \* campaign processes started on this output directory
    Cells,        \* parameter set, scale and threads together
    InvalidCells, \* the same with an invalid case
    Repetitions, InvalidRepetitions,
    PrimerRuns    \* os_cache_primer_runs

ASSUME CampaignAssumption ==
    /\ Repetitions \in Nat /\ InvalidRepetitions \in Nat /\ PrimerRuns \in Nat
    /\ Cells \cap InvalidCells = {}
    /\ IsFiniteSet(Cells) /\ IsFiniteSet(InvalidCells)

VARIABLES
    pc,         \* per campaign process
    todo,       \* tasks it has still to run
    run,        \* the adapter run at hand: [id, task, outcome]
    held,       \* its rows not yet written
    rows,       \* the rows list it will summarise
    offset,     \* where its raw_results.csv handle stands
    emitted,    \* the summary rows it has written
    attached,   \* the processes whose summary.csv handle is the file of that name
    files,      \* which of the four evidence files exist
    raw,        \* rows in raw_results.csv
    summary,    \* rows in summary.csv
    runs,       \* how many run ids were drawn
    resum,      \* pc of resummarize
    seen        \* the raw rows it has read

processVars == <<pc, todo, run, held, rows, offset, emitted, runs>>
bundleVars == <<files, raw, summary, attached>>
resumVars == <<resum, seen>>
vars == <<processVars, bundleVars, resumVars>>

EvidenceNames == {"config.json", "environment.json", "raw_results.csv", "summary.csv"}

-----------------------------------------------------------------------------
(* Tasks, runs and rows. *)

Primers == [cell : Cells, repetition : 1..PrimerRuns, role : {"os_cache_primer"}]
Measurements ==
    [cell : Cells, repetition : 1..Repetitions, role : {"measurement"}]
        \cup [cell : InvalidCells, repetition : 1..InvalidRepetitions, role : {"measurement"}]
Tasks == Primers \cup Measurements

(* How an adapter run may end: accepted; answered after the timer ran out;  *)
(* ended by itself with an answer that is not the one called for; killed or *)
(* failed before it reported its phases and its result.                     *)
Succeeded == [ok |-> TRUE, exit0 |-> TRUE, verdict |-> "expected", whole |-> TRUE]
Late == [ok |-> FALSE, exit0 |-> TRUE, verdict |-> "expected", whole |-> TRUE]
Wrong == [ok |-> FALSE, exit0 |-> TRUE, verdict |-> "unexpected", whole |-> TRUE]
Cut == [ok |-> FALSE, exit0 |-> FALSE, verdict |-> "", whole |-> FALSE]
Outcomes == {Succeeded, Late, Wrong, Cut}

NoTask == [cell |-> "", repetition |-> 0, role |-> ""]
NoRun == [id |-> 0, task |-> NoTask, outcome |-> Cut]

(* execution_rows: the phase rows, here one row for all of them, then the   *)
(* row of the whole process, which alone carries status, exit code and      *)
(* verdict.                                                                 *)
PhaseRow(r) ==
    [run |-> r.id, task |-> r.task, kind |-> "phase", ok |-> TRUE, exit0 |-> TRUE,
     verdict |-> ""]

ProcessRow(r) ==
    [run |-> r.id, task |-> r.task, kind |-> "process", ok |-> r.outcome.ok,
     exit0 |-> r.outcome.exit0, verdict |-> r.outcome.verdict]

ExecutionRows(r) ==
    IF r.outcome.whole THEN <<PhaseRow(r), ProcessRow(r)>> ELSE <<ProcessRow(r)>>

(* What a reader finds where nothing was written: a stretch of NUL bytes. *)
Hole == [run |-> 0, task |-> NoTask, kind |-> "hole", ok |-> TRUE,
         exit0 |-> TRUE, verdict |-> ""]

(* Writing at a handle's own position. *)
WriteAt(file, position, row) ==
    [i \in 1..(IF position < Len(file) THEN Len(file) ELSE position + 1) |->
        IF i = position + 1 THEN row
        ELSE IF i \in DOMAIN file THEN file[i] ELSE Hole]

-----------------------------------------------------------------------------
(* write_campaign_summary: recorded rows, grouped. *)

(* Mutant of Recorded: primers are summarised with the measurements. *)
RecordedWithPrimers(row) == row.kind # "hole"

Recorded(row) == row.kind # "hole" /\ row.task.role = "measurement"

GroupOf(row) == <<row.task.cell, row.kind>>

Groups(table) == {GroupOf(table[i]) : i \in {j \in DOMAIN table : Recorded(table[j])}}

Members(table, g) ==
    {table[i] : i \in {j \in DOMAIN table : Recorded(table[j]) /\ GroupOf(table[j]) = g}}

SummaryRow(table, g) ==
    [group |-> g,
     runs |-> {row.run : row \in Members(table, g)},
     expected |-> \A row \in Members(table, g) : row.verdict # "unexpected"]

SummaryOf(table) == {SummaryRow(table, g) : g \in Groups(table)}

-----------------------------------------------------------------------------
Init ==
    /\ pc = [p \in Campaigns |-> "idle"]
    /\ todo = [p \in Campaigns |-> {}]
    /\ run = [p \in Campaigns |-> NoRun]
    /\ held = [p \in Campaigns |-> <<>>]
    /\ rows = [p \in Campaigns |-> <<>>]
    /\ offset = [p \in Campaigns |-> 0]
    /\ emitted = [p \in Campaigns |-> {}] /\ attached = {}
    /\ files = {} /\ raw = <<>> /\ summary = {} /\ runs = 0
    /\ resum = "idle" /\ seen = <<>>

Goto(p, from, to) == pc[p] = from /\ pc' = [pc EXCEPT ![p] = to]

(* Mutant of Start: only a finished bundle counts as evidence. *)
StartUnlessSummarised(p) ==
    /\ Goto(p, "idle", "config")
    /\ "summary.csv" \notin files
    /\ UNCHANGED <<todo, run, held, rows, offset, emitted, runs, bundleVars, resumVars>>

(* The checks before anything is written: a directory that holds any of the *)
(* four evidence files is refused.                                          *)
Start(p) ==
    /\ Goto(p, "idle", "config")
    /\ files \cap EvidenceNames = {}
    /\ UNCHANGED <<todo, run, held, rows, offset, emitted, runs, bundleVars, resumVars>>

WriteConfig(p) ==
    /\ Goto(p, "config", "environment")
    /\ files' = files \cup {"config.json"}
    /\ UNCHANGED <<todo, run, held, rows, offset, emitted, runs, raw, summary, attached, resumVars>>

WriteEnvironment(p) ==
    /\ Goto(p, "environment", "raw")
    /\ files' = files \cup {"environment.json"}
    /\ UNCHANGED <<todo, run, held, rows, offset, emitted, runs, raw, summary, attached, resumVars>>

(* raw_results.csv is opened for writing, which empties it. *)
OpenRaw(p) ==
    /\ Goto(p, "raw", "task")
    /\ files' = files \cup {"raw_results.csv"}
    /\ raw' = <<>>
    /\ todo' = [todo EXCEPT ![p] = Tasks]
    /\ rows' = [rows EXCEPT ![p] = <<>>]
    /\ offset' = [offset EXCEPT ![p] = 0]
    /\ UNCHANGED <<run, held, emitted, runs, summary, attached, resumVars>>

(* Primers come first; the measurements are shuffled. *)
Candidates(p) ==
    IF todo[p] \cap Primers # {} THEN todo[p] \cap Primers ELSE todo[p]

(* Mutant of BeginTask: the run id of the last task is used again. *)
BeginTaskSameId(p) ==
    /\ Goto(p, "task", "execute")
    /\ \E t \in Candidates(p) :
          /\ todo' = [todo EXCEPT ![p] = @ \ {t}]
          /\ run' = [run EXCEPT ![p] = [id |-> runs + 1, task |-> t, outcome |-> Cut]]
    /\ UNCHANGED <<held, rows, offset, emitted, runs, bundleVars, resumVars>>

BeginTask(p) ==
    /\ Goto(p, "task", "execute")
    /\ \E t \in Candidates(p) :
          /\ todo' = [todo EXCEPT ![p] = @ \ {t}]
          /\ run' = [run EXCEPT ![p] = [id |-> runs + 1, task |-> t, outcome |-> Cut]]
    /\ runs' = runs + 1
    /\ UNCHANGED <<held, rows, offset, emitted, bundleVars, resumVars>>

(* execute_adapter returns, and execution_rows makes the rows. *)
Execute(p) ==
    /\ Goto(p, "execute", "rows")
    /\ \E o \in Outcomes :
          LET r == [run[p] EXCEPT !.outcome = o]
          IN  /\ run' = [run EXCEPT ![p] = r]
              /\ held' = [held EXCEPT ![p] = ExecutionRows(r)]
    /\ UNCHANGED <<todo, rows, offset, emitted, runs, bundleVars, resumVars>>

(* It may raise: Popen or a sampler thread failed. *)
ExecuteRaises(p) ==
    /\ Goto(p, "execute", "idle")
    /\ UNCHANGED <<todo, run, held, rows, offset, emitted, runs, bundleVars, resumVars>>

(* The rows of the run reach the file one after the other. *)
WriteRow(p) ==
    /\ pc[p] = "rows"
    /\ raw' = WriteAt(raw, offset[p], Head(held[p]))
    /\ offset' = [offset EXCEPT ![p] = @ + 1]
    /\ rows' = [rows EXCEPT ![p] = Append(@, Head(held[p]))]
    /\ held' = [held EXCEPT ![p] = Tail(@)]
    /\ pc' = [pc EXCEPT ![p] = IF Tail(held[p]) = <<>> THEN "check" ELSE "rows"]
    /\ UNCHANGED <<todo, run, emitted, runs, files, summary, attached, resumVars>>

(* Mutant of CheckOutcome: a failed run does not end the campaign. *)
CheckNothing(p) ==
    /\ Goto(p, "check", "task")
    /\ UNCHANGED <<todo, run, held, rows, offset, emitted, runs, bundleVars, resumVars>>

(* A failed run ends the campaign: its output goes to logs/, and            *)
(* RuntimeError is raised.                                                  *)
CheckOutcome(p) ==
    /\ Goto(p, "check", IF run[p].outcome.ok THEN "task" ELSE "idle")
    /\ UNCHANGED <<todo, run, held, rows, offset, emitted, runs, bundleVars, resumVars>>

(* After the last task: summary.csv is opened for writing and its rows are *)
(* computed and written one by one.                                        *)
OpenSummary(p) ==
    /\ Goto(p, "task", "summary")
    /\ todo[p] = {}
    /\ files' = files \cup {"summary.csv"}
    /\ summary' = {}
    /\ emitted' = [emitted EXCEPT ![p] = {}]
    /\ attached' = attached \cup {p}
    /\ UNCHANGED <<todo, run, held, rows, offset, runs, raw, resumVars>>

(* Mutant of WriteSummaryRow: rows the file has already are skipped. *)
WriteMissingSummaryRow(p) ==
    /\ pc[p] = "summary"
    /\ \E row \in SummaryOf(rows[p]) \ (emitted[p] \cup summary) :
          /\ emitted' = [emitted EXCEPT ![p] = @ \cup {row}]
          /\ summary' = IF p \in attached THEN summary \cup {row} ELSE summary
          /\ pc' = [pc EXCEPT ![p] =
                      IF SummaryOf(rows[p]) = emitted'[p] THEN "idle" ELSE "summary"]
    /\ UNCHANGED <<todo, run, held, rows, offset, runs, files, raw, attached, resumVars>>

(* A process whose file was replaced under its handle writes to a file that *)
(* has no name any more.                                                    *)
WriteSummaryRow(p) ==
    /\ pc[p] = "summary"
    /\ \E row \in SummaryOf(rows[p]) \ emitted[p] :
          /\ emitted' = [emitted EXCEPT ![p] = @ \cup {row}]
          /\ summary' = IF p \in attached THEN summary \cup {row} ELSE summary
          /\ pc' = [pc EXCEPT ![p] =
                      IF SummaryOf(rows[p]) = emitted'[p] THEN "idle" ELSE "summary"]
    /\ UNCHANGED <<todo, run, held, rows, offset, runs, files, raw, attached, resumVars>>

(* The campaign is killed. *)
Crash(p) ==
    /\ pc[p] # "idle"
    /\ pc' = [pc EXCEPT ![p] = "idle"]
    /\ UNCHANGED <<todo, run, held, rows, offset, emitted, runs, bundleVars, resumVars>>

-----------------------------------------------------------------------------
(* resummarize_campaign.py <bundle> --output <bundle>/summary.csv.  The new *)
(* summary is written to a temporary file, which replaces the old one.      *)

ReadRaw(overwrite) ==
    /\ resum = "idle"
    /\ "raw_results.csv" \in files /\ raw # <<>>
    /\ "summary.csv" \in files => overwrite
    /\ resum' = "replace" /\ seen' = raw
    /\ UNCHANGED <<processVars, bundleVars>>

ReplaceSummary ==
    /\ resum = "replace"
    /\ resum' = "idle" /\ seen' = <<>>
    /\ summary' = SummaryOf(seen)
    /\ files' = files \cup {"summary.csv"}
    /\ attached' = {}
    /\ UNCHANGED <<processVars, raw>>

(* It is killed, or fails: the old summary is untouched. *)
ResummarizeFails ==
    /\ resum = "replace"
    /\ resum' = "idle" /\ seen' = <<>>
    /\ UNCHANGED <<processVars, bundleVars>>

-----------------------------------------------------------------------------
CampaignStep(p) ==
    \/ WriteConfig(p) \/ WriteEnvironment(p) \/ OpenRaw(p)
    \/ BeginTask(p) \/ Execute(p) \/ ExecuteRaises(p) \/ WriteRow(p)
    \/ CheckOutcome(p) \/ OpenSummary(p) \/ WriteSummaryRow(p)

Resummarize ==
    \/ \E overwrite \in BOOLEAN : ReadRaw(overwrite)
    \/ ReplaceSummary \/ ResummarizeFails

Next ==
    \/ \E p \in Campaigns : Start(p) \/ CampaignStep(p) \/ Crash(p)
    \/ Resummarize

(* A campaign that has been started goes on: execute_adapter ends, and the  *)
(* rest waits for nothing.  Nobody has to start one, or to resummarize.     *)
Spec == Init /\ [][Next]_vars /\ \A p \in Campaigns : WF_vars(CampaignStep(p))

-----------------------------------------------------------------------------
(* validate_result_bundle. *)

RunIds == {raw[i].run : i \in DOMAIN raw}

RowsOfRun(id, kind) == {i \in DOMAIN raw : raw[i].run = id /\ raw[i].kind = kind}

ExpectedProcesses ==
    Cardinality(Cells) * (PrimerRuns + Repetitions)
        + Cardinality(InvalidCells) * InvalidRepetitions

(* Mutant of ProcessRowGood: the exit code alone is looked at. *)
ExitedWithZero(row) == row.exit0 /\ row.verdict = "expected"

(* It exited with 0, its execution succeeded, and the verdict is the one    *)
(* the task calls for.                                                      *)
ProcessRowGood(row) == row.exit0 /\ row.ok /\ row.verdict = "expected"

RunIsGood(id) ==
    /\ \E i \in RowsOfRun(id, "process") :
          RowsOfRun(id, "process") = {i} /\ ProcessRowGood(raw[i])
    /\ Cardinality(RowsOfRun(id, "phase")) = 1

SummaryIsGood == summary # {} /\ \A row \in summary : row.expected

Validated ==
    /\ EvidenceNames \subseteq files
    /\ \A i \in DOMAIN raw : raw[i].kind # "hole"
    /\ Cardinality(RunIds) = ExpectedProcesses
    /\ \A id \in RunIds : RunIsGood(id)
    /\ SummaryIsGood

-----------------------------------------------------------------------------
(* Type invariant. *)
Pcs == {"idle", "config", "environment", "raw", "task", "execute", "rows", "check",
        "summary"}

Verdicts == {"expected", "unexpected", ""}

Runs == [id : 0..runs, task : Tasks \cup {NoTask}, outcome : Outcomes]

Rows == [run : 1..runs, task : Tasks, kind : {"phase", "process"},
         ok : BOOLEAN, exit0 : BOOLEAN, verdict : Verdicts]

SummaryRows ==
    [group : (Cells \cup InvalidCells) \X {"phase", "process"}, runs : SUBSET (1..runs),
     expected : BOOLEAN]

TypeOK ==
    /\ pc \in [Campaigns -> Pcs]
    /\ todo \in [Campaigns -> SUBSET Tasks]
    /\ run \in [Campaigns -> Runs]
    /\ held \in [Campaigns -> Seq(Rows)] /\ rows \in [Campaigns -> Seq(Rows)]
    /\ offset \in [Campaigns -> Nat]
    /\ emitted \in [Campaigns -> SUBSET SummaryRows] /\ summary \subseteq SummaryRows
    /\ attached \subseteq Campaigns
    /\ files \subseteq EvidenceNames
    /\ raw \in Seq(Rows \cup {Hole}) /\ seen \in Seq(Rows \cup {Hole})
    /\ resum \in {"idle", "replace"} /\ runs \in Nat

(* A bundle that validates holds the configured campaign: every task was    *)
(* run exactly once, and every run in it is one that succeeded.  The        *)
(* validator itself only counts run ids.                                    *)
ValidatedRunsAreTheCampaign ==
    Validated =>
        /\ {raw[i].task : i \in DOMAIN raw} = Tasks
        /\ \A i, j \in DOMAIN raw : raw[i].task = raw[j].task => raw[i].run = raw[j].run
        /\ \A i \in DOMAIN raw : raw[i].ok

(* The first failed run is the last one: whatever was started, killed and   *)
(* started again on this directory, no run begins after a failed one, so a  *)
(* bad adapter cannot be papered over by the runs that follow.              *)
FailureIsLast ==
    \A i, j \in DOMAIN raw :
        i < j /\ ~raw[i].ok => raw[j].run = raw[i].run

(* Cache primers never reach the summary, whoever wrote it and from however *)
(* much of the raw file: a group is made of at most one run per repetition  *)
(* of its cell.                                                             *)
SummaryCountsMeasurementsOnce ==
    \A row \in summary :
        Cardinality(row.runs) <=
            IF row.group[1] \in Cells THEN Repetitions ELSE InvalidRepetitions

(* Every campaign that is started ends. *)
CampaignEnds == \A p \in Campaigns : pc[p] # "idle" ~> pc[p] = "idle"

(* The directory behaves as one append-only log with one writer, across     *)
(* crashes, restarts and resummarize.                                       *)
Writing == {"task", "execute", "rows", "check", "summary"}

Writer ==
    IF "raw_results.csv" \notin files THEN "none"
    ELSE IF \E p \in Campaigns : pc[p] \in Writing THEN "open"
    ELSE "closed"

Log == INSTANCE EvidenceLog
          WITH Rows <- [run : 1..Cardinality(Tasks),
                        task : Tasks,
                        kind : {"phase", "process"}, ok : BOOLEAN,
                        exit0 : BOOLEAN, verdict : Verdicts],
               log <- raw,
               writer <- Writer

ImplementsEvidenceLog == Log!Spec

-----------------------------------------------------------------------------
(* The inductive invariants behind the properties above.                    *)

(* Where there is a run at hand, and rows of it to write.                   *)
RunAtHand ==
    \A p \in Campaigns :
        /\ pc[p] \in {"execute", "rows", "check"} => run[p].id # 0 /\ run[p].task \in Tasks
        /\ pc[p] = "rows" => held[p] # <<>>

(* With one process: the raw file is opened once, and what comes before and *)
(* after that is told apart by its name in the directory.                   *)
OpenedOnce ==
    /\ "raw_results.csv" \notin files =>
          raw = <<>> /\ seen = <<>> /\ summary = {} /\ runs = 0
    /\ \A p \in Campaigns :
          /\ pc[p] \in Writing => "raw_results.csv" \in files
          /\ pc[p] \in {"config", "environment", "raw"} => "raw_results.csv" \notin files

(* Its handle stands at the end of the file, and it remembers every row.    *)
WritesAtTheEnd ==
    \A p \in Campaigns : pc[p] \in Writing => offset[p] = Len(raw) /\ rows[p] = raw

(* A run is the run of one task, and a task has one run.                    *)
RunsAreTasks(table) ==
    \A i, j \in DOMAIN table :
        table[i].run = table[j].run <=> table[i].task = table[j].task

(* What is in the file: rows and no holes, of one run per task.             *)
RawHoldsRuns ==
    /\ raw \in Seq(Rows) /\ seen \in Seq(Rows)
    /\ RunsAreTasks(raw) /\ RunsAreTasks(seen)
    /\ \A i \in DOMAIN raw : raw[i].kind = "phase" => raw[i].ok

(* The tasks left to run are not in the file yet, and are as many as the    *)
(* run ids left to draw.                                                    *)
TasksAhead ==
    /\ runs <= Cardinality(Tasks)
    /\ \A p \in Campaigns : pc[p] \in Writing =>
          /\ \A i \in DOMAIN raw : raw[i].task \notin todo[p]
          /\ Cardinality(todo[p]) + runs = Cardinality(Tasks)

(* The rows held are those of the run at hand, which no other row is of.    *)
RowsOfTheRunAtHand ==
    \A p \in Campaigns : pc[p] \in {"execute", "rows", "check"} =>
        /\ run[p].task \notin todo[p]
        /\ \A i \in DOMAIN raw : raw[i].run = run[p].id <=> raw[i].task = run[p].task
        /\ pc[p] = "rows" =>
              \A k \in DOMAIN held[p] :
                 /\ held[p][k].run = run[p].id /\ held[p][k].task = run[p].task
                 /\ held[p][k].kind = "phase" => held[p][k].ok
                 /\ ~held[p][k].ok => ~run[p].outcome.ok

(* While the campaign goes on, a failure in the file is that of the run at  *)
(* hand.                                                                    *)
FailureIsAtHand ==
    \A p \in Campaigns : pc[p] \in Writing =>
        \A i \in DOMAIN raw : ~raw[i].ok =>
            /\ pc[p] \in {"rows", "check"}
            /\ raw[i].run = run[p].id /\ ~run[p].outcome.ok

OneProcessInv ==
    /\ OpenedOnce /\ WritesAtTheEnd /\ RawHoldsRuns /\ TasksAhead
    /\ RowsOfTheRunAtHand /\ FailureIsAtHand
    /\ FailureIsLast /\ SummaryCountsMeasurementsOnce

-----------------------------------------------------------------------------
(* "refusing to overwrite existing benchmark evidence" (campaign.py): rows  *)
(* in raw_results.csv are never lost.  The check and the opening of the     *)
(* file are apart, so it holds for one campaign process and not for two.    *)
EvidenceIsNotOverwritten == [][IsPrefix(raw, raw')]_vars

(* "Summaries are generated from raw rows" (README.md) and "a complete      *)
(* result bundle has been emitted and validated" (EXPERIMENTS.md): the      *)
(* summary of a bundle that validates is the summary of its raw rows.       *)
ValidatedSummaryCoversRaw == Validated => summary = SummaryOf(raw)
=============================================================================
