---------------------------- MODULE CampaignProofs ----------------------------
(***************************************************************************)
(* Proofs about Campaign, for every set of cells and every number of       *)
(* repetitions: type correctness for any number of campaign processes,     *)
(* and, for one process on the directory, that the first failure is the    *)
(* last run, that a bundle that validates is the configured campaign, that *)
(* a summary counts each measurement once, and that the raw file is an     *)
(* append-only log with one writer.                                        *)
(***************************************************************************)
EXTENDS Campaign, FiniteSetTheorems, FunctionTheorems, SequenceTheorems,
    TLAPS

(* The types of what is read and written depend on the run ids drawn so     *)
(* far, and only grow with them.                                            *)
LEMMA TypesGrow ==
    ASSUME runs \in Nat, runs' \in Nat, runs <= runs'
    PROVE  /\ Rows \subseteq Rows' /\ Runs \subseteq Runs' /\ SummaryRows \subseteq SummaryRows'
           /\ Seq(Rows) \subseteq Seq(Rows')
           /\ Seq(Rows \cup {Hole}) \subseteq Seq(Rows' \cup {Hole})
<1>1. 1..runs \subseteq 1..runs' /\ 0..runs \subseteq 0..runs'
  OBVIOUS
<1>2. Rows \subseteq Rows' /\ Runs \subseteq Runs' /\ SummaryRows \subseteq SummaryRows'
  BY <1>1 DEF Rows, Runs, SummaryRows
<1>3. Rows \cup {Hole} \subseteq Rows' \cup {Hole}
  BY <1>2
<1> QED BY <1>2, <1>3, SeqMonotonic

LEMMA TaskFields ==
    ASSUME NEW t \in Tasks
    PROVE  t.cell \in Cells \cup InvalidCells
BY DEF Tasks, Primers, Measurements

LEMMA ExecutionRowsType ==
    ASSUME NEW r \in Runs, runs \in Nat, r.id # 0, r.task \in Tasks
    PROVE  /\ ExecutionRows(r) \in Seq(Rows) /\ ExecutionRows(r) # <<>>
           /\ \A k \in DOMAIN ExecutionRows(r) :
                 /\ ExecutionRows(r)[k].run = r.id /\ ExecutionRows(r)[k].task = r.task
                 /\ ExecutionRows(r)[k].kind = "phase" => ExecutionRows(r)[k].ok
                 /\ ~ExecutionRows(r)[k].ok => ~r.outcome.ok
<1>1. r.id \in 1..runs
  BY DEF Runs
<1>2. r.outcome.ok \in BOOLEAN /\ r.outcome.exit0 \in BOOLEAN /\ r.outcome.verdict \in Verdicts
  <2>1. r.outcome = Succeeded \/ r.outcome = Late \/ r.outcome = Wrong \/ r.outcome = Cut
    BY DEF Runs, Outcomes
  <2>2. CASE r.outcome = Succeeded
    BY <2>2 DEF Succeeded, Verdicts
  <2>3. CASE r.outcome = Late
    BY <2>3 DEF Late, Verdicts
  <2>4. CASE r.outcome = Wrong
    BY <2>4 DEF Wrong, Verdicts
  <2>5. CASE r.outcome = Cut
    <3>1. Cut.ok \in BOOLEAN /\ Cut.exit0 \in BOOLEAN
      BY DEF Cut
    <3>2. Cut.verdict = ""
      BY DEF Cut
    <3>3. Cut.verdict \in Verdicts
      BY <3>2 DEF Verdicts
    <3> QED BY <2>5, <3>1, <3>3
  <2> QED BY <2>1, <2>2, <2>3, <2>4, <2>5
<1>3. PhaseRow(r) \in Rows /\ ProcessRow(r) \in Rows
  BY <1>1, <1>2 DEF PhaseRow, ProcessRow, Rows, Verdicts
<1>4. CASE r.outcome.whole
  <2>1. ExecutionRows(r) = <<PhaseRow(r), ProcessRow(r)>>
    BY <1>4 DEF ExecutionRows
  <2>2. \A k \in DOMAIN ExecutionRows(r) :
           ExecutionRows(r)[k] = PhaseRow(r) \/ ExecutionRows(r)[k] = ProcessRow(r)
    BY <2>1
  <2>3. ExecutionRows(r) \in Seq(Rows) /\ ExecutionRows(r) # <<>>
    BY <1>3, <2>1
  <2>4. /\ PhaseRow(r).run = r.id /\ PhaseRow(r).task = r.task /\ PhaseRow(r).ok
        /\ ProcessRow(r).run = r.id /\ ProcessRow(r).task = r.task
        /\ ProcessRow(r).kind = "process" /\ ProcessRow(r).ok = r.outcome.ok
    BY DEF PhaseRow, ProcessRow
  <2> QED BY <2>2, <2>3, <2>4
<1>5. CASE ~r.outcome.whole
  <2>1. ExecutionRows(r) = <<ProcessRow(r)>>
    BY <1>5 DEF ExecutionRows
  <2>2. \A k \in DOMAIN ExecutionRows(r) : ExecutionRows(r)[k] = ProcessRow(r)
    BY <2>1
  <2> QED BY <1>3, <2>1, <2>2 DEF ProcessRow
<1> QED BY <1>4, <1>5

(* Writing at a position keeps a file a sequence, and at its end appends.   *)
LEMMA WriteAtType ==
    ASSUME NEW S, Hole \in S, NEW file \in Seq(S), NEW position \in Nat, NEW row \in S
    PROVE  /\ WriteAt(file, position, row) \in Seq(S)
           /\ position = Len(file) => WriteAt(file, position, row) = Append(file, row)
<1> DEFINE length == IF position < Len(file) THEN Len(file) ELSE position + 1
           value(i) == IF i = position + 1 THEN row
                       ELSE IF i \in DOMAIN file THEN file[i] ELSE Hole
<1>1. WriteAt(file, position, row) = [i \in 1..length |-> value(i)]
  BY DEF WriteAt
<1>2. length \in Nat /\ \A i \in 1..length : value(i) \in S
  OBVIOUS
<1>3. WriteAt(file, position, row) \in Seq(S)
  <2> HIDE DEF length, value
  <2> QED BY <1>1, <1>2, IsASeq
<1>4. ASSUME position = Len(file) PROVE WriteAt(file, position, row) = Append(file, row)
  <2>1. length = Len(file) + 1
    BY <1>4
  <2>2. Len(WriteAt(file, position, row)) = Len(Append(file, row))
    <3> HIDE DEF value
    <3> QED BY <1>1, <2>1
  <2>3. ASSUME NEW i \in 1..(Len(file) + 1)
        PROVE  WriteAt(file, position, row)[i] = Append(file, row)[i]
    <3>1. WriteAt(file, position, row)[i] = value(i)
      <4> HIDE DEF value, length
      <4> QED BY <1>1, <2>1
    <3> QED BY <1>4, <3>1
  <2> QED BY <1>3, <2>2, <2>3, SeqEqual
<1> QED BY <1>3, <1>4

(* Whatever is summarised, the summary's rows have their type.              *)
LEMMA SummaryType ==
    ASSUME runs \in Nat, NEW table \in Seq(Rows \cup {Hole})
    PROVE  SummaryOf(table) \subseteq SummaryRows
<1>1. ASSUME NEW i \in DOMAIN table, Recorded(table[i])
      PROVE  /\ table[i] \in Rows
             /\ GroupOf(table[i]) \in (Cells \cup InvalidCells) \X {"phase", "process"}
  <2>1. table[i] \in Rows
    <3>1. ~Recorded(Hole)
      BY DEF Recorded, Hole
    <3>2. table[i] \in Rows \cup {Hole}
      BY ElementOfSeq
    <3> QED BY <1>1, <3>1, <3>2
  <2> QED BY <2>1, TaskFields DEF Rows, GroupOf
<1>2. ASSUME NEW g \in Groups(table) PROVE SummaryRow(table, g) \in SummaryRows
  <2>1. g \in (Cells \cup InvalidCells) \X {"phase", "process"}
    BY <1>1, <1>2 DEF Groups
  <2>2. Members(table, g) \subseteq Rows
    BY <1>1 DEF Members
  <2>3. {row.run : row \in Members(table, g)} \subseteq 1..runs
    BY <2>2 DEF Rows
  <2>4. (\A row \in Members(table, g) : row.verdict # "unexpected") \in BOOLEAN
    OBVIOUS
  <2> QED BY <2>1, <2>3, <2>4 DEF SummaryRow, SummaryRows
<1> QED BY <1>2 DEF SummaryOf

-----------------------------------------------------------------------------
(* Type correctness, for any number of processes. *)

LEMMA InitTypeOK == Init => TypeOK /\ RunAtHand
<1> SUFFICES ASSUME Init PROVE TypeOK /\ RunAtHand
  OBVIOUS
<1>1. NoRun \in Runs
  BY DEF Init, NoRun, Runs, Outcomes
<1>2. /\ held \in [Campaigns -> Seq(Rows)] /\ rows \in [Campaigns -> Seq(Rows)]
      /\ raw \in Seq(Rows \cup {Hole}) /\ seen \in Seq(Rows \cup {Hole})
  BY DEF Init
<1>3. /\ pc \in [Campaigns -> Pcs] /\ todo \in [Campaigns -> SUBSET Tasks]
      /\ run \in [Campaigns -> Runs] /\ offset \in [Campaigns -> Nat]
      /\ emitted \in [Campaigns -> SUBSET SummaryRows]
  BY <1>1 DEF Init, Pcs
<1>4. TypeOK
  BY <1>2, <1>3 DEF Init, TypeOK
<1>5. RunAtHand
  BY DEF Init, RunAtHand
<1> QED BY <1>4, <1>5

(* Every step keeps the types, and a run at hand where one is needed. *)
LEMMA NextTypeOK == TypeOK /\ RunAtHand /\ [Next]_vars => TypeOK' /\ RunAtHand'
<1> SUFFICES ASSUME TypeOK, RunAtHand, [Next]_vars PROVE TypeOK' /\ RunAtHand'
  OBVIOUS
<1> USE DEF processVars, bundleVars, resumVars, Goto
<1>i. /\ pc \in [Campaigns -> Pcs] /\ runs \in Nat
      /\ held \in [Campaigns -> Seq(Rows)] /\ rows \in [Campaigns -> Seq(Rows)]
      /\ run \in [Campaigns -> Runs]
  BY DEF TypeOK
<1>1. ASSUME NEW p \in Campaigns, Start(p) PROVE TypeOK' /\ RunAtHand'
  BY <1>1 DEF Start, TypeOK, RunAtHand, Pcs, Rows, Runs, SummaryRows
<1>2. ASSUME NEW p \in Campaigns, WriteConfig(p) \/ WriteEnvironment(p)
      PROVE TypeOK' /\ RunAtHand'
  BY <1>2 DEF WriteConfig, WriteEnvironment, TypeOK, RunAtHand, Pcs, EvidenceNames,
     Rows, Runs, SummaryRows
<1>3. ASSUME NEW p \in Campaigns, OpenRaw(p) PROVE TypeOK' /\ RunAtHand'
  <2>1. /\ raw' = <<>> /\ rows' = [rows EXCEPT ![p] = <<>>]
        /\ todo' = [todo EXCEPT ![p] = Tasks] /\ offset' = [offset EXCEPT ![p] = 0]
    BY <1>3 DEF OpenRaw
  <2>2. /\ raw' \in Seq(Rows \cup {Hole}) /\ rows' \in [Campaigns -> Seq(Rows)]
        /\ todo' \in [Campaigns -> SUBSET Tasks] /\ offset' \in [Campaigns -> Nat]
    BY <1>i, <2>1 DEF TypeOK
  <2>3. pc' \in [Campaigns -> Pcs] /\ files' \subseteq EvidenceNames
    BY <1>3 DEF OpenRaw, TypeOK, Pcs, EvidenceNames
  <2>4. TypeOK'
    BY <1>3, <2>2, <2>3 DEF OpenRaw, TypeOK, Rows, Runs, SummaryRows
  <2>5. RunAtHand'
    BY <1>3 DEF OpenRaw, TypeOK, RunAtHand
  <2> QED BY <2>4, <2>5
<1>4. ASSUME NEW p \in Campaigns, BeginTask(p) PROVE TypeOK' /\ RunAtHand'
  <2>1. runs' \in Nat /\ runs <= runs' /\ runs + 1 \in 1..runs'
    BY <1>4, <1>i DEF BeginTask
  <2>2. PICK t \in Candidates(p) :
           /\ todo' = [todo EXCEPT ![p] = @ \ {t}]
           /\ run' = [run EXCEPT ![p] = [id |-> runs + 1, task |-> t, outcome |-> Cut]]
    BY <1>4 DEF BeginTask
  <2>3. t \in Tasks
    BY <2>2 DEF Candidates, TypeOK
  <2>4. [id |-> runs + 1, task |-> t, outcome |-> Cut] \in Runs'
    BY <2>1, <2>3 DEF Runs, Outcomes
  <2>5. run' \in [Campaigns -> Runs'] /\ todo' \in [Campaigns -> SUBSET Tasks]
    BY <2>1, <2>2, <2>4, <1>i, TypesGrow DEF TypeOK
  <2>6. TypeOK'
    BY <1>4, <1>i, <2>1, <2>5, TypesGrow DEF BeginTask, TypeOK, Pcs
  <2>7. RunAtHand'
    BY <1>4, <1>i, <2>2, <2>3 DEF BeginTask, RunAtHand
  <2> QED BY <2>6, <2>7
<1>5. ASSUME NEW p \in Campaigns, Execute(p) PROVE TypeOK' /\ RunAtHand'
  <2>1. PICK o \in Outcomes :
           /\ run' = [run EXCEPT ![p] = [run[p] EXCEPT !.outcome = o]]
           /\ held' = [held EXCEPT ![p] = ExecutionRows([run[p] EXCEPT !.outcome = o])]
    BY <1>5 DEF Execute
  <2> DEFINE r == [run[p] EXCEPT !.outcome = o]
  <2>2. r \in Runs /\ r.id = run[p].id /\ r.task = run[p].task
    BY <1>i DEF Runs
  <2>3. r.id # 0 /\ r.task \in Tasks
    BY <1>5, <2>2 DEF Execute, RunAtHand
  <2> HIDE DEF r
  <2>4. ExecutionRows(r) \in Seq(Rows) /\ ExecutionRows(r) # <<>>
    BY <1>i, <2>2, <2>3, ExecutionRowsType
  <2>5. run' = [run EXCEPT ![p] = r] /\ held' = [held EXCEPT ![p] = ExecutionRows(r)]
    BY <2>1 DEF r
  <2>6. TypeOK'
    BY <1>5, <1>i, <2>2, <2>4, <2>5 DEF Execute, TypeOK, Pcs, Rows, Runs, SummaryRows
  <2>7. RunAtHand'
    BY <1>5, <1>i, <2>3, <2>4, <2>5 DEF Execute, RunAtHand
  <2> QED BY <2>6, <2>7
<1>6. ASSUME NEW p \in Campaigns, ExecuteRaises(p) \/ Crash(p) PROVE TypeOK' /\ RunAtHand'
  BY <1>6 DEF ExecuteRaises, Crash, TypeOK, RunAtHand, Pcs, Rows, Runs, SummaryRows
<1>7. ASSUME NEW p \in Campaigns, WriteRow(p) PROVE TypeOK' /\ RunAtHand'
  <2>1. held[p] \in Seq(Rows) /\ held[p] # <<>>
    BY <1>7, <1>i DEF WriteRow, RunAtHand
  <2>2. Head(held[p]) \in Rows /\ Tail(held[p]) \in Seq(Rows)
    BY <2>1
  <2>3. raw' \in Seq(Rows \cup {Hole})
    BY <1>7, <2>2, WriteAtType DEF WriteRow, TypeOK
  <2>4. rows' \in [Campaigns -> Seq(Rows)] /\ held' \in [Campaigns -> Seq(Rows)]
    BY <1>7, <1>i, <2>2 DEF WriteRow
  <2>5. TypeOK'
    <3>1. pc' \in [Campaigns -> Pcs]
      BY <1>7, <1>i DEF WriteRow, Pcs
    <3>2. offset' \in [Campaigns -> Nat]
      BY <1>7 DEF WriteRow, TypeOK
    <3> QED BY <1>7, <2>3, <2>4, <3>1, <3>2 DEF WriteRow, TypeOK, Rows, Runs, SummaryRows
  <2>6. RunAtHand'
    BY <1>7, <1>i DEF WriteRow, RunAtHand
  <2> QED BY <2>5, <2>6
<1>8. ASSUME NEW p \in Campaigns, CheckOutcome(p) PROVE TypeOK' /\ RunAtHand'
  BY <1>8 DEF CheckOutcome, TypeOK, RunAtHand, Pcs, Rows, Runs, SummaryRows
<1>9. ASSUME NEW p \in Campaigns, OpenSummary(p) PROVE TypeOK' /\ RunAtHand'
  BY <1>9 DEF OpenSummary, TypeOK, RunAtHand, Pcs, EvidenceNames, Rows, Runs, SummaryRows
<1>10. ASSUME NEW p \in Campaigns, WriteSummaryRow(p) PROVE TypeOK' /\ RunAtHand'
  <2>1. SummaryOf(rows[p]) \subseteq SummaryRows
    <3>1. rows[p] \in Seq(Rows \cup {Hole})
      BY <1>i, SeqMonotonic
    <3> QED BY <1>i, <3>1, SummaryType
  <2>2. emitted' \in [Campaigns -> SUBSET SummaryRows] /\ summary' \subseteq SummaryRows
    BY <1>10, <2>1 DEF WriteSummaryRow, TypeOK
  <2>3. pc' \in [Campaigns -> Pcs]
    BY <1>10, <1>i DEF WriteSummaryRow, Pcs
  <2>4. TypeOK'
    BY <1>10, <2>2, <2>3 DEF WriteSummaryRow, TypeOK, Rows, Runs, SummaryRows
  <2>5. RunAtHand'
    BY <1>10, <1>i DEF WriteSummaryRow, RunAtHand
  <2> QED BY <2>4, <2>5
<1>11. CASE Resummarize
  <2>1. SummaryOf(seen) \subseteq SummaryRows
    BY <1>i, SummaryType DEF TypeOK
  <2>2. seen' \in Seq(Rows \cup {Hole}) /\ summary' \subseteq SummaryRows
    <3>1. <<>> \in Seq(Rows \cup {Hole})
      OBVIOUS
    <3> QED BY <3>1, <1>11, <2>1 DEF Resummarize, ReadRaw, ReplaceSummary, ResummarizeFails, TypeOK
  <2>3. TypeOK'
    BY <1>11, <2>2 DEF Resummarize, ReadRaw, ReplaceSummary, ResummarizeFails, TypeOK,
       EvidenceNames, Rows, Runs, SummaryRows
  <2>4. RunAtHand'
    BY <1>11 DEF Resummarize, ReadRaw, ReplaceSummary, ResummarizeFails, RunAtHand
  <2> QED BY <2>3, <2>4
<1>12. CASE UNCHANGED vars
  BY <1>12 DEF vars, TypeOK, RunAtHand, Rows, Runs, SummaryRows
<1> QED
  BY <1>1, <1>2, <1>3, <1>4, <1>5, <1>6, <1>7, <1>8, <1>9, <1>10, <1>11, <1>12
     DEF Next, CampaignStep

(* The state of every process, of resummarize and of the directory keeps    *)
(* its types, however many processes share the directory.                   *)
THEOREM TypeCorrect == Spec => []TypeOK
BY InitTypeOK, NextTypeOK, PTL DEF Spec

-----------------------------------------------------------------------------
(* Counting tasks and runs. *)

LEMMA GridCount ==
    ASSUME NEW C, IsFiniteSet(C), NEW n \in Nat, NEW role
    PROVE  /\ IsFiniteSet([cell : C, repetition : 1..n, role : {role}])
           /\ Cardinality([cell : C, repetition : 1..n, role : {role}]) = Cardinality(C) * n
<1> DEFINE grid == [cell : C, repetition : 1..n, role : {role}]
           f == [pair \in C \X (1..n) |->
                   [cell |-> pair[1], repetition |-> pair[2], role |-> role]]
<1>1. IsFiniteSet(1..n) /\ Cardinality(1..n) = n
  BY FS_Interval
<1>2. IsFiniteSet(C \X (1..n)) /\ Cardinality(C \X (1..n)) = Cardinality(C) * n
  BY <1>1, FS_Product
<1>3. f \in [C \X (1..n) -> grid]
  OBVIOUS
<1>4. \A a, b \in C \X (1..n) : f[a] = f[b] => a = b
  OBVIOUS
<1>5. ASSUME NEW t \in grid PROVE \E a \in C \X (1..n) : f[a] = t
  <2>1. <<t.cell, t.repetition>> \in C \X (1..n)
    OBVIOUS
  <2>2. f[<<t.cell, t.repetition>>] = t
    BY <2>1
  <2> QED BY <2>1, <2>2
<1> HIDE DEF f, grid
<1>6. f \in Bijection(C \X (1..n), grid)
  BY <1>3, <1>4, <1>5, Fun_IsBij, Fun_IsInj, Fun_IsSurj
<1>7. IsFiniteSet(grid) /\ Cardinality(grid) = Cardinality(C \X (1..n))
  BY <1>2, <1>6, FS_Bijection, Fun_ExistsBij
<1> QED BY <1>2, <1>7 DEF grid

LEMMA DisjointCount ==
    ASSUME NEW S, IsFiniteSet(S), NEW T, IsFiniteSet(T), S \cap T = {}
    PROVE  /\ IsFiniteSet(S \cup T)
           /\ Cardinality(S \cup T) = Cardinality(S) + Cardinality(T)
<1>1. Cardinality(S \cap T) = 0
  BY FS_EmptySet
<1>2. Cardinality(S) \in Nat /\ Cardinality(T) \in Nat
  BY FS_CardinalityType
<1>3. /\ IsFiniteSet(S \cup T)
      /\ Cardinality(S \cup T) = Cardinality(S) + Cardinality(T) - Cardinality(S \cap T)
  BY FS_Union
<1> QED BY <1>1, <1>2, <1>3

(* The validator expects as many processes as there are tasks. *)
LEMMA TaskCount ==
    IsFiniteSet(Tasks) /\ Cardinality(Tasks) = ExpectedProcesses
<1> DEFINE valid == [cell : Cells, repetition : 1..Repetitions, role : {"measurement"}]
           invalid == [cell : InvalidCells, repetition : 1..InvalidRepetitions,
                       role : {"measurement"}]
<1>1. IsFiniteSet(Primers) /\ Cardinality(Primers) = Cardinality(Cells) * PrimerRuns
  BY GridCount, CampaignAssumption DEF Primers
<1>2. IsFiniteSet(valid) /\ Cardinality(valid) = Cardinality(Cells) * Repetitions
  BY GridCount, CampaignAssumption
<1>3. /\ IsFiniteSet(invalid)
      /\ Cardinality(invalid) = Cardinality(InvalidCells) * InvalidRepetitions
  BY GridCount, CampaignAssumption
<1>4. valid \cap invalid = {} /\ Primers \cap (valid \cup invalid) = {}
  BY CampaignAssumption DEF Primers
<1>5. Cardinality(Cells) \in Nat /\ Cardinality(InvalidCells) \in Nat
  BY FS_CardinalityType, CampaignAssumption
<1> HIDE DEF valid, invalid
<1>6. /\ IsFiniteSet(valid \cup invalid)
      /\ Cardinality(valid \cup invalid)
            = Cardinality(Cells) * Repetitions + Cardinality(InvalidCells) * InvalidRepetitions
  BY <1>2, <1>3, <1>4, DisjointCount
<1>7. /\ IsFiniteSet(Primers \cup (valid \cup invalid))
      /\ Cardinality(Primers \cup (valid \cup invalid))
            = Cardinality(Primers) + Cardinality(valid \cup invalid)
  BY <1>1, <1>4, <1>6, DisjointCount
<1>8. Tasks = Primers \cup (valid \cup invalid)
  BY DEF Tasks, Measurements, valid, invalid
<1>9. Cardinality(Cells) * (PrimerRuns + Repetitions)
        = Cardinality(Cells) * PrimerRuns + Cardinality(Cells) * Repetitions
  BY <1>5, CampaignAssumption
<1> QED BY <1>1, <1>5, <1>6, <1>7, <1>8, <1>9, CampaignAssumption DEF ExpectedProcesses

(* A summary made of a table in which a run is the run of one task counts   *)
(* at most one run per repetition of a cell, and no primer.                 *)
LEMMA SummaryCount ==
    ASSUME runs \in Nat, NEW table \in Seq(Rows), RunsAreTasks(table),
           NEW row \in SummaryOf(table)
    PROVE  Cardinality(row.runs) <=
             IF row.group[1] \in Cells THEN Repetitions ELSE InvalidRepetitions
<1>1. PICK g \in Groups(table) : row = SummaryRow(table, g)
  BY DEF SummaryOf
<1>2. row.group = g /\ row.runs = {r.run : r \in Members(table, g)}
  BY <1>1 DEF SummaryRow
<1>3. ASSUME NEW r \in Members(table, g)
      PROVE  \E i \in DOMAIN table : /\ table[i] = r /\ r \in Rows
                                     /\ r.task.cell = g[1] /\ r.task \in Measurements
  <2>1. PICK i \in DOMAIN table :
           table[i] = r /\ Recorded(table[i]) /\ GroupOf(table[i]) = g
    BY DEF Members
  <2>2. r \in Rows
    BY <2>1, ElementOfSeq
  <2>3. r.task \in Tasks /\ r.task.role = "measurement" /\ r.task.cell = g[1]
    BY <2>1, <2>2 DEF Rows, Recorded, GroupOf
  <2>4. r.task \in Measurements
    BY <2>3 DEF Tasks, Primers
  <2> QED BY <2>1, <2>2, <2>3, <2>4
<1> DEFINE limit == IF g[1] \in Cells THEN Repetitions ELSE InvalidRepetitions
           of(id) == CHOOSE r \in Members(table, g) : r.run = id
           f == [id \in row.runs |-> of(id).task.repetition]
<1>4. ASSUME NEW id \in row.runs
      PROVE  of(id) \in Members(table, g) /\ of(id).run = id
  BY <1>2, <1>4
<1>5. ASSUME NEW id \in row.runs PROVE f[id] \in 1..limit
  <2>1. of(id).task \in Measurements /\ of(id).task.cell = g[1]
    BY <1>3, <1>4
  <2>2. of(id).task.repetition \in 1..limit
    <3> HIDE DEF of
    <3> QED BY <2>1, CampaignAssumption DEF Measurements
  <2> QED BY <2>2
<1>6. ASSUME NEW a \in row.runs, NEW b \in row.runs, f[a] = f[b] PROVE a = b
  <2>1. PICK i \in DOMAIN table : table[i] = of(a)
    BY <1>3, <1>4
  <2>2. PICK j \in DOMAIN table : table[j] = of(b)
    BY <1>3, <1>4
  <2>3. /\ of(a).task \in Measurements /\ of(a).task.cell = g[1]
        /\ of(b).task \in Measurements /\ of(b).task.cell = g[1]
        /\ of(a).run = a /\ of(b).run = b
    BY <1>3, <1>4
  <2>4. of(a).task.repetition = of(b).task.repetition
    BY <1>6
  <2> HIDE DEF of
  <2>5. of(a).task = of(b).task
    BY <2>3, <2>4 DEF Measurements
  <2> QED BY <2>1, <2>2, <2>3, <2>5 DEF RunsAreTasks
<1>7. limit \in Nat
  BY CampaignAssumption
<1> HIDE DEF limit, of
<1>8. f \in Injection(row.runs, 1..limit)
  <2>1. f \in [row.runs -> 1..limit]
    BY <1>5
  <2> HIDE DEF f
  <2> QED BY <1>6, <2>1, Fun_IsInj
<1>9. Cardinality(row.runs) <= limit
  <2> HIDE DEF f
  <2>1. IsFiniteSet(1..limit) /\ Cardinality(1..limit) = limit
    BY <1>7, FS_Interval
  <2>2. Cardinality(row.runs) <= Cardinality(1..limit)
    BY <1>8, <2>1, FS_Injection
  <2> QED BY <2>1, <2>2
<1> QED BY <1>2, <1>9 DEF limit

-----------------------------------------------------------------------------
(* One campaign process on the directory. *)

OneProcess == \A p, q \in Campaigns : p = q

(* What is in the file stays as it was when nothing is written. *)
LEMMA FileKept ==
    ASSUME TypeOK, OneProcessInv, runs' \in Nat, runs <= runs', raw' = raw,
           seen' = seen \/ seen' = raw \/ seen' = <<>>
    PROVE  RawHoldsRuns' /\ FailureIsLast'
<1>1. Seq(Rows) \subseteq Seq(Rows')
  BY TypesGrow DEF TypeOK
<1>2. <<>> \in Seq(Rows') /\ RunsAreTasks(<<>>)
  BY DEF RunsAreTasks
<1>3. raw \in Seq(Rows) /\ seen \in Seq(Rows) /\ RunsAreTasks(raw) /\ RunsAreTasks(seen)
  BY DEF OneProcessInv, RawHoldsRuns
<1>4. seen' \in Seq(Rows') /\ RunsAreTasks(seen')
  BY <1>1, <1>2, <1>3
<1>5. raw' \in Seq(Rows') /\ RunsAreTasks(raw')
  BY <1>1, <1>3
<1>6. \A i \in DOMAIN raw : raw[i].kind = "phase" => raw[i].ok
  BY DEF OneProcessInv, RawHoldsRuns
<1>7. RawHoldsRuns'
  BY <1>4, <1>5, <1>6 DEF RawHoldsRuns, RunsAreTasks
<1>8. FailureIsLast'
  BY DEF OneProcessInv, FailureIsLast
<1> QED BY <1>7, <1>8

LEMMA SummaryKept ==
    ASSUME OneProcessInv, summary' = summary
    PROVE  SummaryCountsMeasurementsOnce'
BY DEF OneProcessInv, SummaryCountsMeasurementsOnce

LEMMA InitOneProcessInv == Init => OneProcessInv
<1> SUFFICES ASSUME Init PROVE OneProcessInv
  OBVIOUS
<1>1. OpenedOnce /\ WritesAtTheEnd /\ RowsOfTheRunAtHand /\ FailureIsAtHand
  BY DEF Init, OpenedOnce, WritesAtTheEnd, RowsOfTheRunAtHand, FailureIsAtHand, Writing
<1>2. RawHoldsRuns
  BY DEF Init, RawHoldsRuns, RunsAreTasks
<1>3. TasksAhead
  <2>1. Cardinality(Tasks) \in Nat
    BY TaskCount, FS_CardinalityType
  <2> QED BY <2>1 DEF Init, TasksAhead, Writing
<1>4. FailureIsLast /\ SummaryCountsMeasurementsOnce
  BY DEF Init, FailureIsLast, SummaryCountsMeasurementsOnce
<1> QED BY <1>1, <1>2, <1>3, <1>4 DEF OneProcessInv

(* Before the raw file is opened, and after the campaign. *)
LEMMA OutsideStep ==
    ASSUME TypeOK, OneProcessInv, OneProcess, NEW p \in Campaigns,
           Start(p) \/ WriteConfig(p) \/ WriteEnvironment(p) \/ ExecuteRaises(p) \/ Crash(p)
    PROVE  OneProcessInv'
<1>1. /\ UNCHANGED <<todo, run, held, rows, offset, emitted, runs, raw, summary, resumVars>>
      /\ pc' = [pc EXCEPT ![p] = pc'[p]] /\ pc \in [Campaigns -> Pcs]
      /\ pc'[p] \in {"idle", "config", "environment", "raw"}
      /\ pc'[p] # "idle" => "raw_results.csv" \notin files
      /\ "raw_results.csv" \in files' <=> "raw_results.csv" \in files
  BY DEF Start, WriteConfig, WriteEnvironment, ExecuteRaises, Crash, Goto, bundleVars,
     TypeOK, OneProcessInv, OpenedOnce, EvidenceNames
<1>2. \A q \in Campaigns : q = p /\ pc'[q] \in {"idle", "config", "environment", "raw"}
  BY <1>1 DEF OneProcess
<1>3. OpenedOnce'
  BY <1>1, <1>2 DEF OneProcessInv, OpenedOnce, resumVars, Writing
<1>4. WritesAtTheEnd' /\ RowsOfTheRunAtHand' /\ FailureIsAtHand'
  BY <1>2 DEF WritesAtTheEnd, RowsOfTheRunAtHand, FailureIsAtHand, Writing
<1>5. TasksAhead'
  BY <1>1, <1>2 DEF OneProcessInv, TasksAhead, Writing
<1>6. RawHoldsRuns' /\ FailureIsLast'
  BY <1>1, FileKept DEF TypeOK, resumVars
<1> QED BY <1>1, <1>3, <1>4, <1>5, <1>6, SummaryKept DEF OneProcessInv

LEMMA OpenRawStep ==
    ASSUME TypeOK, OneProcessInv, OneProcess, NEW p \in Campaigns, OpenRaw(p)
    PROVE  OneProcessInv'
<1>1. /\ raw = <<>> /\ runs = 0 /\ seen = <<>> /\ summary = {}
  BY DEF OpenRaw, Goto, OneProcessInv, OpenedOnce
<1>2. /\ raw' = <<>> /\ runs' = 0 /\ seen' = <<>> /\ summary' = {}
      /\ pc'[p] = "task" /\ todo'[p] = Tasks /\ rows'[p] = <<>> /\ offset'[p] = 0
      /\ "raw_results.csv" \in files'
  BY <1>1 DEF OpenRaw, Goto, TypeOK, resumVars
<1>3. \A q \in Campaigns : q = p
  BY DEF OneProcess
<1>4. OpenedOnce' /\ RowsOfTheRunAtHand' /\ FailureIsAtHand' /\ WritesAtTheEnd'
  BY <1>2, <1>3 DEF OpenedOnce, RowsOfTheRunAtHand, FailureIsAtHand, WritesAtTheEnd, Writing
<1>5. TasksAhead'
  <2>1. Cardinality(Tasks) \in Nat
    BY TaskCount, FS_CardinalityType
  <2> QED BY <1>2, <1>3, <2>1 DEF TasksAhead
<1>6. RawHoldsRuns' /\ FailureIsLast' /\ SummaryCountsMeasurementsOnce'
  BY <1>2 DEF RawHoldsRuns, FailureIsLast, SummaryCountsMeasurementsOnce, RunsAreTasks
<1> QED BY <1>4, <1>5, <1>6 DEF OneProcessInv

(* A run is given an id no row has, and a task no row has. *)
LEMMA BeginTaskStep ==
    ASSUME TypeOK, OneProcessInv, OneProcess, NEW p \in Campaigns, BeginTask(p)
    PROVE  OneProcessInv'
<1>1. PICK t \in Candidates(p) :
         /\ todo' = [todo EXCEPT ![p] = @ \ {t}]
         /\ run' = [run EXCEPT ![p] = [id |-> runs + 1, task |-> t, outcome |-> Cut]]
  BY DEF BeginTask
<1>2. t \in todo[p] /\ todo[p] \subseteq Tasks
  BY <1>1 DEF Candidates, TypeOK
<1>3. /\ UNCHANGED <<raw, summary, seen, files>> /\ runs' = runs + 1 /\ runs \in Nat
      /\ offset' = offset /\ rows' = rows
      /\ pc[p] = "task" /\ pc'[p] = "execute" /\ todo'[p] = todo[p] \ {t}
      /\ run'[p].id = runs + 1 /\ run'[p].task = t
  BY <1>1 DEF BeginTask, Goto, TypeOK, bundleVars, resumVars
<1>4. \A q \in Campaigns : q = p
  BY DEF OneProcess
<1>5. "raw_results.csv" \in files
  BY <1>3 DEF OneProcessInv, OpenedOnce, Writing
<1>6. OpenedOnce' /\ WritesAtTheEnd'
  BY <1>3, <1>4, <1>5 DEF OneProcessInv, OpenedOnce, WritesAtTheEnd, Writing
<1>7. RawHoldsRuns' /\ FailureIsLast'
  BY <1>3, FileKept
<1>8. TasksAhead'
  <2>1. IsFiniteSet(todo[p]) /\ Cardinality(todo[p]) \in Nat /\ Cardinality(Tasks) \in Nat
    BY <1>2, TaskCount, FS_Subset, FS_CardinalityType
  <2>2. Cardinality(todo[p] \ {t}) = Cardinality(todo[p]) - 1 /\ Cardinality(todo[p]) # 0
    BY <1>2, <2>1, FS_RemoveElement, FS_EmptySet
  <2>3. Cardinality(todo[p]) + runs = Cardinality(Tasks)
    BY <1>3 DEF OneProcessInv, TasksAhead, Writing
  <2>4. \A i \in DOMAIN raw : raw[i].task \notin todo[p]
    BY <1>3 DEF OneProcessInv, TasksAhead, Writing
  <2>5. Cardinality(todo'[p]) = Cardinality(todo[p]) - 1
    BY <1>3, <2>2
  <2>6. runs' <= Cardinality(Tasks) /\ Cardinality(todo'[p]) + runs' = Cardinality(Tasks)
    BY <1>3, <2>1, <2>2, <2>3, <2>5
  <2>7. \A i \in DOMAIN raw' : raw'[i].task \notin todo'[p]
    BY <1>3, <2>4
  <2> QED BY <1>4, <2>6, <2>7 DEF TasksAhead
<1>9. RowsOfTheRunAtHand'
  <2>1. ASSUME NEW i \in DOMAIN raw PROVE raw[i].run # runs + 1 /\ raw[i].task # t
    <3>1. raw[i] \in Rows
      BY ElementOfSeq DEF OneProcessInv, RawHoldsRuns
    <3>2. raw[i].run \in 1..runs
      BY <3>1 DEF Rows
    <3>3. raw[i].task \notin todo[p]
      BY <1>3 DEF OneProcessInv, TasksAhead, Writing
    <3> QED BY <1>2, <1>3, <3>2, <3>3
  <2> QED BY <1>3, <1>4, <2>1 DEF RowsOfTheRunAtHand
<1>10. FailureIsAtHand'
  <2>1. \A i \in DOMAIN raw : raw[i].ok
    BY <1>3 DEF OneProcessInv, FailureIsAtHand, Writing
  <2> QED BY <1>3, <2>1 DEF FailureIsAtHand
<1> QED BY <1>3, <1>6, <1>7, <1>8, <1>9, <1>10, SummaryKept DEF OneProcessInv

LEMMA ExecuteStep ==
    ASSUME TypeOK, RunAtHand, OneProcessInv, OneProcess, NEW p \in Campaigns, Execute(p)
    PROVE  OneProcessInv'
<1>1. PICK o \in Outcomes :
         /\ run' = [run EXCEPT ![p] = [run[p] EXCEPT !.outcome = o]]
         /\ held' = [held EXCEPT ![p] = ExecutionRows([run[p] EXCEPT !.outcome = o])]
  BY DEF Execute
<1> DEFINE r == [run[p] EXCEPT !.outcome = o]
<1>2. r \in Runs /\ r.id = run[p].id /\ r.task = run[p].task
  BY DEF Runs, TypeOK
<1>3. /\ UNCHANGED <<raw, summary, seen, files, runs, todo, offset, rows>> /\ runs \in Nat
      /\ pc[p] = "execute" /\ pc'[p] = "rows" /\ run'[p] = r /\ held'[p] = ExecutionRows(r)
  BY <1>1 DEF Execute, Goto, TypeOK, bundleVars, resumVars
<1> HIDE DEF r
<1>4. \A q \in Campaigns : q = p
  BY DEF OneProcess
<1>5. \A k \in DOMAIN ExecutionRows(r) :
         /\ ExecutionRows(r)[k].run = r.id /\ ExecutionRows(r)[k].task = r.task
         /\ ExecutionRows(r)[k].kind = "phase" => ExecutionRows(r)[k].ok
         /\ ~ExecutionRows(r)[k].ok => ~r.outcome.ok
  <2>1. r.id # 0 /\ r.task \in Tasks
    BY <1>2, <1>3 DEF RunAtHand
  <2> QED BY <1>2, <1>3, <2>1, ExecutionRowsType
<1>6. OpenedOnce' /\ WritesAtTheEnd' /\ TasksAhead'
  BY <1>3, <1>4 DEF OneProcessInv, OpenedOnce, WritesAtTheEnd, TasksAhead, Writing
<1>7. RawHoldsRuns' /\ FailureIsLast'
  BY <1>3, FileKept
<1>8. RowsOfTheRunAtHand'
  BY <1>2, <1>3, <1>4, <1>5 DEF OneProcessInv, RowsOfTheRunAtHand
<1>9. FailureIsAtHand'
  <2>1. \A i \in DOMAIN raw : raw[i].ok
    BY <1>3 DEF OneProcessInv, FailureIsAtHand, Writing
  <2> QED BY <1>3, <2>1 DEF FailureIsAtHand
<1> QED BY <1>3, <1>6, <1>7, <1>8, <1>9, SummaryKept DEF OneProcessInv

(* The next row is appended, and is of the run at hand. *)
LEMMA WriteRowStep ==
    ASSUME TypeOK, RunAtHand, OneProcessInv, OneProcess, NEW p \in Campaigns, WriteRow(p)
    PROVE  OneProcessInv'
<1> DEFINE row == Head(held[p])
<1>1. /\ held[p] \in Seq(Rows) /\ held[p] # <<>> /\ runs \in Nat
      /\ row \in Rows /\ Tail(held[p]) \in Seq(Rows) /\ row = held[p][1]
      /\ \A k \in DOMAIN Tail(held[p]) : k + 1 \in DOMAIN held[p]
                                         /\ Tail(held[p])[k] = held[p][k + 1]
  <2>1. held[p] \in Seq(Rows) /\ held[p] # <<>> /\ runs \in Nat
    BY DEF WriteRow, TypeOK, RunAtHand
  <2> QED BY <2>1
<1>2. /\ pc[p] = "rows" /\ pc'[p] \in {"rows", "check"}
      /\ UNCHANGED <<todo, run, runs, files, summary, seen>>
      /\ held'[p] = Tail(held[p]) /\ offset'[p] = offset[p] + 1
      /\ rows'[p] = Append(rows[p], row)
  BY DEF WriteRow, TypeOK, resumVars
<1>3. \A q \in Campaigns : q = p
  BY DEF OneProcess
<1>4. /\ raw \in Seq(Rows) /\ RunsAreTasks(raw) /\ seen \in Seq(Rows) /\ RunsAreTasks(seen)
      /\ offset[p] = Len(raw) /\ rows[p] = raw /\ "raw_results.csv" \in files
      /\ \A i \in DOMAIN raw : raw[i].kind = "phase" => raw[i].ok
      /\ \A i \in DOMAIN raw : raw[i].task \notin todo[p]
      /\ Cardinality(todo[p]) + runs = Cardinality(Tasks)
      /\ \A i \in DOMAIN raw : ~raw[i].ok => raw[i].run = run[p].id /\ ~run[p].outcome.ok
  BY <1>2 DEF OneProcessInv, RawHoldsRuns, WritesAtTheEnd, OpenedOnce, TasksAhead,
     FailureIsAtHand, Writing
<1>5. /\ run[p].task \notin todo[p]
      /\ \A i \in DOMAIN raw : raw[i].run = run[p].id <=> raw[i].task = run[p].task
      /\ \A k \in DOMAIN held[p] :
            /\ held[p][k].run = run[p].id /\ held[p][k].task = run[p].task
            /\ held[p][k].kind = "phase" => held[p][k].ok
            /\ ~held[p][k].ok => ~run[p].outcome.ok
  BY <1>2 DEF OneProcessInv, RowsOfTheRunAtHand
<1>6. /\ row.run = run[p].id /\ row.task = run[p].task
      /\ row.kind = "phase" => row.ok
      /\ ~row.ok => ~run[p].outcome.ok
  <2>1. 1 \in DOMAIN held[p]
    BY <1>1
  <2> QED BY <1>1, <1>5, <2>1
<1>7. raw' = Append(raw, row)
  <2>1. raw \in Seq(Rows \cup {Hole}) /\ row \in Rows \cup {Hole} /\ offset[p] \in Nat
    BY <1>1 DEF TypeOK
  <2>2. raw' = WriteAt(raw, offset[p], row)
    BY DEF WriteRow
  <2> HIDE DEF row
  <2>3. WriteAt(raw, Len(raw), row) = Append(raw, row)
    <3> DEFINE S == Rows \cup {Hole}
    <3>1. Hole \in S /\ raw \in Seq(S) /\ row \in S /\ Len(raw) \in Nat
      BY <1>4, <2>1
    <3> HIDE DEF S
    <3> QED BY <3>1, WriteAtType
  <2> QED BY <1>4, <2>2, <2>3
<1> HIDE DEF row
<1>8. /\ raw' \in Seq(Rows) /\ Len(raw') = Len(raw) + 1
      /\ \A i \in DOMAIN raw' : IF i \in DOMAIN raw THEN raw'[i] = raw[i]
                                ELSE i = Len(raw) + 1 /\ raw'[i] = row
  BY <1>1, <1>4, <1>7
<1>9. /\ OpenedOnce' /\ WritesAtTheEnd'
  BY <1>2, <1>3, <1>4, <1>7, <1>8 DEF OpenedOnce, WritesAtTheEnd, Writing
<1>10. RawHoldsRuns'
  <2>1. Rows' = Rows
    BY <1>2 DEF Rows
  <2>2. RunsAreTasks(raw')
    BY <1>4, <1>5, <1>6, <1>8 DEF RunsAreTasks
  <2>3. \A i \in DOMAIN raw' : raw'[i].kind = "phase" => raw'[i].ok
    BY <1>4, <1>6, <1>8
  <2>4. RunsAreTasks(raw)' /\ RunsAreTasks(seen)'
    BY <1>2, <1>4, <2>2 DEF RunsAreTasks
  <2> QED BY <1>2, <1>4, <1>8, <2>1, <2>3, <2>4 DEF RawHoldsRuns
<1>11. TasksAhead'
  <2>1. \A i \in DOMAIN raw' : raw'[i].task \notin todo[p]
    BY <1>4, <1>5, <1>6, <1>8
  <2> QED BY <1>2, <1>3, <1>4, <2>1 DEF OneProcessInv, TasksAhead
<1>12. RowsOfTheRunAtHand'
  <2>1. \A i \in DOMAIN raw' : raw'[i].run = run[p].id <=> raw'[i].task = run[p].task
    BY <1>5, <1>6, <1>8
  <2>2. \A k \in DOMAIN Tail(held[p]) :
            /\ Tail(held[p])[k].run = run[p].id /\ Tail(held[p])[k].task = run[p].task
            /\ Tail(held[p])[k].kind = "phase" => Tail(held[p])[k].ok
            /\ ~Tail(held[p])[k].ok => ~run[p].outcome.ok
    BY <1>1, <1>5
  <2>3. run'[p] = run[p] /\ todo'[p] = todo[p] /\ held'[p] = Tail(held[p])
    BY <1>2
  <2>4. ASSUME NEW q \in Campaigns
        PROVE  /\ run'[q].task \notin todo'[q]
               /\ \A i \in DOMAIN raw' : raw'[i].run = run'[q].id <=> raw'[i].task = run'[q].task
               /\ \A k \in DOMAIN held'[q] :
                     /\ held'[q][k].run = run'[q].id /\ held'[q][k].task = run'[q].task
                     /\ held'[q][k].kind = "phase" => held'[q][k].ok
                     /\ ~held'[q][k].ok => ~run'[q].outcome.ok
    <3>1. q = p
      BY <1>3
    <3> QED BY <3>1, <2>1, <2>2, <2>3, <1>5
  <2> QED BY <2>4 DEF RowsOfTheRunAtHand
<1>13. FailureIsAtHand'
  <2>1. \A i \in DOMAIN raw' : ~raw'[i].ok => raw'[i].run = run[p].id /\ ~run[p].outcome.ok
    BY <1>4, <1>6, <1>8
  <2> QED BY <1>2, <1>3, <2>1 DEF FailureIsAtHand
<1>14. FailureIsLast'
  <2> SUFFICES ASSUME NEW i \in DOMAIN raw', NEW j \in DOMAIN raw', i < j, ~raw'[i].ok
               PROVE  raw'[j].run = raw'[i].run
    BY DEF FailureIsLast
  <2>1. i \in DOMAIN raw /\ raw'[i] = raw[i]
    BY <1>4, <1>8
  <2>2. CASE j \in DOMAIN raw
    BY <1>8, <2>1, <2>2 DEF OneProcessInv, FailureIsLast
  <2>3. CASE j \notin DOMAIN raw
    BY <1>4, <1>6, <1>8, <2>1, <2>3
  <2> QED BY <2>2, <2>3
<1> QED BY <1>2, <1>9, <1>10, <1>11, <1>12, <1>13, <1>14, SummaryKept DEF OneProcessInv

LEMMA CheckOutcomeStep ==
    ASSUME TypeOK, OneProcessInv, OneProcess, NEW p \in Campaigns, CheckOutcome(p)
    PROVE  OneProcessInv'
<1>1. /\ UNCHANGED <<todo, run, held, rows, offset, runs, files, raw, summary, seen>>
      /\ pc[p] = "check" /\ runs \in Nat
      /\ pc'[p] = IF run[p].outcome.ok THEN "task" ELSE "idle"
  BY DEF CheckOutcome, Goto, TypeOK, bundleVars, resumVars
<1>2. \A q \in Campaigns : q = p
  BY DEF OneProcess
<1>3. OpenedOnce' /\ WritesAtTheEnd' /\ TasksAhead' /\ RowsOfTheRunAtHand'
  BY <1>1, <1>2 DEF OneProcessInv, OpenedOnce, WritesAtTheEnd, TasksAhead,
     RowsOfTheRunAtHand, Writing
<1>4. FailureIsAtHand'
  BY <1>1, <1>2 DEF OneProcessInv, FailureIsAtHand, Writing
<1>5. RawHoldsRuns' /\ FailureIsLast'
  BY <1>1, FileKept
<1> QED BY <1>1, <1>3, <1>4, <1>5, SummaryKept DEF OneProcessInv

LEMMA OpenSummaryStep ==
    ASSUME TypeOK, OneProcessInv, OneProcess, NEW p \in Campaigns, OpenSummary(p)
    PROVE  OneProcessInv'
<1>1. /\ UNCHANGED <<todo, run, held, rows, offset, runs, raw, seen>> /\ summary' = {}
      /\ pc[p] = "task" /\ pc'[p] = "summary" /\ runs \in Nat
      /\ "raw_results.csv" \in files /\ "raw_results.csv" \in files'
  BY DEF OpenSummary, Goto, TypeOK, resumVars, OneProcessInv, OpenedOnce, Writing
<1>2. \A q \in Campaigns : q = p
  BY DEF OneProcess
<1>3. /\ OpenedOnce' /\ WritesAtTheEnd' /\ TasksAhead' /\ RowsOfTheRunAtHand'
      /\ SummaryCountsMeasurementsOnce'
  BY <1>1, <1>2 DEF OneProcessInv, OpenedOnce, WritesAtTheEnd, TasksAhead,
     RowsOfTheRunAtHand, Writing, SummaryCountsMeasurementsOnce
<1>4. FailureIsAtHand'
  BY <1>1, <1>2 DEF OneProcessInv, FailureIsAtHand, Writing
<1>5. RawHoldsRuns' /\ FailureIsLast'
  BY <1>1, FileKept
<1> QED BY <1>3, <1>4, <1>5 DEF OneProcessInv

LEMMA WriteSummaryRowStep ==
    ASSUME TypeOK, OneProcessInv, OneProcess, NEW p \in Campaigns, WriteSummaryRow(p)
    PROVE  OneProcessInv'
<1>1. /\ UNCHANGED <<todo, run, held, rows, offset, runs, files, raw, seen>>
      /\ pc[p] = "summary" /\ pc'[p] \in {"idle", "summary"} /\ runs \in Nat
      /\ \E row \in SummaryOf(rows[p]) : summary' \subseteq summary \cup {row}
  BY DEF WriteSummaryRow, TypeOK, resumVars
<1>2. \A q \in Campaigns : q = p
  BY DEF OneProcess
<1>3. "raw_results.csv" \in files
  BY <1>1 DEF OneProcessInv, OpenedOnce, Writing
<1>4. OpenedOnce' /\ WritesAtTheEnd' /\ TasksAhead' /\ RowsOfTheRunAtHand'
  BY <1>1, <1>2, <1>3 DEF OneProcessInv, OpenedOnce, WritesAtTheEnd, TasksAhead,
     RowsOfTheRunAtHand, Writing
<1>5. FailureIsAtHand'
  BY <1>1, <1>2 DEF OneProcessInv, FailureIsAtHand, Writing
<1>6. RawHoldsRuns' /\ FailureIsLast'
  BY <1>1, FileKept
<1>7. SummaryCountsMeasurementsOnce'
  <2>1. rows[p] \in Seq(Rows) /\ RunsAreTasks(rows[p])
    BY <1>1 DEF OneProcessInv, WritesAtTheEnd, RawHoldsRuns, Writing
  <2>2. \A row \in SummaryOf(rows[p]) :
           Cardinality(row.runs) <=
             IF row.group[1] \in Cells THEN Repetitions ELSE InvalidRepetitions
    BY <1>1, <2>1, SummaryCount
  <2> QED BY <1>1, <2>2 DEF OneProcessInv, SummaryCountsMeasurementsOnce
<1> QED BY <1>4, <1>5, <1>6, <1>7 DEF OneProcessInv

LEMMA ResummarizeStep ==
    ASSUME TypeOK, OneProcessInv, Resummarize
    PROVE  OneProcessInv'
<1>1. /\ UNCHANGED <<pc, todo, run, held, rows, offset, runs, raw>> /\ runs \in Nat
      /\ seen' = raw \/ seen' = <<>>
      /\ "raw_results.csv" \in files' <=> "raw_results.csv" \in files
      /\ "raw_results.csv" \notin files => seen' = <<>>
      /\ summary' = summary \/ summary' = SummaryOf(seen)
  BY DEF Resummarize, ReadRaw, ReplaceSummary, ResummarizeFails, TypeOK, processVars,
     bundleVars
<1>2. SummaryOf(<<>>) = {}
  BY DEF SummaryOf, Groups
<1>3. OpenedOnce'
  BY <1>1, <1>2 DEF OneProcessInv, OpenedOnce
<1>4. WritesAtTheEnd' /\ TasksAhead' /\ RowsOfTheRunAtHand' /\ FailureIsAtHand'
  BY <1>1 DEF OneProcessInv, WritesAtTheEnd, TasksAhead, RowsOfTheRunAtHand,
     FailureIsAtHand
<1>5. RawHoldsRuns' /\ FailureIsLast'
  BY <1>1, FileKept
<1>6. SummaryCountsMeasurementsOnce'
  <2>1. \A row \in SummaryOf(seen) :
           Cardinality(row.runs) <=
             IF row.group[1] \in Cells THEN Repetitions ELSE InvalidRepetitions
    BY <1>1, SummaryCount DEF OneProcessInv, RawHoldsRuns
  <2> QED BY <1>1, <2>1 DEF OneProcessInv, SummaryCountsMeasurementsOnce
<1> QED BY <1>3, <1>4, <1>5, <1>6 DEF OneProcessInv

LEMMA NextOneProcessInv ==
    ASSUME OneProcess
    PROVE  TypeOK /\ RunAtHand /\ OneProcessInv /\ [Next]_vars => OneProcessInv'
<1> SUFFICES ASSUME TypeOK, RunAtHand, OneProcessInv, [Next]_vars PROVE OneProcessInv'
  OBVIOUS
<1>1. CASE UNCHANGED vars
  BY <1>1 DEF vars, processVars, bundleVars, resumVars, OneProcessInv, OpenedOnce,
     WritesAtTheEnd, RawHoldsRuns, RunsAreTasks, TasksAhead, RowsOfTheRunAtHand,
     FailureIsAtHand, FailureIsLast, SummaryCountsMeasurementsOnce, Rows
<1> QED
  BY <1>1, OutsideStep, OpenRawStep, BeginTaskStep, ExecuteStep, WriteRowStep,
     CheckOutcomeStep, OpenSummaryStep, WriteSummaryRowStep, ResummarizeStep
     DEF Next, CampaignStep

LEMMA OneProcessInductive ==
    ASSUME OneProcess
    PROVE  Spec => [](TypeOK /\ RunAtHand /\ OneProcessInv)
<1>1. Init => TypeOK /\ RunAtHand /\ OneProcessInv
  BY InitTypeOK, InitOneProcessInv
<1>2. TypeOK /\ RunAtHand /\ OneProcessInv /\ [Next]_vars
        => (TypeOK /\ RunAtHand /\ OneProcessInv)'
  BY NextTypeOK, NextOneProcessInv
<1> QED BY <1>1, <1>2, PTL DEF Spec

(* A failed run is the last one of the directory, for every set of cells,   *)
(* every schedule and every crash, restart and resummarize.                 *)
THEOREM FirstFailureEndsIt ==
    ASSUME OneProcess
    PROVE  Spec => []FailureIsLast
<1>1. OneProcessInv => FailureIsLast
  BY DEF OneProcessInv
<1> QED BY <1>1, OneProcessInductive, PTL

(* Whoever wrote the summary counted at most one run per repetition of a    *)
(* cell, and no primer.                                                     *)
THEOREM NoPrimerInTheSummary ==
    ASSUME OneProcess
    PROVE  Spec => []SummaryCountsMeasurementsOnce
<1>1. OneProcessInv => SummaryCountsMeasurementsOnce
  BY DEF OneProcessInv
<1> QED BY <1>1, OneProcessInductive, PTL

-----------------------------------------------------------------------------
(* The bundle that validates. *)

(* Run ids and the tasks they ran are as many. *)
LEMMA RunsAndTasksAreAsMany ==
    ASSUME TypeOK, RawHoldsRuns
    PROVE  /\ {raw[i].task : i \in DOMAIN raw} \subseteq Tasks
           /\ IsFiniteSet({raw[i].task : i \in DOMAIN raw})
           /\ Cardinality({raw[i].task : i \in DOMAIN raw}) = Cardinality(RunIds)
<1> DEFINE T == {raw[i].task : i \in DOMAIN raw}
           at(id) == CHOOSE i \in DOMAIN raw : raw[i].run = id
           f == [id \in RunIds |-> raw[at(id)].task]
<1>1. \A i \in DOMAIN raw : raw[i].run \in 1..runs /\ raw[i].task \in Tasks
  <2>1. \A i \in DOMAIN raw : raw[i] \in Rows
    BY ElementOfSeq DEF RawHoldsRuns
  <2> QED BY <2>1 DEF Rows
<1>2. IsFiniteSet(RunIds)
  <2>1. RunIds \subseteq 1..runs
    BY <1>1 DEF RunIds
  <2>2. IsFiniteSet(1..runs)
    BY FS_Interval DEF TypeOK
  <2> QED BY <2>1, <2>2, FS_Subset
<1>3. \A id \in RunIds : at(id) \in DOMAIN raw /\ raw[at(id)].run = id
  BY DEF RunIds
<1> HIDE DEF at
<1>4. f \in [RunIds -> T]
  BY <1>3
<1>5. \A a, b \in RunIds : f[a] = f[b] => a = b
  BY <1>3 DEF RawHoldsRuns, RunsAreTasks
<1>6. ASSUME NEW t \in T PROVE \E id \in RunIds : f[id] = t
  <2>1. PICK i \in DOMAIN raw : raw[i].task = t
    OBVIOUS
  <2>2. raw[i].run \in RunIds
    BY DEF RunIds
  <2>3. raw[at(raw[i].run)].task = t
    BY <1>3, <2>1, <2>2 DEF RawHoldsRuns, RunsAreTasks
  <2> QED BY <2>2, <2>3
<1>7. T \subseteq Tasks
  BY <1>1
<1> HIDE DEF f, T
<1>8. f \in Bijection(RunIds, T)
  BY <1>4, <1>5, <1>6, Fun_IsBij
<1>9. IsFiniteSet(T) /\ Cardinality(T) = Cardinality(RunIds)
  BY <1>2, <1>8, FS_Bijection, Fun_ExistsBij
<1> QED BY <1>7, <1>9 DEF T

(* The validator counts run ids, and looks at each run's process row; from  *)
(* the inductive invariant this is enough for the tasks to be all there,    *)
(* once, and every row to be of a run that succeeded.                       *)
LEMMA CountingIsEnough ==
    ASSUME TypeOK, OneProcessInv
    PROVE  ValidatedRunsAreTheCampaign
<1> SUFFICES ASSUME Validated
             PROVE  /\ {raw[i].task : i \in DOMAIN raw} = Tasks
                    /\ \A i, j \in DOMAIN raw :
                          raw[i].task = raw[j].task => raw[i].run = raw[j].run
                    /\ \A i \in DOMAIN raw : raw[i].ok
  BY DEF ValidatedRunsAreTheCampaign
<1>1. RawHoldsRuns
  BY DEF OneProcessInv
<1>2. Cardinality(RunIds) = Cardinality(Tasks)
  BY TaskCount DEF Validated
<1>3. {raw[i].task : i \in DOMAIN raw} = Tasks
  <2> DEFINE T == {raw[i].task : i \in DOMAIN raw}
  <2>1. T \subseteq Tasks /\ IsFiniteSet(T) /\ Cardinality(T) = Cardinality(Tasks)
    BY <1>1, <1>2, RunsAndTasksAreAsMany
  <2> HIDE DEF T
  <2>2. T = Tasks
    BY <2>1, TaskCount, FS_Subset
  <2> QED BY <2>2 DEF T
<1>4. ASSUME NEW i \in DOMAIN raw PROVE raw[i].ok
  <2>1. raw[i].kind \in {"phase", "process"}
    <3>1. raw[i] \in Rows
      BY <1>1, ElementOfSeq DEF RawHoldsRuns
    <3> QED BY <3>1 DEF Rows
  <2>2. CASE raw[i].kind = "phase"
    BY <1>1, <2>2 DEF RawHoldsRuns
  <2>3. CASE raw[i].kind = "process"
    <3>1. RunIsGood(raw[i].run)
      BY DEF Validated, RunIds
    <3>2. i \in RowsOfRun(raw[i].run, "process")
      BY <2>3 DEF RowsOfRun
    <3> QED BY <3>1, <3>2 DEF RunIsGood, ProcessRowGood
  <2> QED BY <2>1, <2>2, <2>3
<1> QED BY <1>1, <1>3, <1>4 DEF RawHoldsRuns, RunsAreTasks

(* A bundle that validates is the configured campaign: every task ran, in   *)
(* one run, and every run succeeded.                                        *)
THEOREM BundleIsTheCampaign ==
    ASSUME OneProcess
    PROVE  Spec => []ValidatedRunsAreTheCampaign
BY CountingIsEnough, OneProcessInductive, PTL

-----------------------------------------------------------------------------
(* The raw file as a log. *)

LEMMA InitLog == Init => Log!Init
BY DEF Init, Log!Init, Writer

(* Every row written is one the log takes. *)
LEMMA LogRow ==
    ASSUME TypeOK, OneProcessInv, NEW row \in Rows
    PROVE  row \in [run : 1..Cardinality(Tasks), task : Tasks,
                    kind : {"phase", "process"}, ok : BOOLEAN,
                    exit0 : BOOLEAN, verdict : Verdicts]
<1>1. runs \in Nat /\ runs <= Cardinality(Tasks) /\ Cardinality(Tasks) \in Nat
  BY TaskCount, FS_CardinalityType DEF TypeOK, OneProcessInv, TasksAhead
<1>2. 1..runs \subseteq 1..Cardinality(Tasks)
  BY <1>1
<1> QED BY <1>2 DEF Rows

(* What each step does to the file and to its writer. *)
LEMMA LogStep ==
    ASSUME TypeOK, RunAtHand, OneProcessInv, OneProcess, [Next]_vars
    PROVE  [Log!Next]_(Log!logVars)
<1> USE DEF Goto, bundleVars, resumVars, processVars
<1>0. ASSUME NEW p \in Campaigns
      PROVE  /\ \A q \in Campaigns : q = p
             /\ pc[p] \in Writing => Writer = "open"
             /\ pc[p] \in {"config", "environment", "raw"} => Writer = "none"
             /\ pc'[p] \in Writing => Writer' = IF "raw_results.csv" \in files'
                                               THEN "open" ELSE "none"
             /\ pc'[p] \notin Writing => Writer' = IF "raw_results.csv" \in files'
                                                  THEN "closed" ELSE "none"
             /\ pc[p] \notin Writing => Writer = IF "raw_results.csv" \in files
                                                THEN "closed" ELSE "none"
             /\ pc[p] \in Writing => "raw_results.csv" \in files
  BY DEF OneProcess, Writer, OneProcessInv, OpenedOnce, Writing
<1>1. ASSUME NEW p \in Campaigns, Start(p) PROVE UNCHANGED Log!logVars
  BY <1>1, <1>0 DEF Start, TypeOK, Writing, Log!logVars, EvidenceNames
<1>2. ASSUME NEW p \in Campaigns, WriteConfig(p) \/ WriteEnvironment(p)
      PROVE  UNCHANGED Log!logVars
  BY <1>2, <1>0 DEF WriteConfig, WriteEnvironment, TypeOK, Writing, Log!logVars
<1>3. ASSUME NEW p \in Campaigns, OpenRaw(p) PROVE Log!Open
  <2>1. raw = <<>> /\ raw' = <<>>
    BY <1>3 DEF OpenRaw, OneProcessInv, OpenedOnce
  <2>2. Writer = "none"
    BY <1>0, <1>3 DEF OpenRaw
  <2>3. Writer' = "open"
    BY <1>0, <1>3 DEF OpenRaw, TypeOK, Writing
  <2> QED BY <2>1, <2>2, <2>3 DEF Log!Open
<1>4. ASSUME NEW p \in Campaigns,
             BeginTask(p) \/ Execute(p) \/ OpenSummary(p)
      PROVE  UNCHANGED Log!logVars
  <2>1. /\ raw' = raw /\ pc[p] \in Writing /\ pc'[p] \in Writing
        /\ "raw_results.csv" \in files => "raw_results.csv" \in files'
    BY <1>4 DEF BeginTask, Execute, OpenSummary, TypeOK, Writing
  <2> QED BY <1>0, <2>1 DEF Log!logVars
<1>5. ASSUME NEW p \in Campaigns, ExecuteRaises(p) \/ Crash(p)
      PROVE  Log!Close \/ UNCHANGED Log!logVars
  <2>1. raw' = raw /\ files' = files /\ pc'[p] \notin Writing
    BY <1>5 DEF ExecuteRaises, Crash, TypeOK, Writing
  <2>2. CASE pc[p] \in Writing
    BY <1>0, <2>1, <2>2 DEF Log!Close
  <2>3. CASE pc[p] \notin Writing
    BY <1>0, <2>1, <2>3 DEF Log!logVars
  <2> QED BY <2>2, <2>3
<1>6. ASSUME NEW p \in Campaigns, WriteRow(p) PROVE Log!Add
  <2> DEFINE row == Head(held[p])
  <2>1. row \in Rows /\ raw \in Seq(Rows) /\ offset[p] = Len(raw)
    BY <1>6 DEF WriteRow, TypeOK, RunAtHand, OneProcessInv, RawHoldsRuns, WritesAtTheEnd,
       Writing
  <2>2. raw' = WriteAt(raw, offset[p], row)
    BY <1>6 DEF WriteRow
  <2>3. Writer = "open" /\ Writer' = "open"
    <3>1. pc[p] \in Writing /\ pc'[p] \in Writing /\ files' = files
      BY <1>6 DEF WriteRow, TypeOK, Writing
    <3> QED BY <1>0, <3>1
  <2> HIDE DEF row
  <2>4. raw' = Append(raw, row)
    <3> DEFINE S == Rows \cup {Hole}
    <3>1. Hole \in S /\ raw \in Seq(S) /\ row \in S /\ Len(raw) \in Nat
      BY <2>1 DEF TypeOK
    <3> HIDE DEF S
    <3>2. WriteAt(raw, Len(raw), row) = Append(raw, row)
      BY <3>1, WriteAtType
    <3> QED BY <2>1, <2>2, <3>2
  <2>5. row \in [run : 1..Cardinality(Tasks), task : Tasks,
                 kind : {"phase", "process"}, ok : BOOLEAN,
                 exit0 : BOOLEAN, verdict : Verdicts]
    BY <2>1, LogRow
  <2> QED BY <2>3, <2>4, <2>5 DEF Log!Add
<1>7. ASSUME NEW p \in Campaigns, CheckOutcome(p) \/ WriteSummaryRow(p)
      PROVE  Log!Close \/ UNCHANGED Log!logVars
  <2>1. raw' = raw /\ files' = files /\ pc[p] \in Writing
    BY <1>7 DEF CheckOutcome, WriteSummaryRow, TypeOK, Writing
  <2>2. CASE pc'[p] \in Writing
    BY <1>0, <2>1, <2>2 DEF Log!logVars
  <2>3. CASE pc'[p] \notin Writing
    BY <1>0, <2>1, <2>3 DEF Log!Close
  <2> QED BY <2>2, <2>3
<1>8. CASE Resummarize
  <2>1. /\ raw' = raw /\ pc' = pc
        /\ "raw_results.csv" \in files' <=> "raw_results.csv" \in files
    BY <1>8 DEF Resummarize, ReadRaw, ReplaceSummary, ResummarizeFails
  <2> QED BY <2>1 DEF Log!logVars, Writer
<1>9. CASE UNCHANGED vars
  BY <1>9 DEF vars, Log!logVars, Writer
<1> QED
  BY <1>1, <1>2, <1>3, <1>4, <1>5, <1>6, <1>7, <1>8, <1>9 DEF Next, CampaignStep, Log!Next

(* With one process, the directory is the append-only log EvidenceLog       *)
(* describes: opened once, written by one campaign behind what is there,    *)
(* and never again when the campaign is over.                               *)
THEOREM DirectoryIsALog ==
    ASSUME OneProcess
    PROVE  Spec => ImplementsEvidenceLog
<1>1. TypeOK /\ RunAtHand /\ OneProcessInv /\ [Next]_vars => [Log!Next]_(Log!logVars)
  BY LogStep
<1> QED BY <1>1, InitLog, OneProcessInductive, PTL DEF Spec, ImplementsEvidenceLog, Log!Spec

(* "refusing to overwrite existing benchmark evidence": true of one         *)
(* process, however often it is killed and started again.                   *)
THEOREM EvidenceIsKept ==
    ASSUME OneProcess
    PROVE  Spec => EvidenceIsNotOverwritten
<1>1. ASSUME NEW S, NEW s \in Seq(S)
      PROVE  IsPrefix(s, s) /\ \A row \in S : IsPrefix(s, Append(s, row))
  BY DEF IsPrefix
<1>2. TypeOK /\ RunAtHand /\ OneProcessInv /\ [Next]_vars => [IsPrefix(raw, raw')]_vars
  <2> SUFFICES ASSUME TypeOK, RunAtHand, OneProcessInv, [Next]_vars
               PROVE  IsPrefix(raw, raw')
    OBVIOUS
  <2> DEFINE S == [run : 1..Cardinality(Tasks), task : Tasks,
                   kind : {"phase", "process"}, ok : BOOLEAN,
                   exit0 : BOOLEAN, verdict : Verdicts]
  <2>1. raw' = raw \/ \E row \in S : raw' = Append(raw, row)
    BY LogStep DEF Log!Next, Log!Open, Log!Add, Log!Close, Log!logVars
  <2>2. raw \in Seq(S \cup Rows)
    <3>1. raw \in Seq(Rows)
      BY DEF OneProcessInv, RawHoldsRuns
    <3> HIDE DEF S
    <3> QED BY <3>1, SeqMonotonic
  <2> HIDE DEF S
  <2>3. CASE raw' = raw
    BY <1>1, <2>2, <2>3
  <2>4. CASE \E row \in S : raw' = Append(raw, row)
    BY <1>1, <2>2, <2>4
  <2> QED BY <2>1, <2>3, <2>4
<1> QED BY <1>2, OneProcessInductive, PTL DEF Spec, EvidenceIsNotOverwritten
=============================================================================
