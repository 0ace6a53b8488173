----------------------------- MODULE Publication -----------------------------
(***************************************************************************)
(* The Base Sepolia publication campaign: the task loop of                 *)
(* scripts/run_base_sepolia_publication.py, the TransactionBudget of       *)
(* zkbench/chain.py, the RPC waits and transaction_row of                  *)
(* zkbench/base_sepolia.py, and scripts/validate_chain_results.py, which   *)
(* judges the bundle the campaign leaves behind.                           *)
(*                                                                         *)
(* Actors: the script (its pc is `pc'), the network (`chain' and `spent')  *)
(* and whatever may kill the script.  A transaction is accepted, then      *)
(* preconfirmed (its receipt is visible, the L1 fee in it provisional),    *)
(* then included (the receipt and the wallet balance are final); it may    *)
(* also stay pending for ever.  Nobody else uses the wallet.               *)
(***************************************************************************)
EXTENDS Integers, Sequences, FiniteSets

CONSTANTS
    Artifacts,          \* the systems a configuration may name
    MaxRepetitions,     \* bound: config["repetitions"]
    MaxNamed,           \* bound: the names --system may list
    MaxTransactions,    \* config["max_transactions"]
    MaxTotalWei,        \* config["max_total_wei"]
    L1Reserve,          \* config["l1_fee_reserve_wei_per_transaction"]
    Quotes,             \* gas_limit * max_fee_per_gas of a transaction
    L2Fees,             \* what its execution may cost
    L1Fees              \* what publishing its calldata may cost

ASSUME FeeAssumption ==
    /\ MaxRepetitions \in Nat \ {0} /\ MaxNamed \in Nat \ {0}
    /\ MaxTransactions \in Nat /\ MaxTotalWei \in Nat /\ L1Reserve \in Nat
    /\ Quotes \subseteq Nat /\ L2Fees \subseteq Nat /\ L1Fees \subseteq Nat

VARIABLES
    pc,
    dry,            \* --dry-run
    artifacts,      \* config["artifacts"]
    systems,        \* the list of --system, which may repeat a name; all artifacts by default
    repetitions,    \* --repetitions
    todo,           \* the tasks not yet begun; their order is shuffled
    task,           \* the task at hand
    quote,          \* its gas_limit * max_fee_per_gas
    budget,         \* TransactionBudget
    before,         \* what the wallet had spent at balance_before
    after,          \* the same at balance_after
    receipt,        \* the receipt at hand
    rows,           \* the rows list
    cumulative,     \* cumulative_receipt_fee_wei
    jsonl, csv,     \* rows in raw_results.jsonl and raw_results.csv
    summary,        \* rows summary.csv was computed from
    estimated,      \* estimates.json is written
    chain,          \* the transactions the network accepted, in nonce order
    spent           \* what they have cost the wallet so far

taskVars == <<todo, task, quote, before, after, receipt>>
optionVars == <<dry, artifacts, systems, repetitions>>
fileVars == <<jsonl, csv, summary, estimated>>
bookVars == <<budget, rows, cumulative>>
netVars == <<chain, spent>>
vars == <<pc, optionVars, taskVars, fileVars, bookVars, netVars>>

(* A task is a repetition and a place in the list of systems: a name listed *)
(* twice makes two tasks that look alike, as in the code's list.            *)
Tasks == (1..repetitions) \X DOMAIN systems
SystemOf(t) == systems[t[2]]

(* The columns repetition and system of a row. *)
Entry(t) == <<t[1], SystemOf(t)>>

NoTask == <<0, 0>>
NoReceipt == [l2 |-> 0, l1 |-> 0, status |-> 0]

Init ==
    /\ pc = "next"
    /\ dry \in BOOLEAN
    /\ artifacts \in (SUBSET Artifacts) \ {{}}
    /\ systems \in UNION {[1..n -> artifacts] : n \in 1..MaxNamed}
    /\ repetitions \in 1..MaxRepetitions
    /\ todo = Tasks /\ task = NoTask /\ quote = 0
    /\ before = 0 /\ after = 0 /\ receipt = NoReceipt
    /\ budget = [transactions |-> 0, total_wei |-> 0]
    /\ rows = <<>> /\ cumulative = 0
    /\ jsonl = 0 /\ csv = 0 /\ summary = 0 /\ estimated = FALSE
    /\ chain = <<>> /\ spent = 0

Goto(from, to) == pc = from /\ pc' = to

-----------------------------------------------------------------------------
(* One task: gate, quote, reservation, signature. *)

NextTask ==
    /\ Goto("next", "gate")
    /\ \E t \in todo : task' = t /\ todo' = todo \ {t}
    /\ UNCHANGED <<optionVars, quote, before, after, receipt, fileVars, bookVars, netVars>>

(* client.chain_id(): the endpoint still serves Base Sepolia. *)
Gate ==
    /\ Goto("gate", "quote")
    /\ UNCHANGED <<optionVars, taskVars, fileVars, bookVars, netVars>>

(* eth_estimateGas and fee_parameters. *)
Quote ==
    /\ Goto("quote", "reserve")
    /\ quote' \in Quotes
    /\ UNCHANGED <<optionVars, todo, task, before, after, receipt, fileVars, bookVars, netVars>>

Reservation == quote + L1Reserve

(* Mutant of Reservable: each transaction is held against the whole cap. *)
ReservableAlone(b, estimate) ==
    /\ estimate > 1
    /\ b.transactions + 1 <= MaxTransactions
    /\ estimate <= MaxTotalWei

(* TransactionBudget.reserve does not raise. *)
Reservable(b, estimate) ==
    /\ estimate > 1
    /\ b.transactions + 1 <= MaxTransactions
    /\ b.total_wei + estimate <= MaxTotalWei

AfterTask == IF todo = {} THEN "estimates" ELSE "next"

(* Mutant of Reserve: the reservation is taken off the total. *)
ReserveRefunds ==
    /\ Goto("reserve", IF dry THEN AfterTask ELSE "balance")
    /\ Reservable(budget, Reservation)
    /\ budget' = [transactions |-> budget.transactions + 1,
                  total_wei |-> budget.total_wei - Reservation]
    /\ UNCHANGED <<optionVars, taskVars, fileVars, rows, cumulative, netVars>>

(* The reservation is made before the transaction exists and never given   *)
(* back; a dry run stops here.                                             *)
Reserve ==
    /\ Goto("reserve", IF dry THEN AfterTask ELSE "balance")
    /\ Reservable(budget, Reservation)
    /\ budget' = [transactions |-> budget.transactions + 1,
                  total_wei |-> budget.total_wei + Reservation]
    /\ UNCHANGED <<optionVars, taskVars, fileVars, rows, cumulative, netVars>>

ReserveRaises ==
    /\ Goto("reserve", "stopped")
    /\ ~Reservable(budget, Reservation)
    /\ UNCHANGED <<optionVars, taskVars, fileVars, bookVars, netVars>>

(* The nonce and the balance are read. *)
ReadBalance ==
    /\ Goto("balance", "send")
    /\ before' = spent
    /\ UNCHANGED <<optionVars, todo, task, quote, after, receipt, fileVars, bookVars, netVars>>

(* A signed transaction: the gas it may burn is bounded by what it was      *)
(* quoted, the L1 fee by nothing it carries.                                *)
Signed ==
    [task : {task}, reserved : {Reservation}, l2 : {f \in L2Fees : f <= quote},
     provisional : L1Fees, final : L1Fees, status : {0, 1}, state : {"pending"}]

(* eth_sendRawTransaction: accepted; or accepted and the answer is lost.    *)
Accepted(to) ==
    /\ Goto("send", to)
    /\ \E tx \in Signed : chain' = Append(chain, tx)
    /\ UNCHANGED <<optionVars, taskVars, fileVars, bookVars, spent>>

Send == Accepted("receipt")
SendUnanswered == Accepted("stopped")

-----------------------------------------------------------------------------
(* The waits for the receipt and for the balance. *)

Latest == chain[Len(chain)]

Fee(tx) == tx.l2 + tx.final

(* What eth_getTransactionReceipt returns now. *)
ReceiptOf(tx) ==
    [l2 |-> tx.l2, status |-> tx.status,
     l1 |-> IF tx.state = "included" THEN tx.final ELSE tx.provisional]

ReceiptVisible == Latest.state # "pending"

ReceiptArrives ==
    /\ Goto("receipt", "settle")
    /\ ReceiptVisible
    /\ receipt' = ReceiptOf(Latest)
    /\ UNCHANGED <<optionVars, todo, task, quote, before, after, fileVars, bookVars, netVars>>

(* Mutant of ReceiptTimeout: the task is given up and the next one begun. *)
ReceiptTimeoutSkipsTask ==
    /\ Goto("receipt", AfterTask)
    /\ UNCHANGED <<optionVars, taskVars, fileVars, bookVars, netVars>>

(* Mutant of ReceiptTimeout: the deadline is ignored. *)
ReceiptTimeoutPollsOn ==
    /\ Goto("receipt", "receipt")
    /\ UNCHANGED <<optionVars, taskVars, fileVars, bookVars, netVars>>

(* wait_for_receipt gives up: TimeoutError ends the campaign. *)
ReceiptTimeout ==
    /\ Goto("receipt", "stopped")
    /\ UNCHANGED <<optionVars, taskVars, fileVars, bookVars, netVars>>

BalanceChanges ==
    /\ Goto("settle", "refetch")
    /\ spent # before
    /\ after' = spent
    /\ UNCHANGED <<optionVars, todo, task, quote, before, receipt, fileVars, bookVars, netVars>>

(* wait_for_balance_change gives up: the unchanged balance is returned, and *)
(* the campaign goes on.                                                    *)
BalanceTimeout ==
    /\ Goto("settle", "refetch")
    /\ after' = before
    /\ UNCHANGED <<optionVars, todo, task, quote, before, receipt, fileVars, bookVars, netVars>>

(* The receipt is fetched again; when the endpoint has none, the first one  *)
(* is kept.                                                                 *)
Refetch ==
    /\ Goto("refetch", "row")
    /\ receipt' \in {receipt, ReceiptOf(Latest)}
    /\ UNCHANGED <<optionVars, todo, task, quote, before, after, fileVars, bookVars, netVars>>

-----------------------------------------------------------------------------
(* The row and the files. *)

ReceiptFee == receipt.l2 + receipt.l1

(* Mutant of Row: an unchanged balance is taken for a late one. *)
RowAssumesDelta ==
    [task |-> task, tx |-> Len(chain), l2 |-> receipt.l2, l1 |-> receipt.l1,
     fee |-> ReceiptFee,
     delta |-> IF after = before THEN ReceiptFee ELSE after - before,
     cumulative |-> cumulative + ReceiptFee]

(* transaction_row; a delta of 0 stands for None. *)
Row ==
    [task |-> task, tx |-> Len(chain), l2 |-> receipt.l2, l1 |-> receipt.l1,
     fee |-> ReceiptFee, delta |-> after - before,
     cumulative |-> cumulative + ReceiptFee]

RowIsGood == receipt.status = 1 /\ cumulative + ReceiptFee <= MaxTotalWei

(* The row is kept and appended to raw_results.jsonl. *)
AppendRow ==
    /\ Goto("row", "csv")
    /\ RowIsGood
    /\ rows' = Append(rows, Row)
    /\ cumulative' = cumulative + ReceiptFee
    /\ jsonl' = jsonl + 1
    /\ UNCHANGED <<optionVars, taskVars, csv, summary, estimated, budget, netVars>>

(* The transaction failed, or the fees really paid exceed the cap. *)
RowRaises ==
    /\ Goto("row", "stopped")
    /\ ~RowIsGood
    /\ UNCHANGED <<optionVars, taskVars, fileVars, bookVars, netVars>>

(* write_csv opens the file for writing, which empties it, and writes it    *)
(* row by row; summary.csv follows in the same way.                         *)
OpenCsv ==
    /\ Goto("csv", "csv_rows")
    /\ csv' = 0
    /\ UNCHANGED <<optionVars, taskVars, jsonl, summary, estimated, bookVars, netVars>>

WriteCsvRow ==
    /\ pc = "csv_rows" /\ csv < Len(rows)
    /\ csv' = csv + 1
    /\ pc' = IF csv' = Len(rows) THEN "summary" ELSE pc
    /\ UNCHANGED <<optionVars, taskVars, jsonl, summary, estimated, bookVars, netVars>>

OpenSummary ==
    /\ Goto("summary", "summary_rows")
    /\ summary' = 0
    /\ UNCHANGED <<optionVars, taskVars, jsonl, csv, estimated, bookVars, netVars>>

WriteSummary ==
    /\ Goto("summary_rows", IF estimated THEN "done" ELSE AfterTask)
    /\ summary' = Len(rows)
    /\ UNCHANGED <<optionVars, taskVars, jsonl, csv, estimated, bookVars, netVars>>

(* After the last task: estimates.json, and both tables once more. *)
WriteEstimates ==
    /\ Goto("estimates", IF dry THEN "done" ELSE "csv")
    /\ estimated' = TRUE
    /\ UNCHANGED <<optionVars, taskVars, jsonl, csv, summary, bookVars, netVars>>

(* An RPC call raises: refused, timed out, answered with an error or from   *)
(* another chain.  Nothing catches it.                                      *)
RpcRaises ==
    /\ pc \in {"gate", "quote", "balance", "send", "receipt", "settle", "refetch"}
    /\ pc' = "stopped"
    /\ UNCHANGED <<optionVars, taskVars, fileVars, bookVars, netVars>>

(* The script is killed. *)
Crash ==
    /\ pc \notin {"stopped", "done"}
    /\ pc' = "stopped"
    /\ UNCHANGED <<optionVars, taskVars, fileVars, bookVars, netVars>>

-----------------------------------------------------------------------------
(* The network. *)

(* The chain after its i-th transaction has come to a new state. *)
Moved(i, state) == [chain EXCEPT ![i].state = state]

Preconfirm ==
    \E i \in DOMAIN chain :
        /\ chain[i].state = "pending"
        /\ chain' = Moved(i, "preconfirmed")
        /\ UNCHANGED <<pc, optionVars, taskVars, fileVars, bookVars, spent>>

Include ==
    \E i \in DOMAIN chain :
        /\ chain[i].state = "preconfirmed"
        /\ \A j \in 1..(i - 1) : chain[j].state = "included"
        /\ chain' = Moved(i, "included")
        /\ spent' = spent + Fee(chain[i])
        /\ UNCHANGED <<pc, optionVars, taskVars, fileVars, bookVars>>

-----------------------------------------------------------------------------
ScriptStep ==
    \/ NextTask \/ Gate \/ Quote \/ Reserve \/ ReserveRaises \/ ReadBalance
    \/ Send \/ SendUnanswered \/ ReceiptArrives \/ ReceiptTimeout
    \/ BalanceChanges \/ BalanceTimeout \/ Refetch \/ AppendRow \/ RowRaises
    \/ OpenCsv \/ WriteCsvRow \/ OpenSummary \/ WriteSummary \/ WriteEstimates

Next == ScriptStep \/ RpcRaises \/ Crash \/ Preconfirm \/ Include

(* Every wait of the script has a deadline, so the script moves on whatever *)
(* the network does; no RPC call has to fail for that.                      *)
Spec == Init /\ [][Next]_vars /\ WF_vars(ScriptStep)

-----------------------------------------------------------------------------
(* scripts/validate_chain_results.py. *)

Csv == SubSeq(rows, 1, csv)
Summarised == SubSeq(rows, 1, summary)

RowsOf(table, s) == {i \in DOMAIN table : SystemOf(table[i].task) = s}

ExpectedRows == repetitions * Cardinality(artifacts)

(* Mutant of RowsSettled: the balance delta is not compared. *)
RowsSum ==
    \A i \in DOMAIN Csv :
        /\ Csv[i].l2 > 1 /\ Csv[i].l1 > 1 /\ Csv[i].fee = Csv[i].l2 + Csv[i].l1
        /\ Csv[i].cumulative =
              Csv[i].fee + (IF i = 1 THEN 0 ELSE Csv[i - 1].cumulative)

(* Every fee is a real quantity, the parts sum to the total, the total is   *)
(* what the wallet lost, and the running total is the one recorded.         *)
RowsSettled ==
    \A i \in DOMAIN Csv :
        /\ Csv[i].l2 > 1 /\ Csv[i].l1 > 1 /\ Csv[i].fee = Csv[i].l2 + Csv[i].l1
        /\ Csv[i].delta = Csv[i].fee
        /\ Csv[i].cumulative =
              Csv[i].fee + (IF i = 1 THEN 0 ELSE Csv[i - 1].cumulative)

RowsWithinCaps ==
    /\ Len(Csv) <= MaxTransactions
    /\ csv > 0 => Csv[csv].cumulative <= MaxTotalWei

(* Mutant of SummaryCovers: n is not compared. *)
SummaryNames ==
    {SystemOf(Summarised[i].task) : i \in DOMAIN Summarised} = artifacts

SummaryCovers ==
    /\ {SystemOf(Summarised[i].task) : i \in DOMAIN Summarised} = artifacts
    /\ \A s \in artifacts : Cardinality(RowsOf(Summarised, s)) = repetitions

Validated ==
    /\ ~dry
    /\ Len(Csv) = ExpectedRows
    /\ \A s \in artifacts : Cardinality(RowsOf(Csv, s)) = repetitions
    /\ \A i, j \in DOMAIN Csv : Csv[i].tx = Csv[j].tx => i = j
    /\ RowsSettled /\ RowsWithinCaps
    /\ SummaryCovers

-----------------------------------------------------------------------------
(* Type invariant. *)
Pcs == {"next", "gate", "quote", "reserve", "balance", "send", "receipt", "settle",
        "refetch", "row", "csv", "csv_rows", "summary", "summary_rows",
        "estimates", "done", "stopped"}

Transactions ==
    [task : Tasks, reserved : Nat, l2 : L2Fees,
     provisional : L1Fees, final : L1Fees, status : {0, 1},
     state : {"pending", "preconfirmed", "included"}]

Rows ==
    [task : Tasks, tx : Nat, l2 : Nat, l1 : Nat, fee : Nat, delta : Int,
     cumulative : Nat]

TypeOK ==
    /\ pc \in Pcs /\ dry \in BOOLEAN
    /\ artifacts \subseteq Artifacts /\ artifacts # {}
    /\ systems \in Seq(artifacts) /\ systems # <<>>
    /\ repetitions \in 1..MaxRepetitions
    /\ todo \subseteq Tasks /\ task \in Tasks \cup {NoTask}
    /\ quote \in Nat /\ before \in Nat /\ after \in Nat
    /\ receipt \in [l2 : Nat, l1 : Nat, status : {0, 1}]
    /\ rows \in Seq(Rows)
    /\ budget \in [transactions : Nat, total_wei : Nat]
    /\ cumulative \in Nat /\ jsonl \in Nat /\ csv \in Nat /\ summary \in Nat
    /\ estimated \in BOOLEAN /\ chain \in Seq(Transactions) /\ spent \in Nat

(* The owner's cap: as long as no L1 fee went over the reserve the          *)
(* configuration sets aside for it, the wallet never loses more than was    *)
(* reserved, nor the reservations more than the cap, crashes included.      *)
SpendsOnlyReservations ==
    (\A i \in DOMAIN chain : chain[i].final <= L1Reserve) =>
        spent <= budget.total_wei /\ budget.total_wei <= MaxTotalWei

(* No system is named twice: so it is when --system is not given. *)
NamedOnce == \A j, k \in DOMAIN systems : systems[j] = systems[k] => j = k

(* What the validator's acceptance is worth: it counts rows per system and  *)
(* compares neither repetitions nor the log.  A campaign whose --system     *)
(* repeats a name has more tasks than the validator expects rows; killed    *)
(* when it has as many, it leaves a bundle that validates, with a           *)
(* transaction more on the chain or the same repetition twice in the table. *)
(* Nothing of the kind is left by a campaign that came to its end, or named *)
(* no system twice.                                                         *)
Trusted == Validated /\ (pc = "done" \/ NamedOnce)

(* A validated bundle accounts for every wei: the total its last row gives  *)
(* is what the wallet has lost, so no transaction is missing from it, none  *)
(* is counted twice and no provisional fee is left in it.                   *)
ValidatedTotalIsWhatTheWalletLost ==
    Trusted => Csv[csv].cumulative = spent

(* A validated bundle is whole: each repetition of each artifact has        *)
(* exactly one row, and the summary was computed from all of them, whatever *)
(* point of the rewriting of the tables the script was killed at.           *)
ValidatedBundleIsWhole ==
    Trusted =>
        /\ {Entry(Csv[i].task) : i \in DOMAIN Csv} = (1..repetitions) \X artifacts
        /\ \A i, j \in DOMAIN Csv : Entry(Csv[i].task) = Entry(Csv[j].task) => i = j
        /\ Csv = rows /\ Summarised = rows

(* Whatever --system lists and wherever the script was killed: a row of a   *)
(* bundle that validates gives what its transaction has cost the wallet, no *)
(* provisional fee and no deduction of another transaction, although its    *)
(* two balances were read at moments the network did not choose.            *)
ValidatedFeesAreFinal ==
    Validated => \A i \in DOMAIN Csv :
        /\ Csv[i].fee = Fee(chain[Csv[i].tx])
        /\ chain[Csv[i].tx].state = "included"

(* Every campaign ends, whatever the network withholds. *)
PublicationEnds == <>(pc \in {"done", "stopped"})

(* The fees on record are final: "Re-fetch after the wallet balance changes *)
(* so fee fields agree with the finalized account deduction"                *)
(* (run_base_sepolia_publication.py).  The code records the row as well     *)
(* when the balance has not changed in time.                                *)
RecordedFeesAreFinal ==
    \A i \in DOMAIN rows : rows[i].fee = Fee(chain[rows[i].tx])

-----------------------------------------------------------------------------
(* The inductive invariants behind the properties above.                    *)

(* Where there is a task at hand, and a transaction sent for it. *)
TaskAtHand ==
    /\ pc \notin {"next", "stopped"} => task \in Tasks
    /\ pc \in {"receipt", "settle", "refetch", "row"} => chain # <<>>

(* A transaction was reserved for: its L2 fee and the reserve for its L1 fee. *)
EachReservedFor ==
    \A i \in DOMAIN chain : chain[i].l2 + L1Reserve <= chain[i].reserved

(* What has been reserved and not yet used by a transaction. *)
InHand == IF pc \in {"balance", "send"} THEN Reservation ELSE 0

(* `owed' runs through the reservations of the accepted transactions: it   *)
(* grows by at least each of them and stays, with the one in hand, within   *)
(* the budget.                                                              *)
RunsThroughReservations(owed) ==
    /\ \A i \in 1..Len(chain) : owed[i - 1] + chain[i].reserved <= owed[i]
    /\ \A i \in 0..Len(chain) : owed[i] <= owed[Len(chain)]
    /\ owed[Len(chain)] + InHand <= budget.total_wei

(* As long as the L1 fees keep to their reserve, what the wallet has lost   *)
(* is covered by the reservations of the transactions included so far.      *)
LossesCovered(owed) ==
    \E k \in 0..Len(chain) :
        /\ \A i \in DOMAIN chain : chain[i].state = "included" <=> i <= k
        /\ (\A i \in DOMAIN chain : chain[i].final <= L1Reserve) => spent <= owed[k]

BudgetInv ==
    /\ budget.total_wei <= MaxTotalWei
    /\ EachReservedFor
    /\ \E owed \in [0..Len(chain) -> 0..MaxTotalWei] :
          RunsThroughReservations(owed) /\ LossesCovered(owed)

(* Where a transaction is sent and not on record: from its sending to the   *)
(* row, and in a script that was stopped there.                             *)
OneUnrecorded ==
    /\ pc \in {"receipt", "settle", "refetch", "row"} => Len(chain) = jsonl + 1
    /\ pc \notin {"receipt", "settle", "refetch", "row", "stopped"} => Len(chain) = jsonl

(* The append-only log is never behind the tables: a crash can lose rows of *)
(* raw_results.csv and of summary.csv, never the record of a paid           *)
(* transaction the tables had already shown.                                *)
LogCoversTables == csv <= jsonl /\ summary <= jsonl /\ jsonl = Len(rows)

(* A task is run once: it is not begun again when it is at hand, or its row *)
(* on record.                                                               *)
UnderWay == {"gate", "quote", "reserve", "balance", "send", "receipt", "settle",
             "refetch", "row"}

TaskOnce ==
    /\ \A i, j \in DOMAIN rows : rows[i].task = rows[j].task => i = j
    /\ \A i \in DOMAIN rows : rows[i].task \notin todo
    /\ pc \in UnderWay =>
          task \notin todo /\ \A i \in DOMAIN rows : rows[i].task # task

(* No task is passed over but by a script that stops, and the last thing a  *)
(* campaign does is to write both tables from all rows.                     *)
NoneSkipped ==
    /\ ~dry /\ pc # "stopped" => \A t \in Tasks :
          \/ t \in todo
          \/ pc \in UnderWay /\ task = t
          \/ \E i \in DOMAIN rows : rows[i].task = t
    /\ pc = "estimates" \/ estimated => todo = {}
    /\ pc = "estimates" => ~estimated
    /\ pc = "done" => estimated
    /\ estimated => pc \in {"csv", "csv_rows", "summary", "summary_rows", "done", "stopped"}

TablesWritten ==
    /\ pc \in {"summary", "summary_rows"} => csv = Len(rows)
    /\ pc = "done" /\ ~dry => csv = Len(rows) /\ summary = Len(rows)

(* Every row so far has a fee, and the wallet lost it while the row's task  *)
(* was at hand.                                                             *)
SettledUpTo(n) == \A i \in 1..n : rows[i].delta = rows[i].fee /\ rows[i].fee # 0

Settled == SettledUpTo(Len(rows))

(* A settled row behind settled rows has the fee of its own transaction.    *)
SettledFeesAreFinal ==
    \A i \in DOMAIN rows :
        SettledUpTo(i) =>
            /\ rows[i].tx \in DOMAIN chain
            /\ rows[i].fee = Fee(chain[rows[i].tx])
            /\ chain[rows[i].tx].state = "included"

AllRecorded == \A t \in Tasks : \E i \in DOMAIN rows : rows[i].task = t

BooksBalance ==
    spent = cumulative /\ \A i \in DOMAIN chain : chain[i].state = "included"

(* From the sending of a transaction to its row, only this one can still    *)
(* take anything from the wallet, and the wallet has not changed before it. *)
OnlyLatestOutstanding ==
    /\ \A i \in 1..(Len(chain) - 1) : chain[i].state = "included"
    /\ before = cumulative
    /\ spent = IF Latest.state = "included" THEN before + Fee(Latest) ELSE before

(* As long as every row is settled, the books balance between the tasks;    *)
(* and in a script that was stopped, if it has no task left.                *)
AccountInv ==
    /\ rows = <<>> => cumulative = 0
    /\ rows # <<>> => rows[Len(rows)].cumulative = cumulative
    /\ Settled =>
          /\ pc \notin {"receipt", "settle", "refetch", "row", "stopped"} => BooksBalance
          /\ pc = "send" => before = spent
          /\ pc \in {"receipt", "settle", "refetch", "row"} => OnlyLatestOutstanding
          /\ pc \in {"refetch", "row"} => after = before \/ (Latest.state = "included" /\ after = spent)
          /\ pc = "stopped" /\ AllRecorded => BooksBalance

-----------------------------------------------------------------------------
Ledger == INSTANCE PublicationLedger
              WITH sent <- Len(chain), recorded <- jsonl,
                   over <- pc \in {"done", "stopped"}

ImplementsLedger == Ledger!Spec
=============================================================================
