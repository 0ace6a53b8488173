-------------------------- MODULE PublicationProofs --------------------------
(***************************************************************************)
(* Proofs about Publication, for every set of artifacts, quotes and fees,  *)
(* every limit and every reserve: type correctness, the owner's cap, the   *)
(* log that is never behind the tables, that every step of a campaign is a *)
(* step of PublicationLedger, that a bundle which validates holds final    *)
(* fees, and that it is whole and accounts for every wei the wallet has    *)
(* lost, if the campaign came to its end or named no system twice.         *)
(***************************************************************************)
EXTENDS Publication, FiniteSetTheorems, FunctionTheorems, SequenceTheorems, TLAPS

(* Each transaction that is signed has the type of the chain's entries.     *)
LEMMA SignedType ==
    ASSUME TypeOK, task \in Tasks, NEW tx \in Signed
    PROVE  /\ tx \in Transactions
           /\ tx.state = "pending"
           /\ tx.reserved = Reservation
           /\ tx.l2 + L1Reserve <= tx.reserved
<1>2. Reservation \in Nat
  BY FeeAssumption DEF TypeOK, Reservation
<1>3. /\ tx.l2 \in L2Fees /\ tx.l2 <= quote
      /\ tx.reserved = Reservation /\ tx.state = "pending"
  BY DEF Signed
<1>4. tx \in Transactions
  BY <1>2 DEF Signed, Transactions
<1>5. tx.l2 \in Nat /\ quote \in Nat /\ L1Reserve \in Nat
  BY <1>3, FeeAssumption DEF TypeOK
<1>6. tx.l2 + L1Reserve <= tx.reserved
  BY <1>3, <1>5 DEF Reservation
<1> QED BY <1>3, <1>4, <1>6

(* Fees are amounts. *)
LEMMA FeeType ==
    ASSUME NEW tx \in Transactions
    PROVE  tx.l2 \in Nat /\ tx.final \in Nat /\ tx.reserved \in Nat /\ Fee(tx) \in Nat
<1>1. tx.l2 \in L2Fees /\ tx.final \in L1Fees /\ tx.reserved \in Nat
  BY DEF Transactions
<1>2. tx.l2 \in Nat /\ tx.final \in Nat
  BY <1>1, FeeAssumption
<1> QED BY <1>1, <1>2 DEF Fee

(* A transaction that moves on keeps everything but its state. *)
LEMMA StateChange ==
    ASSUME NEW tx \in Transactions,
           NEW s \in {"pending", "preconfirmed", "included"}
    PROVE  /\ [tx EXCEPT !.state = s] \in Transactions
           /\ [tx EXCEPT !.state = s].state = s
           /\ [tx EXCEPT !.state = s].l2 = tx.l2
           /\ [tx EXCEPT !.state = s].final = tx.final
           /\ [tx EXCEPT !.state = s].reserved = tx.reserved
BY DEF Transactions

(* The chain with one of its transactions moved on. *)
LEMMA ChainStateChange ==
    ASSUME chain \in Seq(Transactions), NEW i \in DOMAIN chain,
           NEW s \in {"pending", "preconfirmed", "included"}
    PROVE  /\ Moved(i, s) \in Seq(Transactions) /\ Len(Moved(i, s)) = Len(chain)
           /\ \A j \in 1..Len(chain) :
                 /\ Moved(i, s)[j].l2 = chain[j].l2
                 /\ Moved(i, s)[j].final = chain[j].final
                 /\ Moved(i, s)[j].reserved = chain[j].reserved
                 /\ Moved(i, s)[j].state = IF j = i THEN s ELSE chain[j].state
<1>1. i \in 1..Len(chain) /\ chain[i] \in Transactions
  BY LenProperties, ElementOfSeq
<1> DEFINE tx == chain[i]
           moved == [tx EXCEPT !.state = s]
<1>2. Moved(i, s) = [chain EXCEPT ![i] = moved]
  BY Zenon DEF Moved
<1>3. /\ moved \in Transactions
      /\ moved.state = s /\ moved.l2 = tx.l2 /\ moved.final = tx.final
      /\ moved.reserved = tx.reserved
  BY <1>1, StateChange
<1> HIDE DEF moved
<1>4. /\ Moved(i, s) \in Seq(Transactions) /\ Len(Moved(i, s)) = Len(chain)
      /\ \A j \in 1..Len(chain) : Moved(i, s)[j] = IF j = i THEN moved ELSE chain[j]
  BY <1>1, <1>2, <1>3, ExceptSeq
<1> QED BY <1>3, <1>4

(* What the endpoint answers for an accepted transaction. *)
LEMMA ReceiptType ==
    ASSUME NEW tx \in Transactions
    PROVE  ReceiptOf(tx) \in [l2 : Nat, l1 : Nat, status : {0, 1}]
BY FeeAssumption DEF ReceiptOf, Transactions

(* The last transaction of a chain that is not empty. *)
LEMMA LatestType ==
    ASSUME TypeOK, chain # <<>>
    PROVE  Latest \in Transactions
<1>1. Len(chain) \in 1..Len(chain)
  BY EmptySeq DEF TypeOK
<1> QED BY <1>1, ElementOfSeq DEF TypeOK, Latest

-----------------------------------------------------------------------------
(* Type correctness, with TaskAtHand, which it needs. *)

LEMMA InitTypeOK == Init => TypeOK /\ TaskAtHand
<1> SUFFICES ASSUME Init PROVE TypeOK /\ TaskAtHand
  OBVIOUS
<1>1. rows \in Seq(Rows) /\ chain \in Seq(Transactions)
  BY EmptySeq DEF Init
<1>2. receipt \in [l2 : Nat, l1 : Nat, status : {0, 1}]
  BY DEF Init, NoReceipt
<1>3. /\ artifacts # {} /\ artifacts \subseteq Artifacts
      /\ systems \in Seq(artifacts) /\ systems # <<>>
  <2>1. artifacts \in (SUBSET Artifacts) \ {{}}
    BY DEF Init
  <2>2. PICK n \in 1..MaxNamed : systems \in [1..n -> artifacts]
    BY DEF Init
  <2>3. n \in Nat /\ n # 0 /\ systems \in Seq(artifacts)
    BY <2>2, FeeAssumption
  <2>4. Len(systems) = n
    BY <2>2, <2>3, LenProperties
  <2> QED BY <2>1, <2>3, <2>4, EmptySeq
<1>4. budget \in [transactions : Nat, total_wei : Nat]
  BY DEF Init
<1> QED BY <1>1, <1>2, <1>3, <1>4 DEF Init, TypeOK, TaskAtHand, Pcs

LEMMA NextTypeOK == TypeOK /\ TaskAtHand /\ [Next]_vars => (TypeOK /\ TaskAtHand)'
<1> SUFFICES ASSUME TypeOK, TaskAtHand, [Next]_vars PROVE TypeOK' /\ TaskAtHand'
  OBVIOUS
<1> USE DEF TypeOK, TaskAtHand, Goto, Pcs, optionVars, taskVars, fileVars, bookVars,
            netVars
<1>o. /\ UNCHANGED optionVars
      /\ Tasks' = Tasks /\ Rows' = Rows /\ Transactions' = Transactions
  <2>1. UNCHANGED optionVars
    BY DEF vars, Next, ScriptStep, NextTask, Gate, Quote, Reserve, ReserveRaises, ReadBalance,
       Send, SendUnanswered, Accepted, ReceiptArrives, ReceiptTimeout, BalanceChanges,
       BalanceTimeout, Refetch, AppendRow, RowRaises, OpenCsv, WriteCsvRow, OpenSummary,
       WriteSummary, WriteEstimates, RpcRaises, Crash, Preconfirm, Include
  <2> QED BY <2>1 DEF optionVars, Tasks, Rows, Transactions
<1>1. CASE NextTask
  BY <1>1, <1>o DEF NextTask
<1>2. CASE Gate
  BY <1>2, <1>o DEF Gate
<1>3. CASE Quote
  BY <1>3, <1>o, FeeAssumption DEF Quote
<1>4. CASE Reserve
  <2>1. Reservation \in Nat
    BY FeeAssumption DEF Reservation
  <2> QED BY <1>4, <1>o, <2>1 DEF Reserve, AfterTask
<1>5. CASE ReserveRaises
  BY <1>5, <1>o DEF ReserveRaises
<1>6. CASE ReadBalance
  BY <1>6, <1>o DEF ReadBalance
<1>7. ASSUME NEW to \in {"receipt", "stopped"}, Accepted(to) PROVE TypeOK' /\ TaskAtHand'
  <2>1. PICK tx \in Signed : chain' = Append(chain, tx)
    BY <1>7 DEF Accepted
  <2>2. tx \in Transactions
    BY <1>7, <2>1, SignedType DEF Accepted
  <2>3. chain' \in Seq(Transactions) /\ chain' # <<>>
    BY <2>1, <2>2, AppendProperties
  <2> QED BY <1>7, <1>o, <2>3 DEF Accepted
<1>8. CASE ReceiptArrives
  <2>1. receipt' \in [l2 : Nat, l1 : Nat, status : {0, 1}]
    BY <1>8, LatestType, ReceiptType DEF ReceiptArrives
  <2> QED BY <1>8, <1>o, <2>1 DEF ReceiptArrives
<1>9. CASE ReceiptTimeout
  BY <1>9, <1>o DEF ReceiptTimeout
<1>10. CASE BalanceChanges
  BY <1>10, <1>o DEF BalanceChanges
<1>11. CASE BalanceTimeout
  BY <1>11, <1>o DEF BalanceTimeout
<1>12. CASE Refetch
  <2>1. receipt' \in [l2 : Nat, l1 : Nat, status : {0, 1}]
    BY <1>12, LatestType, ReceiptType DEF Refetch
  <2> QED BY <1>12, <1>o, <2>1 DEF Refetch
<1>13. CASE AppendRow
  <2>1. ReceiptFee \in Nat /\ Len(chain) \in Nat /\ task \in Tasks
    BY <1>13, LenProperties DEF ReceiptFee, AppendRow
  <2>2. Row \in Rows
    BY <1>13, <2>1 DEF AppendRow, Row, Rows
  <2>3. rows' \in Seq(Rows) /\ cumulative' \in Nat
    BY <1>13, <2>1, <2>2, AppendProperties DEF AppendRow
  <2> QED BY <1>13, <1>o, <2>3 DEF AppendRow
<1>14. CASE RowRaises
  BY <1>14, <1>o DEF RowRaises
<1>15. CASE OpenCsv
  BY <1>15, <1>o DEF OpenCsv
<1>16. CASE WriteCsvRow
  BY <1>16, <1>o DEF WriteCsvRow
<1>17. CASE OpenSummary
  BY <1>17, <1>o DEF OpenSummary
<1>18. CASE WriteSummary
  <2>1. Len(rows) \in Nat
    BY LenProperties
  <2> QED BY <1>18, <1>o, <2>1 DEF WriteSummary, AfterTask
<1>19. CASE WriteEstimates
  BY <1>19, <1>o DEF WriteEstimates
<1>20. CASE RpcRaises
  BY <1>20, <1>o DEF RpcRaises
<1>21. CASE Crash
  BY <1>21, <1>o DEF Crash
<1>22. CASE Preconfirm
  <2>1. PICK i \in DOMAIN chain : chain' = Moved(i, "preconfirmed")
    BY <1>22 DEF Preconfirm
  <2>2. chain' \in Seq(Transactions) /\ Len(chain') = Len(chain)
    BY <2>1, ChainStateChange
  <2> QED BY <1>22, <1>o, <2>2, EmptySeq DEF Preconfirm
<1>23. CASE Include
  <2>1. PICK i \in DOMAIN chain : /\ chain' = Moved(i, "included")
                                  /\ spent' = spent + Fee(chain[i])
    BY <1>23 DEF Include
  <2>2. chain' \in Seq(Transactions) /\ Len(chain') = Len(chain)
    BY <2>1, ChainStateChange
  <2>3. spent' \in Nat
    BY <2>1, FeeType, LenProperties, ElementOfSeq
  <2> QED BY <1>23, <1>o, <2>2, <2>3, EmptySeq DEF Include
<1>24. CASE UNCHANGED vars
  BY <1>24, <1>o DEF vars
<1> QED
  BY <1>1, <1>2, <1>3, <1>4, <1>5, <1>6, <1>7, <1>8, <1>9, <1>10, <1>11, <1>12,
     <1>13, <1>14, <1>15, <1>16, <1>17, <1>18, <1>19, <1>20, <1>21, <1>22, <1>23, <1>24
     DEF Next, ScriptStep, Send, SendUnanswered

(* The script, its files, the chain and the wallet keep their types. *)
THEOREM TypeCorrect == Spec => []TypeOK
<1>1. Spec => [](TypeOK /\ TaskAtHand)
  BY InitTypeOK, NextTypeOK, PTL DEF Spec
<1> QED BY <1>1, PTL

-----------------------------------------------------------------------------
(* The owner's cap. *)

(* What is in hand is an amount. *)
LEMMA InHandType == TypeOK => InHand \in Nat /\ Reservation \in Nat
BY FeeAssumption DEF TypeOK, InHand, Reservation

(* The values a running total takes are amounts. *)
LEMMA OwedType ==
    ASSUME TypeOK, NEW owed \in [0..Len(chain) -> 0..MaxTotalWei], NEW k \in 0..Len(chain)
    PROVE  Len(chain) \in 0..Len(chain) /\ owed[k] \in Int
<1>1. Len(chain) \in Nat
  BY LenProperties DEF TypeOK
<1> QED BY <1>1

LEMMA InitBudgetInv == Init => BudgetInv
<1> SUFFICES ASSUME Init PROVE BudgetInv
  OBVIOUS
<1>1. Len(chain) = 0 /\ DOMAIN chain = {} /\ InHand = 0
  BY DEF Init, InHand
<1> DEFINE owed == [i \in 0..0 |-> 0]
<1>2. owed \in [0..Len(chain) -> 0..MaxTotalWei]
  BY <1>1, FeeAssumption
<1>3. RunsThroughReservations(owed)
  BY <1>1 DEF RunsThroughReservations, Init
<1>4. LossesCovered(owed)
  BY <1>1 DEF LossesCovered, Init
<1>5. EachReservedFor /\ budget.total_wei <= MaxTotalWei
  BY <1>1, FeeAssumption DEF EachReservedFor, Init
<1> QED BY <1>2, <1>3, <1>4, <1>5 DEF BudgetInv

(* A step that leaves the chain, the wallet and the budget alone, and takes *)
(* no reservation in hand, keeps the invariant.                             *)
LEMMA QuietStep ==
    ASSUME TypeOK, TypeOK', BudgetInv, UNCHANGED <<chain, spent, budget>>, InHand' <= InHand
    PROVE  BudgetInv'
<1>1. PICK owed \in [0..Len(chain) -> 0..MaxTotalWei] :
          RunsThroughReservations(owed) /\ LossesCovered(owed)
  BY DEF BudgetInv
<1>2. owed[Len(chain)] \in Int /\ budget.total_wei \in Int
  <2>1. Len(chain) \in 0..Len(chain)
    BY LenProperties DEF TypeOK
  <2>2. owed[Len(chain)] \in Int
    BY <1>1, <2>1, OwedType
  <2> QED BY <2>2 DEF TypeOK
<1>3. InHand \in Int /\ InHand' \in Int
  BY InHandType, FeeAssumption DEF TypeOK, InHand, Reservation
<1>4. RunsThroughReservations(owed)'
  <2>1. owed[Len(chain)] + InHand' <= budget.total_wei
    BY <1>1, <1>2, <1>3 DEF RunsThroughReservations
  <2> QED BY <1>1, <2>1 DEF RunsThroughReservations
<1>5. LossesCovered(owed)'
  BY <1>1 DEF LossesCovered
<1>6. EachReservedFor' /\ (budget.total_wei <= MaxTotalWei)'
  BY DEF EachReservedFor, BudgetInv
<1> QED BY <1>4, <1>5, <1>6 DEF BudgetInv

(* A reservation is within the cap and is the only one in hand. *)
LEMMA ReserveStep ==
    ASSUME TypeOK, TypeOK', BudgetInv, Reserve
    PROVE  BudgetInv'
<1>1. PICK owed \in [0..Len(chain) -> 0..MaxTotalWei] :
          RunsThroughReservations(owed) /\ LossesCovered(owed)
  BY DEF BudgetInv
<1>2. /\ UNCHANGED <<chain, spent, quote>>
      /\ InHand = 0 /\ budget'.total_wei = budget.total_wei + Reservation
      /\ budget.total_wei + Reservation <= MaxTotalWei
  BY DEF Reserve, Goto, InHand, netVars, taskVars, Reservable
<1>3. owed[Len(chain)] \in Int /\ budget.total_wei \in Int /\ Reservation \in Nat
  <2>1. Len(chain) \in 0..Len(chain)
    BY LenProperties DEF TypeOK
  <2>2. owed[Len(chain)] \in Int
    BY <1>1, <2>1, OwedType
  <2>3. budget.total_wei \in Int
    BY DEF TypeOK
  <2> QED BY <2>2, <2>3, InHandType
<1>4. InHand' \in {0, Reservation}
  BY <1>2 DEF InHand, Reservation
<1>5. RunsThroughReservations(owed)'
  <2>1. owed[Len(chain)] + InHand' <= budget'.total_wei
    BY <1>1, <1>2, <1>3, <1>4 DEF RunsThroughReservations
  <2> QED BY <1>1, <1>2, <2>1 DEF RunsThroughReservations
<1>6. LossesCovered(owed)'
  BY <1>1, <1>2 DEF LossesCovered
<1>7. EachReservedFor' /\ (budget.total_wei <= MaxTotalWei)'
  BY <1>2 DEF EachReservedFor, BudgetInv
<1> QED BY <1>2, <1>5, <1>6, <1>7 DEF BudgetInv

(* An accepted transaction uses up the reservation in hand. *)
LEMMA AcceptStep ==
    ASSUME TypeOK, TaskAtHand, BudgetInv, NEW to \in {"receipt", "stopped"}, Accepted(to)
    PROVE  BudgetInv'
<1>1. PICK owed \in [0..Len(chain) -> 0..MaxTotalWei] :
          RunsThroughReservations(owed) /\ LossesCovered(owed)
  BY DEF BudgetInv
<1>2. PICK tx \in Signed : chain' = Append(chain, tx)
  BY DEF Accepted
<1>3. /\ tx \in Transactions /\ tx.state = "pending" /\ tx.reserved = Reservation
      /\ tx.l2 + L1Reserve <= tx.reserved
  BY <1>2, SignedType DEF Accepted, Goto, TaskAtHand
<1> DEFINE n == Len(chain)
<1>4. /\ n \in Nat /\ DOMAIN chain = 1..n
      /\ Len(chain') = n + 1 /\ DOMAIN chain' = 1..(n + 1)
      /\ \A i \in 1..n : chain'[i] = chain[i]
      /\ chain'[n + 1] = tx
  BY <1>2, <1>3, LenProperties, AppendProperties DEF TypeOK
<1>5. /\ UNCHANGED <<budget, spent>>
      /\ InHand = Reservation /\ InHand' = 0
  BY DEF Accepted, Goto, InHand, bookVars
<1>6. Reservation \in Nat /\ budget.total_wei \in Nat /\ budget.total_wei <= MaxTotalWei
  BY InHandType DEF TypeOK, BudgetInv
<1> HIDE DEF n
<1>7. PICK more \in [0..(n + 1) -> 0..MaxTotalWei] :
          /\ \A j \in 0..n : more[j] = owed[j] /\ owed[j] \in Int
          /\ more[n + 1] = budget.total_wei
  <2> DEFINE longer == [j \in 0..(n + 1) |-> IF j <= n THEN owed[j] ELSE budget.total_wei]
  <2>1. \A j \in 0..n : j \in 0..(n + 1) /\ longer[j] = owed[j] /\ owed[j] \in 0..MaxTotalWei
    BY <1>1, <1>4 DEF n
  <2>2. longer[n + 1] = budget.total_wei /\ budget.total_wei \in 0..MaxTotalWei
    BY <1>4, <1>6, FeeAssumption
  <2>3. longer \in [0..(n + 1) -> 0..MaxTotalWei]
    BY <1>4, <2>1, <2>2
  <2>4. \A j \in 0..n : longer[j] = owed[j] /\ owed[j] \in Int
    BY <2>1
  <2> HIDE DEF longer
  <2> QED BY <2>2, <2>3, <2>4, Zenon
<1>8. /\ \A i \in 1..n : owed[i - 1] + chain[i].reserved <= owed[i]
      /\ \A i \in 0..n : owed[i] <= owed[n]
      /\ owed[n] + Reservation <= budget.total_wei
  BY <1>1, <1>5 DEF RunsThroughReservations, n
<1>9. RunsThroughReservations(more)'
  <2>1. ASSUME NEW i \in 1..(n + 1)
        PROVE  more[i - 1] + chain'[i].reserved <= more[i]
    <3>1. CASE i <= n
      <4>1. i \in 1..n /\ i - 1 \in 0..n /\ i \in 0..n
        BY <1>4, <3>1
      <4> QED BY <1>4, <1>7, <1>8, <4>1
    <3>2. CASE i = n + 1
      <4>1. i - 1 = n /\ n \in 0..n
        BY <1>4, <3>2
      <4> QED BY <1>3, <1>4, <1>7, <1>8, <3>2, <4>1
    <3> QED BY <1>4, <3>1, <3>2
  <2>2. ASSUME NEW i \in 0..(n + 1) PROVE more[i] <= budget.total_wei
    <3>1. CASE i <= n
      <4>1. i \in 0..n /\ n \in 0..n
        BY <1>4, <3>1
      <4>2. owed[i] \in Int /\ owed[n] \in Int /\ owed[i] <= owed[n]
        BY <1>7, <1>8, <4>1
      <4> QED BY <1>6, <1>7, <1>8, <4>1, <4>2
    <3>2. CASE i = n + 1
      BY <1>6, <1>7, <3>2
    <3> QED BY <1>4, <3>1, <3>2
  <2> QED BY <1>4, <1>5, <1>6, <1>7, <2>1, <2>2 DEF RunsThroughReservations
<1>10. LossesCovered(more)'
  <2>1. PICK k \in 0..n :
          /\ \A i \in 1..n : chain[i].state = "included" <=> i <= k
          /\ (\A i \in 1..n : chain[i].final <= L1Reserve) => spent <= owed[k]
    BY <1>1, <1>4 DEF LossesCovered, n
  <2>2. \A i \in 1..(n + 1) : chain'[i].state = "included" <=> i <= k
    <3> TAKE i \in 1..(n + 1)
    <3>1. i \in 1..n \/ i = n + 1
      BY <1>4
    <3> QED BY <1>3, <1>4, <2>1, <3>1
  <2>3. (\A i \in 1..(n + 1) : chain'[i].final <= L1Reserve) => spent <= more[k]
    <3>1. \A i \in 1..n : i \in 1..(n + 1) /\ chain'[i].final = chain[i].final
      BY <1>4
    <3> QED BY <1>7, <2>1, <3>1
  <2>4. k \in 0..(n + 1)
    BY <1>4
  <2> QED BY <1>4, <1>5, <2>2, <2>3, <2>4 DEF LossesCovered
<1>11. EachReservedFor'
  <2> SUFFICES ASSUME NEW i \in 1..(n + 1)
               PROVE  chain'[i].l2 + L1Reserve <= chain'[i].reserved
    BY <1>4 DEF EachReservedFor
  <2>1. i \in 1..n \/ i = n + 1
    BY <1>4
  <2> QED BY <1>3, <1>4, <2>1 DEF BudgetInv, EachReservedFor
<1> QED BY <1>4, <1>5, <1>6, <1>7, <1>9, <1>10, <1>11 DEF BudgetInv

(* A preconfirmation costs nothing. *)
LEMMA PreconfirmStep ==
    ASSUME TypeOK, BudgetInv, Preconfirm
    PROVE  BudgetInv'
<1>1. PICK owed \in [0..Len(chain) -> 0..MaxTotalWei] :
          RunsThroughReservations(owed) /\ LossesCovered(owed)
  BY DEF BudgetInv
<1>2. PICK h \in DOMAIN chain : /\ chain' = Moved(h, "preconfirmed")
                                /\ chain[h].state = "pending"
  BY DEF Preconfirm
<1>3. /\ Len(chain') = Len(chain) /\ DOMAIN chain = 1..Len(chain)
      /\ DOMAIN chain' = 1..Len(chain)
      /\ \A j \in 1..Len(chain) :
            /\ chain'[j].l2 = chain[j].l2 /\ chain'[j].final = chain[j].final
            /\ chain'[j].reserved = chain[j].reserved
            /\ chain'[j].state = "included" <=> chain[j].state = "included"
  <2>1. chain \in Seq(Transactions)
    BY DEF TypeOK
  <2>2. /\ Moved(h, "preconfirmed") \in Seq(Transactions)
        /\ Len(Moved(h, "preconfirmed")) = Len(chain)
        /\ \A j \in 1..Len(chain) :
              /\ Moved(h, "preconfirmed")[j].l2 = chain[j].l2
              /\ Moved(h, "preconfirmed")[j].final = chain[j].final
              /\ Moved(h, "preconfirmed")[j].reserved = chain[j].reserved
              /\ Moved(h, "preconfirmed")[j].state
                    = IF j = h THEN "preconfirmed" ELSE chain[j].state
    BY <1>2, <2>1, ChainStateChange
  <2> QED BY <1>2, <2>1, <2>2, LenProperties
<1>4. UNCHANGED <<budget, spent>> /\ InHand' = InHand
  BY DEF Preconfirm, InHand, Reservation, bookVars, taskVars
<1>5. RunsThroughReservations(owed)'
  BY <1>1, <1>3, <1>4 DEF RunsThroughReservations
<1>6. LossesCovered(owed)'
  BY <1>1, <1>3, <1>4 DEF LossesCovered
<1>7. EachReservedFor'
  BY <1>3 DEF EachReservedFor, BudgetInv
<1> QED BY <1>3, <1>4, <1>5, <1>6, <1>7 DEF BudgetInv

(* An inclusion takes from the wallet what the next reservation covers. *)
LEMMA IncludeStep ==
    ASSUME TypeOK, BudgetInv, Include
    PROVE  BudgetInv'
<1> DEFINE n == Len(chain)
<1>1. PICK owed \in [0..n -> 0..MaxTotalWei] :
          RunsThroughReservations(owed) /\ LossesCovered(owed)
  BY DEF BudgetInv
<1>2. PICK h \in DOMAIN chain : /\ chain' = Moved(h, "included")
                                /\ chain[h].state = "preconfirmed"
                                /\ \A j \in 1..(h - 1) : chain[j].state = "included"
                                /\ spent' = spent + Fee(chain[h])
  BY DEF Include
<1>3. /\ n \in Nat /\ h \in 1..n
      /\ Len(chain') = n /\ DOMAIN chain = 1..n /\ DOMAIN chain' = 1..n
      /\ \A j \in 1..n :
            /\ chain'[j].l2 = chain[j].l2 /\ chain'[j].final = chain[j].final
            /\ chain'[j].reserved = chain[j].reserved
            /\ chain'[j].state = IF j = h THEN "included" ELSE chain[j].state
  BY <1>2, ChainStateChange, LenProperties DEF TypeOK
<1>4. UNCHANGED budget /\ InHand' = InHand
  BY DEF Include, InHand, Reservation, bookVars, taskVars
<1>5. chain[h] \in Transactions
  BY <1>3, ElementOfSeq DEF TypeOK
<1> HIDE DEF n
<1>6. RunsThroughReservations(owed)'
  BY <1>1, <1>3, <1>4 DEF RunsThroughReservations, n
<1>7. LossesCovered(owed)'
  <2>1. PICK k \in 0..n :
          /\ \A i \in 1..n : chain[i].state = "included" <=> i <= k
          /\ (\A i \in 1..n : chain[i].final <= L1Reserve) => spent <= owed[k]
    BY <1>1, <1>3 DEF LossesCovered, n
  <2>2. h = k + 1
    <3>1. ~(h <= k)
      BY <1>2, <1>3, <2>1
    <3>2. h - 1 <= k
      <4>1. CASE h = 1
        BY <4>1, <2>1
      <4>2. CASE h # 1
        <5>1. h - 1 \in 1..(h - 1) /\ h - 1 \in 1..n
          BY <1>3, <4>2
        <5> QED BY <1>2, <2>1, <5>1
      <4> QED BY <4>1, <4>2
    <3> QED BY <1>3, <2>1, <3>1, <3>2
  <2>3. \A i \in 1..n : chain'[i].state = "included" <=> i <= h
    <3> TAKE i \in 1..n
    <3>1. CASE i = h
      BY <1>3, <3>1
    <3>2. CASE i # h
      <4>1. chain'[i].state = chain[i].state /\ (i <= h <=> i <= k)
        BY <1>3, <2>1, <2>2, <3>2
      <4> QED BY <2>1, <4>1
    <3> QED BY <3>1, <3>2
  <2>4. (\A i \in 1..n : chain'[i].final <= L1Reserve) => spent' <= owed[h]
    <3> SUFFICES ASSUME \A i \in 1..n : chain'[i].final <= L1Reserve
                 PROVE  spent' <= owed[h]
      OBVIOUS
    <3>1. spent <= owed[k] /\ chain[h].final <= L1Reserve
      BY <1>3, <2>1
    <3>2. owed[h - 1] + chain[h].reserved <= owed[h] /\ h - 1 = k
      BY <1>1, <1>3, <2>1, <2>2 DEF RunsThroughReservations, n
    <3>3. chain[h].l2 + L1Reserve <= chain[h].reserved
      BY <1>3 DEF BudgetInv, EachReservedFor
    <3>4. /\ chain[h].l2 \in Nat /\ chain[h].final \in Nat /\ chain[h].reserved \in Nat
          /\ spent' = spent + (chain[h].l2 + chain[h].final)
      BY <1>2, <1>5, FeeType DEF Fee
    <3>5. spent \in Int /\ owed[k] \in Int /\ owed[h] \in Int /\ L1Reserve \in Int
      BY <1>1, <1>3, <2>1, FeeAssumption DEF TypeOK
    <3> QED BY <3>1, <3>2, <3>3, <3>4, <3>5
  <2>5. h \in 0..n
    BY <1>3
  <2> QED BY <1>3, <2>3, <2>4, <2>5 DEF LossesCovered
<1>8. EachReservedFor'
  BY <1>3 DEF EachReservedFor, BudgetInv
<1> QED BY <1>1, <1>3, <1>4, <1>6, <1>7, <1>8 DEF BudgetInv, n

(* The invariant is inductive. *)
LEMMA NextBudgetInv ==
    TypeOK /\ TaskAtHand /\ BudgetInv /\ [Next]_vars => BudgetInv'
<1> SUFFICES ASSUME TypeOK, TaskAtHand, BudgetInv, [Next]_vars PROVE BudgetInv'
  OBVIOUS
<1>t. TypeOK'
  BY NextTypeOK
<1>n. InHand \in Nat
  BY InHandType
<1>1. CASE Reserve
  BY <1>1, <1>t, ReserveStep
<1>2. CASE Send \/ SendUnanswered
  BY <1>2, AcceptStep DEF Send, SendUnanswered
<1>3. CASE Preconfirm
  BY <1>3, PreconfirmStep
<1>4. CASE Include
  BY <1>4, IncludeStep
<1>5. CASE ReadBalance
  <2>1. UNCHANGED <<chain, spent, budget>> /\ InHand' = InHand
    BY <1>5 DEF ReadBalance, Goto, InHand, Reservation, netVars, bookVars
  <2> QED BY <1>n, <1>t, <2>1, QuietStep
<1>6. CASE \/ NextTask \/ Gate \/ Quote \/ ReserveRaises \/ ReceiptArrives \/ ReceiptTimeout
           \/ BalanceChanges \/ BalanceTimeout \/ Refetch \/ AppendRow \/ RowRaises
           \/ OpenCsv \/ WriteCsvRow \/ OpenSummary \/ WriteSummary \/ WriteEstimates
           \/ RpcRaises \/ Crash
  <2>1. UNCHANGED <<chain, spent, budget>> /\ pc' \notin {"balance", "send"}
    BY <1>6 DEF Goto, AfterTask, netVars, bookVars, NextTask, Gate, Quote, ReserveRaises,
       ReceiptArrives, ReceiptTimeout, BalanceChanges, BalanceTimeout, Refetch, AppendRow,
       RowRaises, OpenCsv, WriteCsvRow, OpenSummary, WriteSummary, WriteEstimates,
       RpcRaises, Crash
  <2>2. InHand' = 0
    BY <2>1 DEF InHand
  <2> QED BY <1>n, <1>t, <2>1, <2>2, QuietStep
<1>7. CASE UNCHANGED vars
  <2>1. UNCHANGED <<chain, spent, budget>> /\ InHand' = InHand
    BY <1>7 DEF vars, InHand, Reservation, netVars, bookVars, taskVars
  <2> QED BY <1>n, <1>t, <2>1, QuietStep
<1> QED BY <1>1, <1>2, <1>3, <1>4, <1>5, <1>6, <1>7 DEF Next, ScriptStep

(* Whatever the invariant says of `owed' bounds the wallet's losses. *)
LEMMA BudgetCoversLosses == TypeOK /\ BudgetInv => SpendsOnlyReservations
<1> SUFFICES ASSUME TypeOK, BudgetInv,
                    \A i \in DOMAIN chain : chain[i].final <= L1Reserve
             PROVE  spent <= budget.total_wei /\ budget.total_wei <= MaxTotalWei
  BY DEF SpendsOnlyReservations
<1>1. PICK owed \in [0..Len(chain) -> 0..MaxTotalWei] :
          RunsThroughReservations(owed) /\ LossesCovered(owed)
  BY DEF BudgetInv
<1>2. PICK k \in 0..Len(chain) : spent <= owed[k]
  BY <1>1 DEF LossesCovered
<1>3. /\ owed[k] <= owed[Len(chain)]
      /\ owed[Len(chain)] + InHand <= budget.total_wei
  BY <1>1, <1>2 DEF RunsThroughReservations
<1>4. Len(chain) \in 0..Len(chain)
  BY LenProperties DEF TypeOK
<1>5. /\ owed[k] \in Int /\ owed[Len(chain)] \in Int /\ InHand \in Nat
      /\ spent \in Int /\ budget.total_wei \in Int
  <2>1. owed[k] \in Int /\ owed[Len(chain)] \in Int
    BY <1>1, <1>2, <1>4, OwedType
  <2> QED BY <2>1, InHandType DEF TypeOK
<1> QED BY <1>2, <1>3, <1>5 DEF BudgetInv

(* In every behaviour, for every cap, reserve and fees: as long as no L1    *)
(* fee goes over the reserve set aside for it, the wallet loses at most     *)
(* what was reserved, and the reservations stay within the cap.             *)
THEOREM OwnersCap == Spec => []SpendsOnlyReservations
<1>1. Spec => [](TypeOK /\ TaskAtHand /\ BudgetInv)
  BY InitTypeOK, NextTypeOK, InitBudgetInv, NextBudgetInv, PTL DEF Spec
<1> QED BY <1>1, BudgetCoversLosses, PTL

-----------------------------------------------------------------------------
(* The record of what was paid. *)

LEMMA LogStep == TypeOK /\ LogCoversTables /\ [Next]_vars => LogCoversTables'
<1> SUFFICES ASSUME TypeOK, LogCoversTables, [Next]_vars PROVE LogCoversTables'
  OBVIOUS
<1> USE DEF LogCoversTables
<1>i. csv \in Nat /\ summary \in Nat /\ jsonl \in Nat /\ Len(rows) \in Nat
  BY LenProperties DEF TypeOK
<1>1. CASE AppendRow
  <2>1. Len(rows') = Len(rows) + 1 /\ jsonl' = jsonl + 1 /\ UNCHANGED <<csv, summary>>
    BY <1>1 DEF AppendRow, TypeOK
  <2> QED BY <1>i, <2>1
<1>2. CASE OpenCsv
  BY <1>2, <1>i DEF OpenCsv, bookVars
<1>3. CASE WriteCsvRow
  BY <1>3, <1>i DEF WriteCsvRow, bookVars
<1>4. CASE OpenSummary
  BY <1>4, <1>i DEF OpenSummary, bookVars
<1>5. CASE WriteSummary
  BY <1>5, <1>i DEF WriteSummary, bookVars
<1>6. CASE \/ NextTask \/ Gate \/ Quote \/ Reserve \/ ReserveRaises \/ ReadBalance \/ Send
           \/ SendUnanswered \/ ReceiptArrives \/ ReceiptTimeout \/ BalanceChanges
           \/ BalanceTimeout \/ Refetch \/ RowRaises \/ WriteEstimates \/ RpcRaises
           \/ Crash \/ Preconfirm \/ Include \/ UNCHANGED vars
  <2>1. UNCHANGED <<rows, jsonl, csv, summary>>
    BY <1>6 DEF vars, fileVars, bookVars, NextTask, Gate, Quote, Reserve, ReserveRaises,
       ReadBalance, Send, SendUnanswered, Accepted, ReceiptArrives, ReceiptTimeout,
       BalanceChanges, BalanceTimeout, Refetch, RowRaises, WriteEstimates, RpcRaises,
       Crash, Preconfirm, Include
  <2> QED BY <2>1
<1> QED BY <1>1, <1>2, <1>3, <1>4, <1>5, <1>6 DEF Next, ScriptStep

(* In every behaviour, a crash included, the append-only log holds every    *)
(* row the tables show.                                                     *)
THEOREM LogIsNeverBehind == Spec => []LogCoversTables
<1>1. Init => LogCoversTables
  BY DEF Init, LogCoversTables
<1>2. Spec => [](TypeOK /\ TaskAtHand)
  BY InitTypeOK, NextTypeOK, PTL DEF Spec
<1> QED BY <1>1, <1>2, LogStep, PTL DEF Spec

-----------------------------------------------------------------------------
(* Every step of a campaign is a step of the ledger, or stutters. *)

(* How a step changes what the ledger sees, from one place of the script to *)
(* the next.                                                                *)
LEMMA LedgerEffect ==
    ASSUME TypeOK, TaskAtHand, OneUnrecorded, [Next]_vars
    PROVE  \/ /\ Len(chain') = Len(chain) + 1 /\ jsonl' = jsonl
              /\ pc = "send" /\ pc' \in {"receipt", "stopped"}
           \/ /\ Len(chain') = Len(chain) /\ jsonl' = jsonl + 1
              /\ pc = "row" /\ pc' = "csv"
           \/ /\ Len(chain') = Len(chain) /\ jsonl' = jsonl
              /\ pc \in {"stopped", "done"} => pc' = pc
              /\ pc' \in {"receipt", "settle", "refetch", "row"}
                    => pc \in {"receipt", "settle", "refetch", "row"}
              /\ pc \in {"receipt", "settle", "refetch", "row"}
                    => pc' \in {"receipt", "settle", "refetch", "row", "stopped"}
<1>1. CASE Send \/ SendUnanswered
  <2>1. PICK tx \in Signed : chain' = Append(chain, tx)
    BY <1>1 DEF Send, SendUnanswered, Accepted
  <2>2. Len(chain') = Len(chain) + 1
    BY <1>1, <2>1, SignedType, AppendProperties
       DEF Send, SendUnanswered, Accepted, Goto, TypeOK, TaskAtHand
  <2> QED BY <1>1, <2>2 DEF Send, SendUnanswered, Accepted, Goto, fileVars
<1>2. CASE AppendRow
  BY <1>2 DEF AppendRow, Goto, netVars
<1>3. CASE Preconfirm \/ Include
  <2>1. PICK i \in DOMAIN chain, s \in {"preconfirmed", "included"} : chain' = Moved(i, s)
    BY <1>3 DEF Preconfirm, Include
  <2>2. Len(chain') = Len(chain)
    BY <2>1, ChainStateChange DEF TypeOK
  <2> QED BY <1>3, <2>2 DEF Preconfirm, Include, fileVars
<1>4. CASE \/ NextTask \/ Gate \/ Quote \/ Reserve \/ ReserveRaises \/ ReadBalance
           \/ ReceiptArrives \/ ReceiptTimeout \/ BalanceChanges \/ BalanceTimeout \/ Refetch
           \/ RowRaises \/ OpenCsv \/ WriteCsvRow \/ OpenSummary \/ WriteSummary
           \/ WriteEstimates \/ RpcRaises \/ Crash
  <2>1. UNCHANGED <<chain, jsonl>>
    BY <1>4 DEF fileVars, netVars, NextTask, Gate, Quote, Reserve, ReserveRaises, ReadBalance,
       ReceiptArrives, ReceiptTimeout, BalanceChanges, BalanceTimeout, Refetch, RowRaises,
       OpenCsv, WriteCsvRow, OpenSummary, WriteSummary, WriteEstimates, RpcRaises, Crash
  <2> QED
    BY <1>4, <2>1 DEF Goto, AfterTask, NextTask, Gate, Quote, Reserve, ReserveRaises,
       ReadBalance, ReceiptArrives, ReceiptTimeout, BalanceChanges, BalanceTimeout, Refetch,
       RowRaises, OpenCsv, WriteCsvRow, OpenSummary, WriteSummary, WriteEstimates,
       RpcRaises, Crash
<1>5. CASE UNCHANGED vars
  BY <1>5 DEF vars, fileVars, netVars
<1> QED BY <1>1, <1>2, <1>3, <1>4, <1>5 DEF Next, ScriptStep

LEMMA UnrecordedStep ==
    TypeOK /\ TaskAtHand /\ OneUnrecorded /\ [Next]_vars => OneUnrecorded'
<1> SUFFICES ASSUME TypeOK, TaskAtHand, OneUnrecorded, [Next]_vars PROVE OneUnrecorded'
  OBVIOUS
<1>1. Len(chain) \in Nat /\ jsonl \in Nat
  BY LenProperties DEF TypeOK
<1> QED BY <1>1, LedgerEffect DEF OneUnrecorded

LEMMA LedgerStep ==
    TypeOK /\ TaskAtHand /\ OneUnrecorded /\ [Next]_vars
        => [Ledger!Next]_(Ledger!ledgerVars)
<1> SUFFICES ASSUME TypeOK, TaskAtHand, OneUnrecorded, [Next]_vars
             PROVE  [Ledger!Next]_(Ledger!ledgerVars)
  OBVIOUS
<1>1. Len(chain) \in Nat /\ jsonl \in Nat
  BY LenProperties DEF TypeOK
<1> QED BY <1>1, LedgerEffect
        DEF OneUnrecorded, Ledger!Next, Ledger!Send, Ledger!Record, Ledger!End,
            Ledger!ledgerVars

(* A campaign sends one transaction at a time, and the next only after the  *)
(* last is on record, whatever the network does and wherever it is killed:  *)
(* the part of ImplementsLedger that speaks of its steps.                   *)
THEOREM StepsAreLedgerSteps ==
    Spec => Ledger!Init /\ [][Ledger!Next]_(Ledger!ledgerVars)
<1>1. Init => Ledger!Init
  BY EmptySeq DEF Init, Ledger!Init
<1>2. Init => OneUnrecorded
  BY EmptySeq DEF Init, OneUnrecorded
<1>3. Spec => [](TypeOK /\ TaskAtHand)
  BY InitTypeOK, NextTypeOK, PTL DEF Spec
<1>4. Spec => []OneUnrecorded
  BY <1>2, <1>3, UnrecordedStep, PTL DEF Spec
<1> QED BY <1>1, <1>3, <1>4, LedgerStep, PTL DEF Spec

-----------------------------------------------------------------------------
(* The bundle that validates. *)

(* What a step does to the tasks, the rows and the place of the script.     *)
LEMMA TaskEffect ==
    ASSUME [Next]_vars
    PROVE  /\ UNCHANGED optionVars
           /\ \/ NextTask
              \/ AppendRow
              \/ UNCHANGED <<rows, todo, task>> /\ (pc' \in UnderWay => pc \in UnderWay)
<1>1. CASE NextTask \/ AppendRow
  BY <1>1 DEF NextTask, AppendRow
<1>2. CASE \/ Gate \/ Quote \/ Reserve \/ ReserveRaises \/ ReadBalance \/ Send
           \/ SendUnanswered \/ ReceiptArrives \/ ReceiptTimeout \/ BalanceChanges
           \/ BalanceTimeout \/ Refetch
  BY <1>2 DEF Gate, Quote, Reserve, ReserveRaises, ReadBalance, Send, SendUnanswered,
     Accepted, ReceiptArrives, ReceiptTimeout, BalanceChanges, BalanceTimeout, Refetch,
     Goto, AfterTask, UnderWay, taskVars, bookVars
<1>3. CASE \/ RowRaises \/ OpenCsv \/ WriteCsvRow \/ OpenSummary \/ WriteSummary
           \/ WriteEstimates \/ RpcRaises \/ Crash \/ Preconfirm \/ Include
           \/ UNCHANGED vars
  BY <1>3 DEF RowRaises, OpenCsv, WriteCsvRow, OpenSummary, WriteSummary, WriteEstimates,
     RpcRaises, Crash, Preconfirm, Include, vars, Goto, AfterTask, UnderWay, taskVars, bookVars
<1> QED BY <1>1, <1>2, <1>3 DEF Next, ScriptStep

(* The row at hand goes behind the others. *)
LEMMA AppendEffect ==
    ASSUME TypeOK, TaskAtHand, AppendRow
    PROVE  /\ Len(rows') = Len(rows) + 1 /\ Len(rows) \in Nat
           /\ \A i \in DOMAIN rows' :
                 IF i \in DOMAIN rows THEN rows'[i] = rows[i]
                                      ELSE i = Len(rows) + 1 /\ rows'[i] = Row
           /\ rows'[Len(rows')] = Row /\ rows' # <<>>
           /\ DOMAIN rows \subseteq DOMAIN rows'
<1>1. rows \in Seq(Rows) /\ rows' = Append(rows, Row)
  BY DEF TypeOK, AppendRow
<1> HIDE DEF Row
<1> QED BY <1>1

LEMMA InitTaskOnce == Init => TaskOnce
BY DEF Init, TaskOnce, UnderWay

LEMMA NextTaskOnce == TypeOK /\ TaskAtHand /\ TaskOnce /\ [Next]_vars => TaskOnce'
<1> SUFFICES ASSUME TypeOK, TaskAtHand, TaskOnce, [Next]_vars PROVE TaskOnce'
  OBVIOUS
<1>1. CASE NextTask
  <2>1. PICK t \in todo : task' = t /\ todo' = todo \ {t}
    BY <1>1 DEF NextTask
  <2>2. rows' = rows
    BY <1>1 DEF NextTask, bookVars
  <2> QED BY <2>1, <2>2 DEF TaskOnce
<1>2. CASE AppendRow
  <2>1. pc = "row" /\ pc' = "csv" /\ todo' = todo
    BY <1>2 DEF AppendRow, Goto, taskVars
  <2>2. Row.task = task
    BY DEF Row
  <2>3. task \notin todo /\ \A i \in DOMAIN rows : rows[i].task # task
    BY <2>1 DEF TaskOnce, UnderWay
  <2>4. \A i \in DOMAIN rows' : rows'[i].task \notin todo
    BY <1>2, <2>2, <2>3, AppendEffect DEF TaskOnce
  <2>5. \A i, j \in DOMAIN rows' : rows'[i].task = rows'[j].task => i = j
    BY <1>2, <2>2, <2>3, AppendEffect DEF TaskOnce
  <2> QED BY <2>1, <2>4, <2>5 DEF TaskOnce, UnderWay
<1>3. CASE UNCHANGED <<rows, todo, task>> /\ (pc' \in UnderWay => pc \in UnderWay)
  BY <1>3 DEF TaskOnce
<1> QED BY <1>1, <1>2, <1>3, TaskEffect

(* A table of distinct tasks whose rows for a system all come from one      *)
(* place of the list, one row per repetition, has every task of that place. *)
LEMMA EveryRepetition ==
    ASSUME NEW table, NEW s, NEW k, repetitions \in Nat,
           \A i \in RowsOf(table, s) : table[i].task \in (1..repetitions) \X {k},
           \A i, j \in DOMAIN table : table[i].task = table[j].task => i = j,
           Cardinality(RowsOf(table, s)) = repetitions
    PROVE  \A r \in 1..repetitions : \E i \in DOMAIN table : table[i].task = <<r, k>>
<1> DEFINE f == [i \in RowsOf(table, s) |-> table[i].task[1]]
<1>1. \A i \in RowsOf(table, s) : /\ i \in DOMAIN table /\ table[i].task[1] \in 1..repetitions
                                  /\ table[i].task = <<table[i].task[1], k>>
  BY DEF RowsOf
<1>2. f \in [RowsOf(table, s) -> 1..repetitions]
  BY <1>1
<1>3. \A a, b \in RowsOf(table, s) : f[a] = f[b] => a = b
  BY <1>1
<1>4. IsFiniteSet(1..repetitions) /\ Cardinality(1..repetitions) = repetitions
  BY FS_Interval
<1>5. f \in Surjection(RowsOf(table, s), 1..repetitions)
  <2>1. f \in Injection(RowsOf(table, s), 1..repetitions)
    <3> HIDE DEF f
    <3> QED BY <1>2, <1>3, Fun_IsInj
  <2> HIDE DEF f
  <2> QED BY <1>4, <2>1, FS_Injection
<1>6. ASSUME NEW r \in 1..repetitions PROVE \E i \in RowsOf(table, s) : f[i] = r
  <2> HIDE DEF f
  <2> QED BY <1>5 DEF Surjection
<1> QED BY <1>1, <1>6

(* The rows shown by a table are the first ones on record.                  *)
LEMMA PrefixOfRows ==
    ASSUME TypeOK, NEW n \in Nat, n <= Len(rows)
    PROVE  /\ DOMAIN SubSeq(rows, 1, n) = 1..n /\ Len(SubSeq(rows, 1, n)) = n
           /\ 1..n \subseteq DOMAIN rows /\ DOMAIN rows = 1..Len(rows)
           /\ \A i \in 1..n : SubSeq(rows, 1, n)[i] = rows[i]
BY DEF TypeOK

LEMMA RowTasks ==
    ASSUME TypeOK
    PROVE  \A i \in DOMAIN rows :
              /\ rows[i].task \in Tasks
              /\ rows[i].task[1] \in 1..repetitions /\ rows[i].task[2] \in DOMAIN systems
              /\ rows[i].task = <<rows[i].task[1], rows[i].task[2]>>
              /\ SystemOf(rows[i].task) \in artifacts
<1>1. ASSUME NEW i \in DOMAIN rows PROVE rows[i].task \in Tasks
  <2>1. rows[i] \in Rows
    BY ElementOfSeq DEF TypeOK
  <2> QED BY <2>1 DEF Rows
<1>2. ASSUME NEW k \in DOMAIN systems PROVE systems[k] \in artifacts
  <2>1. systems \in Seq(artifacts)
    BY DEF TypeOK
  <2> QED BY <2>1, ElementOfSeq
<1> QED BY <1>1, <1>2 DEF Tasks, SystemOf

(* Where no system is named twice, a table with one row per repetition of   *)
(* every system shows all rows on record, and every task.                   *)
LEMMA CountedTableIsWhole ==
    ASSUME TypeOK, TaskOnce, NamedOnce, NEW n \in Nat, n <= Len(rows),
           \A s \in artifacts : Cardinality(RowsOf(SubSeq(rows, 1, n), s)) = repetitions
    PROVE  /\ n = Len(rows) /\ SubSeq(rows, 1, n) = rows
           /\ AllRecorded
<1> DEFINE table == SubSeq(rows, 1, n)
<1>1. /\ DOMAIN table = 1..n /\ 1..n \subseteq DOMAIN rows /\ DOMAIN rows = 1..Len(rows)
      /\ \A i \in 1..n : table[i] = rows[i]
  BY PrefixOfRows
<1>2. rows \in Seq(Rows) /\ Len(rows) \in Nat /\ repetitions \in Nat
  BY FeeAssumption, LenProperties DEF TypeOK
<1>3. ASSUME NEW k \in DOMAIN systems, NEW r \in 1..repetitions
      PROVE  \E i \in 1..n : rows[i].task = <<r, k>>
  <2> DEFINE s == systems[k]
  <2>1. s \in artifacts
    <3>1. systems \in Seq(artifacts)
      BY DEF TypeOK
    <3> QED BY <3>1, ElementOfSeq
  <2>2. ASSUME NEW i \in RowsOf(table, s) PROVE rows[i].task \in (1..repetitions) \X {k}
    <3>1. i \in 1..n /\ SystemOf(rows[i].task) = s
      BY <1>1, <2>2 DEF RowsOf
    <3>2. /\ rows[i].task[2] \in DOMAIN systems /\ rows[i].task[1] \in 1..repetitions
          /\ rows[i].task = <<rows[i].task[1], rows[i].task[2]>>
      BY <1>1, <3>1, RowTasks
    <3>3. rows[i].task[2] = k
      BY <3>1, <3>2 DEF SystemOf, NamedOnce
    <3> QED BY <3>2, <3>3
  <2> HIDE DEF s
  <2>3. \A i \in RowsOf(table, s) : table[i].task \in (1..repetitions) \X {k}
    BY <1>1, <2>2 DEF RowsOf
  <2>4. \A i, j \in DOMAIN table : table[i].task = table[j].task => i = j
    BY <1>1 DEF TaskOnce
  <2>5. Cardinality(RowsOf(table, s)) = repetitions
    BY <2>1
  <2> HIDE DEF table
  <2>6. \E i \in DOMAIN table : table[i].task = <<r, k>>
    BY <1>2, <2>3, <2>4, <2>5, EveryRepetition
  <2> QED BY <1>1, <2>6
<1>4. ASSUME NEW j \in 1..Len(rows) PROVE j <= n
  <2>1. /\ rows[j].task[1] \in 1..repetitions /\ rows[j].task[2] \in DOMAIN systems
        /\ rows[j].task = <<rows[j].task[1], rows[j].task[2]>>
    BY <1>1, RowTasks
  <2>2. PICK i \in 1..n : rows[i].task = rows[j].task
    BY <1>3, <2>1
  <2>3. i = j
    BY <1>1, <2>2 DEF TaskOnce
  <2> QED BY <2>3
<1>5. n = Len(rows)
  <2>1. Len(rows) = 0 \/ Len(rows) \in 1..Len(rows)
    BY <1>2
  <2> QED BY <1>2, <1>4, <2>1
<1>6. table = rows
  <2>1. SubSeq(rows, 1, Len(rows)) = rows
    BY <1>2
  <2> QED BY <1>5, <2>1
<1>7. AllRecorded
  <2> SUFFICES ASSUME NEW t \in Tasks PROVE \E i \in DOMAIN rows : rows[i].task = t
    BY DEF AllRecorded
  <2>1. t = <<t[1], t[2]>> /\ t[1] \in 1..repetitions /\ t[2] \in DOMAIN systems
    BY DEF Tasks
  <2>2. \E i \in 1..n : rows[i].task = t
    BY <1>3, <2>1
  <2> QED BY <1>1, <2>2
<1> QED BY <1>5, <1>6, <1>7

(* A campaign that came to its end has run and shown every task.            *)
LEMMA EndedTables ==
    ASSUME TypeOK, NoneSkipped, TablesWritten, pc = "done", ~dry
    PROVE  AllRecorded /\ Csv = rows /\ Summarised = rows
<1>1. csv = Len(rows) /\ summary = Len(rows)
  BY DEF TablesWritten
<1>2. SubSeq(rows, 1, Len(rows)) = rows
  BY DEF TypeOK
<1>3. todo = {} /\ pc \notin UnderWay /\ pc # "stopped"
  BY DEF NoneSkipped, UnderWay
<1>4. AllRecorded
  BY <1>3 DEF NoneSkipped, AllRecorded
<1> QED BY <1>1, <1>2, <1>4 DEF Csv, Summarised

(* When all tasks are on record and the rows of a system are no more than   *)
(* its repetitions, no system was named twice: the rows of one place of the *)
(* list already are as many.                                                *)
LEMMA CountsRevealRepeats ==
    ASSUME TypeOK, AllRecorded,
           \A s \in artifacts : Cardinality(RowsOf(rows, s)) = repetitions
    PROVE  NamedOnce
<1> SUFFICES ASSUME NEW j \in DOMAIN systems, NEW k \in DOMAIN systems,
                    systems[j] = systems[k]
             PROVE  j = k
  BY DEF NamedOnce
<1> DEFINE s == systems[k]
           g == [r \in 1..repetitions |-> CHOOSE i \in DOMAIN rows : rows[i].task = <<r, k>>]
<1>1. /\ rows \in Seq(Rows) /\ DOMAIN rows = 1..Len(rows) /\ Len(rows) \in Nat
      /\ repetitions \in Nat /\ 1 \in 1..repetitions
  BY FeeAssumption, LenProperties DEF TypeOK
<1>2. s \in artifacts
  <2>1. systems \in Seq(artifacts)
    BY DEF TypeOK
  <2> QED BY <2>1, ElementOfSeq
<1>3. ASSUME NEW r \in 1..repetitions, NEW h \in DOMAIN systems
      PROVE  \E i \in DOMAIN rows : rows[i].task = <<r, h>>
  <2>1. <<r, h>> \in Tasks
    BY DEF Tasks
  <2> QED BY <2>1 DEF AllRecorded
<1>4. \A r \in 1..repetitions : g[r] \in DOMAIN rows /\ rows[g[r]].task = <<r, k>>
  BY <1>3
<1> HIDE DEF g
<1>5. \A r \in 1..repetitions : g[r] \in RowsOf(rows, s)
  BY <1>4 DEF RowsOf, SystemOf
<1>6. IsFiniteSet(RowsOf(rows, s))
  <2>1. IsFiniteSet(1..Len(rows))
    BY <1>1, FS_Interval
  <2>2. RowsOf(rows, s) \in SUBSET (1..Len(rows))
    BY <1>1 DEF RowsOf
  <2> QED BY <2>1, <2>2, FS_Subset
<1>7. g \in Injection(1..repetitions, RowsOf(rows, s))
  <2>1. g \in [1..repetitions -> RowsOf(rows, s)]
    BY <1>5 DEF g
  <2>2. \A a, b \in 1..repetitions : g[a] = g[b] => a = b
    <3> TAKE a, b \in 1..repetitions
    <3> HAVE g[a] = g[b]
    <3>1. <<a, k>> = <<b, k>>
      BY <1>4
    <3> QED BY <3>1
  <2> QED BY <2>1, <2>2, Fun_IsInj
<1>8. Cardinality(1..repetitions) = Cardinality(RowsOf(rows, s))
  <2>1. Cardinality(1..repetitions) = repetitions
    BY <1>1, FS_Interval
  <2> QED BY <1>2, <2>1
<1>9. g \in Surjection(1..repetitions, RowsOf(rows, s))
  BY <1>6, <1>7, <1>8, FS_Injection
<1>10. PICK i \in DOMAIN rows : rows[i].task = <<1, j>>
  BY <1>1, <1>3
<1>11. i \in RowsOf(rows, s)
  BY <1>10 DEF RowsOf, SystemOf
<1>12. PICK r \in 1..repetitions : g[r] = i
  BY <1>9, <1>11 DEF Surjection
<1>13. <<1, j>> = <<r, k>>
  BY <1>4, <1>10, <1>12
<1> QED BY <1>13

(* Nothing was named twice in a campaign whose bundle can be trusted.       *)
LEMMA TrustedNamesOnce ==
    ASSUME TypeOK, NoneSkipped, TablesWritten, Trusted
    PROVE  NamedOnce
<1>1. CASE NamedOnce
  BY <1>1
<1>2. CASE pc = "done"
  <2>1. ~dry /\ \A s \in artifacts : Cardinality(RowsOf(Csv, s)) = repetitions
    BY DEF Trusted, Validated
  <2>2. AllRecorded /\ Csv = rows
    BY <1>2, <2>1, EndedTables
  <2> QED BY <2>1, <2>2, CountsRevealRepeats
<1> QED BY <1>1, <1>2 DEF Trusted

LEMMA ValidatedTables ==
    ASSUME TypeOK, TaskOnce, NoneSkipped, TablesWritten, LogCoversTables, Trusted
    PROVE  csv = Len(rows) /\ Csv = rows /\ Summarised = rows /\ NamedOnce /\ AllRecorded
<1>1. csv \in Nat /\ summary \in Nat /\ csv <= Len(rows) /\ summary <= Len(rows)
  BY LenProperties DEF TypeOK, LogCoversTables
<1>2. \A s \in artifacts : Cardinality(RowsOf(SubSeq(rows, 1, csv), s)) = repetitions
  BY DEF Trusted, Validated, Csv
<1>3. \A s \in artifacts : Cardinality(RowsOf(SubSeq(rows, 1, summary), s)) = repetitions
  BY DEF Trusted, Validated, SummaryCovers, Summarised
<1> QED BY <1>1, <1>2, <1>3, TrustedNamesOnce, CountedTableIsWhole DEF Csv, Summarised

(* The entries of such a bundle: every repetition of every artifact, once.  *)
LEMMA ValidatedEntries ==
    ASSUME TypeOK, TaskOnce, NoneSkipped, TablesWritten, LogCoversTables, Trusted
    PROVE  /\ {Entry(Csv[i].task) : i \in DOMAIN Csv} = (1..repetitions) \X artifacts
           /\ \A i, j \in DOMAIN Csv : Entry(Csv[i].task) = Entry(Csv[j].task) => i = j
<1>1. Csv = rows /\ NamedOnce /\ AllRecorded
  BY ValidatedTables
<1>2. \A i \in DOMAIN rows : /\ rows[i].task[1] \in 1..repetitions
                             /\ rows[i].task[2] \in DOMAIN systems
                             /\ rows[i].task = <<rows[i].task[1], rows[i].task[2]>>
                             /\ SystemOf(rows[i].task) \in artifacts
  BY RowTasks
<1>3. ASSUME NEW r \in 1..repetitions, NEW s \in artifacts
      PROVE  \E i \in DOMAIN rows : Entry(rows[i].task) = <<r, s>>
  <2>1. PICK k \in DOMAIN systems : systems[k] = s
    <3>1. RowsOf(rows, s) # {}
      <4>1. Cardinality(RowsOf(rows, s)) = repetitions /\ repetitions # 0
        BY <1>1 DEF Trusted, Validated, TypeOK
      <4> QED BY <4>1, FS_EmptySet
    <3>2. PICK i \in DOMAIN rows : SystemOf(rows[i].task) = s
      BY <3>1 DEF RowsOf
    <3> QED BY <1>2, <3>2 DEF SystemOf
  <2>2. <<r, k>> \in Tasks
    BY DEF Tasks
  <2>3. PICK i \in DOMAIN rows : rows[i].task = <<r, k>>
    BY <1>1, <2>2 DEF AllRecorded
  <2> QED BY <2>1, <2>3 DEF Entry, SystemOf
<1>4. {Entry(rows[i].task) : i \in DOMAIN rows} = (1..repetitions) \X artifacts
  <2>1. ASSUME NEW i \in DOMAIN rows PROVE Entry(rows[i].task) \in (1..repetitions) \X artifacts
    BY <1>2 DEF Entry
  <2>2. ASSUME NEW e \in (1..repetitions) \X artifacts
        PROVE  \E i \in DOMAIN rows : Entry(rows[i].task) = e
    <3>1. e = <<e[1], e[2]>> /\ e[1] \in 1..repetitions /\ e[2] \in artifacts
      OBVIOUS
    <3> QED BY <1>3, <3>1
  <2> QED BY <2>1, <2>2
<1>5. ASSUME NEW i \in DOMAIN rows, NEW j \in DOMAIN rows,
             Entry(rows[i].task) = Entry(rows[j].task)
      PROVE  i = j
  <2>1. /\ rows[i].task[1] = rows[j].task[1]
        /\ systems[rows[i].task[2]] = systems[rows[j].task[2]]
    BY <1>5 DEF Entry, SystemOf
  <2>2. rows[i].task[2] = rows[j].task[2]
    BY <1>1, <1>2, <2>1 DEF NamedOnce
  <2>3. rows[i].task = rows[j].task
    BY <1>2, <2>1, <2>2
  <2> QED BY <2>3 DEF TaskOnce
<1> QED BY <1>1, <1>4, <1>5

LEMMA InitLogCovers == Init => LogCoversTables
BY DEF Init, LogCoversTables

LEMMA InitNoneSkipped == Init => NoneSkipped /\ TablesWritten
BY DEF Init, NoneSkipped, TablesWritten

(* The steps of a task, from its gate to its row.                           *)
LEMMA TaskStepSkipsNone ==
    ASSUME TypeOK, TaskAtHand, NoneSkipped,
           \/ NextTask \/ Gate \/ Quote \/ Reserve \/ ReserveRaises \/ ReadBalance \/ Send
           \/ SendUnanswered \/ ReceiptArrives \/ ReceiptTimeout \/ BalanceChanges
           \/ BalanceTimeout \/ Refetch \/ RowRaises
    PROVE  NoneSkipped'
<1> USE DEF Goto, AfterTask, UnderWay, optionVars, taskVars, bookVars, fileVars
<1>1. CASE NextTask
  <2>1. PICK t \in todo : task' = t /\ todo' = todo \ {t}
    BY <1>1 DEF NextTask
  <2>2. /\ pc = "next" /\ pc' = "gate"
        /\ UNCHANGED <<rows, dry, estimated, systems, repetitions>>
    BY <1>1 DEF NextTask
  <2>3. Tasks' = Tasks
    BY <2>2 DEF Tasks
  <2> QED BY <2>1, <2>2, <2>3 DEF NoneSkipped
<1>2. CASE Reserve
  <2>1. /\ pc = "reserve" /\ pc' = IF dry THEN AfterTask ELSE "balance"
        /\ UNCHANGED <<rows, dry, estimated, systems, repetitions, todo, task>>
    BY <1>2 DEF Reserve
  <2>2. Tasks' = Tasks
    BY <2>1 DEF Tasks
  <2> QED BY <2>1, <2>2 DEF NoneSkipped
<1>3. CASE \/ Gate \/ Quote \/ ReserveRaises \/ ReadBalance \/ Send
           \/ SendUnanswered \/ ReceiptArrives \/ ReceiptTimeout \/ BalanceChanges
           \/ BalanceTimeout \/ Refetch \/ RowRaises
  <2>1. /\ pc \in UnderWay /\ pc' \in UnderWay \cup {"stopped"}
        /\ UNCHANGED <<rows, dry, estimated, systems, repetitions, todo, task>>
    BY <1>3 DEF Gate, Quote, ReserveRaises, ReadBalance, Send, SendUnanswered, Accepted,
       ReceiptArrives, ReceiptTimeout, BalanceChanges, BalanceTimeout, Refetch, RowRaises
  <2>2. Tasks' = Tasks
    BY <2>1 DEF Tasks
  <2> QED BY <2>1, <2>2 DEF NoneSkipped
<1> QED BY <1>1, <1>2, <1>3

(* The steps that write, and those of the outside.                          *)
LEMMA OtherStepSkipsNone ==
    ASSUME TypeOK, TaskAtHand, NoneSkipped,
           \/ AppendRow \/ OpenCsv \/ WriteCsvRow \/ OpenSummary \/ WriteSummary
           \/ WriteEstimates \/ RpcRaises \/ Crash \/ Preconfirm \/ Include \/ UNCHANGED vars
    PROVE  NoneSkipped'
<1> USE DEF Goto, AfterTask, UnderWay, optionVars, taskVars, bookVars, fileVars
<1>0. UNCHANGED <<dry, systems, repetitions, todo, task>> /\ Tasks' = Tasks
  <2>1. UNCHANGED <<dry, systems, repetitions, todo, task>>
    BY DEF AppendRow, OpenCsv, WriteCsvRow, OpenSummary, WriteSummary, WriteEstimates,
       RpcRaises, Crash, Preconfirm, Include, vars
  <2> QED BY <2>1 DEF Tasks
<1>1. CASE AppendRow
  <2>1. pc = "row" /\ pc' = "csv" /\ UNCHANGED estimated
    BY <1>1 DEF AppendRow
  <2>2. /\ DOMAIN rows \subseteq DOMAIN rows' /\ Len(rows') \in DOMAIN rows'
        /\ rows'[Len(rows')] = Row
        /\ \A i \in DOMAIN rows : rows'[i] = rows[i]
    <3>1. rows \in Seq(Rows) /\ rows' = Append(rows, Row)
      BY <1>1 DEF TypeOK, AppendRow
    <3> HIDE DEF Row
    <3> QED BY <3>1
  <2>3. Row.task = task
    BY DEF Row
  <2> HIDE DEF Row
  <2> QED BY <1>0, <2>1, <2>2, <2>3 DEF NoneSkipped
<1>2. CASE OpenCsv \/ WriteCsvRow \/ OpenSummary
  <2>1. /\ UNCHANGED <<rows, estimated>> /\ pc \in {"csv", "csv_rows", "summary"}
        /\ pc' \in {"csv_rows", "summary", "summary_rows"}
    BY <1>2 DEF OpenCsv, WriteCsvRow, OpenSummary
  <2> QED BY <1>0, <2>1 DEF NoneSkipped
<1>3. CASE WriteSummary
  <2>1. /\ UNCHANGED <<rows, estimated>> /\ pc = "summary_rows"
        /\ pc' = IF estimated THEN "done" ELSE AfterTask
    BY <1>3 DEF WriteSummary
  <2> QED BY <1>0, <2>1 DEF NoneSkipped
<1>4. CASE WriteEstimates
  <2>1. /\ UNCHANGED rows /\ pc = "estimates" /\ estimated' = TRUE
        /\ pc' = IF dry THEN "done" ELSE "csv"
    BY <1>4 DEF WriteEstimates
  <2> QED BY <1>0, <2>1 DEF NoneSkipped
<1>5. CASE RpcRaises \/ Crash
  <2>1. UNCHANGED <<rows, estimated>> /\ pc' = "stopped" /\ pc # "stopped"
    BY <1>5 DEF RpcRaises, Crash
  <2> QED BY <1>0, <2>1 DEF NoneSkipped
<1>6. CASE Preconfirm \/ Include \/ UNCHANGED vars
  <2>1. UNCHANGED <<rows, estimated, pc>>
    BY <1>6 DEF Preconfirm, Include, vars
  <2> QED BY <1>0, <2>1 DEF NoneSkipped
<1> QED BY <1>1, <1>2, <1>3, <1>4, <1>5, <1>6

LEMMA NextNoneSkipped == TypeOK /\ TaskAtHand /\ NoneSkipped /\ [Next]_vars => NoneSkipped'
BY TaskStepSkipsNone, OtherStepSkipsNone DEF Next, ScriptStep

LEMMA NextTablesWritten == TypeOK /\ TablesWritten /\ [Next]_vars => TablesWritten'
<1> SUFFICES ASSUME TypeOK, TablesWritten, [Next]_vars PROVE TablesWritten'
  OBVIOUS
<1> USE DEF Goto, AfterTask, optionVars, fileVars, bookVars
<1>1. CASE WriteCsvRow
  <2>1. /\ UNCHANGED rows /\ pc = "csv_rows" /\ csv' = csv + 1
        /\ pc' = IF csv' = Len(rows) THEN "summary" ELSE pc
    BY <1>1 DEF WriteCsvRow
  <2> QED BY <2>1 DEF TablesWritten
<1>2. CASE OpenSummary
  <2>1. UNCHANGED <<rows, csv>> /\ pc = "summary" /\ pc' = "summary_rows"
    BY <1>2 DEF OpenSummary
  <2> QED BY <2>1 DEF TablesWritten
<1>3. CASE WriteSummary
  <2>1. /\ UNCHANGED <<rows, csv, dry>> /\ pc = "summary_rows" /\ summary' = Len(rows)
        /\ pc' \in {"done", "estimates", "next"}
    BY <1>3 DEF WriteSummary
  <2> QED BY <2>1 DEF TablesWritten
<1>4. CASE WriteEstimates
  BY <1>4 DEF WriteEstimates, TablesWritten
<1>5. CASE \/ NextTask \/ Gate \/ Quote \/ Reserve \/ ReserveRaises \/ ReadBalance \/ Send
           \/ SendUnanswered \/ ReceiptArrives \/ ReceiptTimeout \/ BalanceChanges
           \/ BalanceTimeout \/ Refetch \/ AppendRow \/ RowRaises \/ OpenCsv \/ RpcRaises
           \/ Crash
  <2>1. pc' \notin {"summary", "summary_rows", "done"}
    BY <1>5 DEF NextTask, Gate, Quote, Reserve, ReserveRaises, ReadBalance, Send,
       SendUnanswered, Accepted, ReceiptArrives, ReceiptTimeout, BalanceChanges,
       BalanceTimeout, Refetch, AppendRow, RowRaises, OpenCsv, RpcRaises, Crash
  <2> QED BY <2>1 DEF TablesWritten
<1>6. CASE Preconfirm \/ Include \/ UNCHANGED vars
  <2>1. UNCHANGED <<pc, dry, rows, csv, summary>>
    BY <1>6 DEF Preconfirm, Include, vars
  <2> QED BY <2>1 DEF TablesWritten
<1> QED BY <1>1, <1>2, <1>3, <1>4, <1>5, <1>6 DEF Next, ScriptStep

LEMMA RecordInductive ==
    Spec => [](/\ TypeOK /\ TaskAtHand /\ TaskOnce /\ NoneSkipped /\ TablesWritten
               /\ LogCoversTables)
<1>1. Spec => [](TypeOK /\ TaskAtHand)
  BY InitTypeOK, NextTypeOK, PTL DEF Spec
<1>2. Spec => []TaskOnce
  BY <1>1, InitTaskOnce, NextTaskOnce, PTL DEF Spec
<1>3. Spec => []NoneSkipped
  BY <1>1, InitNoneSkipped, NextNoneSkipped, PTL DEF Spec
<1>4. Spec => []TablesWritten
  BY <1>1, InitNoneSkipped, NextTablesWritten, PTL DEF Spec
<1>5. Spec => []LogCoversTables
  BY <1>1, InitLogCovers, LogStep, PTL DEF Spec
<1> QED BY <1>1, <1>2, <1>3, <1>4, <1>5, PTL

(* A bundle that validates is whole, for every configuration: every list of *)
(* systems if the campaign came to its end, every list that repeats no name *)
(* at whatever point the script was killed.  The validator only counts      *)
(* rows, and a task never has two.                                          *)
THEOREM BundleIsWhole == Spec => []ValidatedBundleIsWhole
<1>1. TypeOK /\ TaskOnce /\ NoneSkipped /\ TablesWritten /\ LogCoversTables
        => ValidatedBundleIsWhole
  BY ValidatedTables, ValidatedEntries DEF ValidatedBundleIsWhole
<1> QED BY <1>1, RecordInductive, PTL

-----------------------------------------------------------------------------
(* The total. *)

LEMMA InitAccountInv == Init => AccountInv
<1> SUFFICES ASSUME Init PROVE AccountInv
  OBVIOUS
<1>1. rows = <<>> /\ cumulative = 0 /\ pc = "next" /\ spent = 0 /\ DOMAIN chain = {}
  BY DEF Init
<1> QED BY <1>1 DEF AccountInv, BooksBalance

(* Where nothing is outstanding and nothing is sent, the network has        *)
(* nothing left to do.                                                      *)
LEMMA SettledNetwork ==
    ASSUME \A i \in DOMAIN chain : chain[i].state = "included"
    PROVE  ~Preconfirm /\ ~Include
BY DEF Preconfirm, Include

(* With only the latest transaction outstanding, a step of the network      *)
(* moves that one.                                                          *)
LEMMA NetworkStep ==
    ASSUME TypeOK, chain # <<>>, OnlyLatestOutstanding, Preconfirm \/ Include
    PROVE  /\ OnlyLatestOutstanding' /\ Latest.state # "included"
           /\ UNCHANGED <<pc, rows, cumulative, before, after>>
<1>0. /\ chain \in Seq(Transactions) /\ Len(chain) \in Nat /\ Len(chain) # 0
      /\ DOMAIN chain = 1..Len(chain)
  BY EmptySeq, LenProperties DEF TypeOK
<1>1. PICK i \in DOMAIN chain, s \in {"preconfirmed", "included"} :
         /\ chain[i].state # "included" /\ chain' = Moved(i, s)
         /\ spent' = IF s = "included" THEN spent + Fee(chain[i]) ELSE spent
  BY DEF Preconfirm, Include
<1>2. i = Len(chain)
  <2>1. i \in 1..Len(chain) /\ ~(i \in 1..(Len(chain) - 1))
    BY <1>0, <1>1 DEF OnlyLatestOutstanding
  <2> QED BY <1>0, <2>1
<1>3. /\ Len(chain') = Len(chain)
      /\ \A j \in 1..Len(chain) :
            /\ chain'[j].state = IF j = i THEN s ELSE chain[j].state
            /\ chain'[j].l2 = chain[j].l2 /\ chain'[j].final = chain[j].final
  BY <1>0, <1>1, ChainStateChange
<1>4. /\ Latest' = chain'[Len(chain)] /\ Latest'.state = s /\ Latest.state # "included"
      /\ Latest = chain[i] /\ Latest'.l2 = Latest.l2 /\ Latest'.final = Latest.final
  BY <1>0, <1>1, <1>2, <1>3 DEF Latest
<1>5. UNCHANGED <<pc, rows, cumulative, before, after>>
  BY DEF Preconfirm, Include, bookVars, taskVars
<1>6. \A j \in 1..(Len(chain') - 1) : chain'[j].state = "included"
  <2> TAKE j \in 1..(Len(chain') - 1)
  <2>0. \A n \in Nat : \A k \in 1..(n - 1) : k \in 1..n /\ k # n
    OBVIOUS
  <2>1. j \in 1..(Len(chain) - 1) /\ j \in 1..Len(chain) /\ j # i
    BY <1>0, <1>2, <1>3, <2>0
  <2>2. chain'[j].state = chain[j].state
    BY <1>3, <2>1
  <2> QED BY <2>1, <2>2 DEF OnlyLatestOutstanding
<1>7. /\ before' = cumulative'
      /\ spent' = IF Latest'.state = "included" THEN before' + Fee(Latest') ELSE before'
  <2>1. Fee(Latest') = Fee(Latest)
    BY <1>4 DEF Fee
  <2>2. before' = before /\ before = cumulative /\ spent = before
    BY <1>4, <1>5 DEF OnlyLatestOutstanding
  <2> QED BY <1>1, <1>4, <1>5, <2>1, <2>2
<1>8. (before = cumulative)' /\ (\A j \in 1..(Len(chain) - 1) : chain[j].state = "included")'
  BY <1>6, <1>7
<1>9. (spent = IF Latest.state = "included" THEN before + Fee(Latest) ELSE before)'
  BY <1>7 DEF Fee
<1> QED BY <1>4, <1>5, <1>8, <1>9 DEF OnlyLatestOutstanding

(* The steps of the network, wherever the script is. *)
LEMMA NetworkKeepsAccounts ==
    ASSUME TypeOK, TaskAtHand, AccountInv, Preconfirm \/ Include
    PROVE  AccountInv'
<1>1. UNCHANGED <<pc, rows, cumulative, before, after, systems, repetitions>>
  BY DEF Preconfirm, Include, bookVars, taskVars, optionVars
<1>2. Settled' = Settled /\ AllRecorded' = AllRecorded
  BY <1>1 DEF Settled, SettledUpTo, AllRecorded, Tasks
<1>3. ~BooksBalance
  BY SettledNetwork DEF BooksBalance
<1>4. CASE ~Settled
  BY <1>1, <1>2, <1>4 DEF AccountInv
<1>5. CASE Settled /\ pc \in {"receipt", "settle", "refetch", "row"}
  <2>1. OnlyLatestOutstanding /\ chain # <<>>
    BY <1>5 DEF AccountInv, TaskAtHand
  <2>2. OnlyLatestOutstanding' /\ Latest.state # "included"
    BY <2>1, NetworkStep
  <2>3. pc \in {"refetch", "row"} => after = before
    BY <1>5, <2>2 DEF AccountInv
  <2> QED BY <1>1, <1>5, <2>2, <2>3 DEF AccountInv
<1>6. CASE Settled /\ pc \notin {"receipt", "settle", "refetch", "row"}
  <2>1. pc = "stopped" /\ ~AllRecorded
    BY <1>3, <1>6 DEF AccountInv
  <2> QED BY <1>1, <1>2, <2>1 DEF AccountInv
<1> QED BY <1>4, <1>5, <1>6

(* A script that stops with a task at hand has not recorded all of them.    *)
LEMMA NotAllRecorded ==
    ASSUME TaskOnce, TaskAtHand, pc \in UnderWay
    PROVE  ~AllRecorded
BY DEF TaskOnce, TaskAtHand, UnderWay, AllRecorded

(* The steps that leave the network, the rows and the total alone.          *)
LEMMA QuietAccountStep ==
    ASSUME TypeOK, TaskAtHand, TaskOnce, AccountInv,
           UNCHANGED <<chain, spent, rows, cumulative, systems, repetitions>>,
           \/ /\ pc' \notin {"send", "receipt", "settle", "refetch", "row", "stopped"}
              /\ pc \notin {"receipt", "settle", "refetch", "row", "stopped"}
           \/ pc' = pc /\ before' = before /\ after' = after
           \/ pc' = "stopped" /\ pc # "stopped"
           \/ pc = "balance" /\ pc' = "send" /\ before' = spent
           \/ pc = "receipt" /\ pc' = "settle" /\ before' = before
           \/ /\ pc = "settle" /\ pc' = "refetch" /\ before' = before
              /\ after' = before \/ (spent # before /\ after' = spent)
           \/ pc = "refetch" /\ pc' = "row" /\ before' = before /\ after' = after
    PROVE  AccountInv'
<1>1. /\ Settled' = Settled /\ AllRecorded' = AllRecorded /\ BooksBalance' = BooksBalance
      /\ Latest' = Latest
      /\ before' = before => OnlyLatestOutstanding' = OnlyLatestOutstanding
  BY DEF Settled, SettledUpTo, AllRecorded, BooksBalance, OnlyLatestOutstanding, Latest, Fee,
         Tasks
<1>2. (rows = <<>> => cumulative = 0)' /\ (rows # <<>> => rows[Len(rows)].cumulative = cumulative)'
  BY DEF AccountInv
<1> SUFFICES ASSUME Settled PROVE
          /\ pc' \notin {"receipt", "settle", "refetch", "row", "stopped"} => BooksBalance
          /\ pc' = "send" => before' = spent
          /\ pc' \in {"receipt", "settle", "refetch", "row"} => OnlyLatestOutstanding'
          /\ pc' \in {"refetch", "row"} =>
                after' = before' \/ (Latest.state = "included" /\ after' = spent)
          /\ pc' = "stopped" /\ AllRecorded => BooksBalance
  BY <1>1, <1>2 DEF AccountInv
<1>3. CASE /\ pc' \notin {"send", "receipt", "settle", "refetch", "row", "stopped"}
           /\ pc \notin {"receipt", "settle", "refetch", "row", "stopped"}
  BY <1>3 DEF AccountInv
<1>4. CASE pc' = pc /\ before' = before /\ after' = after
  BY <1>1, <1>4 DEF AccountInv
<1>5. CASE pc' = "stopped" /\ pc # "stopped"
  <2>1. CASE pc \in UnderWay
    BY <1>5, <2>1, NotAllRecorded
  <2>2. CASE pc \notin UnderWay
    BY <1>5, <2>2 DEF AccountInv, UnderWay
  <2> QED BY <2>1, <2>2
<1>6. CASE pc = "balance" /\ pc' = "send" /\ before' = spent
  BY <1>6 DEF AccountInv
<1>7. CASE pc = "receipt" /\ pc' = "settle" /\ before' = before
  BY <1>1, <1>7 DEF AccountInv
<1>8. CASE /\ pc = "settle" /\ pc' = "refetch" /\ before' = before
           /\ after' = before \/ (spent # before /\ after' = spent)
  BY <1>1, <1>8 DEF AccountInv, OnlyLatestOutstanding
<1>9. CASE pc = "refetch" /\ pc' = "row" /\ before' = before /\ after' = after
  BY <1>1, <1>9 DEF AccountInv
<1> QED BY <1>3, <1>4, <1>5, <1>6, <1>7, <1>8, <1>9

(* A transaction is sent when nothing is outstanding. *)
LEMMA AcceptKeepsAccounts ==
    ASSUME TypeOK, TaskAtHand, TaskOnce, AccountInv,
           NEW to \in {"receipt", "stopped"}, Accepted(to)
    PROVE  AccountInv'
<1>1. PICK tx \in Signed : chain' = Append(chain, tx)
  BY DEF Accepted
<1>2. /\ pc = "send" /\ pc' = to
      /\ UNCHANGED <<spent, rows, cumulative, before, systems, repetitions>>
  BY DEF Accepted, Goto, bookVars, taskVars, optionVars
<1>3. tx \in Transactions /\ tx.state = "pending"
  BY <1>2, SignedType DEF TaskAtHand
<1>4. /\ chain \in Seq(Transactions) /\ Len(chain) \in Nat /\ DOMAIN chain = 1..Len(chain)
      /\ Len(chain') = Len(chain) + 1 /\ chain'[Len(chain) + 1] = tx
      /\ \A i \in 1..Len(chain) : chain'[i] = chain[i]
  BY <1>1, <1>3, LenProperties, AppendProperties DEF TypeOK
<1>5. Settled' = Settled /\ AllRecorded' = AllRecorded
  BY <1>2 DEF Settled, SettledUpTo, AllRecorded, Tasks
<1>6. ~AllRecorded
  BY <1>2, NotAllRecorded DEF UnderWay
<1>7. ASSUME Settled PROVE OnlyLatestOutstanding'
  <2>1. BooksBalance /\ before = spent
    BY <1>2, <1>7 DEF AccountInv
  <2>2. Len(chain') - 1 = Len(chain)
    BY <1>4
  <2>3. \A i \in 1..Len(chain) : chain'[i].state = "included"
    BY <1>4, <2>1 DEF BooksBalance
  <2>4. Latest' = tx
    BY <1>4 DEF Latest
  <2>5. spent' = before' /\ before' = cumulative' /\ Latest'.state # "included"
    BY <1>2, <1>3, <2>1, <2>4 DEF BooksBalance
  <2> QED BY <2>2, <2>3, <2>5 DEF OnlyLatestOutstanding
<1>8. (rows = <<>> => cumulative = 0)' /\ (rows # <<>> => rows[Len(rows)].cumulative = cumulative)'
  BY <1>2 DEF AccountInv
<1> QED BY <1>2, <1>5, <1>6, <1>7, <1>8 DEF AccountInv

(* A settled row behind settled rows: its transaction is included, and the  *)
(* difference of the two balances is the fee of this one alone.             *)
LEMMA SettledRow ==
    ASSUME TypeOK, TypeOK', TaskAtHand, AccountInv, AppendRow, SettledUpTo(Len(rows))'
    PROVE  /\ OnlyLatestOutstanding /\ Latest.state = "included"
           /\ spent = before + ReceiptFee /\ ReceiptFee = Fee(Latest)
<1>1. pc = "row" /\ Row.fee = ReceiptFee /\ Row.delta = after - before
  BY DEF AppendRow, Goto, Row
<1>2. /\ \A i \in 1..Len(rows) : i \in 1..Len(rows') /\ rows'[i] = rows[i]
      /\ Len(rows') \in 1..Len(rows') /\ rows'[Len(rows')] = Row
  <2>1. rows \in Seq(Rows) /\ rows' = Append(rows, Row)
    BY DEF TypeOK, AppendRow
  <2> HIDE DEF Row
  <2> QED BY <2>1
<1>3. \A i \in 1..Len(rows') : rows'[i].delta = rows'[i].fee /\ rows'[i].fee # 0
  BY DEF SettledUpTo
<1>4. Settled
  BY <1>2, <1>3 DEF Settled, SettledUpTo
<1>5. after - before = ReceiptFee /\ ReceiptFee # 0
  BY <1>1, <1>2, <1>3
<1>6. OnlyLatestOutstanding /\ (after = before \/ (Latest.state = "included" /\ after = spent))
  BY <1>1, <1>4 DEF AccountInv
<1>7. after \in Nat /\ before \in Nat /\ spent \in Nat
  BY DEF TypeOK
<1>8. Latest.state = "included" /\ after = spent
  BY <1>5, <1>6, <1>7
<1>9. Fee(Latest) \in Nat
  BY <1>1, LatestType, FeeType DEF TaskAtHand
<1>10. spent = before + Fee(Latest)
  BY <1>6, <1>8 DEF OnlyLatestOutstanding
<1>11. ReceiptFee \in Int
  BY <1>5, <1>7
<1> QED BY <1>5, <1>6, <1>7, <1>8, <1>9, <1>10, <1>11

(* A row whose fee is what the wallet lost balances the books again.        *)
LEMMA AppendKeepsAccounts ==
    ASSUME TypeOK, TypeOK', TaskAtHand, AccountInv, AppendRow
    PROVE  AccountInv'
<1>1. /\ pc = "row" /\ pc' = "csv" /\ UNCHANGED <<chain, spent>>
      /\ cumulative' = cumulative + ReceiptFee
  BY DEF AppendRow, Goto, netVars
<1>2. Row.cumulative = cumulative'
  BY <1>1 DEF Row
<1>3. rows' # <<>> /\ rows'[Len(rows')].cumulative = cumulative'
  BY <1>2, AppendEffect
<1>4. ASSUME Settled' PROVE BooksBalance'
  <2>1. /\ OnlyLatestOutstanding /\ Latest.state = "included"
        /\ spent = before + ReceiptFee
    BY <1>4, SettledRow DEF Settled
  <2>2. spent = cumulative'
    BY <1>1, <2>1 DEF OnlyLatestOutstanding
  <2>3. \A i \in DOMAIN chain : chain[i].state = "included"
    <3>1. DOMAIN chain = 1..Len(chain) /\ Len(chain) \in Nat
      BY LenProperties DEF TypeOK
    <3>2. \A n \in Nat : \A i \in 1..n : i \in 1..(n - 1) \/ i = n
      OBVIOUS
    <3> QED BY <2>1, <3>1, <3>2 DEF OnlyLatestOutstanding, Latest
  <2> QED BY <1>1, <2>2, <2>3 DEF BooksBalance
<1> QED BY <1>1, <1>3, <1>4 DEF AccountInv

LEMMA NextAccountInv ==
    TypeOK /\ TaskAtHand /\ TaskOnce /\ AccountInv /\ [Next]_vars => AccountInv'
<1> SUFFICES ASSUME TypeOK, TaskAtHand, TaskOnce, AccountInv, [Next]_vars PROVE AccountInv'
  OBVIOUS
<1> USE DEF Goto, optionVars, taskVars, bookVars, netVars
<1>1. CASE AppendRow
  BY <1>1, NextTypeOK, AppendKeepsAccounts
<1>2. CASE Send \/ SendUnanswered
  BY <1>2, AcceptKeepsAccounts DEF Send, SendUnanswered
<1>3. CASE Preconfirm \/ Include
  BY <1>3, NetworkKeepsAccounts
<1>4. CASE \/ NextTask \/ Gate \/ Quote \/ Reserve \/ OpenCsv \/ WriteCsvRow \/ OpenSummary
           \/ WriteSummary \/ WriteEstimates
  <2>1. /\ UNCHANGED <<chain, spent, rows, cumulative, systems, repetitions>>
        /\ pc' \notin {"send", "receipt", "settle", "refetch", "row", "stopped"}
        /\ pc \notin {"receipt", "settle", "refetch", "row", "stopped"}
    BY <1>4 DEF NextTask, Gate, Quote, Reserve, OpenCsv, WriteCsvRow, OpenSummary,
       WriteSummary, WriteEstimates, AfterTask
  <2> QED BY <2>1, QuietAccountStep
<1>5. CASE ReserveRaises \/ ReceiptTimeout \/ RowRaises \/ RpcRaises \/ Crash
  <2>1. /\ UNCHANGED <<chain, spent, rows, cumulative, systems, repetitions>>
        /\ pc' = "stopped" /\ pc # "stopped"
    BY <1>5 DEF ReserveRaises, ReceiptTimeout, RowRaises, RpcRaises, Crash
  <2> QED BY <2>1, QuietAccountStep
<1>6. CASE ReadBalance
  <2>1. /\ UNCHANGED <<chain, spent, rows, cumulative, systems, repetitions>>
        /\ pc = "balance" /\ pc' = "send" /\ before' = spent
    BY <1>6 DEF ReadBalance
  <2> QED BY <2>1, QuietAccountStep
<1>7. CASE ReceiptArrives
  <2>1. /\ UNCHANGED <<chain, spent, rows, cumulative, systems, repetitions>>
        /\ pc = "receipt" /\ pc' = "settle" /\ before' = before
    BY <1>7 DEF ReceiptArrives
  <2> QED BY <2>1, QuietAccountStep
<1>8. CASE BalanceChanges \/ BalanceTimeout
  <2>1. /\ UNCHANGED <<chain, spent, rows, cumulative, systems, repetitions>>
        /\ pc = "settle" /\ pc' = "refetch" /\ before' = before
        /\ after' = before \/ (spent # before /\ after' = spent)
    BY <1>8 DEF BalanceChanges, BalanceTimeout
  <2> QED BY <2>1, QuietAccountStep
<1>9. CASE Refetch
  <2>1. /\ UNCHANGED <<chain, spent, rows, cumulative, systems, repetitions>>
        /\ pc = "refetch" /\ pc' = "row" /\ before' = before /\ after' = after
    BY <1>9 DEF Refetch
  <2> QED BY <2>1, QuietAccountStep
<1>10. CASE UNCHANGED vars
  <2>1. /\ UNCHANGED <<chain, spent, rows, cumulative, systems, repetitions>>
        /\ pc' = pc /\ before' = before /\ after' = after
    BY <1>10 DEF vars
  <2> QED BY <2>1, QuietAccountStep
<1> QED BY <1>1, <1>2, <1>3, <1>4, <1>5, <1>6, <1>7, <1>8, <1>9, <1>10 DEF Next, ScriptStep

LEMMA AccountInductive == Spec => []AccountInv
BY InitAccountInv, NextAccountInv, RecordInductive, PTL DEF Spec

(* In a bundle that validates every row is settled. *)
LEMMA ValidatedIsSettled ==
    ASSUME TypeOK, LogCoversTables, Validated
    PROVE  /\ csv \in Nat /\ csv <= Len(rows) /\ SettledUpTo(csv)
           /\ DOMAIN Csv = 1..csv /\ 1..csv \subseteq DOMAIN rows
           /\ \A i \in 1..csv : Csv[i] = rows[i]
<1>1. csv \in Nat /\ csv <= Len(rows)
  BY LenProperties DEF TypeOK, LogCoversTables
<1>2. /\ DOMAIN Csv = 1..csv /\ 1..csv \subseteq DOMAIN rows
      /\ \A i \in 1..csv : Csv[i] = rows[i]
  BY <1>1, PrefixOfRows DEF Csv
<1>3. ASSUME NEW i \in 1..csv PROVE rows[i].delta = rows[i].fee /\ rows[i].fee # 0
  <2>1. /\ rows[i].l2 > 1 /\ rows[i].l1 > 1 /\ rows[i].fee = rows[i].l2 + rows[i].l1
        /\ rows[i].delta = rows[i].fee
    BY <1>2 DEF Validated, RowsSettled
  <2>2. rows[i] \in Rows
    BY <1>2, ElementOfSeq DEF TypeOK
  <2>3. rows[i].l2 \in Nat /\ rows[i].l1 \in Nat
    BY <2>2 DEF Rows
  <2> QED BY <2>1, <2>3
<1> QED BY <1>1, <1>2, <1>3 DEF SettledUpTo

(* Where every task is on record there is a row. *)
LEMMA SomeRow ==
    ASSUME TypeOK, AllRecorded
    PROVE  rows # <<>>
<1>1. /\ systems \in Seq(artifacts) /\ systems # <<>>
      /\ repetitions \in Nat /\ 1 \in 1..repetitions
  BY FeeAssumption DEF TypeOK
<1>2. 1 \in DOMAIN systems
  BY <1>1, EmptySeq, LenProperties
<1>3. <<1, 1>> \in Tasks
  BY <1>1, <1>2 DEF Tasks
<1>4. DOMAIN rows # {}
  BY <1>3 DEF AllRecorded
<1> QED BY <1>4

(* The total of such a bundle is what the wallet has lost: the invariant    *)
(* carries from task to task that a settled row leaves nothing outstanding. *)
THEOREM TotalIsTheWallets == Spec => []ValidatedTotalIsWhatTheWalletLost
<1>1. ASSUME TypeOK, TaskAtHand, TaskOnce, NoneSkipped, TablesWritten, LogCoversTables,
             AccountInv, Trusted
      PROVE  Csv[csv].cumulative = spent
  <2>1. csv = Len(rows) /\ Csv = rows /\ AllRecorded
    BY <1>1, ValidatedTables
  <2>2. Settled /\ rows # <<>>
    BY <1>1, <2>1, ValidatedIsSettled, SomeRow DEF Trusted, Settled
  <2>3. pc \notin {"receipt", "settle", "refetch", "row"}
    BY <1>1, <2>1, NotAllRecorded DEF UnderWay
  <2>4. BooksBalance
    BY <1>1, <2>1, <2>2, <2>3 DEF AccountInv
  <2> QED BY <1>1, <2>1, <2>2, <2>4 DEF AccountInv, BooksBalance
<1>2. (/\ TypeOK /\ TaskAtHand /\ TaskOnce /\ NoneSkipped /\ TablesWritten /\ LogCoversTables
       /\ AccountInv)
        => ValidatedTotalIsWhatTheWalletLost
  BY <1>1 DEF ValidatedTotalIsWhatTheWalletLost
<1> QED BY <1>2, AccountInductive, RecordInductive, PTL

-----------------------------------------------------------------------------
(* The single fees, of every bundle that validates. *)

(* Whatever happens, a transaction keeps its fee, and stays included.       *)
LEMMA ChainEffect ==
    ASSUME TypeOK, TaskAtHand, [Next]_vars
    PROVE  \A j \in DOMAIN chain :
              /\ j \in DOMAIN chain' /\ Fee(chain'[j]) = Fee(chain[j])
              /\ chain[j].state = "included" => chain'[j].state = "included"
<1>0. chain \in Seq(Transactions) /\ DOMAIN chain = 1..Len(chain) /\ Len(chain) \in Nat
  BY LenProperties DEF TypeOK
<1>1. CASE Send \/ SendUnanswered
  <2>1. PICK tx \in Signed : chain' = Append(chain, tx)
    BY <1>1 DEF Send, SendUnanswered, Accepted
  <2>2. tx \in Transactions
    BY <1>1, SignedType DEF Send, SendUnanswered, Accepted, Goto, TaskAtHand
  <2>3. \A j \in 1..Len(chain) : j \in DOMAIN chain' /\ chain'[j] = chain[j]
    BY <1>0, <2>1, <2>2, AppendProperties, LenProperties
  <2> QED BY <1>0, <2>3
<1>2. CASE Preconfirm \/ Include
  <2>1. PICK i \in DOMAIN chain, s \in {"preconfirmed", "included"} :
           chain' = Moved(i, s) /\ chain[i].state # "included"
    BY <1>2 DEF Preconfirm, Include
  <2>2. /\ chain' \in Seq(Transactions) /\ Len(chain') = Len(chain)
        /\ \A j \in 1..Len(chain) :
              /\ chain'[j].l2 = chain[j].l2 /\ chain'[j].final = chain[j].final
              /\ chain'[j].state = IF j = i THEN s ELSE chain[j].state
    BY <1>0, <2>1, ChainStateChange
  <2>3. DOMAIN chain' = 1..Len(chain)
    BY <2>2, LenProperties
  <2> QED BY <1>0, <2>1, <2>2, <2>3 DEF Fee
<1>3. CASE \/ NextTask \/ Gate \/ Quote \/ Reserve \/ ReserveRaises \/ ReadBalance
           \/ ReceiptArrives \/ ReceiptTimeout \/ BalanceChanges \/ BalanceTimeout \/ Refetch
           \/ AppendRow \/ RowRaises \/ OpenCsv \/ WriteCsvRow \/ OpenSummary \/ WriteSummary
           \/ WriteEstimates \/ RpcRaises \/ Crash \/ UNCHANGED vars
  <2>1. chain' = chain
    BY <1>3 DEF netVars, vars, NextTask, Gate, Quote, Reserve, ReserveRaises, ReadBalance,
       ReceiptArrives, ReceiptTimeout, BalanceChanges, BalanceTimeout, Refetch, AppendRow,
       RowRaises, OpenCsv, WriteCsvRow, OpenSummary, WriteSummary, WriteEstimates, RpcRaises,
       Crash
  <2> QED BY <2>1
<1> QED BY <1>1, <1>2, <1>3 DEF Next, ScriptStep

LEMMA NextSettledFees ==
    TypeOK /\ TaskAtHand /\ AccountInv /\ SettledFeesAreFinal /\ [Next]_vars
        => SettledFeesAreFinal'
<1> SUFFICES ASSUME TypeOK, TaskAtHand, AccountInv, SettledFeesAreFinal, [Next]_vars,
                    NEW i \in DOMAIN rows', SettledUpTo(i)'
             PROVE  /\ rows'[i].tx \in DOMAIN chain'
                    /\ rows'[i].fee = Fee(chain'[rows'[i].tx])
                    /\ chain'[rows'[i].tx].state = "included"
  BY DEF SettledFeesAreFinal
<1>0. TypeOK' /\ DOMAIN rows = 1..Len(rows) /\ Len(rows) \in Nat
  BY NextTypeOK, LenProperties DEF TypeOK
<1>1. \A j \in 1..i : rows'[j].delta = rows'[j].fee /\ rows'[j].fee # 0
  BY DEF SettledUpTo
<1>2. CASE i \in DOMAIN rows /\ \A j \in 1..Len(rows) : rows'[j] = rows[j]
  <2>1. \A j \in 1..i : j \in 1..Len(rows)
    BY <1>0, <1>2
  <2>2. SettledUpTo(i) /\ rows'[i] = rows[i]
    BY <1>0, <1>1, <1>2, <2>1 DEF SettledUpTo
  <2>3. /\ rows[i].tx \in DOMAIN chain /\ rows[i].fee = Fee(chain[rows[i].tx])
        /\ chain[rows[i].tx].state = "included"
    BY <1>2, <2>2 DEF SettledFeesAreFinal
  <2> QED BY <2>2, <2>3, ChainEffect
<1>3. CASE AppendRow /\ i \notin DOMAIN rows
  <2>1. i = Len(rows') /\ rows'[i] = Row
    BY <1>3, AppendEffect
  <2>2. Latest.state = "included" /\ ReceiptFee = Fee(Latest)
    BY <1>0, <1>3, <2>1, SettledRow
  <2>3. Row.fee = ReceiptFee /\ Row.tx = Len(chain) /\ chain' = chain
    BY <1>3 DEF Row, AppendRow, netVars
  <2>4. Len(chain) \in DOMAIN chain
    <3>1. chain \in Seq(Transactions) /\ chain # <<>>
      BY <1>3 DEF AppendRow, Goto, TypeOK, TaskAtHand
    <3> QED BY <3>1, EmptySeq, LenProperties
  <2> QED BY <2>1, <2>2, <2>3, <2>4 DEF Latest
<1>4. ASSUME AppendRow, NEW j \in 1..Len(rows) PROVE rows'[j] = rows[j]
  BY <1>0, <1>4, AppendEffect
<1>5. CASE rows' = rows
  BY <1>0, <1>2, <1>5
<1>6. AppendRow \/ rows' = rows
  BY TaskEffect DEF NextTask, bookVars
<1> QED BY <1>2, <1>3, <1>4, <1>5, <1>6

(* For every list of systems, repetitions in it included, every network and *)
(* every point at which the script was killed: a row of a bundle that       *)
(* validates gives the final fee of its transaction.  The comparison of     *)
(* balances proves it only together with the rows before: each leaves       *)
(* nothing outstanding that the next difference could contain.              *)
THEOREM FeesAreFinal == Spec => []ValidatedFeesAreFinal
<1>1. Init => SettledFeesAreFinal
  BY DEF Init, SettledFeesAreFinal
<1>2. Spec => []SettledFeesAreFinal
  BY <1>1, NextSettledFees, AccountInductive, RecordInductive, PTL DEF Spec
<1>3. ASSUME TypeOK, LogCoversTables, SettledFeesAreFinal, Validated, NEW i \in DOMAIN Csv
      PROVE  Csv[i].fee = Fee(chain[Csv[i].tx]) /\ chain[Csv[i].tx].state = "included"
  <2>1. /\ csv \in Nat /\ SettledUpTo(csv) /\ i \in 1..csv
        /\ i \in DOMAIN rows /\ Csv[i] = rows[i]
    BY <1>3, ValidatedIsSettled
  <2>2. SettledUpTo(i)
    BY <2>1 DEF SettledUpTo
  <2> QED BY <1>3, <2>1, <2>2 DEF SettledFeesAreFinal
<1>4. TypeOK /\ LogCoversTables /\ SettledFeesAreFinal => ValidatedFeesAreFinal
  BY <1>3 DEF ValidatedFeesAreFinal
<1> QED BY <1>2, <1>4, RecordInductive, PTL
=============================================================================
