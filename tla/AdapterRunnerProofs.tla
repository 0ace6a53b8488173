------------------------- MODULE AdapterRunnerProofs -------------------------
(***************************************************************************)
(* Proofs about AdapterRunner, for every set of outputs, every request and *)
(* every bound: type correctness; that the swap verdict of a returned      *)
(* execution covers the whole life of the adapter; that what it reports    *)
(* and accepts is what its docs say; that it leaves nothing running; and   *)
(* that its steps are steps of AdapterExecution.                           *)
(***************************************************************************)
EXTENDS AdapterRunner, FiniteSetTheorems, WellFoundedInduction, TLAPS

Below == {pair \in Nat \X Nat : pair[1] < pair[2]}

(* A set that holds 0 and, up to a bound, the successor of each of its      *)
(* members holds every number up to the bound: induction in the form the    *)
(* provers can apply, for the loops over lines and over samples.            *)
LEMMA InductionUpTo ==
    ASSUME NEW bound \in Nat, NEW S, 0 \in S,
           \A n \in 0..(bound - 1) : n \in S => n + 1 \in S
    PROVE  \A n \in 0..bound : n \in S
<1> DEFINE T == {n \in 0..bound : n \notin S}
<1> SUFFICES ASSUME T # {} PROVE FALSE
  OBVIOUS
<1>1. IsWellFoundedOn(Below, Nat)
  BY NatLessThanWellFounded DEF OpToRel, Below
<1>2. T \subseteq Nat
  OBVIOUS
<1>3. PICK m \in T : \A k \in T : <<k, m>> \notin Below
  <2> HIDE DEF T
  <2> QED BY <1>1, <1>2, WFMin
<1>4. m # 0 /\ m - 1 \in 0..(bound - 1) /\ (m - 1) + 1 = m
  BY <1>3
<1>5. m - 1 \notin T
  <2>1. <<m - 1, m>> \in Nat \X Nat /\ m - 1 < m
    BY <1>4
  <2> QED BY <1>3, <2>1 DEF Below
<1> QED BY <1>3, <1>4, <1>5

(* What adding one capture does to the system-memory accumulator: a failed  *)
(* capture leaves the window alone and is remembered; a good one becomes    *)
(* the last one, and the first one if there was none.                       *)
LEMMA SysAddEffect ==
    ASSUME NEW acc \in SysAccumulators, NEW c \in Captured
    PROVE  /\ SysAdd(acc, c) \in SysAccumulators
           /\ c = NoSample => /\ SysAdd(acc, c).missing
                              /\ SysAdd(acc, c).first = acc.first
                              /\ SysAdd(acc, c).last = acc.last
           /\ c # NoSample => /\ SysAdd(acc, c).missing = acc.missing
                              /\ SysAdd(acc, c).last = c
                              /\ acc.first = NoSample => SysAdd(acc, c).first = c
                              /\ acc.first # NoSample
                                   => SysAdd(acc, c).first = acc.first
<1>1. CASE c = NoSample
  BY <1>1 DEF SysAdd, SysAccumulators
<1>2. CASE c # NoSample
  <2> DEFINE start == IF acc.first = NoSample THEN c ELSE acc.first
             least == IF acc.first = NoSample THEN c.avail
                                              ELSE Lesser(acc.min, c.avail)
  <2>1. c.avail \in Nat
    BY <1>2, BoundsAssumption DEF Captured, Samples
  <2>2. start \in Captured /\ least \in Nat
    BY <2>1 DEF SysAccumulators, Lesser
  <2>3. SysAdd(acc, c) = [first |-> start, last |-> c, min |-> least,
                          samples |-> acc.samples + 1, missing |-> acc.missing]
    BY <1>2 DEF SysAdd, SysAccumulators
  <2>4. SysAdd(acc, c) \in SysAccumulators
    BY <2>2, <2>3 DEF SysAccumulators
  <2> QED
    BY <1>2, <2>3, <2>4
<1> QED BY <1>1, <1>2

(* The minimum stays at or below both ends of the window.                   *)
LEMMA SysAddMinimum ==
    ASSUME NEW acc \in SysAccumulators, NEW c \in Captured,
           acc.first # NoSample =>
              /\ acc.last # NoSample
              /\ acc.min <= acc.first.avail /\ acc.min <= acc.last.avail,
           SysAdd(acc, c).first # NoSample
    PROVE  /\ SysAdd(acc, c).last # NoSample
           /\ SysAdd(acc, c).min <= SysAdd(acc, c).first.avail
           /\ SysAdd(acc, c).min <= SysAdd(acc, c).last.avail
<1>1. CASE c = NoSample
  BY <1>1 DEF SysAdd, SysAccumulators
<1>2. CASE c # NoSample
  <2>1. c.avail \in Nat /\ acc.min \in Nat
    BY <1>2, BoundsAssumption DEF Captured, Samples, SysAccumulators
  <2>2. acc.first # NoSample => acc.first.avail \in Nat
    BY BoundsAssumption DEF Captured, Samples, SysAccumulators
  <2>3. /\ SysAdd(acc, c).last = c
        /\ SysAdd(acc, c).first = IF acc.first = NoSample THEN c ELSE acc.first
        /\ SysAdd(acc, c).min = IF acc.first = NoSample THEN c.avail
                                ELSE Lesser(acc.min, c.avail)
    BY <1>2 DEF SysAdd, SysAccumulators
  <2> QED BY <1>2, <2>1, <2>2, <2>3 DEF Lesser
<1> QED BY <1>1, <1>2

(* Whatever procfs yields is a capture, and its swap counter is the         *)
(* kernel's.                                                                *)
LEMMA CaptureIsCurrent ==
    ASSUME swapped \in 0..MaxSwap, NEW c \in SystemCapture
    PROVE  /\ c \in Captured
           /\ c # NoSample => c.swaps = swapped
BY DEF SystemCapture, Captured, Samples

LEMMA NewSysType == NewSys \in SysAccumulators
BY DEF NewSys, SysAccumulators, Captured

-----------------------------------------------------------------------------
(* The transcript. *)

(* parse_json_lines is a loop: the events after n lines are those after     *)
(* n - 1, with the n-th appended when it is not blank.                      *)
LEMMA ParseLoop ==
    ASSUME NEW L, NEW lines \in Seq(L)
    PROVE  \E events \in [0..Len(lines) -> Seq(L)] :
              /\ events[0] = <<>>
              /\ \A n \in 1..Len(lines) :
                    events[n] = IF IsEvent(lines[n])
                                THEN Append(events[n - 1], lines[n])
                                ELSE events[n - 1]
              /\ ParseJsonLines(lines) = events[Len(lines)]
<1> DEFINE loop(f, n) == IF n = 0 THEN <<>>
                         ELSE IF IsEvent(lines[n]) THEN Append(f[n - 1], lines[n])
                         ELSE f[n - 1]
           reached == {n \in 0..Len(lines) :
                         \E f \in [0..n -> Seq(L)] : \A i \in 0..n : f[i] = loop(f, i)}
<1>1. Len(lines) \in Nat /\ \A n \in 1..Len(lines) : lines[n] \in L
  OBVIOUS
<1>2. 0 \in reached
  <2> DEFINE f == [i \in 0..0 |-> <<>>]
  <2>1. f \in [0..0 -> Seq(L)] /\ 0 \in 0..Len(lines)
    BY <1>1
  <2>2. \A i \in 0..0 : f[i] = loop(f, i)
    OBVIOUS
  <2> HIDE DEF f, loop
  <2> QED BY <2>1, <2>2
<1>3. ASSUME NEW n \in 0..(Len(lines) - 1), n \in reached PROVE n + 1 \in reached
  <2>1. PICK f \in [0..n -> Seq(L)] : \A i \in 0..n : f[i] = loop(f, i)
    BY <1>3
  <2> DEFINE g == [i \in 0..(n + 1) |-> IF i <= n THEN f[i] ELSE loop(f, n + 1)]
  <2>2. loop(f, n + 1) \in Seq(L)
    BY <1>1
  <2>3. g \in [0..(n + 1) -> Seq(L)]
    <3> HIDE DEF loop
    <3> QED BY <2>2
  <2>4. ASSUME NEW i \in 0..(n + 1) PROVE g[i] = loop(g, i)
    <3>1. CASE i = n + 1
      <4>1. g[i] = loop(f, n + 1) /\ g[n] = f[n] /\ i # 0 /\ i - 1 = n
        BY <3>1
      <4> QED BY <3>1, <4>1
    <3>2. CASE i <= n
      <4>1. g[i] = f[i] /\ f[i] = loop(f, i)
        BY <2>1, <3>2
      <4>2. i # 0 => i - 1 \in 0..(n + 1) /\ g[i - 1] = f[i - 1]
        BY <3>2
      <4> HIDE DEF g
      <4> QED BY <4>1, <4>2
    <3> QED BY <3>1, <3>2
  <2> QED BY <1>1, <2>3, <2>4
<1>4. Len(lines) \in reached
  <2> HIDE DEF reached
  <2>1. \A n \in 0..Len(lines) : n \in reached
    BY <1>1, <1>2, <1>3, InductionUpTo
  <2> QED BY <1>1, <2>1
<1>5. PICK f \in [0..Len(lines) -> Seq(L)] : \A i \in 0..Len(lines) : f[i] = loop(f, i)
  BY <1>4
<1> DEFINE events == CHOOSE h : h = [n \in 0..Len(lines) |-> loop(h, n)]
<1>6. events = [n \in 0..Len(lines) |-> loop(events, n)]
  <2>1. f = [n \in 0..Len(lines) |-> loop(f, n)]
    <3> HIDE DEF loop
    <3> QED BY <1>5
  <2> HIDE DEF loop
  <2> QED BY <2>1
<1>7. ParseJsonLines(lines) = events[Len(lines)]
  BY DEF ParseJsonLines
<1> HIDE DEF events
<1>8. events = f
  <2> DEFINE same == {n \in 0..Len(lines) : events[n] = f[n]}
  <2>1. 0 \in same
    BY <1>1, <1>5, <1>6
  <2>2. ASSUME NEW n \in 0..(Len(lines) - 1), n \in same PROVE n + 1 \in same
    <3>1. n + 1 \in 0..Len(lines) /\ n + 1 # 0 /\ (n + 1) - 1 = n
      BY <1>1
    <3>2. f[n + 1] = loop(f, n + 1)
      BY <1>5, <3>1
    <3>3. events[n + 1] = loop(events, n + 1)
      <4> HIDE DEF loop
      <4> QED BY <1>6, <3>1
    <3>4. events[n] = f[n]
      BY <2>2
    <3> QED BY <3>1, <3>2, <3>3, <3>4
  <2>3. \A n \in 0..Len(lines) : n \in same
    <3> HIDE DEF same
    <3> QED BY <1>1, <2>1, <2>2, InductionUpTo
  <2> QED BY <1>6, <2>3
<1>9. f[0] = <<>>
  BY <1>1, <1>5
<1>10. ASSUME NEW n \in 1..Len(lines)
       PROVE  f[n] = IF IsEvent(lines[n]) THEN Append(f[n - 1], lines[n]) ELSE f[n - 1]
  <2>1. n \in 0..Len(lines) /\ n # 0
    BY <1>1
  <2>2. f[n] = loop(f, n)
    BY <1>5, <2>1
  <2> QED BY <2>1, <2>2
<1> QED BY <1>7, <1>8, <1>9, <1>10

(* What parsing keeps: each event is a line, and each line that is not      *)
(* blank is an event.                                                       *)
LEMMA EventsAreTheLines ==
    ASSUME NEW L, NEW lines \in Seq(L)
    PROVE  /\ ParseJsonLines(lines) \in Seq(L)
           /\ \E at \in [1..Len(ParseJsonLines(lines)) -> 1..Len(lines)] :
                 /\ \A k \in 1..Len(ParseJsonLines(lines)) :
                       ParseJsonLines(lines)[k] = lines[at[k]]
                 /\ \A i \in 1..Len(lines) :
                       IsEvent(lines[i]) =>
                          \E k \in 1..Len(ParseJsonLines(lines)) : at[k] = i
<1>1. PICK events \in [0..Len(lines) -> Seq(L)] :
              /\ events[0] = <<>>
              /\ \A n \in 1..Len(lines) :
                    events[n] = IF IsEvent(lines[n])
                                THEN Append(events[n - 1], lines[n])
                                ELSE events[n - 1]
              /\ ParseJsonLines(lines) = events[Len(lines)]
  BY ParseLoop
<1> DEFINE comesFrom(n, at) ==
              /\ at \in [1..Len(events[n]) -> 1..n]
              /\ \A k \in 1..Len(events[n]) : events[n][k] = lines[at[k]]
              /\ \A i \in 1..n : IsEvent(lines[i]) => \E k \in 1..Len(events[n]) : at[k] = i
           explained == {n \in 0..Len(lines) : \E at : comesFrom(n, at)}
<1>2. Len(lines) \in Nat /\ \A n \in 1..Len(lines) : lines[n] \in L
  OBVIOUS
<1>3. 0 \in explained
  <2>1. comesFrom(0, [k \in {} |-> k])
    BY <1>1
  <2> HIDE DEF comesFrom
  <2> QED BY <1>2, <2>1
<1>4. ASSUME NEW n \in 0..(Len(lines) - 1), n \in explained PROVE n + 1 \in explained
  <2>1. PICK at : comesFrom(n, at)
    BY <1>4
  <2>2. n + 1 \in 1..Len(lines) /\ n \in 0..Len(lines) /\ (n + 1) - 1 = n
    BY <1>2
  <2>3. events[n] \in Seq(L)
    BY <2>2
  <2>4. CASE IsEvent(lines[n + 1])
    <3> DEFINE more == [k \in 1..(Len(events[n]) + 1) |->
                          IF k <= Len(events[n]) THEN at[k] ELSE n + 1]
    <3>1. events[n + 1] = Append(events[n], lines[n + 1])
      BY <1>1, <2>2, <2>4
    <3>2. /\ Len(events[n + 1]) = Len(events[n]) + 1 /\ Len(events[n]) \in Nat
          /\ \A k \in 1..Len(events[n]) : events[n + 1][k] = events[n][k]
          /\ events[n + 1][Len(events[n]) + 1] = lines[n + 1]
      BY <1>2, <2>2, <2>3, <3>1
    <3>3. more \in [1..Len(events[n + 1]) -> 1..(n + 1)]
      BY <2>1, <3>2
    <3>4. \A k \in 1..Len(events[n + 1]) : events[n + 1][k] = lines[more[k]]
      BY <2>1, <3>2
    <3>5. ASSUME NEW i \in 1..(n + 1), IsEvent(lines[i])
          PROVE  \E k \in 1..Len(events[n + 1]) : more[k] = i
      <4>1. CASE i = n + 1
        BY <3>2, <4>1
      <4>2. CASE i # n + 1
        <5>1. PICK k \in 1..Len(events[n]) : at[k] = i
          BY <2>1, <3>5, <4>2
        <5>2. k \in 1..Len(events[n + 1]) /\ more[k] = at[k]
          BY <3>2
        <5> HIDE DEF more
        <5> QED BY <5>1, <5>2
      <4> QED BY <4>1, <4>2
    <3>6. comesFrom(n + 1, more)
      <4> HIDE DEF more
      <4> QED BY <3>3, <3>4, <3>5
    <3> HIDE DEF comesFrom, more
    <3> QED BY <2>2, <3>6
  <2>5. CASE ~IsEvent(lines[n + 1])
    <3>1. events[n + 1] = events[n]
      BY <1>1, <2>2, <2>5
    <3>2. at \in [1..Len(events[n + 1]) -> 1..(n + 1)]
      BY <2>1, <3>1
    <3>3. \A i \in 1..(n + 1) : IsEvent(lines[i]) => i \in 1..n
      BY <2>5
    <3>4. comesFrom(n + 1, at)
      BY <2>1, <3>1, <3>2, <3>3
    <3> HIDE DEF comesFrom
    <3> QED BY <2>2, <3>4
  <2> HIDE DEF comesFrom
  <2> QED BY <2>4, <2>5
<1>5. PICK at : comesFrom(Len(lines), at)
  <2> HIDE DEF comesFrom
  <2>1. \A n \in 0..Len(lines) : n \in explained
    <3> HIDE DEF explained
    <3> QED BY <1>2, <1>3, <1>4, InductionUpTo
  <2> QED BY <1>2, <2>1
<1>6. Len(lines) \in 0..Len(lines)
  BY <1>2
<1>7. ParseJsonLines(lines) \in Seq(L)
  BY <1>1, <1>6
<1>8. comesFrom(Len(lines), at) <=>
        /\ at \in [1..Len(ParseJsonLines(lines)) -> 1..Len(lines)]
        /\ \A k \in 1..Len(ParseJsonLines(lines)) : ParseJsonLines(lines)[k] = lines[at[k]]
        /\ \A i \in 1..Len(lines) :
              IsEvent(lines[i]) => \E k \in 1..Len(ParseJsonLines(lines)) : at[k] = i
  BY <1>1
<1> HIDE DEF comesFrom
<1> QED BY <1>5, <1>7, <1>8

-----------------------------------------------------------------------------
(* Type correctness. *)

LEMMA InitTypeOK == Init => TypeOK
<1> SUFFICES ASSUME Init PROVE TypeOK
  OBVIOUS
<1>1. sys \in SysAccumulators
  BY NewSysType DEF Init
<1>2. /\ swapped \in 0..MaxSwap /\ swapAtSpawn \in 0..MaxSwap /\ swapAtReap \in 0..MaxSwap
  BY BoundsAssumption DEF Init
<1>3. 0 \in 0..Len(script)
  BY ScriptsAssumption DEF Init
<1> QED
  BY <1>1, <1>2, <1>3 DEF Init, TypeOK, MainPcs, SamplerPcs, Threads, Captured,
     NewProc, NoExecution, Killed

(* Every step keeps the types of the runner's state. *)
LEMMA NextTypeOK == TypeOK /\ [Next]_vars => TypeOK'
<1> SUFFICES ASSUME TypeOK, [Next]_vars PROVE TypeOK'
  OBVIOUS
<1> USE DEF TypeOK, mainVars, samplerVars, accVars, childVars, Goto, MainPcs, SamplerPcs
<1>1. CASE FirstCapture
  <2>1. PICK c \in SystemCapture : sys' = SysAdd(sys, c)
    BY <1>1 DEF FirstCapture
  <2>2. sys' \in SysAccumulators
    BY <2>1, SysAddEffect, CaptureIsCurrent
  <2> QED BY <1>1, <2>2 DEF FirstCapture
<1>2. CASE Popen
  BY <1>2 DEF Popen
<1>3. CASE PopenFails
  BY <1>3 DEF PopenFails
<1>4. CASE StartProcessSampler
  BY <1>4 DEF StartProcessSampler, StartSampler
<1>5. CASE StartSystemSampler
  BY <1>5 DEF StartSystemSampler, StartSampler
<1>6. CASE StartFails
  BY <1>6 DEF StartFails
<1>7. CASE CommunicateReturns
  BY <1>7 DEF CommunicateReturns, Reap
<1>8. CASE Timeout
  BY <1>8 DEF Timeout
<1>9. CASE Kill
  BY <1>9 DEF Kill, Reap
<1>10. CASE Drain
  BY <1>10 DEF Drain, Reap
<1>11. CASE CommunicateRaises
  BY <1>11 DEF CommunicateRaises, Reap
<1>12. CASE SetStop
  BY <1>12 DEF SetStop
<1>13. CASE JoinProcessSampler
  BY <1>13 DEF JoinProcessSampler, Join
<1>14. CASE JoinSystemSampler
  BY <1>14 DEF JoinSystemSampler, Join
<1>15. CASE LastCapture
  <2>1. PICK c \in SystemCapture : sys' = SysAdd(sys, c)
    BY <1>15 DEF LastCapture
  <2>2. sys' \in SysAccumulators
    BY <2>1, SysAddEffect, CaptureIsCurrent
  <2> QED BY <1>15, <2>2 DEF LastCapture
<1>16. CASE Evaluate
  <2>1. execution'.returned \in BOOLEAN /\ execution'.succeeded \in BOOLEAN
    BY <1>16 DEF Evaluate, Judge
  <2> QED BY <1>16, <2>1 DEF Evaluate
<1>17. ASSUME NEW t \in Threads, Capture(t) PROVE TypeOK'
  <2>1. heldSys' \in Captured /\ heldProc' \in BOOLEAN
    BY <1>17, CaptureIsCurrent DEF Capture, ProcessCapture
  <2> QED BY <1>17, <2>1 DEF Capture
<1>18. ASSUME NEW t \in Threads, Add(t) PROVE TypeOK'
  <2>1. sys' \in SysAccumulators
    BY <1>18, SysAddEffect DEF Add
  <2>2. ProcAdd(proc, heldProc) \in [samples : Nat, missing : BOOLEAN]
    <3>1. CASE heldProc = TRUE
      BY <3>1 DEF ProcAdd
    <3>2. CASE heldProc = FALSE
      BY <3>2 DEF ProcAdd
    <3> QED BY <3>1, <3>2
  <2>3. proc' \in [samples : Nat, missing : BOOLEAN]
    BY <1>18, <2>2 DEF Add
  <2> QED BY <1>18, <2>1, <2>3 DEF Add
<1>19. ASSUME NEW t \in Threads, Wake(t) PROVE TypeOK'
  BY <1>19 DEF Wake
<1>20. CASE ChildWrites
  <2>1. Len(script) \in Nat
    BY ScriptsAssumption
  <2> QED BY <1>20, <2>1 DEF ChildWrites
<1>21. CASE ChildExits
  BY <1>21 DEF ChildExits
<1>22. CASE SwapTraffic
  BY <1>22, BoundsAssumption DEF SwapTraffic
<1>23. CASE UNCHANGED vars
  BY <1>23 DEF vars
<1> QED
  BY <1>1, <1>2, <1>3, <1>4, <1>5, <1>6, <1>7, <1>8, <1>9, <1>10, <1>11, <1>12,
     <1>13, <1>14, <1>15, <1>16, <1>17, <1>18, <1>19, <1>20, <1>21, <1>22, <1>23
     DEF Next, MainStep, SamplerStep

(* The runner's state keeps its types in every behaviour. *)
THEOREM TypeCorrect == Spec => []TypeOK
BY InitTypeOK, NextTypeOK, PTL DEF Spec

-----------------------------------------------------------------------------
(* The swap verdict. *)

(* What the accumulator's verdict "no swap I/O" says of its two ends. *)
LEMMA NoSwapMeansSameCounter ==
    ASSUME NEW acc \in SysAccumulators,
           acc.first # NoSample => acc.last # NoSample,
           SwapIoObserved(acc) = "false"
    PROVE  acc.first # NoSample /\ acc.last.swaps = acc.first.swaps
<1>1. acc.first # NoSample /\ acc.last # NoSample
  BY DEF SwapIoObserved
<1>2. acc.first.swaps \in Int /\ acc.last.swaps \in Int
  BY <1>1 DEF SysAccumulators, Captured, Samples
<1> QED BY <1>1, <1>2 DEF SwapIoObserved

LEMMA InitIInv == Init => IInv
<1> SUFFICES ASSUME Init PROVE IInv
  OBVIOUS
<1>1. TypeOK
  BY InitTypeOK
<1>2. BeforeLaunch /\ AfterJoin /\ AdapterGone
  BY DEF Init, BeforeLaunch, AfterJoin, AdapterGone, Threads
<1>3. WindowOpens /\ WindowCloses /\ SwapVerdictCoversAdapter
  BY DEF Init, WindowOpens, WindowCloses, SwapVerdictCoversAdapter
<1> QED BY <1>1, <1>2, <1>3 DEF IInv

(* The invariant is inductive. *)
LEMMA NextIInv == IInv /\ [Next]_vars => IInv'
<1> SUFFICES ASSUME IInv, [Next]_vars PROVE IInv'
  OBVIOUS
<1> USE DEF IInv, mainVars, samplerVars, accVars, childVars, Goto,
            BeforeLaunch, AfterJoin, AdapterGone, WindowOpens, WindowCloses,
            SwapVerdictCoversAdapter
<1>t. TypeOK'
  BY NextTypeOK
<1>i. /\ swapped \in Int /\ swapAtSpawn \in Int /\ swapAtReap \in Int
      /\ sys \in SysAccumulators
      /\ sampler \in [Threads -> SamplerPcs]
      /\ "system" \in Threads /\ "process" \in Threads
      /\ raising \in BOOLEAN
  BY DEF TypeOK, Threads
<1>1. CASE FirstCapture
  <2>1. PICK c \in SystemCapture : sys' = SysAdd(sys, c)
    BY <1>1 DEF FirstCapture
  <2>2. c \in Captured /\ (c # NoSample => c.swaps = swapped)
    BY CaptureIsCurrent DEF TypeOK
  <2>3. sys.first = NoSample
    BY <1>1 DEF FirstCapture, NewSys
  <2>4. WindowOpens'
    BY <1>1, <1>i, <2>1, <2>2, <2>3, SysAddEffect DEF FirstCapture
  <2> QED BY <1>1, <1>t, <2>4 DEF FirstCapture
<1>2. CASE Popen
  BY <1>2, <1>t, <1>i DEF Popen
<1>3. CASE PopenFails
  BY <1>3, <1>t DEF PopenFails
<1>4. CASE StartProcessSampler
  BY <1>4, <1>t, <1>i DEF StartProcessSampler, StartSampler
<1>5. CASE StartSystemSampler
  BY <1>5, <1>t, <1>i DEF StartSystemSampler, StartSampler
<1>6. CASE StartFails
  BY <1>6, <1>t DEF StartFails
<1>7. CASE CommunicateReturns
  BY <1>7, <1>t, <1>i DEF CommunicateReturns, Reap
<1>8. CASE Timeout
  BY <1>8, <1>t DEF Timeout
<1>9. CASE Kill
  BY <1>9, <1>t, <1>i DEF Kill, Reap
<1>10. CASE Drain
  BY <1>10, <1>t, <1>i DEF Drain, Reap
<1>11. CASE CommunicateRaises
  BY <1>11, <1>t, <1>i DEF CommunicateRaises, Reap
<1>12. CASE SetStop
  BY <1>12, <1>t DEF SetStop
<1>13. CASE JoinProcessSampler
  BY <1>13, <1>t DEF JoinProcessSampler, Join
<1>14. CASE JoinSystemSampler
  BY <1>14, <1>t DEF JoinSystemSampler, Join
<1>15. CASE LastCapture
  <2>1. PICK c \in SystemCapture : sys' = SysAdd(sys, c)
    BY <1>15 DEF LastCapture
  <2>2. c \in Captured /\ (c # NoSample => c.swaps = swapped)
    BY CaptureIsCurrent DEF TypeOK
  <2>3. WindowOpens'
    BY <1>15, <1>i, <2>1, <2>2, SysAddEffect DEF LastCapture
  <2>4. main' = "evaluate" => child = "reaped"
    BY <1>15, <1>i DEF LastCapture
  <2>5. WindowCloses'
    BY <1>15, <1>i, <2>1, <2>2, <2>4, SysAddEffect DEF LastCapture
  <2> QED BY <1>15, <1>t, <2>3, <2>4, <2>5 DEF LastCapture
<1>16. CASE Evaluate
  <2>1. ASSUME execution'.observed = "false", ~execution'.reason
        PROVE  swapAtReap = swapAtSpawn
    <3>1. SwapIoObserved(sys) = "false" /\ ~sys.missing
      BY <1>16, <2>1 DEF Evaluate, Judge, HasReason
    <3>2. sys.last # NoSample /\ swapAtReap <= sys.last.swaps
      BY <1>16, <3>1 DEF Evaluate
    <3>3. sys.first # NoSample /\ sys.last.swaps = sys.first.swaps
      BY <1>i, <3>1, <3>2, NoSwapMeansSameCounter
    <3>4. sys.first.swaps <= swapAtSpawn /\ swapAtSpawn <= swapAtReap
      BY <1>16, <3>1 DEF Evaluate
    <3>5. sys.first.swaps \in Int
      BY <1>i, <3>3 DEF SysAccumulators, Captured, Samples
    <3> QED BY <1>i, <3>2, <3>3, <3>4, <3>5
  <2>2. SwapVerdictCoversAdapter'
    BY <1>16, <2>1 DEF Evaluate
  <2> QED BY <1>16, <1>t, <2>2 DEF Evaluate
<1>17. ASSUME NEW t \in Threads, Capture(t) PROVE IInv'
  BY <1>17, <1>t, <1>i DEF Capture
<1>18. ASSUME NEW t \in Threads, Add(t) PROVE IInv'
  <2>1. CASE t = "system"
    <3>1. sys' = SysAdd(sys, heldSys) /\ heldSys \in Captured
      BY <1>18, <2>1 DEF Add, TypeOK
    <3>2. main \notin {"first_capture", "popen", "evaluate"}
      BY <1>18, <2>1 DEF Add
    <3>3. WindowOpens'
      BY <1>18, <1>i, <3>1, <3>2, SysAddEffect DEF Add
    <3> QED BY <1>18, <1>t, <1>i, <2>1, <3>2, <3>3 DEF Add
  <2>2. CASE t # "system"
    BY <1>18, <1>t, <1>i, <2>2 DEF Add
  <2> QED BY <2>1, <2>2
<1>19. ASSUME NEW t \in Threads, Wake(t) PROVE IInv'
  BY <1>19, <1>t, <1>i DEF Wake
<1>20. CASE ChildWrites
  BY <1>20, <1>t DEF ChildWrites
<1>21. CASE ChildExits
  BY <1>21, <1>t DEF ChildExits
<1>22. CASE SwapTraffic
  <2>1. WindowOpens'
    <3>1. sys.first # NoSample => sys.first.swaps \in Int
      BY <1>i DEF SysAccumulators, Captured, Samples
    <3> QED BY <1>22, <1>i, <3>1 DEF SwapTraffic
  <2> QED BY <1>22, <1>t, <1>i, <2>1 DEF SwapTraffic
<1>23. CASE UNCHANGED vars
  BY <1>23, <1>t DEF vars
<1> QED
  BY <1>1, <1>2, <1>3, <1>4, <1>5, <1>6, <1>7, <1>8, <1>9, <1>10, <1>11, <1>12,
     <1>13, <1>14, <1>15, <1>16, <1>17, <1>18, <1>19, <1>20, <1>21, <1>22, <1>23
     DEF Next, MainStep, SamplerStep

(* In every behaviour, an execution that is returned with "no swap I/O      *)
(* observed" and no reason for missing counters was given an adapter during *)
(* whose life the kernel swapped nothing.                                   *)
THEOREM SwapVerdict == Spec => []SwapVerdictCoversAdapter
<1>1. IInv => SwapVerdictCoversAdapter
  BY DEF IInv
<1> QED BY <1>1, InitIInv, NextIInv, PTL DEF Spec

-----------------------------------------------------------------------------
(* The verdict and the minimum. *)

(* An execution is judged successful only on the whole transcript of an     *)
(* adapter that ended by itself, in time: what validate_transcript says of  *)
(* the events holds of the lines they were parsed from.                     *)
LEMMA AcceptedTranscript ==
    ASSUME TypeOK, Judge.succeeded
    PROVE  /\ ~timed_out /\ exit_code = 0
           /\ \A p \in CoarsePhases :
                 Cardinality({i \in 1..written :
                     script[i].kind = "phase" /\ script[i].phase = p}) = 1
           /\ \E r \in 1..written :
                 /\ script[r].kind = "result"
                 /\ script[r].verify # Request.invalid
                 /\ \A i \in 1..written : script[i].kind = "result" => i = r
<1> DEFINE events == ParseJsonLines(Stdout)
<1>1. ~timed_out /\ exit_code = 0 /\ ProtocolError = "none"
  BY DEF Judge
<1>2. ValidateTranscript(Request, events)
  BY <1>1 DEF ProtocolError
<1>3. /\ Stdout \in Seq(Lines) /\ Len(Stdout) = written /\ written \in Nat
      /\ \A i \in 1..written : Stdout[i] = script[i]
  <2>1. script \in Seq(Lines) /\ written \in 0..Len(script)
    BY ScriptsAssumption DEF TypeOK
  <2> QED BY <2>1 DEF Stdout
<1>4. events \in Seq(Lines)
  BY <1>3, EventsAreTheLines
<1>5. PICK at \in [1..Len(events) -> 1..written] :
         /\ \A k \in 1..Len(events) : events[k] = script[at[k]]
         /\ \A i \in 1..written :
               IsEvent(script[i]) => \E k \in 1..Len(events) : at[k] = i
  <2> HIDE DEF events
  <2>1. PICK at \in [1..Len(events) -> 1..Len(Stdout)] :
           /\ \A k \in 1..Len(events) : events[k] = Stdout[at[k]]
           /\ \A i \in 1..Len(Stdout) :
                 IsEvent(Stdout[i]) => \E k \in 1..Len(events) : at[k] = i
    BY <1>3, EventsAreTheLines DEF events
  <2> QED BY <1>3, <2>1
<1> HIDE DEF events
<1>6. DOMAIN events = 1..Len(events)
  BY <1>4
<1>7. ASSUME NEW p \in CoarsePhases
      PROVE  Cardinality({i \in 1..written :
                 script[i].kind = "phase" /\ script[i].phase = p}) = 1
  <2>1. PICK k \in PhaseIndices(events) : events[k].phase = p
    BY <1>2 DEF ValidateTranscript, CoarsePhasesPresent
  <2>2. \A j \in PhaseIndices(events) : events[j].phase = p => j = k
    BY <1>2, <2>1 DEF ValidateTranscript, NoDuplicatePhase
  <2>3. k \in 1..Len(events) /\ events[k].kind = "phase"
    BY <1>6, <2>1 DEF PhaseIndices
  <2>4. ASSUME NEW i \in 1..written, script[i].kind = "phase", script[i].phase = p
        PROVE  i = at[k]
    <3>1. PICK j \in 1..Len(events) : at[j] = i
      BY <1>5, <2>4 DEF IsEvent
    <3>2. j \in PhaseIndices(events) /\ events[j].phase = p
      BY <1>5, <1>6, <2>4, <3>1 DEF PhaseIndices
    <3> QED BY <2>2, <3>1, <3>2
  <2>5. {i \in 1..written : script[i].kind = "phase" /\ script[i].phase = p} = {at[k]}
    BY <1>5, <2>1, <2>3, <2>4
  <2> QED BY <2>5, FS_Singleton
<1>8. \E r \in 1..written :
         /\ script[r].kind = "result"
         /\ script[r].verify # Request.invalid
         /\ \A i \in 1..written : script[i].kind = "result" => i = r
  <2>1. PICK k \in ResultIndices(events) :
           ResultIndices(events) = {k} /\ VerdictAgrees(Request, events[k])
    BY <1>2 DEF ValidateTranscript
  <2>2. k \in 1..Len(events) /\ events[k].kind = "result"
    BY <1>6, <2>1 DEF ResultIndices
  <2>3. script[at[k]].verify # Request.invalid
    BY <1>5, <2>1, <2>2 DEF VerdictAgrees
  <2>4. ASSUME NEW i \in 1..written, script[i].kind = "result"
        PROVE  i = at[k]
    <3>1. PICK j \in 1..Len(events) : at[j] = i
      BY <1>5, <2>4 DEF IsEvent
    <3>2. j \in ResultIndices(events)
      BY <1>5, <1>6, <2>4, <3>1 DEF ResultIndices
    <3> QED BY <2>1, <3>1, <3>2
  <2> QED BY <1>5, <2>2, <2>3, <2>4
<1> QED BY <1>1, <1>7, <1>8

LEMMA InitVerdictInv == Init => VerdictInv
BY DEF Init, VerdictInv, EndsSetTogether, MinimumBelowEnds, JudgedAtTheEnd,
   AcceptedAnswerIsWholeAndInTime, NewSys, NoExecution

(* What any step does to the memory window: nothing, or one capture more.   *)
LEMMA SysStep ==
    ASSUME TypeOK, [Next]_vars
    PROVE  sys' = sys \/ \E c \in Captured : sys' = SysAdd(sys, c)
<1>1. CASE FirstCapture \/ LastCapture
  <2>1. PICK c \in SystemCapture : sys' = SysAdd(sys, c)
    BY <1>1 DEF FirstCapture, LastCapture
  <2>2. c \in Captured
    BY CaptureIsCurrent DEF TypeOK
  <2> QED BY <2>1, <2>2
<1>2. ASSUME NEW t \in Threads, Add(t)
      PROVE  sys' = sys \/ \E c \in Captured : sys' = SysAdd(sys, c)
  BY <1>2 DEF Add, TypeOK
<1>3. CASE ~(FirstCapture \/ LastCapture) /\ ~\E t \in Threads : Add(t)
  BY <1>3 DEF Next, MainStep, SamplerStep, Popen, PopenFails, StartProcessSampler,
     StartSystemSampler, StartSampler, StartFails, CommunicateReturns, Timeout, Kill,
     Drain, CommunicateRaises, SetStop, JoinProcessSampler, JoinSystemSampler, Join,
     Evaluate, Capture, Wake, ChildWrites, ChildExits, SwapTraffic, vars, accVars
<1> QED BY <1>1, <1>2, <1>3

(* What any step does to the verdict: it is given by the main thread's last *)
(* step, and it and what it was judged by stay as they are once the adapter *)
(* is reaped and the call has returned.                                     *)
LEMMA VerdictStep ==
    ASSUME [Next]_vars
    PROVE  \/ Evaluate
           \/ /\ execution' = execution
              /\ main' = "returned" <=> main = "returned"
              /\ main = "returned" /\ child = "reaped"
                    => UNCHANGED <<script, written, timed_out, exit_code>>
<1>1. CASE MainStep
  BY <1>1 DEF MainStep, FirstCapture, LastCapture, Popen, PopenFails, StartProcessSampler,
     StartSystemSampler, StartSampler, StartFails, CommunicateReturns, Timeout, Kill,
     Drain, CommunicateRaises, SetStop, JoinProcessSampler, JoinSystemSampler, Join, Goto
<1>2. ASSUME NEW t \in Threads, SamplerStep(t)
      PROVE  UNCHANGED <<mainVars, childVars>>
  BY <1>2 DEF SamplerStep, Capture, Add, Wake
<1>3. CASE ChildWrites \/ ChildExits \/ SwapTraffic
  BY <1>3 DEF ChildWrites, ChildExits, SwapTraffic, mainVars, childVars
<1>4. CASE UNCHANGED vars
  BY <1>4 DEF vars, mainVars, childVars
<1> QED BY <1>1, <1>2, <1>3, <1>4 DEF Next, mainVars, childVars

LEMMA NextVerdictInv == IInv /\ VerdictInv /\ [Next]_vars => VerdictInv'
<1> SUFFICES ASSUME IInv, VerdictInv, [Next]_vars PROVE VerdictInv'
  OBVIOUS
<1>1. TypeOK /\ sys \in SysAccumulators
  BY DEF IInv, TypeOK
<1>2. EndsSetTogether' /\ MinimumBelowEnds'
  <2>1. CASE sys' = sys
    BY <2>1 DEF VerdictInv, EndsSetTogether, MinimumBelowEnds
  <2>2. ASSUME NEW c \in Captured, sys' = SysAdd(sys, c)
        PROVE  EndsSetTogether' /\ MinimumBelowEnds'
    <3>1. sys.first # NoSample =>
             /\ sys.last # NoSample
             /\ sys.min <= sys.first.avail /\ sys.min <= sys.last.avail
      BY DEF VerdictInv, EndsSetTogether, MinimumBelowEnds
    <3>2. sys'.first # NoSample =>
             /\ sys'.last # NoSample
             /\ sys'.min <= sys'.first.avail /\ sys'.min <= sys'.last.avail
      BY <1>1, <2>2, <3>1, SysAddMinimum
    <3> QED BY <3>2 DEF EndsSetTogether, MinimumBelowEnds
  <2> QED BY <1>1, <2>1, <2>2, SysStep
<1>3. JudgedAtTheEnd' /\ AcceptedAnswerIsWholeAndInTime'
  <2>1. CASE Evaluate
    <3>1. /\ main' = "returned" /\ execution' = Judge
          /\ UNCHANGED <<script, written, timed_out, exit_code>>
      BY <2>1 DEF Evaluate, Goto, childVars
    <3>2. JudgedAtTheEnd'
      BY <3>1 DEF JudgedAtTheEnd
    <3>3. AcceptedAnswerIsWholeAndInTime'
      BY <1>1, <3>1, AcceptedTranscript DEF AcceptedAnswerIsWholeAndInTime
    <3> QED BY <3>2, <3>3
  <2>2. CASE ~Evaluate /\ main = "returned"
    <3>1. child = "reaped"
      BY <2>2 DEF IInv, AdapterGone
    <3>2. UNCHANGED <<main, execution, script, written, timed_out, exit_code>>
      BY <2>2, <3>1, VerdictStep
    <3> QED BY <3>2 DEF VerdictInv, JudgedAtTheEnd, AcceptedAnswerIsWholeAndInTime
  <2>3. CASE ~Evaluate /\ main # "returned"
    <3>1. execution' = NoExecution
      BY <2>3, VerdictStep DEF VerdictInv, JudgedAtTheEnd
    <3> QED BY <3>1 DEF JudgedAtTheEnd, AcceptedAnswerIsWholeAndInTime, NoExecution
  <2> QED BY <2>1, <2>2, <2>3
<1> QED BY <1>2, <1>3 DEF VerdictInv

(* Whatever order the captures of the two threads come in, the minimum of   *)
(* MemAvailable that is reported is at or below its start and end values.   *)
THEOREM ReportedMinimum == Spec => []MinimumBelowEnds
<1>1. VerdictInv => MinimumBelowEnds
  BY DEF VerdictInv
<1> QED BY <1>1, InitIInv, NextIInv, InitVerdictInv, NextVerdictInv, PTL DEF Spec

(* Whatever raced with the timeout, an execution that is called successful  *)
(* is that of an adapter that ended by itself in time and wrote a whole     *)
(* transcript with the verdict called for.                                  *)
THEOREM AcceptedAnswer == Spec => []AcceptedAnswerIsWholeAndInTime
<1>1. VerdictInv => AcceptedAnswerIsWholeAndInTime
  BY DEF VerdictInv
<1> QED BY <1>1, InitIInv, NextIInv, InitVerdictInv, NextVerdictInv, PTL DEF Spec

(* When the call returns the adapter is reaped and both samplers have ended. *)
THEOREM NothingLeft == Spec => []NothingLeftRunning
<1>1. IInv => NothingLeftRunning
  BY DEF IInv, AfterJoin, AdapterGone, NothingLeftRunning, Threads
<1> QED BY <1>1, InitIInv, NextIInv, PTL DEF Spec

-----------------------------------------------------------------------------
(* What is measured is settled before it is read.                           *)

(* From the last capture on nobody writes to either accumulator.            *)
THEOREM Frozen == Spec => MeasurementsFrozen
<1>1. IInv /\ [Next]_vars =>
        [(main \in {"evaluate", "returned"}) => UNCHANGED accVars]_vars
  <2> SUFFICES ASSUME IInv, Next, main \in {"evaluate", "returned"}
               PROVE  UNCHANGED accVars
    OBVIOUS
  <2>1. \A t \in Threads : sampler[t] = "done"
    BY DEF IInv, AfterJoin, Threads
  <2>2. ASSUME NEW t \in Threads, SamplerStep(t) PROVE FALSE
    BY <2>1, <2>2 DEF SamplerStep, Capture, Add, Wake
  <2>3. CASE MainStep
    BY <2>3 DEF MainStep, FirstCapture, LastCapture, Popen, PopenFails,
       StartProcessSampler, StartSystemSampler, StartSampler, StartFails,
       CommunicateReturns, Timeout, Kill, Drain, CommunicateRaises, SetStop,
       JoinProcessSampler, JoinSystemSampler, Join, Evaluate, Goto
  <2>4. CASE ChildWrites \/ ChildExits \/ SwapTraffic
    BY <2>4 DEF ChildWrites, ChildExits, SwapTraffic
  <2> QED BY <2>2, <2>3, <2>4 DEF Next
<1> QED BY <1>1, InitIInv, NextIInv, PTL DEF Spec, MeasurementsFrozen

-----------------------------------------------------------------------------
(* The refinement.                                                          *)

(* Every step of the runner is a step of the contract its callers rely on,  *)
(* or leaves the contract's state alone.                                    *)
LEMMA ContractStep ==
    ASSUME IInv, VerdictInv, [Next]_vars
    PROVE  [Contract!Next]_(Contract!absVars)
<1> USE DEF Contract!absVars, Contract!Next, AbstractChild, AbstractOutcome, Goto
<1>1. CASE UNCHANGED <<child, main, execution>>
  BY <1>1
<1>2. ASSUME NEW t \in Threads, SamplerStep(t)
      PROVE  UNCHANGED <<child, main, execution>>
  BY <1>2 DEF SamplerStep, Capture, Add, Wake, mainVars, childVars
<1>3. CASE ChildWrites \/ SwapTraffic \/ UNCHANGED vars
  BY <1>1, <1>3 DEF ChildWrites, SwapTraffic, vars, mainVars, childVars
<1>4. CASE ChildExits
  BY <1>4 DEF ChildExits, mainVars
<1>5. CASE Popen
  <2>1. child = "none"
    BY <1>5 DEF Popen, IInv, BeforeLaunch
  <2>2. Contract!Launch
    BY <1>5, <2>1 DEF Popen, Contract!Launch
  <2> QED BY <2>2
<1>6. CASE PopenFails \/ StartFails
  <2>1. Contract!Raise
    BY <1>6 DEF PopenFails, StartFails, childVars, Contract!Raise
  <2> QED BY <2>1
<1>7. CASE CommunicateReturns \/ Kill \/ Drain \/ CommunicateRaises
  <2>1. main \notin {"returned", "raised"} /\ main' \notin {"returned", "raised"}
    BY <1>7 DEF CommunicateReturns, Kill, Drain, CommunicateRaises
  <2>2. \/ child' = child
        \/ child = "exited" /\ child' = "reaped"
        \/ child = "running" /\ child' = "exited"
    BY <1>7 DEF CommunicateReturns, Kill, Drain, CommunicateRaises, Reap, childVars
  <2>3. CASE child = "exited" /\ child' = "reaped"
    BY <2>1, <2>3 DEF Contract!Gone
  <2> QED BY <2>1, <2>2, <2>3
<1>8. CASE FirstCapture \/ StartProcessSampler \/ StartSystemSampler \/ Timeout
           \/ SetStop \/ JoinProcessSampler \/ JoinSystemSampler
  BY <1>8 DEF FirstCapture, StartProcessSampler, StartSystemSampler, StartSampler,
     Timeout, SetStop, JoinProcessSampler, JoinSystemSampler, Join, childVars
<1>9. CASE LastCapture
  <2>1. CASE raising
    BY <1>9, <2>1 DEF LastCapture, childVars, Contract!Raise
  <2>2. CASE ~raising
    BY <1>9, <2>2 DEF LastCapture, childVars
  <2> QED BY <2>1, <2>2
<1>10. CASE Evaluate
  <2>1. child = "reaped"
    BY <1>10 DEF Evaluate, IInv, AdapterGone
  <2>2. Contract!Conclude
    BY <1>10, <2>1 DEF Evaluate, childVars, Contract!Conclude
  <2> QED BY <2>2
<1> QED
  BY <1>1, <1>2, <1>3, <1>4, <1>5, <1>6, <1>7, <1>8, <1>9, <1>10 DEF Next, MainStep

(* The safety part of ImplementsContract: initial states map to initial     *)
(* states of AdapterExecution, and every step to one of its steps or to a   *)
(* stutter.                                                                 *)
THEOREM StepsAreContractSteps ==
    Spec => Contract!Init /\ [][Contract!Next]_(Contract!absVars)
<1>1. Init => Contract!Init
  BY DEF Init, Contract!Init, AbstractChild, AbstractOutcome
<1> QED
  BY <1>1, InitIInv, NextIInv, InitVerdictInv, NextVerdictInv, ContractStep, PTL DEF Spec
=============================================================================
