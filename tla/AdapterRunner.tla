---------------------------- MODULE AdapterRunner ----------------------------
(***************************************************************************)
(* execute_adapter (src/src/zkbench/adapter_runner.py): one adapter        *)
(* process is launched, two sampler threads read procfs while it runs, the *)
(* main thread waits for its answer under a timeout, stops and joins the   *)
(* samplers, takes a last memory sample and judges the transcript.         *)
(*                                                                         *)
(* Actors: the main thread (its pc is `main'), the sampler threads         *)
(* "process" and "system" (their pcs are `sampler'), the adapter process   *)
(* (`child') and the kernel, whose swap counter `swapped' only grows.      *)
(***************************************************************************)
EXTENDS Transcript, Integers

CONSTANTS
    Scripts,      \* the outputs the adapter may be writing (sequences of lines)
    Request,      \* the request sent to it
    Levels,       \* the values MemAvailable may take
    MaxSwap,      \* bound: swap traffic the kernel ever sees
    MaxCaptures,  \* bound: captures each sampler thread takes
    NoSample      \* "no capture": None of the accumulators

Lines == UNION {{s[i] : i \in DOMAIN s} : s \in Scripts}

ASSUME ScriptsAssumption == Scripts \subseteq Seq(Lines)

ASSUME BoundsAssumption ==
    /\ Levels \subseteq Nat
    /\ MaxSwap \in Nat
    /\ MaxCaptures \in [{"process", "system"} -> Nat]
    /\ NoSample \notin [avail : Levels, swaps : Nat]

VARIABLES
    main,       \* pc of the main thread
    raising,    \* an exception is travelling through the finally block
    stop,       \* the threading.Event
    sampler,    \* pc of each sampler thread
    captures,   \* how many captures each sampler thread has taken
    heldProc,   \* the capture the process sampler has read and not yet added
    heldSys,    \* the capture the system sampler has read and not yet added
    proc,       \* _CounterAccumulator
    sys,        \* _SystemMemoryAccumulator
    child,      \* "none", "running", "exited" or "reaped"
    script,     \* what the adapter is writing
    written,    \* how many lines of it are in the pipe
    exit_code,  \* 0, 1, or Killed
    timed_out,
    swapped,    \* the kernel's swap counter
    swapAtSpawn, swapAtReap,  \* history: its value when the adapter was
                              \* launched and when it was reaped
    execution   \* the AdapterExecution returned, NoExecution before

mainVars == <<main, raising, stop, timed_out, execution>>
samplerVars == <<sampler, captures, heldProc, heldSys>>
accVars == <<proc, sys>>
childVars == <<child, script, written, exit_code, swapAtSpawn, swapAtReap>>
vars == <<mainVars, samplerVars, accVars, childVars, swapped>>

Threads == {"process", "system"}
Killed == -9
NoExecution == [succeeded |-> FALSE, returned |-> FALSE]

Samples == [avail : Levels, swaps : 0..MaxSwap]
Captured == Samples \cup {NoSample}

-----------------------------------------------------------------------------
(* The accumulators. *)

(* Mutant of NewSys: the minimum starts as None and is compared as such. *)
NewSysUnset == [first |-> NoSample, last |-> NoSample, min |-> NoSample,
                samples |-> 0, missing |-> FALSE]

NewProc == [samples |-> 0, missing |-> FALSE]
NewSys == [first |-> NoSample, last |-> NoSample, min |-> 0,
           samples |-> 0, missing |-> FALSE]

(* _CounterAccumulator.add, its maxima left out: a good read is counted; a  *)
(* good one and a failed one both come with a reason for missing counters.  *)
ProcAdd(acc, supported) ==
    [samples |-> IF supported THEN acc.samples + 1 ELSE acc.samples,
     missing |-> TRUE]

Lesser(a, b) == IF a <= b THEN a ELSE b
Greater(a, b) == IF a <= b THEN b ELSE a

(* Mutant of SysAdd: the greatest MemAvailable is kept. *)
SysAddKeepingMaximum(acc, c) ==
    IF c = NoSample THEN [acc EXCEPT !.missing = TRUE]
    ELSE [acc EXCEPT
            !.first = IF @ = NoSample THEN c ELSE @,
            !.last = c,
            !.min = IF acc.first = NoSample THEN c.avail ELSE Greater(@, c.avail),
            !.samples = @ + 1]

(* _SystemMemoryAccumulator.add: the first and the last supported captures *)
(* are kept, and the least MemAvailable of all of them.                    *)
SysAdd(acc, c) ==
    IF c = NoSample THEN [acc EXCEPT !.missing = TRUE]
    ELSE [acc EXCEPT
            !.first = IF @ = NoSample THEN c ELSE @,
            !.last = c,
            !.min = IF acc.first = NoSample THEN c.avail ELSE Lesser(@, c.avail),
            !.samples = @ + 1]

(* _SystemMemoryAccumulator._delta and .finish: swap_io_observed is None    *)
(* ("unknown") without two captures or when the counter went backwards.     *)
SwapIoObserved(acc) ==
    IF acc.first = NoSample \/ acc.last.swaps < acc.first.swaps THEN "unknown"
    ELSE IF acc.last.swaps > acc.first.swaps THEN "true"
    ELSE "false"

(* unavailable_reason of the system measurements is set. *)
HasReason(acc) == acc.missing \/ acc.samples < 2

-----------------------------------------------------------------------------
(* The end of execute_adapter: judging what the adapter wrote. *)

Stdout == SubSeq(script, 1, written)

ProtocolError ==
    IF timed_out THEN "timeout"
    ELSE IF ~ParsesAsEvents(Stdout) THEN "transcript"
    ELSE IF exit_code # 0 THEN "exit"
    ELSE IF ~ValidateTranscript(Request, ParseJsonLines(Stdout)) THEN "transcript"
    ELSE "none"

Events == IF ParsesAsEvents(Stdout) THEN ParseJsonLines(Stdout) ELSE <<>>

(* AdapterExecution, with its `succeeded' property evaluated. *)
Judge ==
    [returned |-> TRUE,
     succeeded |-> exit_code = 0 /\ ~timed_out /\ ProtocolError = "none",
     events |-> Events,
     error |-> ProtocolError,
     observed |-> SwapIoObserved(sys),
     reason |-> HasReason(sys),
     min |-> sys.min]

-----------------------------------------------------------------------------
Init ==
    /\ main = "first_capture" /\ raising = FALSE /\ stop = FALSE
    /\ timed_out = FALSE /\ execution = NoExecution
    /\ sampler = [t \in Threads |-> "unstarted"]
    /\ captures = [t \in Threads |-> 0]
    /\ heldProc = FALSE /\ heldSys = NoSample
    /\ proc = NewProc /\ sys = NewSys
    /\ child = "none" /\ script \in Scripts /\ written = 0 /\ exit_code = 0
    /\ swapped = 0 /\ swapAtSpawn = 0 /\ swapAtReap = 0

Goto(from, to) == main = from /\ main' = to

(* What reading /proc/meminfo and /proc/vmstat yields now: the counters, or *)
(* nothing when the read or the parse fails.                                *)
SystemCapture == [avail : Levels, swaps : {swapped}] \cup {NoSample}

(* The capture before the adapter is launched. *)
FirstCapture ==
    /\ Goto("first_capture", "popen")
    /\ \E c \in SystemCapture : sys' = SysAdd(sys, c)
    /\ UNCHANGED <<raising, stop, timed_out, execution, samplerVars, proc,
                   childVars, swapped>>

Popen ==
    /\ Goto("popen", "start_process")
    /\ child' = "running"
    /\ swapAtSpawn' = swapped
    /\ UNCHANGED <<raising, stop, timed_out, execution, samplerVars, accVars,
                   script, written, exit_code, swapAtReap, swapped>>

(* Popen raises: nothing has been started. *)
PopenFails ==
    /\ Goto("popen", "raised")
    /\ UNCHANGED <<raising, stop, timed_out, execution, samplerVars, accVars,
                   childVars, swapped>>

StartSampler(t, from, to) ==
    /\ Goto(from, to)
    /\ sampler' = [sampler EXCEPT ![t] = "capture"]
    /\ UNCHANGED <<raising, stop, timed_out, execution, captures, heldProc, heldSys,
                   accVars, childVars, swapped>>

StartProcessSampler == StartSampler("process", "start_process", "start_system")
StartSystemSampler == StartSampler("system", "start_system", "communicate")

(* Thread.start raises.  Both calls are before the try block: nothing stops *)
(* what was already started, neither the adapter nor the other sampler.     *)
StartFails ==
    /\ main \in {"start_process", "start_system"}
    /\ main' = "raised"
    /\ UNCHANGED <<raising, stop, timed_out, execution, samplerVars, accVars,
                   childVars, swapped>>

Reap(code) ==
    /\ child' = "reaped"
    /\ exit_code' = code
    /\ swapAtReap' = swapped
    /\ UNCHANGED <<script, written, swapAtSpawn>>

(* communicate() returns: the pipes are at end of file and wait() succeeded. *)
CommunicateReturns ==
    /\ Goto("communicate", "stop")
    /\ child = "exited"
    /\ Reap(exit_code)
    /\ UNCHANGED <<raising, stop, timed_out, execution, samplerVars, accVars, swapped>>

(* Mutant of Timeout: the adapter is left running. *)
TimeoutWithoutKill ==
    /\ Goto("communicate", "stop")
    /\ timed_out' = TRUE
    /\ UNCHANGED <<raising, stop, execution, samplerVars, accVars, childVars, swapped>>

(* TimeoutExpired.  The adapter may be hanging, or may have just exited. *)
Timeout ==
    /\ Goto("communicate", "kill")
    /\ timed_out' = TRUE
    /\ UNCHANGED <<raising, stop, execution, samplerVars, accVars, childVars, swapped>>

(* process.kill(): Popen polls first, so a process that has exited is reaped *)
(* and not signalled.                                                        *)
Kill ==
    /\ Goto("kill", "drain")
    /\ \/ /\ child = "exited"
          /\ Reap(exit_code)
       \/ /\ child = "running"
          /\ child' = "exited"
          /\ exit_code' = Killed
          /\ UNCHANGED <<script, written, swapAtSpawn, swapAtReap>>
    /\ UNCHANGED <<raising, stop, timed_out, execution, samplerVars, accVars, swapped>>

(* Mutant of Drain: the killed process is not waited for. *)
DrainWithoutWaiting ==
    /\ Goto("drain", "stop")
    /\ UNCHANGED <<raising, stop, timed_out, execution, samplerVars, accVars,
                   childVars, swapped>>

(* The second communicate(), which has no timeout. *)
Drain ==
    /\ Goto("drain", "stop")
    /\ \/ child = "exited" /\ Reap(exit_code)
       \/ child = "reaped" /\ UNCHANGED childVars
    /\ UNCHANGED <<raising, stop, timed_out, execution, samplerVars, accVars, swapped>>

(* communicate() raises something else (KeyboardInterrupt, undecodable      *)
(* output): the finally block runs, and the exception goes on from its end. *)
CommunicateRaises ==
    /\ main \in {"communicate", "drain"}
    /\ main' = "stop"
    /\ raising' = TRUE
    /\ \/ UNCHANGED childVars
       \/ child = "exited" /\ Reap(exit_code)
    /\ UNCHANGED <<stop, timed_out, execution, samplerVars, accVars, swapped>>

(* Mutant of SetStop: the event is not set. *)
SetStopForgotten ==
    /\ Goto("stop", "join_process")
    /\ UNCHANGED <<raising, stop, timed_out, execution, samplerVars, accVars,
                   childVars, swapped>>

SetStop ==
    /\ Goto("stop", "join_process")
    /\ stop' = TRUE
    /\ UNCHANGED <<raising, timed_out, execution, samplerVars, accVars, childVars, swapped>>

(* Mutant of Join: the thread is not waited for. *)
JoinWithoutWaiting(t, from, to) ==
    /\ Goto(from, to)
    /\ UNCHANGED <<raising, stop, timed_out, execution, samplerVars, accVars,
                   childVars, swapped>>

Join(t, from, to) ==
    /\ Goto(from, to)
    /\ sampler[t] = "done"
    /\ UNCHANGED <<raising, stop, timed_out, execution, samplerVars, accVars,
                   childVars, swapped>>

JoinProcessSampler == Join("process", "join_process", "join_system")
JoinSystemSampler == Join("system", "join_system", "last_capture")

(* The last statement of the finally block; a pending exception leaves here. *)
LastCapture ==
    /\ Goto("last_capture", IF raising THEN "raised" ELSE "evaluate")
    /\ \E c \in SystemCapture : sys' = SysAdd(sys, c)
    /\ UNCHANGED <<raising, stop, timed_out, execution, samplerVars, proc,
                   childVars, swapped>>

Evaluate ==
    /\ Goto("evaluate", "returned")
    /\ execution' = Judge
    /\ UNCHANGED <<raising, stop, timed_out, samplerVars, accVars, childVars, swapped>>

-----------------------------------------------------------------------------
(* The sampler threads: capture, add, wait for the stop event or the        *)
(* interval, again.  A capture and the add that follows are separate steps. *)

(* A reaped adapter has no /proc entry any more: its capture is a failure. *)
ProcessCapture == child # "reaped"

Capture(t) ==
    /\ sampler[t] = "capture"
    /\ sampler' = [sampler EXCEPT ![t] = "add"]
    /\ captures' = [captures EXCEPT ![t] = @ + 1]
    /\ IF t = "system"
       THEN heldSys' \in SystemCapture /\ UNCHANGED heldProc
       ELSE heldProc' = ProcessCapture /\ UNCHANGED heldSys
    /\ UNCHANGED <<mainVars, accVars, childVars, swapped>>

Add(t) ==
    /\ sampler[t] = "add"
    /\ sampler' = [sampler EXCEPT ![t] = "wait"]
    /\ IF t = "system"
       THEN sys' = SysAdd(sys, heldSys) /\ UNCHANGED proc
       ELSE proc' = ProcAdd(proc, heldProc) /\ UNCHANGED sys
    /\ UNCHANGED <<mainVars, captures, heldProc, heldSys, childVars, swapped>>

(* stop.wait(interval): TRUE when the event is set, FALSE on the interval. *)
Wake(t) ==
    /\ sampler[t] = "wait"
    /\ \/ stop /\ sampler' = [sampler EXCEPT ![t] = "done"]
       \/ /\ ~stop
          /\ captures[t] < MaxCaptures[t]
          /\ sampler' = [sampler EXCEPT ![t] = "capture"]
    /\ UNCHANGED <<mainVars, captures, heldProc, heldSys, accVars, childVars, swapped>>

-----------------------------------------------------------------------------
(* The adapter process and the kernel. *)

ChildWrites ==
    /\ child = "running" /\ written < Len(script)
    /\ written' = written + 1
    /\ UNCHANGED <<mainVars, samplerVars, accVars, child, script, exit_code,
                   swapAtSpawn, swapAtReap, swapped>>

(* It may end at any point: after its result, on an error (a Rust main that *)
(* returns Err exits with 1), or early with code 0.                         *)
ChildExits ==
    /\ child = "running"
    /\ child' = "exited"
    /\ exit_code' \in {0, 1}
    /\ UNCHANGED <<mainVars, samplerVars, accVars, script, written,
                   swapAtSpawn, swapAtReap, swapped>>

SwapTraffic ==
    /\ swapped < MaxSwap
    /\ swapped' = swapped + 1
    /\ UNCHANGED <<mainVars, samplerVars, accVars, childVars>>

-----------------------------------------------------------------------------
MainStep ==
    \/ FirstCapture \/ Popen \/ PopenFails
    \/ StartProcessSampler \/ StartSystemSampler \/ StartFails
    \/ CommunicateReturns \/ Timeout \/ Kill \/ Drain \/ CommunicateRaises
    \/ SetStop \/ JoinProcessSampler \/ JoinSystemSampler
    \/ LastCapture \/ Evaluate

SamplerStep(t) == Capture(t) \/ Add(t) \/ Wake(t)

Next ==
    \/ MainStep
    \/ \E t \in Threads : SamplerStep(t)
    \/ ChildWrites \/ ChildExits \/ SwapTraffic

(* The main thread and the samplers are scheduled by the interpreter and    *)
(* the timer of communicate() runs out; nothing is assumed of the adapter,  *)
(* which may hang, and swapping may never happen.                           *)
Fairness == WF_vars(MainStep) /\ \A t \in Threads : WF_vars(SamplerStep(t))

Spec == Init /\ [][Next]_vars /\ Fairness

-----------------------------------------------------------------------------
(* Type invariant of the runner's state. *)
MainPcs == {"first_capture", "popen", "start_process", "start_system",
            "communicate", "kill", "drain", "stop", "join_process",
            "join_system", "last_capture", "evaluate", "returned", "raised"}

SamplerPcs == {"unstarted", "capture", "add", "wait", "done"}

SysAccumulators ==
    [first : Captured, last : Captured, min : Nat, samples : Nat, missing : BOOLEAN]

TypeOK ==
    /\ main \in MainPcs
    /\ raising \in BOOLEAN /\ stop \in BOOLEAN /\ timed_out \in BOOLEAN
    /\ sampler \in [Threads -> SamplerPcs]
    /\ captures \in [Threads -> Nat]
    /\ heldProc \in BOOLEAN /\ heldSys \in Captured
    /\ proc \in [samples : Nat, missing : BOOLEAN]
    /\ sys \in SysAccumulators
    /\ child \in {"none", "running", "exited", "reaped"}
    /\ script \in Scripts /\ written \in 0..Len(script) /\ exit_code \in {0, 1, Killed}
    /\ swapped \in 0..MaxSwap
    /\ swapAtSpawn \in 0..MaxSwap /\ swapAtReap \in 0..MaxSwap
    /\ execution.returned \in BOOLEAN /\ execution.succeeded \in BOOLEAN

(* The verdict the swap audit rests on: when a returned execution says that *)
(* no swap I/O was observed, with no reason given for missing counters,     *)
(* then the kernel swapped nothing between the launch of the adapter and    *)
(* its reaping.  It needs the first capture before Popen, the last one      *)
(* after the samplers are joined, and both ends kept by the accumulator.    *)
SwapVerdictCoversAdapter ==
    main = "returned" /\ execution.observed = "false" /\ ~execution.reason
        => swapAtReap = swapAtSpawn

(* The reported minimum of MemAvailable lies at or below both the start and *)
(* the end value, whatever order the captures of the two threads came in.   *)
MinimumBelowEnds ==
    sys.first # NoSample =>
        sys.min <= sys.first.avail /\ sys.min <= sys.last.avail

(* What a successful execution says of the adapter, whatever raced with     *)
(* the timeout: it ended by itself with code 0 before the timer ran out,    *)
(* and by then it had written every coarse phase exactly once and exactly   *)
(* one result, whose verdict is the one the request calls for.              *)
AcceptedAnswerIsWholeAndInTime ==
    execution.succeeded =>
        /\ ~timed_out /\ exit_code = 0
        /\ \A p \in CoarsePhases :
              Cardinality({i \in 1..written :
                  script[i].kind = "phase" /\ script[i].phase = p}) = 1
        /\ \E r \in 1..written :
              /\ script[r].kind = "result"
              /\ script[r].verify # Request.invalid
              /\ \A i \in 1..written : script[i].kind = "result" => i = r

(* Once the main thread is past the joins, nobody but itself writes to the  *)
(* accumulators it is about to read: finish() sees a frozen state.          *)
MeasurementsFrozen ==
    [][(main \in {"evaluate", "returned"}) => UNCHANGED accVars]_vars

(* A call that returns leaves nothing behind: the adapter is reaped and     *)
(* both sampler threads have ended.                                         *)
NothingLeftRunning ==
    main = "returned" => child = "reaped" /\ \A t \in Threads : sampler[t] = "done"

(* Every call ends, even when the adapter hangs and never writes a line. *)
ExecutionEnds == <>(main \in {"returned", "raised"})

-----------------------------------------------------------------------------
(* The inductive invariant behind the safety properties above: where the    *)
(* threads and the adapter are when the main thread is at each pc, how the  *)
(* two ends of the memory window enclose the adapter's life, and what the   *)
(* verdict rests on.                                                        *)

BeforeLaunch ==
    /\ main \in {"first_capture", "popen"} => child = "none"
    /\ child = "none" => main \in {"first_capture", "popen", "raised"}
    /\ main = "first_capture" => sys = NewSys
    /\ main \in {"first_capture", "popen", "start_process", "start_system"}
          => sampler["system"] = "unstarted"

AfterJoin ==
    /\ main \in {"join_system", "last_capture", "evaluate", "returned"}
          => sampler["process"] = "done"
    /\ main \in {"last_capture", "evaluate", "returned"} => sampler["system"] = "done"

AdapterGone ==
    /\ main = "drain" => child \in {"exited", "reaped"}
    /\ main \in {"stop", "join_process", "join_system", "last_capture"}
          => raising \/ child = "reaped"
    /\ main \in {"evaluate", "returned"} => child = "reaped"

WindowOpens ==
    ~sys.missing /\ main # "first_capture" =>
        /\ sys.first # NoSample
        /\ sys.first.swaps <= swapped
        /\ child # "none" => sys.first.swaps <= swapAtSpawn

WindowCloses ==
    /\ child # "none" => swapAtSpawn <= swapped
    /\ child = "reaped" => swapAtSpawn <= swapAtReap /\ swapAtReap <= swapped
    /\ main = "evaluate" /\ ~sys.missing =>
          sys.last # NoSample /\ swapAtReap <= sys.last.swaps

IInv ==
    /\ TypeOK
    /\ BeforeLaunch /\ AfterJoin /\ AdapterGone
    /\ WindowOpens /\ WindowCloses
    /\ SwapVerdictCoversAdapter

(* Both ends of the memory window are set by the first good capture.        *)
EndsSetTogether == sys.first # NoSample => sys.last # NoSample

(* A verdict is there when the call has returned, and only then. *)
JudgedAtTheEnd == main # "returned" => execution = NoExecution

VerdictInv ==
    /\ EndsSetTogether /\ MinimumBelowEnds
    /\ JudgedAtTheEnd /\ AcceptedAnswerIsWholeAndInTime

-----------------------------------------------------------------------------
(* The runner implements the contract its callers rely on. *)

AbstractChild ==
    CASE child = "none" -> "absent"
      [] child \in {"running", "exited"} -> "alive"
      [] OTHER -> "gone"

AbstractOutcome ==
    IF main = "raised" THEN "raised"
    ELSE IF main # "returned" THEN "pending"
    ELSE IF execution.succeeded THEN "accepted" ELSE "rejected"

Contract == INSTANCE AdapterExecution
                WITH child <- AbstractChild, outcome <- AbstractOutcome

ImplementsContract == Contract!Spec
=============================================================================
