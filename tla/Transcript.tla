------------------------------ MODULE Transcript ------------------------------
(***************************************************************************)
(* What an adapter may write to its standard output and what the runner    *)
(* accepts of it: parse_json_lines (adapter_protocol.py) and               *)
(* validate_transcript (adapter_runner.py) as operators on sequences of    *)
(* lines.  A line is abstracted to the fields the validation compares; the *)
(* JSON text and the numbers of a phase are left out.                      *)
(*                                                                         *)
(* A line is one of                                                        *)
(*   [kind |-> "blank"]     white space, skipped by the parser             *)
(*   [kind |-> "garbage"]   anything the parser or an event's own          *)
(*                          validation raises ValueError on                *)
(*   [kind |-> "phase",  run, adapter, phase, threads, supported, units]   *)
(*   [kind |-> "result", run, adapter, units, verify]                      *)
(* A request is [run, scale, threads, invalid, scale_mode].                *)
(***************************************************************************)
EXTENDS Naturals, Sequences, FiniteSets

CONSTANT CoarsePhases   \* the phases every transcript must report

-----------------------------------------------------------------------------
(* Parsing.  One bad line rejects the whole output. *)

ParsesAsEvents(lines) == \A i \in DOMAIN lines : lines[i].kind # "garbage"

IsEvent(line) == line.kind # "blank"

(* The loop over the lines: what has been appended to `events' after the    *)
(* first n of them.                                                         *)
ParseJsonLines(lines) ==
    LET events[n \in 0..Len(lines)] ==
            IF n = 0 THEN <<>>
            ELSE IF IsEvent(lines[n]) THEN Append(events[n - 1], lines[n])
            ELSE events[n - 1]
    IN  events[Len(lines)]

-----------------------------------------------------------------------------
(* Validation. *)

PhaseIndices(events) == {i \in DOMAIN events : events[i].kind = "phase"}

ResultIndices(events) == {i \in DOMAIN events : events[i].kind = "result"}

NativeIndices(events) ==
    {i \in PhaseIndices(events) :
        events[i].phase = "native_execution" /\ events[i].supported}

(* How the size an adapter reports must relate to the size requested: under *)
(* "application_units" one supported native_execution phase must carry the *)
(* requested size; under any other mode the result must.                   *)
ScaleAgrees(request, events, result) ==
    IF request.scale_mode = "application_units"
    THEN \E n \in NativeIndices(events) :
            /\ NativeIndices(events) = {n}
            /\ events[n].units = request.scale
    ELSE result.units = request.scale

(* A valid request must verify; an invalid case must be rejected. *)
VerdictAgrees(request, result) == result.verify = ~request.invalid

PhasesAgree(request, events) ==
    \A i \in PhaseIndices(events) :
        events[i].run = request.run /\ events[i].threads = request.threads

(* Mutant of NoDuplicatePhase: only neighbours are compared. *)
NoRepeatedNeighbour(events) ==
    \A i, j \in PhaseIndices(events) :
        events[i].phase = events[j].phase => j # i + 1

NoDuplicatePhase(events) ==
    \A i, j \in PhaseIndices(events) :
        events[i].phase = events[j].phase => i = j

CoarsePhasesPresent(events) ==
    CoarsePhases \subseteq {events[i].phase : i \in PhaseIndices(events)}

OneAdapter(events, result) ==
    \A i \in PhaseIndices(events) : events[i].adapter = result.adapter

ValidateTranscript(request, events) ==
    \E r \in ResultIndices(events) :
        /\ ResultIndices(events) = {r}
        /\ events[r].run = request.run
        /\ ScaleAgrees(request, events, events[r])
        /\ VerdictAgrees(request, events[r])
        /\ PhasesAgree(request, events)
        /\ NoDuplicatePhase(events)
        /\ CoarsePhasesPresent(events)
        /\ OneAdapter(events, events[r])
=============================================================================
