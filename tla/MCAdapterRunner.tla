--------------------------- MODULE MCAdapterRunner ---------------------------
(***************************************************************************)
(* A small instance of AdapterRunner: one request, adapters that answer    *)
(* well and adapters that answer badly, two memory levels, one unit of     *)
(* swap traffic and two captures per sampler thread.                       *)
(***************************************************************************)
EXTENDS AdapterRunner

MCCoarsePhases == {"native_execution"}

MCRequest == [run |-> "r1", scale |-> 8, threads |-> 2, invalid |-> FALSE,
              scale_mode |-> "application_units"]

Phase(p) == [kind |-> "phase", run |-> "r1", adapter |-> "a", phase |-> p,
             threads |-> 2, supported |-> TRUE, units |-> 8]

Result(verify) == [kind |-> "result", run |-> "r1", adapter |-> "a",
                   units |-> 232, verify |-> verify]

Native == Phase("native_execution")

(* The same phase reported again, as one the adapter does not support. *)
NativeAgain == [Native EXCEPT !.supported = FALSE, !.units = 0]

MCScripts ==
    { <<Native, Result(TRUE), Result(TRUE)>>,
      <<Native, Result(TRUE), NativeAgain>>,
      <<Native, Result(FALSE), [kind |-> "garbage"]>>,
      <<Native, [kind |-> "blank"], Result(TRUE)>> }

MCLevels == {1, 2}

MCMaxCaptures == [process |-> 1, system |-> 2]
=============================================================================
