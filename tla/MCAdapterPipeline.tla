--------------------------- MODULE MCAdapterPipeline ---------------------------
(* Requests that cover what the adapters tell apart: the kernels, the      *)
(* applications in every scale mode, sizes that are and are not powers of  *)
(* two or one less, and requests that some adapter turns down.             *)
EXTENDS AdapterPipeline

Plain == [run |-> "r1", workload |-> Kernel, scale |-> 4, threads |-> 2,
          invalid |-> "none", scale_mode |-> "none", target |-> 0,
          units |-> 0, stark_mode |-> "none", schedule |-> "none",
          widths |-> "none"]

Kernels == {[Plain EXCEPT !.workload = w, !.scale = n] :
                w \in WorkloadNames, n \in {3, 4}}
           \cup {[Plain EXCEPT !.threads = 0], [Plain EXCEPT !.scale = 1], [Plain EXCEPT !.run = ""],
                 [Plain EXCEPT !.units = 2], [Plain EXCEPT !.target = 1]}

Pilots == {[Plain EXCEPT !.workload = w, !.scale = n, !.widths = x] :
               w \in Applications, n \in {3, 4},
               x \in {"common", "refused"}}

Sized == {[Plain EXCEPT !.workload = w, !.scale = n, !.widths = "common",
                        !.scale_mode = "target_native_size", !.units = u] :
              w \in Applications \cup {Kernel}, n \in {6, 8}, u \in {0, 2}}

(* A native size in a parameter of its own. *)
Targets == {[Plain EXCEPT !.workload = w, !.scale = 2, !.target = 8] :
                w \in Applications}

States == {[Plain EXCEPT !.workload = "batched_state", !.scale = n,
                         !.widths = "common", !.scale_mode = m,
                         !.stark_mode = k, !.schedule = d] :
               n \in {7, 8},
               m \in {"none", "application_units"},
               k \in {"none", "application_predicate", "size_proxy"},
               d \in {"none", "splitmix64-v1"}}

Odd == {[Plain EXCEPT !.workload = "batched_state", !.scale_mode = "other"],
        [Plain EXCEPT !.workload = "batched_state", !.stark_mode = "other"],
        [Plain EXCEPT !.workload = "batched_state", !.schedule = "other"],
        [Plain EXCEPT !.workload = "batched_state", !.scale = 7,
                      !.schedule = "linear-v1"],
        [Plain EXCEPT !.workload = "batched_state", !.scale = 7,
                      !.widths = "unusual"],
        [Plain EXCEPT !.workload = "batched_state", !.units = 2,
                      !.scale_mode = "application_units"]}

Valid == Kernels \cup Pilots \cup Sized \cup Targets \cup States \cup Odd

MCRequests == UNION {{q, [q EXCEPT !.invalid = "wrong_public_input"]} : q \in Valid}
              \cup {[q EXCEPT !.invalid = "other"] : q \in Kernels \cup Sized}

MCSizes == {3, 9}
=============================================================================
