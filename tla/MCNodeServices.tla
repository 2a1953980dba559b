--------------------------- MODULE MCNodeServices ---------------------------
(***************************************************************************)
(* Four services of a node that share no state, each explored on its own:  *)
(* the controller's tasks, a probe that two servers share with the event   *)
(* server's sinks, the Loki sink's client, and the forecaster's estimate   *)
(* of the service rate.                                                    *)
(***************************************************************************)
EXTENDS TaskPlane, SharedProbe, LokiClient, MuEstimator

CONSTANTS s1, s2

VARIABLE service    \* the one this behaviour is about

nsVars == <<service, tpVars, spVars, lkVars, muVars>>

Init == /\ service \in {"tasks", "probe", "loki", "mu"}
        /\ TpInit /\ SpInit /\ LkInit /\ MuInit
        /\ service # "probe" => style = "tracekernel"

Next == /\ UNCHANGED service
        /\ \/ service = "tasks" /\ TpNext /\ UNCHANGED <<spVars, lkVars, muVars>>
           \/ service = "probe" /\ SpNext /\ UNCHANGED <<tpVars, lkVars, muVars>>
           \/ service = "loki" /\ LkNext /\ UNCHANGED <<tpVars, spVars, muVars>>
           \/ service = "mu" /\ MuNext /\ UNCHANGED <<tpVars, spVars, lkVars>>

\* Some goroutine of the controller or the agent runs, or a timer goes off, while one can.
\* Nothing makes a connection break or an hour pass.
TaskFairness == WF_tpVars(service = "tasks" /\ TpProgress)

\* The probe's and the event server's goroutines run; a sink's Write need not return.
ProbeFairness == WF_spVars(service = "probe" /\ ~Panicked /\ \E r \in Readers : LoopStep(r))

\* The goroutine and its timer run, and its select passes over no ready case for ever.
LokiFairness ==
  /\ WF_lkVars(service = "loki" /\ Fires) /\ WF_lkVars(service = "loki" /\ LoopTicks)
  /\ WF_lkVars(service = "loki" /\ LoopTakes) /\ WF_lkVars(service = "loki" /\ Post)

Spec == Init /\ [][Next]_nsVars /\ TaskFairness /\ ProbeFairness /\ LokiFairness

\* Handlers, goroutines and counters of the four services are in their states, and no
\* channel or batch holds more than its size.
ServicesTypeOK == TpTypeOK /\ SpTypeOK /\ LkTypeOK /\ MuTypeOK
=============================================================================
