------------------------------ MODULE MCReadiness ------------------------------
(***************************************************************************)
(* Values for the constants of Readiness.                                  *)
(***************************************************************************)
EXTENDS Readiness

Healthy      == [Progressing |-> "False", Degraded |-> "False", Available |-> "True"]
Installing   == [Healthy EXCEPT !.Progressing = "True"]
Broken       == [Healthy EXCEPT !.Degraded = "True"]
Down         == [Healthy EXCEPT !.Available = "False"]
Undetermined == [Healthy EXCEPT !.Progressing = "Unknown"]
Silent       == [Progressing |-> "missing", Degraded |-> "missing", Available |-> "missing"]

MCConditions == {Healthy, Installing, Broken, Down, Undetermined, Silent}

MCLivenessConditions == {Healthy, Installing}

\* Prometheus remembers the birth of the cluster, alone or next to the time of
\* a later update that is reported under the same query.
MCPromSeries == {{30}, {60, 30}}

Minutes(n) == [kind |-> "number", minutes |-> n]

MCAgeSettings ==
    {[kind |-> "unset", minutes |-> 0], [kind |-> "garbage", minutes |-> 0],
     Minutes(30), Minutes(0), Minutes(-30)}

MCDefaultAge == {[kind |-> "unset", minutes |-> 0]}

================================================================================
