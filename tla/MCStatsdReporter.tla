-------------------------- MODULE MCStatsdReporter --------------------------
(***************************************************************************)
(* A gauge and a histogram, of which the attribute filter leaves the count *)
(* and the maximum; and a gauge, a counter and a meter without lines.      *)
(***************************************************************************)
EXTENDS StatsdReporter, TLC

MCOrder      == <<"heap", "latency">>
MCKind       == ("heap" :> "gauge") @@ ("latency" :> "histogram")
MCAttributes == ("heap" :> <<"value">>) @@ ("latency" :> <<"count", "max">>)

PlainOrder      == <<"heap", "jobs", "tasks">>
PlainKind       == ("heap" :> "gauge") @@ ("jobs" :> "counter") @@ ("tasks" :> "meter")
PlainAttributes == ("heap" :> <<"value">>) @@ ("jobs" :> <<"value">>) @@ ("tasks" :> <<>>)

=============================================================================
