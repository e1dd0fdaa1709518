--------------------------- MODULE StatsdReporter ---------------------------
(***************************************************************************)
(* The StatsD sink of a Spark driver or executor                           *)
(* (spark-statsd-reporter): a polling thread and, once, the thread that    *)
(* shuts Spark down walk through the registered metrics and send one UDP   *)
(* packet per line to a StatsD server.  Names and tags of a line depend on *)
(* SparkEnv, which the process publishes some time after the sink exists.  *)
(*                                                                         *)
(* A line is described by what the server can tell apart: the metric, its  *)
(* attribute, whether the application and executor IDs were taken out of   *)
(* the name, whether they appear as tags, the value and the StatsD type.   *)
(***************************************************************************)
EXTENDS Integers, Sequences, FiniteSets, SequencesExt

CONSTANTS
  Order,          \* the filtered metrics in the order report() walks them
  Kind,           \* gauge, counter, histogram, meter or timer of each
  Attributes,     \* the lines of each, after the attribute filter
  MaxValue,       \* bound on the updates of a metric
  MaxInFlight     \* packets the socket and the network hold at once

Metrics == ToSet(Order)
Kinds   == <<"gauge", "counter", "histogram", "meter", "timer">>
Rank(m) == CHOOSE i \in DOMAIN Kinds : Kinds[i] = Kind[m]
Names   == UNION {ToSet(Attributes[m]) : m \in Metrics}

ASSUME OrderAssumption ==
  /\ Order \in Seq(Metrics)
  /\ \A i, j \in DOMAIN Order : i < j => Order[i] # Order[j]
ASSUME KindAssumption ==
  /\ Kind \in [Metrics -> ToSet(Kinds)]
  /\ \A i, j \in DOMAIN Order : i < j => Rank(Order[i]) <= Rank(Order[j])
ASSUME AttributesAssumption == Attributes \in [Metrics -> Seq(Names)]
ASSUME BoundsAssumption     == MaxValue \in Nat /\ MaxInFlight \in Nat \ {0}

Line == [metric : Metrics, attribute : Names, stripped : BOOLEAN,
         tagged : BOOLEAN, value : 0 .. MaxValue, type : {"g", "c", "ms"}]

\* The part of a line that exists between the two questions to the provider.
Unseen == -1
NoHalf == [tagged |-> FALSE, value |-> -1]
Half   == [tagged : BOOLEAN, value : 0 .. MaxValue] \union {NoHalf}

VARIABLES
  sparkEnv,      \* is SparkEnv.get() set?
  initialized,   \* InstanceDetailsProvider.initialized
  instance,      \* is InstanceDetailsProvider.instance set?
  shut,          \* how far the shutdown of the sink has come
  owner,         \* the thread inside report(), which is synchronized
  at,            \* the metric it works on
  made,          \* how many lines of that metric are built
  half,          \* the line being built
  lines,         \* the lines not yet sent
  value,         \* how often each metric was updated
  net,           \* packets under way
  server         \* what the server shows for each series of a metric

cycleVars == <<owner, at, made, half, lines>>
vars == <<sparkEnv, initialized, instance, shut, cycleVars, value, net, server>>

Series == BOOLEAN \X BOOLEAN

TypeOK ==
  /\ sparkEnv \in BOOLEAN
  /\ initialized \in BOOLEAN
  /\ instance \in BOOLEAN
  /\ shut \in {"up", "reporting", "reported", "stopped"}
  /\ owner \in {"none", "poll", "shutdown"}
  /\ at \in 1 .. Len(Order) + 1
  /\ made \in Nat
  /\ half \in Half
  /\ lines \in Seq(Line)
  /\ value \in [Metrics -> 0 .. MaxValue]
  /\ net \in SUBSET Line
  /\ server \in [Metrics -> [Series -> Nat \union {Unseen}]]

------------------------------------------------------------------------------
(* InstanceDetailsProvider.getInstanceDetails *)

\* The answer to a question asked now: the first one is for ever.
Known == IF initialized THEN instance ELSE sparkEnv

\* Mutant of AskProvider: a first answer without SparkEnv is not kept.
AskProviderAgain ==
  /\ initialized' = (initialized \/ sparkEnv)
  /\ instance' = Known

AskProvider ==
  /\ initialized' = TRUE
  /\ instance' = Known

------------------------------------------------------------------------------

Init ==
  /\ sparkEnv \in BOOLEAN
  /\ initialized = FALSE
  /\ instance = FALSE
  /\ shut = "up"
  /\ owner = "none"
  /\ at = 1
  /\ made = 0
  /\ half = NoHalf
  /\ lines = <<>>
  /\ value = [m \in Metrics |-> 0]
  /\ net = {}
  /\ server = [m \in Metrics |-> [s \in Series |-> Unseen]]

\* Mutant of Type: counters and counts are sent as what they are.
TypeCounted(m, a) ==
  IF Kind[m] = "gauge" THEN "g" ELSE IF Kind[m] = "counter" \/ a = "count" THEN "c" ELSE "ms"

\* Counters and counts go out as gauges: StatsD would add up values of type "c".
Type(m, a) == IF Kind[m] \in {"gauge", "counter"} \/ a = "count" THEN "g" ELSE "ms"

Enter(thread) ==
  /\ owner = "none"
  /\ owner' = thread
  /\ UNCHANGED <<sparkEnv, initialized, instance, at, made, half, lines, value, net, server>>

\* Mutant of Leave: the next cycle counts its metrics from zero.
LeaveAtZero ==
  /\ owner' = "none"
  /\ at' = 0
  /\ made' = 0
  /\ half' = NoHalf
  /\ lines' = <<>>
  /\ shut' = IF owner = "shutdown" THEN "reported" ELSE shut
  /\ UNCHANGED <<sparkEnv, initialized, instance, value, net, server>>

\* The cycle ends; what is not sent yet is forgotten.
Leave ==
  /\ owner' = "none"
  /\ at' = 1
  /\ made' = 0
  /\ half' = NoHalf
  /\ lines' = <<>>
  /\ shut' = IF owner = "shutdown" THEN "reported" ELSE shut
  /\ UNCHANGED <<sparkEnv, initialized, instance, value, net, server>>

\* StatsdSink.start: the scheduler calls report() at a fixed rate.
Poll == shut # "stopped" /\ Enter("poll") /\ UNCHANGED shut

\* StatsdSink.report, called by Spark before it stops the sink.
Report == shut = "up" /\ Enter("shutdown") /\ shut' = "reporting"

\* StatsdSink.stop: no further poll; one that is running goes on.
Stop ==
  /\ shut = "reported"
  /\ shut' = "stopped"
  /\ UNCHANGED <<sparkEnv, initialized, instance, cycleVars, value, net, server>>

Working  == owner # "none" /\ at <= Len(Order)
Current  == Order[at]
Building == Working /\ made < Len(Attributes[Current])
Sending  == Working /\ made = Len(Attributes[Current]) /\ lines # <<>>

\* The value is read, then buildTags asks the provider.
BuildTags(m, a) ==
  /\ Building /\ half = NoHalf
  /\ Current = m /\ Attributes[m][made + 1] = a
  /\ half' = [tagged |-> Known,
              value  |-> IF Type(m, a) = "ms" THEN 0 ELSE value[m]]
  /\ AskProvider
  /\ UNCHANGED <<sparkEnv, shut, owner, at, made, lines, value, net, server>>

Finished(stripped) ==
  LET a == Attributes[Current][made + 1]
  IN  [metric |-> Current, attribute |-> a, stripped |-> stripped,
       tagged |-> half.tagged, value |-> half.value, type |-> Type(Current, a)]

\* Mutant of RemoveIds: SparkEnv is asked instead of the provider.
RemoveIdsFromEnv ==
  /\ Building /\ half # NoHalf
  /\ lines' = Append(lines, Finished(sparkEnv))
  /\ made' = made + 1
  /\ half' = NoHalf
  /\ UNCHANGED <<sparkEnv, initialized, instance, shut, owner, at, value, net, server>>

\* removeIds asks the provider a second time.
RemoveIds ==
  /\ Building /\ half # NoHalf
  /\ lines' = Append(lines, Finished(Known))
  /\ made' = made + 1
  /\ half' = NoHalf
  /\ AskProvider
  /\ UNCHANGED <<sparkEnv, shut, owner, at, value, net, server>>

\* The lines of a metric are sent once all are built; a full socket buffer
\* blocks the sender.
SendLine(m, a) ==
  /\ Sending
  /\ Head(lines).metric = m /\ Head(lines).attribute = a
  /\ Cardinality(net) < MaxInFlight
  /\ net' = net \union {Head(lines)}
  /\ lines' = Tail(lines)
  /\ UNCHANGED <<sparkEnv, initialized, instance, shut, owner, at, made, half, value, server>>

\* Mutant of NextMetric: the walk ends before the metrics of the last kind.
NextMetricSkipsLast ==
  /\ Working /\ made = Len(Attributes[Current]) /\ lines = <<>>
  /\ at' = IF at + 1 = Len(Order) THEN at + 2 ELSE at + 1
  /\ made' = 0
  /\ UNCHANGED <<sparkEnv, initialized, instance, shut, owner, half, lines, value, net, server>>

NextMetric ==
  /\ Working /\ made = Len(Attributes[Current]) /\ lines = <<>>
  /\ at' = at + 1
  /\ made' = 0
  /\ UNCHANGED <<sparkEnv, initialized, instance, shut, owner, half, lines, value, net, server>>

EndCycle == owner # "none" /\ at = Len(Order) + 1 /\ Leave

\* The socket cannot be opened or a packet not be sent, which report()
\* catches, or a gauge throws, which the scheduler catches: either way the
\* rest of the cycle is skipped.
Fail ==
  /\ \/ owner # "none" /\ at = 1 /\ made = 0 /\ half = NoHalf
     \/ Sending
     \/ Building /\ half = NoHalf /\ Kind[Current] = "gauge"
  /\ Leave

CycleStep ==
  \/ \E m \in Metrics, a \in Names : BuildTags(m, a) \/ SendLine(m, a)
  \/ RemoveIds \/ NextMetric \/ EndCycle \/ Fail

------------------------------------------------------------------------------
(* Spark, the network and the server. *)

SetSparkEnv ==
  /\ ~sparkEnv
  /\ sparkEnv' = TRUE
  /\ UNCHANGED <<initialized, instance, shut, cycleVars, value, net, server>>

Update(m) ==
  /\ value[m] < MaxValue
  /\ value' = [value EXCEPT ![m] = @ + 1]
  /\ UNCHANGED <<sparkEnv, initialized, instance, shut, cycleVars, net, server>>

\* A gauge shows its last value, a counter adds values up; of timers the
\* server keeps statistics that are left out here.
Shown(old, p) ==
  CASE p.type = "ms" -> old
    [] p.type = "g"  -> p.value
    [] p.type = "c"  -> IF old = Unseen THEN p.value ELSE old + p.value

Receive(p) ==
  server' = [server EXCEPT ![p.metric][<<p.stripped, p.tagged>>] = Shown(@, p)]

\* Packets arrive in any order, more than once, or never.
Deliver(p) ==
  /\ p \in net
  /\ Receive(p)
  /\ net' = net \ {p}
  /\ UNCHANGED <<sparkEnv, initialized, instance, shut, cycleVars, value>>

Duplicate(p) ==
  /\ p \in net
  /\ Receive(p)
  /\ UNCHANGED <<sparkEnv, initialized, instance, shut, cycleVars, value, net>>

Lose(p) ==
  /\ p \in net
  /\ net' = net \ {p}
  /\ UNCHANGED <<sparkEnv, initialized, instance, shut, cycleVars, value, server>>

Next ==
  \/ Poll \/ Report \/ Stop \/ CycleStep
  \/ SetSparkEnv
  \/ \E m \in Metrics : Update(m)
  \/ \E p \in net : Deliver(p) \/ Duplicate(p) \/ Lose(p)

Reach(m, a) == \E p \in net : p.metric = m /\ p.attribute = a /\ Deliver(p)

\* The scheduler keeps polling, a cycle keeps going, SparkEnv is set in the
\* end, and a packet that is not lost arrives.
Fairness ==
  /\ WF_vars(Poll) /\ WF_vars(CycleStep) /\ WF_vars(SetSparkEnv)
  /\ \A m \in Metrics, a \in Names : WF_vars(Reach(m, a))

Spec == Init /\ [][Next]_vars /\ Fairness

------------------------------------------------------------------------------
(* Properties. *)

\* A line that is on its way or at the server has the IDs either in its name
\* or in its tags, although name and tags come from two questions to the
\* provider and SparkEnv may appear between them.
NameAndTagsAgree ==
  /\ \A p \in net \union ToSet(lines) : p.stripped <=> p.tagged
  /\ \A m \in Metrics, s \in Series : server[m][s] # Unseen => (s[1] <=> s[2])

\* One process reports a metric under one name and one set of tags, whenever
\* SparkEnv appears: dashboards do not see the metric move to another series.
OneSeries ==
  \A m \in Metrics :
    Cardinality({<<p.stripped, p.tagged>> : p \in {q \in net : q.metric = m}}
                  \union {s \in Series : server[m][s] # Unseen}) <= 1

\* "StatsD treats new values as increments but not as a final value": however
\* packets are lost, repeated or overtaken, the server never shows more than
\* was counted.
NeverAhead ==
  \A m \in Metrics, s \in Series : server[m][s] # Unseen => server[m][s] <= value[m]

\* A packet gets lost that has something new to tell.
Miss(p) ==
  /\ Lose(p)
  /\ server[p.metric][<<p.stripped, p.tagged>>]
       # Shown(server[p.metric][<<p.stripped, p.tagged>>], p)

\* From some time on no gauge throws, no packet is refused and no news lost.
FaultsEnd == <>[][~Fail /\ \A p \in net : ~Miss(p)]_vars

\* A cycle that failed costs nothing in the end: once the faults are over, and
\* while the sink runs, the last value of every metric reaches the server, the
\* metrics at the end of the walk included.
Converges ==
  FaultsEnd =>
    \A m \in {n \in Metrics : \E a \in ToSet(Attributes[n]) : Type(n, a) # "ms"} :
      []<>(shut # "up" \/ \E s \in Series : server[m][s] = value[m])

\* "All the metrics reported by Driver or Executor instances are enriched with
\* additional tags": with SparkEnv there and the faults over, tagged metrics
\* reach the server.
TagsAppear ==
  FaultsEnd =>
    (sparkEnv ~> (shut # "up" \/ \E m \in Metrics, b \in BOOLEAN : server[m][<<b, TRUE>>] # Unseen))

=============================================================================
