------------------------ MODULE StatsdReporterProofs ------------------------
(***************************************************************************)
(* The StatsD reporter, whatever metrics, attribute filter and network:    *)
(* types, one series per metric, and a server that is never ahead.         *)
(***************************************************************************)
EXTENDS StatsdReporter, FiniteSetTheorems, TLAPS

LEMMA ToSetAppend ==
  ASSUME NEW S, NEW s \in Seq(S), NEW e
  PROVE  ToSet(Append(s, e)) = ToSet(s) \union {e}
<1> DEFINE t == Append(s, e)
<1>1. /\ DOMAIN s = 1 .. Len(s) /\ DOMAIN t = 1 .. Len(s) + 1 /\ Len(s) \in Nat
      /\ \A i \in DOMAIN s : t[i] = s[i]
      /\ t[Len(s) + 1] = e
  OBVIOUS
<1>2. \A i \in DOMAIN t : i \in DOMAIN s \/ i = Len(s) + 1
  BY <1>1
<1>3. Len(s) + 1 \in DOMAIN t /\ DOMAIN s \subseteq DOMAIN t
  BY <1>1
<1> HIDE DEF t
<1>4. {t[i] : i \in DOMAIN t} = {s[i] : i \in DOMAIN s} \union {e}
  BY <1>1, <1>2, <1>3
<1> QED BY <1>4 DEF ToSet, t

LEMMA ToSetTail ==
  ASSUME NEW S, NEW s \in Seq(S), s # <<>>
  PROVE  /\ Head(s) \in ToSet(s)
         /\ ToSet(Tail(s)) \subseteq ToSet(s)
<1>1. Head(s) = s[1] /\ 1 \in DOMAIN s
  OBVIOUS
<1>2. \A i \in DOMAIN Tail(s) : i + 1 \in DOMAIN s /\ Tail(s)[i] = s[i + 1]
  OBVIOUS
<1> QED BY <1>1, <1>2 DEF ToSet

LEMMA ToSetEmpty == ToSet(<<>>) = {}
BY DEF ToSet

\* The metric a cycle works on, and the attribute it builds next.
LEMMA CurrentMetric ==
  ASSUME TypeOK, Working
  PROVE  Current \in Metrics /\ Attributes[Current] \in Seq(Names)
<1>1. at \in DOMAIN Order
  BY OrderAssumption DEF TypeOK, Working
<1> QED BY <1>1, AttributesAssumption DEF Current, Metrics, ToSet

LEMMA CurrentAttribute ==
  ASSUME TypeOK, Building
  PROVE  Attributes[Current][made + 1] \in Names
BY CurrentMetric DEF Building, TypeOK

------------------------------------------------------------------------------
(* Types. *)

LEMMA FinishedLine ==
  ASSUME TypeOK, Building, half # NoHalf, NEW b \in BOOLEAN
  PROVE  Finished(b) \in Line
<1>1. half \in [tagged : BOOLEAN, value : 0 .. MaxValue]
  BY DEF TypeOK, Half
<1> QED
  BY <1>1, CurrentMetric, CurrentAttribute DEF Finished, Line, Type, Building

LEMMA ReceiveTyped ==
  ASSUME TypeOK, NEW p \in net, Receive(p)
  PROVE  server' \in [Metrics -> [Series -> Nat \union {Unseen}]]
<1>1. p \in Line /\ <<p.stripped, p.tagged>> \in Series /\ p.value \in Nat
  BY BoundsAssumption DEF TypeOK, Line, Series
<1>2. \A old \in Nat \union {Unseen} : Shown(old, p) \in Nat \union {Unseen}
  BY <1>1 DEF Shown, Line, Unseen
<1> QED BY <1>1, <1>2 DEF TypeOK, Receive, Line

LEMMA TypeStep ==
  ASSUME TypeOK, [Next]_vars
  PROVE  TypeOK'
<1> USE DEF TypeOK
<1>0. 1 \in 1 .. Len(Order) + 1 /\ Len(Order) \in Nat /\ <<>> \in Seq(Line)
  BY OrderAssumption
<1>1. CASE Poll \/ Report
  BY <1>1 DEF Poll, Report, Enter
<1>2. CASE Stop
  BY <1>2 DEF Stop, cycleVars
<1>3. ASSUME NEW m \in Metrics, NEW a \in Names, BuildTags(m, a) PROVE TypeOK'
  <2>1. Known \in BOOLEAN
    BY DEF Known
  <2>2. half' \in Half
    BY <1>3, <2>1, BoundsAssumption DEF BuildTags, Half
  <2> QED BY <1>3, <2>1, <2>2 DEF BuildTags, AskProvider
<1>4. CASE RemoveIds
  <2>1. Known \in BOOLEAN
    BY DEF Known
  <2>2. lines' \in Seq(Line)
    BY <1>4, <2>1, FinishedLine DEF RemoveIds
  <2>3. made' \in Nat /\ half' \in Half
    BY <1>4 DEF RemoveIds, Half
  <2> QED BY <1>4, <2>1, <2>2, <2>3 DEF RemoveIds, AskProvider
<1>5. ASSUME NEW m \in Metrics, NEW a \in Names, SendLine(m, a) PROVE TypeOK'
  <2>1. Head(lines) \in Line /\ Tail(lines) \in Seq(Line)
    BY <1>5 DEF SendLine, Sending
  <2> QED BY <1>5, <2>1 DEF SendLine
<1>6. CASE NextMetric
  <2>1. at' \in 1 .. Len(Order) + 1 /\ made' \in Nat
    BY <1>6, <1>0 DEF NextMetric, Working
  <2>2. UNCHANGED <<sparkEnv, initialized, instance, shut, owner, half, lines, value, net, server>>
    BY <1>6 DEF NextMetric
  <2> QED BY <2>1, <2>2
<1>7. CASE EndCycle \/ Fail
  <2>1. Leave
    BY <1>7 DEF EndCycle, Fail
  <2> QED BY <2>1, <1>0 DEF Leave, Half
<1>8. CASE SetSparkEnv
  BY <1>8 DEF SetSparkEnv, cycleVars
<1>9. ASSUME NEW m \in Metrics, Update(m) PROVE TypeOK'
  <2>1. value[m] + 1 \in 0 .. MaxValue
    BY <1>9, BoundsAssumption DEF Update
  <2> QED BY <1>9, <2>1 DEF Update, cycleVars
<1>10. ASSUME NEW p \in net, Deliver(p) \/ Duplicate(p) PROVE TypeOK'
  <2>1. server' \in [Metrics -> [Series -> Nat \union {Unseen}]]
    BY <1>10, ReceiveTyped DEF Deliver, Duplicate
  <2> QED BY <1>10, <2>1 DEF Deliver, Duplicate, cycleVars
<1>11. ASSUME NEW p \in net, Lose(p) PROVE TypeOK'
  BY <1>11 DEF Lose, cycleVars
<1>12. CASE UNCHANGED vars
  BY <1>12 DEF vars, cycleVars
<1> QED
  BY <1>1, <1>2, <1>3, <1>4, <1>5, <1>6, <1>7, <1>8, <1>9, <1>10, <1>11, <1>12
     DEF Next, CycleStep

LEMMA TypeInit == Init => TypeOK
<1>1. Len(Order) \in Nat /\ <<>> \in Seq(Line)
  BY OrderAssumption
<1>2. 1 \in 1 .. Len(Order) + 1 /\ 0 \in 0 .. MaxValue
  BY <1>1, BoundsAssumption
<1>3. ASSUME Init
      PROVE  /\ value \in [Metrics -> 0 .. MaxValue]
             /\ server \in [Metrics -> [Series -> Nat \union {Unseen}]]
  BY <1>2, <1>3 DEF Init
<1>4. ASSUME Init
      PROVE  lines \in Seq(Line) /\ net \in SUBSET Line /\ half \in Half
  BY <1>1, <1>4 DEF Init, Half
<1>5. ASSUME Init
      PROVE  at \in 1 .. Len(Order) + 1 /\ made \in Nat
  BY <1>2, <1>5 DEF Init
<1>6. ASSUME Init
      PROVE  /\ sparkEnv \in BOOLEAN /\ initialized \in BOOLEAN /\ instance \in BOOLEAN
             /\ shut \in {"up", "reporting", "reported", "stopped"}
             /\ owner \in {"none", "poll", "shutdown"}
  BY <1>6 DEF Init
<1> QED BY <1>3, <1>4, <1>5, <1>6 DEF TypeOK

\* Every variable keeps its type, for any metrics and any bounds.
THEOREM TypeCorrect == Spec => []TypeOK
BY TypeInit, TypeStep, PTL DEF Spec

------------------------------------------------------------------------------
(* Names and tags. *)

\* The provider is asked before a line exists, and its first answer is final:
\* all lines, sent or not, show the answer that is stored.
SeriesInv ==
  /\ half # NoHalf => initialized /\ half.tagged = instance
  /\ \A p \in net \union ToSet(lines) :
       initialized /\ p.stripped = instance /\ p.tagged = instance
  /\ \A m \in Metrics, s \in Series :
       server[m][s] # Unseen => initialized /\ s = <<instance, instance>>

\* Whoever leaves the answer, the lines and the server alone keeps them so.
LEMMA SeriesKept ==
  ASSUME SeriesInv,
         \/ UNCHANGED <<initialized, instance>>
         \/ AskProvider,
         half' = NoHalf \/ UNCHANGED half,
         net' \subseteq net \union ToSet(lines), ToSet(lines') \subseteq ToSet(lines),
         UNCHANGED server
  PROVE  SeriesInv'
<1>1. initialized => initialized' /\ instance' = instance
  BY DEF AskProvider, Known
<1> QED BY <1>1 DEF SeriesInv

LEMMA SeriesReceived ==
  ASSUME TypeOK, SeriesInv, NEW p \in net, Receive(p), net' \subseteq net,
         UNCHANGED <<initialized, instance, half, lines>>
  PROVE  SeriesInv'
<1>1. p.metric \in Metrics /\ <<p.stripped, p.tagged>> \in Series
  BY DEF TypeOK, Line, Series
<1>2. initialized /\ <<p.stripped, p.tagged>> = <<instance, instance>>
  BY DEF SeriesInv
<1>3. \A m \in Metrics, s \in Series :
        server'[m][s] # Unseen => server[m][s] # Unseen \/ s = <<instance, instance>>
  BY <1>1, <1>2 DEF TypeOK, Receive
<1> QED BY <1>2, <1>3 DEF SeriesInv

LEMMA SeriesStep ==
  ASSUME TypeOK, SeriesInv, [Next]_vars
  PROVE  SeriesInv'
<1>1. CASE Poll \/ Report
  BY <1>1, SeriesKept DEF Poll, Report, Enter
<1>2. CASE Stop
  BY <1>2, SeriesKept DEF Stop, cycleVars
<1>3. ASSUME NEW m \in Metrics, NEW a \in Names, BuildTags(m, a) PROVE SeriesInv'
  <2>1. initialized => initialized' /\ instance' = instance
    BY <1>3 DEF BuildTags, AskProvider, Known
  <2>2. initialized' /\ half'.tagged = instance'
    BY <1>3 DEF BuildTags, AskProvider
  <2> QED BY <1>3, <2>1, <2>2 DEF BuildTags, SeriesInv
<1>4. CASE RemoveIds
  <2>1. initialized /\ half.tagged = instance /\ Known = instance
    BY <1>4 DEF RemoveIds, SeriesInv, Known
  <2>2. initialized' /\ instance' = instance
    BY <1>4, <2>1 DEF RemoveIds, AskProvider
  <2>3. ToSet(lines') = ToSet(lines) \union {Finished(Known)}
    BY <1>4, ToSetAppend DEF RemoveIds, TypeOK
  <2>4. Finished(Known).stripped = instance /\ Finished(Known).tagged = instance
    BY <2>1 DEF Finished
  <2> QED BY <1>4, <2>1, <2>2, <2>3, <2>4 DEF RemoveIds, SeriesInv
<1>5. ASSUME NEW m \in Metrics, NEW a \in Names, SendLine(m, a) PROVE SeriesInv'
  <2>1. Head(lines) \in ToSet(lines) /\ ToSet(Tail(lines)) \subseteq ToSet(lines)
    BY <1>5, ToSetTail DEF SendLine, Sending, TypeOK
  <2> QED BY <1>5, <2>1, SeriesKept DEF SendLine
<1>6. CASE NextMetric
  BY <1>6, SeriesKept DEF NextMetric
<1>7. CASE EndCycle \/ Fail
  <2>1. Leave
    BY <1>7 DEF EndCycle, Fail
  <2> QED BY <2>1, SeriesKept, ToSetEmpty DEF Leave
<1>8. CASE SetSparkEnv
  BY <1>8, SeriesKept DEF SetSparkEnv, cycleVars
<1>9. ASSUME NEW m \in Metrics, Update(m) PROVE SeriesInv'
  BY <1>9, SeriesKept DEF Update, cycleVars
<1>10. ASSUME NEW p \in net, Deliver(p) \/ Duplicate(p) PROVE SeriesInv'
  <2>1. net' \subseteq net
    BY <1>10 DEF Deliver, Duplicate
  <2> QED BY <1>10, <2>1, SeriesReceived DEF Deliver, Duplicate, cycleVars
<1>11. ASSUME NEW p \in net, Lose(p) PROVE SeriesInv'
  <2>1. net' \subseteq net
    BY <1>11 DEF Lose
  <2> QED BY <1>11, <2>1, SeriesKept DEF Lose, cycleVars
<1>12. CASE UNCHANGED vars
  BY <1>12, SeriesKept DEF vars, cycleVars
<1> QED
  BY <1>1, <1>2, <1>3, <1>4, <1>5, <1>6, <1>7, <1>8, <1>9, <1>10, <1>11, <1>12
     DEF Next, CycleStep

LEMMA SeriesHolds == Spec => [](TypeOK /\ SeriesInv)
<1>1. Init => SeriesInv
  BY ToSetEmpty DEF Init, SeriesInv, Unseen
<1> QED BY <1>1, TypeInit, TypeStep, SeriesStep, PTL DEF Spec

\* A line has the IDs either in its name or in its tags, whenever SparkEnv
\* appears, for any metrics, filters and network.
THEOREM TagsFollowNames == Spec => []NameAndTagsAgree
<1>1. SeriesInv => NameAndTagsAgree
  BY DEF SeriesInv, NameAndTagsAgree
<1> QED BY <1>1, SeriesHolds, PTL

\* A process never reports one metric as two series.
THEOREM SeriesAreUnique == Spec => []OneSeries
<1>1. ASSUME SeriesInv PROVE OneSeries
  <2> SUFFICES ASSUME NEW m \in Metrics
               PROVE  Cardinality({<<p.stripped, p.tagged>> : p \in {q \in net : q.metric = m}}
                        \union {s \in Series : server[m][s] # Unseen}) <= 1
    BY DEF OneSeries
  <2> DEFINE seen == {<<p.stripped, p.tagged>> : p \in {q \in net : q.metric = m}}
                        \union {s \in Series : server[m][s] # Unseen}
  <2>1. seen \subseteq {<<instance, instance>>}
    BY <1>1 DEF SeriesInv
  <2>2. seen = {} \/ seen = {<<instance, instance>>}
    BY <2>1
  <2>3. Cardinality(seen) = 0 \/ Cardinality(seen) = 1
    BY <2>2, FS_EmptySet, FS_Singleton
  <2> QED BY <2>3
<1> QED BY <1>1, SeriesHolds, PTL

------------------------------------------------------------------------------
(* Values. *)

\* What is on its way was true when it was read, and values only grow; nothing
\* is sent that the server would add up.
CountInv ==
  /\ half # NoHalf => Building /\ half.value <= value[Current]
  /\ \A p \in net \union ToSet(lines) : p.type # "c" /\ p.value <= value[p.metric]
  /\ NeverAhead

LEMMA CountKept ==
  ASSUME CountInv, UNCHANGED <<value, server>>,
         half' = NoHalf \/ UNCHANGED <<half, owner, at, made>>,
         net' \subseteq net \union ToSet(lines), ToSet(lines') \subseteq ToSet(lines)
  PROVE  CountInv'
BY DEF CountInv, NeverAhead, Building, Working, Current

LEMMA CountReceived ==
  ASSUME TypeOK, CountInv, NEW p \in net, Receive(p), net' \subseteq net,
         UNCHANGED <<cycleVars, value>>
  PROVE  CountInv'
<1>1. p.metric \in Metrics /\ <<p.stripped, p.tagged>> \in Series /\ p.type \in {"g", "ms"}
  BY DEF TypeOK, Line, Series, CountInv
<1>2. \A old : Shown(old, p) \in {old, p.value}
  BY <1>1 DEF Shown
<1>3. \A m \in Metrics, s \in Series :
        server'[m][s] = server[m][s] \/ (m = p.metric /\ server'[m][s] = p.value)
  BY <1>1, <1>2 DEF TypeOK, Receive
<1>4. p.value <= value[p.metric] /\ UNCHANGED value
  BY DEF CountInv
<1>5. NeverAhead'
  <2> SUFFICES ASSUME NEW m \in Metrics, NEW s \in Series, server'[m][s] # Unseen
               PROVE  server'[m][s] <= value[m]
    BY <1>4 DEF NeverAhead
  <2>1. CASE server'[m][s] = server[m][s]
    BY <2>1 DEF CountInv, NeverAhead
  <2>2. CASE m = p.metric /\ server'[m][s] = p.value
    BY <2>2, <1>4
  <2> QED BY <1>3, <2>1, <2>2
<1>6. half' # NoHalf => Building' /\ half'.value <= value'[Current']
  BY DEF CountInv, cycleVars, Building, Working, Current
<1>7. \A q \in (net \union ToSet(lines))' : q.type # "c" /\ q.value <= value'[q.metric]
  BY DEF CountInv, cycleVars
<1> QED BY <1>5, <1>6, <1>7 DEF CountInv

LEMMA CountStep ==
  ASSUME TypeOK, CountInv, [Next]_vars
  PROVE  CountInv'
<1>1. CASE Poll \/ Report
  <2>1. half = NoHalf
    BY <1>1 DEF Poll, Report, Enter, CountInv, Building, Working
  <2> QED BY <1>1, <2>1, CountKept DEF Poll, Report, Enter
<1>2. CASE Stop
  BY <1>2, CountKept DEF Stop, cycleVars
<1>3. ASSUME NEW m \in Metrics, NEW a \in Names, BuildTags(m, a) PROVE CountInv'
  <2>1. Building' /\ Current' = m
    BY <1>3 DEF BuildTags, Building, Working, Current
  <2>2. half'.value <= value[m]
    BY <1>3, BoundsAssumption DEF BuildTags, TypeOK
  <2> QED BY <1>3, <2>1, <2>2 DEF BuildTags, CountInv, NeverAhead
<1>4. CASE RemoveIds
  <2>1. ToSet(lines') = ToSet(lines) \union {Finished(Known)}
    BY <1>4, ToSetAppend DEF RemoveIds, TypeOK
  <2>2. /\ Finished(Known).type # "c"
        /\ Finished(Known).value <= value[Finished(Known).metric]
    BY <1>4 DEF RemoveIds, CountInv, Finished, Type
  <2> QED BY <1>4, <2>1, <2>2 DEF RemoveIds, CountInv, NeverAhead
<1>5. ASSUME NEW m \in Metrics, NEW a \in Names, SendLine(m, a) PROVE CountInv'
  <2>1. Head(lines) \in ToSet(lines) /\ ToSet(Tail(lines)) \subseteq ToSet(lines)
    BY <1>5, ToSetTail DEF SendLine, Sending, TypeOK
  <2> QED BY <1>5, <2>1, CountKept DEF SendLine
<1>6. CASE NextMetric
  <2>1. half = NoHalf
    BY <1>6, CurrentMetric DEF NextMetric, CountInv, Building
  <2> QED BY <1>6, <2>1, CountKept DEF NextMetric
<1>7. CASE EndCycle \/ Fail
  <2>1. Leave
    BY <1>7 DEF EndCycle, Fail
  <2> QED BY <2>1, CountKept, ToSetEmpty DEF Leave
<1>8. CASE SetSparkEnv
  BY <1>8, CountKept DEF SetSparkEnv, cycleVars
<1>9. ASSUME NEW m \in Metrics, Update(m) PROVE CountInv'
  <2>1. \A n \in Metrics : value[n] <= value'[n] /\ value[n] \in Int /\ value'[n] \in Int
    BY <1>9, BoundsAssumption DEF Update, TypeOK
  <2>2. \A p \in net \union ToSet(lines) : p.metric \in Metrics /\ p.value \in Int
    <3>1. \A p \in ToSet(lines) : p \in Line
      BY DEF TypeOK, ToSet
    <3>2. \A p \in Line : p.metric \in Metrics /\ p.value \in Int
      BY BoundsAssumption DEF Line
    <3> QED BY <3>1, <3>2 DEF TypeOK
  <2>3. half # NoHalf => half.value \in Int /\ Current \in Metrics
    BY CurrentMetric DEF CountInv, Building, TypeOK, Half
  <2>4. \A n \in Metrics, s \in Series : server[n][s] \in Int
    BY DEF TypeOK, Unseen
  <2> QED
    BY <1>9, <2>1, <2>2, <2>3, <2>4
       DEF Update, cycleVars, CountInv, NeverAhead, Building, Working, Current
<1>10. ASSUME NEW p \in net, Deliver(p) \/ Duplicate(p) PROVE CountInv'
  <2>1. net' \subseteq net
    BY <1>10 DEF Deliver, Duplicate
  <2> QED BY <1>10, <2>1, CountReceived DEF Deliver, Duplicate
<1>11. ASSUME NEW p \in net, Lose(p) PROVE CountInv'
  <2>1. net' \subseteq net
    BY <1>11 DEF Lose
  <2> QED BY <1>11, <2>1, CountKept DEF Lose, cycleVars
<1>12. CASE UNCHANGED vars
  BY <1>12, CountKept DEF vars, cycleVars
<1> QED
  BY <1>1, <1>2, <1>3, <1>4, <1>5, <1>6, <1>7, <1>8, <1>9, <1>10, <1>11, <1>12
     DEF Next, CycleStep

\* Lost, repeated and overtaken packets never make the server show more than
\* was counted.
THEOREM ServerNeverAhead == Spec => []NeverAhead
<1>1. Init => CountInv
  BY ToSetEmpty DEF Init, CountInv, NeverAhead
<1>2. CountInv => NeverAhead
  BY DEF CountInv
<1> QED BY <1>1, <1>2, TypeInit, TypeStep, CountStep, PTL DEF Spec

=============================================================================
