------------------------ MODULE StreamingSetupProofs ------------------------
(***************************************************************************)
(* setup_streaming.py, for any clusters asked for, any number of runs and  *)
(* any number of commands that fail: types, ZooKeepers of their own, the   *)
(* file that lists what runs, matching keys, and complete cleanups.        *)
(***************************************************************************)
EXTENDS StreamingSetup, SequenceTheorems, TLAPS

InstallSteps == Steps \ {"uninstall", "revoke", "none"}
KeySteps     == {"delete account", "delete secret", "account", "secret", "grant"}

\* What a run holds in memory in each of its modes.
ScriptInv ==
  /\ mode = "idle" =>
       todo = <<>> /\ step = "none"
  /\ mode = "cleanup" => step \in {"uninstall", "revoke"} /\ fate = "removing"
  /\ mode = "install" =>
       /\ run > 0 /\ step \in InstallSteps
       /\ InOrder(services) \o todo = Wanted(request)
       /\ step \in {"truncate", "write"} <=> todo = <<>>
  /\ mode # "install" => services = Empty /\ uri = NoService
  /\ \A k \in Kinds : \A i \in 1 .. Len(services[k]) : services[k][i][1] = k
  /\ fate = "removed" => mode = "idle"

\* Keys are only made on a strict cluster.
StrictInv ==
  /\ step \in KeySteps => strict
  /\ \A s \in Services : account[s] # 0 \/ secret[s] # 0 => strict

\* The ZooKeeper with the index of a Kafka.
Own(s) == <<"zookeeper", s[2]>>

\* Whatever a run has installed runs; a Kafka past its first step knows the
\* ZooKeeper with its own index, which the same run installed before; and no app
\* of a Kafka was ever given another.
WiringInv ==
  /\ uri # NoService => todo # <<>> /\ Head(todo)[1] = "kafka" /\ uri = Own(Head(todo))
  /\ mode = "install" /\ todo # <<>> /\ step # "find" /\ Head(todo)[1] = "kafka"
       => uri # NoService
  /\ step = "find" => Head(todo)[1] = "kafka"
  /\ step = "wait" => app[Head(todo)] # "none"
  /\ \A s \in Services : uses[s] # NoService => s[1] = "kafka" /\ uses[s] = Own(s)
  /\ \A s \in Services : s[1] = "kafka" /\ app[s] # "none" => uses[s] # NoService
  /\ \A k \in Kinds : \A s \in Range(services[k]) : app[s] = "running"
  /\ \A s \in Range(services["kafka"]) : Own(s) \in Range(services["zookeeper"])

\* How far the keys of a service are that no command has spoiled.
KeysAt(s, from) ==
  /\ strict /\ from \in {"delete secret", "account", "secret", "grant", "options", "check"}
       => app[s] = "none"
  /\ from \in {"delete secret", "account"} => account[s] = 0
  /\ from \in {"account", "secret"} => secret[s] = 0
  /\ from = "secret" => account[s] = run
  /\ strict /\ from \in {"grant", "options", "check", "app", "wait"}
       => account[s] # 0 /\ secret[s] = account[s]

KeysInv ==
  /\ KeysMatch
  /\ mode = "install" /\ todo # <<>> /\ Head(todo) \notin spoiled => KeysAt(Head(todo), step)

\* What a cleanup leaves of a service.
Removed(s) == app[s] = "none" /\ (s \notin spoiled => account[s] = 0 /\ secret[s] = 0)

\* A cleanup has removed what it has taken off its list.
CleanupInv ==
  /\ mode = "cleanup" => \A s \in Range(file.services) \ Range(todo) : Removed(s)
  /\ step = "revoke" => todo # <<>> /\ app[Head(todo)] = "none"
  /\ CleanedUp

Inv == TypeOK /\ ScriptInv /\ StrictInv /\ WiringInv /\ KeysInv /\ CleanupInv /\ FileComplete


------------------------------------------------------------------------------
(* Sequences. *)

LEMMA RangeOfEmpty == Range(<<>>) = {}
BY DEF Range

LEMMA RangeOfAppend ==
  ASSUME NEW S, NEW a \in Seq(S), NEW e \in S
  PROVE  Range(Append(a, e)) = Range(a) \union {e}
<1> DEFINE b == Append(a, e)
<1>1. /\ DOMAIN a = 1 .. Len(a) /\ DOMAIN b = 1 .. Len(a) + 1 /\ Len(a) \in Nat
      /\ \A i \in 1 .. Len(a) : b[i] = a[i]
      /\ b[Len(a) + 1] = e
  BY LenProperties, AppendProperties
<1> HIDE DEF b
<1>2. \A i \in DOMAIN b : i \in DOMAIN a \/ i = Len(a) + 1
  BY <1>1
<1>3. Len(a) + 1 \in DOMAIN b /\ DOMAIN a \subseteq DOMAIN b
  BY <1>1
<1>4. {b[i] : i \in DOMAIN b} = {a[i] : i \in DOMAIN a} \union {e}
  BY <1>1, <1>2, <1>3
<1> QED BY <1>4 DEF Range, b

LEMMA RangeOfTail ==
  ASSUME NEW S, NEW a \in Seq(S), a # <<>>
  PROVE  /\ Head(a) \in S /\ Tail(a) \in Seq(S)
         /\ Range(a) = Range(Tail(a)) \union {Head(a)}
<1> DEFINE b == Tail(a)
<1>1. /\ Head(a) = a[1] /\ Head(a) \in S /\ b \in Seq(S) /\ Len(a) \in Nat
      /\ DOMAIN a = 1 .. Len(a) /\ DOMAIN b = 1 .. Len(a) - 1 /\ 1 \in 1 .. Len(a)
      /\ \A i \in 1 .. Len(a) - 1 : b[i] = a[i + 1]
  BY HeadTailProperties, LenProperties, EmptySeq
<1> HIDE DEF b
<1>2. \A i \in DOMAIN a : i = 1 \/ (i - 1 \in DOMAIN b /\ b[i - 1] = a[i])
  BY <1>1
<1>3. \A i \in DOMAIN b : i + 1 \in DOMAIN a /\ b[i] = a[i + 1]
  BY <1>1
<1>4. {a[i] : i \in DOMAIN a} = {b[i] : i \in DOMAIN b} \union {a[1]}
  BY <1>1, <1>2, <1>3
<1> QED BY <1>1, <1>4 DEF Range, b

\* Moving the head of one list to the end of another leaves the two in a row.
LEMMA MoveHead ==
  ASSUME NEW S, NEW a \in Seq(S), NEW b \in Seq(S), b # <<>>
  PROVE  Append(a, Head(b)) \o Tail(b) = a \o b
<1>1. Head(b) \in S /\ Tail(b) \in Seq(S) /\ <<Head(b)>> \in Seq(S)
  BY HeadTailProperties
<1>2. Append(a, Head(b)) = a \o <<Head(b)>>
  BY <1>1, AppendIsConcat
<1>3. (a \o <<Head(b)>>) \o Tail(b) = a \o (<<Head(b)>> \o Tail(b))
  BY <1>1, ConcatAssociative
<1>4. <<Head(b)>> \o Tail(b) = b
  <2>1. /\ Len(<<Head(b)>> \o Tail(b)) = Len(b)
        /\ <<Head(b)>> \o Tail(b) \in Seq(S)
    BY <1>1, HeadTailProperties, ConcatProperties, LenProperties
  <2>2. \A i \in 1 .. Len(b) : (<<Head(b)>> \o Tail(b))[i] = b[i]
    BY <1>1, HeadTailProperties, ConcatProperties, LenProperties
  <2> QED BY <2>1, <2>2, SeqEqual
<1> QED BY <1>2, <1>3, <1>4

\* What a run is asked for is a list of services.
LEMMA WantedServices ==
  ASSUME NEW q \in Request
  PROVE  Wanted(q) \in Seq(Services)
<1>1. ASSUME NEW kind \in Kinds, NEW n \in 0 .. MaxCount
      PROVE  Clusters(kind, n) \in Seq(Services)
  <2>1. n \in Nat /\ Clusters(kind, n) \in [1 .. n -> Services]
    BY BoundsAssumption DEF Clusters, Services
  <2> QED BY <2>1, SeqDef
<1>2. q.kafka \in 0 .. MaxCount /\ q.cassandra \in 0 .. MaxCount
  BY DEF Request
<1>3. (IF q.cassandra > 1 THEN 1 ELSE q.cassandra) \in 0 .. MaxCount
  BY <1>2, BoundsAssumption
<1>4. /\ Clusters("zookeeper", q.kafka) \in Seq(Services)
      /\ Clusters("kafka", q.kafka) \in Seq(Services)
      /\ Clusters("cassandra", IF q.cassandra > 1 THEN 1 ELSE q.cassandra) \in Seq(Services)
  BY <1>1, <1>2, <1>3 DEF Kinds
<1> QED BY <1>4, ConcatProperties DEF Wanted

\* Two lists in a row, by their places.
LEMMA ConcatAt ==
  ASSUME NEW S, NEW a \in Seq(S), NEW b \in Seq(S)
  PROVE  /\ a \o b \in Seq(S) /\ Len(a \o b) = Len(a) + Len(b)
         /\ Len(a) \in Nat /\ Len(b) \in Nat
         /\ \A i \in 1 .. Len(a) : (a \o b)[i] = a[i]
         /\ \A i \in 1 .. Len(b) : (a \o b)[Len(a) + i] = b[i]
         /\ Range(a \o b) = Range(a) \union Range(b)
<1> DEFINE m == Len(a)
           n == Len(b)
<1>1. m \in Nat /\ n \in Nat
  BY LenProperties
<1>2. /\ a \o b \in Seq(S) /\ Len(a \o b) = m + n
      /\ \A i \in 1 .. m + n : (a \o b)[i] = IF i <= m THEN a[i] ELSE b[i - m]
  BY ConcatProperties
<1> HIDE DEF m, n
<1>3. ASSUME NEW i \in 1 .. m PROVE (a \o b)[i] = a[i]
  <2>1. i \in 1 .. m + n /\ i <= m
    BY <1>1
  <2> QED BY <1>2, <2>1
<1>4. ASSUME NEW i \in 1 .. n PROVE (a \o b)[m + i] = b[i]
  <2>1. m + i \in 1 .. m + n /\ ~(m + i <= m) /\ (m + i) - m = i
    BY <1>1
  <2> QED BY <1>2, <2>1
<1> QED BY <1>1, <1>2, <1>3, <1>4, RangeConcatenation DEF m, n

\* The services a run is asked for, by their places in the list.
LEMMA WantedAt ==
  ASSUME NEW q \in Request, NEW i \in 1 .. Len(Wanted(q))
  PROVE  /\ i <= q.kafka => Wanted(q)[i] = <<"zookeeper", i - 1>>
         /\ q.kafka < i /\ i <= 2 * q.kafka => Wanted(q)[i] = <<"kafka", i - q.kafka - 1>>
         /\ i > 2 * q.kafka => Wanted(q)[i] = <<"cassandra", i - 2 * q.kafka - 1>>
         /\ q.kafka \in Nat
<1> DEFINE K == q.kafka
           C == IF q.cassandra > 1 THEN 1 ELSE q.cassandra
           z == Clusters("zookeeper", K)
           k == Clusters("kafka", K)
           c == Clusters("cassandra", C)
<1>1. K \in 0 .. MaxCount /\ C \in 0 .. MaxCount
  BY BoundsAssumption DEF Request
<1>2. ASSUME NEW kind \in Kinds, NEW n \in 0 .. MaxCount
      PROVE  /\ Clusters(kind, n) \in Seq(Services) /\ Len(Clusters(kind, n)) = n
             /\ \A j \in 1 .. n : Clusters(kind, n)[j] = <<kind, j - 1>>
  <2>1. n \in Nat /\ Clusters(kind, n) \in [1 .. n -> Services]
    BY BoundsAssumption DEF Clusters, Services
  <2>2. Clusters(kind, n) \in Seq(Services)
    BY <2>1, SeqDef
  <2>3. DOMAIN Clusters(kind, n) = 1 .. n
    BY <2>1
  <2> QED BY <2>1, <2>2, <2>3, LenProperties DEF Clusters
<1>3. /\ z \in Seq(Services) /\ k \in Seq(Services) /\ c \in Seq(Services)
      /\ Len(z) = K /\ Len(k) = K /\ Len(c) = C
      /\ \A j \in 1 .. K : z[j] = <<"zookeeper", j - 1>> /\ k[j] = <<"kafka", j - 1>>
      /\ \A j \in 1 .. C : c[j] = <<"cassandra", j - 1>>
  BY <1>1, <1>2 DEF Kinds
<1>4. Wanted(q) = (z \o k) \o c
  BY DEF Wanted
<1> HIDE DEF z, k, c, C
<1>5. /\ z \o k \in Seq(Services) /\ Len(z \o k) = K + K
      /\ \A j \in 1 .. K : (z \o k)[j] = z[j]
      /\ \A j \in 1 .. K : (z \o k)[K + j] = k[j]
  <2>1. z \in Seq(Services) /\ k \in Seq(Services)
    BY <1>3
  <2>2. /\ z \o k \in Seq(Services) /\ Len(z \o k) = Len(z) + Len(k)
        /\ \A j \in 1 .. Len(z) : (z \o k)[j] = z[j]
        /\ \A j \in 1 .. Len(k) : (z \o k)[Len(z) + j] = k[j]
    BY <2>1, ConcatAt
  <2>3. Len(z) = K /\ Len(k) = K
    BY <1>3
  <2> QED BY <2>2, <2>3
<1>6. /\ Len(Wanted(q)) = (K + K) + C /\ K + K \in Nat /\ C \in Nat
      /\ \A j \in 1 .. K + K : Wanted(q)[j] = (z \o k)[j]
      /\ \A j \in 1 .. C : Wanted(q)[(K + K) + j] = c[j]
  <2> DEFINE zk == z \o k
  <2>1. zk \in Seq(Services) /\ Len(zk) = K + K /\ Wanted(q) = zk \o c
    BY <1>4, <1>5
  <2> HIDE DEF zk
  <2>2. zk \in Seq(Services) /\ c \in Seq(Services)
    BY <1>3, <2>1
  <2>3. /\ Len(zk \o c) = Len(zk) + Len(c) /\ Len(zk) \in Nat /\ Len(c) \in Nat
        /\ \A j \in 1 .. Len(zk) : (zk \o c)[j] = zk[j]
        /\ \A j \in 1 .. Len(c) : (zk \o c)[Len(zk) + j] = c[j]
    BY <2>2, ConcatAt
  <2>4. Len(zk) = K + K /\ Len(c) = C
    BY <1>3, <2>1
  <2>5. /\ Len(zk \o c) = (K + K) + C /\ K + K \in Nat /\ C \in Nat
        /\ \A j \in 1 .. K + K : (zk \o c)[j] = zk[j]
        /\ \A j \in 1 .. C : (zk \o c)[(K + K) + j] = c[j]
    BY <2>3, <2>4
  <2> QED BY <2>1, <2>5 DEF zk
<1>7. K \in Nat /\ i \in 1 .. (K + K) + C
  BY <1>1, <1>6, BoundsAssumption
<1>8. CASE i <= K
  <2>1. i \in 1 .. K /\ i \in 1 .. K + K
    BY <1>7, <1>8
  <2>2. Wanted(q)[i] = z[i]
    BY <1>5, <1>6, <2>1
  <2> QED BY <1>3, <1>7, <1>8, <2>1, <2>2
<1>9. CASE K < i /\ i <= K + K
  <2>1. i - K \in 1 .. K /\ i \in 1 .. K + K /\ K + (i - K) = i
    BY <1>7, <1>9
  <2>2. Wanted(q)[i] = k[i - K]
    BY <1>5, <1>6, <2>1
  <2>3. k[i - K] = <<"kafka", (i - K) - 1>>
    BY <1>3, <2>1
  <2> QED BY <1>7, <1>9, <2>2, <2>3
<1>10. CASE i > K + K
  <2>1. i - (K + K) \in 1 .. C /\ (K + K) + (i - (K + K)) = i
    BY <1>6, <1>7, <1>10
  <2>2. Wanted(q)[i] = c[i - (K + K)]
    BY <1>6, <2>1
  <2>3. c[i - (K + K)] = <<"cassandra", (i - (K + K)) - 1>>
    BY <1>3, <2>1
  <2>4. (i - (K + K)) - 1 = i - 2 * K - 1
    BY <1>7
  <2> QED BY <1>7, <1>10, <2>2, <2>3, <2>4
<1> QED BY <1>7, <1>8, <1>9, <1>10

\* The three lists in a row.
LEMMA InOrderAt ==
  ASSUME NEW lists \in [Kinds -> Seq(Services)]
  PROVE  LET z == Len(lists["zookeeper"])
             k == Len(lists["kafka"])
             c == Len(lists["cassandra"])
         IN
         /\ z \in Nat /\ k \in Nat /\ c \in Nat
         /\ InOrder(lists) \in Seq(Services) /\ Len(InOrder(lists)) = z + k + c
         /\ \A i \in 1 .. z : InOrder(lists)[i] = lists["zookeeper"][i]
         /\ \A i \in 1 .. k : InOrder(lists)[z + i] = lists["kafka"][i]
         /\ \A i \in 1 .. c : InOrder(lists)[z + k + i] = lists["cassandra"][i]
         /\ Range(InOrder(lists)) =
              Range(lists["zookeeper"]) \union Range(lists["kafka"])
                \union Range(lists["cassandra"])
<1> DEFINE Z == lists["zookeeper"]
           A == lists["kafka"]
           B == lists["cassandra"]
           z == Len(Z)
           k == Len(A)
           c == Len(B)
<1>1. Z \in Seq(Services) /\ A \in Seq(Services) /\ B \in Seq(Services)
  BY DEF Kinds
<1>2. InOrder(lists) = (Z \o A) \o B
  BY DEF InOrder
<1> HIDE DEF Z, A, B
<1>3. z \in Nat /\ k \in Nat /\ c \in Nat
  BY <1>1, <1>2, LenProperties
<1> DEFINE Y == Z \o A
<1>4. /\ Y \in Seq(Services) /\ Len(Y) = z + k
      /\ \A i \in 1 .. z : Y[i] = Z[i]
      /\ \A i \in 1 .. k : Y[z + i] = A[i]
      /\ Range(Y) = Range(Z) \union Range(A)
  BY <1>1, ConcatAt
<1>5. InOrder(lists) = Y \o B
  BY <1>2
<1> HIDE DEF Y
<1>6. /\ Y \o B \in Seq(Services) /\ Len(Y \o B) = (z + k) + c
      /\ \A i \in 1 .. z + k : (Y \o B)[i] = Y[i]
      /\ \A i \in 1 .. c : (Y \o B)[(z + k) + i] = B[i]
      /\ Range(Y \o B) = Range(Y) \union Range(B)
  <2>1. Y \in Seq(Services)
    BY <1>4
  <2>2. /\ Y \o B \in Seq(Services) /\ Len(Y \o B) = Len(Y) + Len(B)
        /\ \A i \in 1 .. Len(Y) : (Y \o B)[i] = Y[i]
        /\ \A i \in 1 .. Len(B) : (Y \o B)[Len(Y) + i] = B[i]
        /\ Range(Y \o B) = Range(Y) \union Range(B)
    BY <1>1, <2>1, ConcatAt
  <2>3. Len(Y) = z + k
    BY <1>4
  <2> QED BY <2>2, <2>3
<1> HIDE DEF z, k, c
<1>7. ASSUME NEW i \in 1 .. z PROVE InOrder(lists)[i] = Z[i]
  <2>1. i \in 1 .. z + k
    BY <1>3
  <2> QED BY <1>4, <1>5, <1>6, <2>1
<1>8. ASSUME NEW i \in 1 .. k PROVE InOrder(lists)[z + i] = A[i]
  <2>1. z + i \in 1 .. z + k
    BY <1>3
  <2> QED BY <1>4, <1>5, <1>6, <2>1
<1> QED BY <1>3, <1>4, <1>5, <1>6, <1>7, <1>8 DEF Z, A, B, z, k, c

\* A service appended to the list of its kind comes last, if the lists of the
\* kinds after it are empty.
LEMMA AppendInOrder ==
  ASSUME NEW lists \in [Kinds -> Seq(Services)], NEW s \in Services,
         s[1] = "zookeeper" => lists["kafka"] = <<>> /\ lists["cassandra"] = <<>>,
         s[1] = "kafka" => lists["cassandra"] = <<>>
  PROVE  InOrder([lists EXCEPT ![s[1]] = Append(@, s)]) = Append(InOrder(lists), s)
<1> DEFINE Z == lists["zookeeper"]
           A == lists["kafka"]
           B == lists["cassandra"]
           more == [lists EXCEPT ![s[1]] = Append(@, s)]
<1>1. Z \in Seq(Services) /\ A \in Seq(Services) /\ B \in Seq(Services) /\ s[1] \in Kinds
  BY DEF Kinds, Services
<1>2. InOrder(lists) = (Z \o A) \o B
  BY DEF InOrder
<1>3. InOrder(more) = (more["zookeeper"] \o more["kafka"]) \o more["cassandra"]
  BY DEF InOrder
<1>4. CASE s[1] = "zookeeper"
  <2>1. more["zookeeper"] = Append(Z, s) /\ more["kafka"] = <<>> /\ more["cassandra"] = <<>>
    BY <1>4 DEF Kinds
  <2>2. A = <<>> /\ B = <<>>
    BY <1>4
  <2> HIDE DEF Z, A, B, more
  <2>3. Append(Z, s) \in Seq(Services)
    BY <1>1, AppendProperties
  <2> QED BY <1>1, <1>2, <1>3, <2>1, <2>2, <2>3, ConcatEmptySeq DEF more
<1>5. CASE s[1] = "kafka"
  <2>1. more["zookeeper"] = Z /\ more["kafka"] = Append(A, s) /\ more["cassandra"] = <<>>
    BY <1>5 DEF Kinds
  <2>2. B = <<>>
    BY <1>5
  <2> HIDE DEF Z, A, B, more
  <2>3. InOrder(more) = Z \o Append(A, s) /\ InOrder(lists) = Z \o A
    <3>1. Append(A, s) \in Seq(Services)
      BY <1>1, AppendProperties
    <3>2. Z \o Append(A, s) \in Seq(Services) /\ Z \o A \in Seq(Services)
      BY <1>1, <3>1, ConcatProperties
    <3> QED BY <1>2, <1>3, <2>1, <2>2, <3>2, ConcatEmptySeq
  <2>4. Z \o Append(A, s) = Append(Z \o A, s)
    <3>1. <<s>> \in Seq(Services) /\ Append(A, s) = A \o <<s>> /\ Z \o A \in Seq(Services)
      BY <1>1, AppendIsConcat, ConcatProperties
    <3> DEFINE last == <<s>>
    <3>2. Z \in Seq(Services) /\ A \in Seq(Services) /\ last \in Seq(Services)
      BY <1>1, <3>1
    <3> HIDE DEF last
    <3>3. (Z \o A) \o last = Z \o (A \o last)
      BY <3>2, ConcatAssociative, SMTT(30)
    <3>4. (Z \o A) \o <<s>> = Z \o (A \o <<s>>)
      BY <3>3 DEF last
    <3>5. Append(Z \o A, s) = (Z \o A) \o <<s>>
      BY <3>1, AppendIsConcat
    <3> QED BY <3>1, <3>4, <3>5
  <2> QED BY <2>3, <2>4 DEF more
<1>6. CASE s[1] = "cassandra"
  <2>1. more["zookeeper"] = Z /\ more["kafka"] = A /\ more["cassandra"] = Append(B, s)
    BY <1>6 DEF Kinds
  <2> DEFINE Y == Z \o A
  <2>2. Y \in Seq(Services)
    BY <1>1, ConcatProperties
  <2> HIDE DEF Z, A, B, Y, more
  <2>3. <<s>> \in Seq(Services) /\ Append(B, s) = B \o <<s>> /\ Y \o B \in Seq(Services)
    BY <1>1, <2>2, AppendIsConcat, ConcatProperties
  <2>4. (Y \o B) \o <<s>> = Y \o (B \o <<s>>)
    <3> DEFINE last == <<s>>
    <3>1. B \in Seq(Services) /\ last \in Seq(Services)
      BY <1>1, <2>3
    <3> HIDE DEF last
    <3>2. (Y \o B) \o last = Y \o (B \o last)
      BY <2>2, <3>1, ConcatAssociative, SMTT(30)
    <3> QED BY <3>2 DEF last
  <2>5. Append(Y \o B, s) = (Y \o B) \o <<s>>
    BY <2>3, AppendIsConcat
  <2> QED BY <1>2, <1>3, <2>1, <2>3, <2>4, <2>5 DEF Y, more
<1> QED BY <1>1, <1>4, <1>5, <1>6 DEF Kinds

\* While a run installs: a ZooKeeper is only next before the first Kafka, a
\* Kafka only before the Cassandra and after all of the ZooKeepers, and then the
\* ZooKeeper at its position is the one with its own index.
LEMMA CurrentLists ==
  ASSUME TypeOK, ScriptInv, mode = "install", todo # <<>>
  PROVE  /\ Head(todo)[1] = "zookeeper" => services["kafka"] = <<>>
         /\ Head(todo)[1] = "zookeeper" => services["cassandra"] = <<>>
         /\ Head(todo)[1] = "kafka" => services["cassandra"] = <<>>
         /\ Head(todo)[1] = "kafka" =>
              /\ Position(Head(todo)) \in 1 .. Len(services["zookeeper"])
              /\ services["zookeeper"][Position(Head(todo))] = Own(Head(todo))
<1> DEFINE W == Wanted(request)
           K == request.kafka
           z == Len(services["zookeeper"])
           k == Len(services["kafka"])
           c == Len(services["cassandra"])
           n == z + k + c + 1
           kind(i) == W[i][1]
<1>1. services \in [Kinds -> Seq(Services)] /\ todo \in Seq(Services) /\ request \in Request
  BY DEF TypeOK
<1>2. /\ z \in Nat /\ k \in Nat /\ c \in Nat
      /\ InOrder(services) \in Seq(Services) /\ Len(InOrder(services)) = z + k + c
      /\ \A i \in 1 .. z : InOrder(services)[i] = services["zookeeper"][i]
      /\ \A i \in 1 .. k : InOrder(services)[z + i] = services["kafka"][i]
      /\ \A i \in 1 .. c : InOrder(services)[z + k + i] = services["cassandra"][i]
  BY <1>1, InOrderAt
<1>3. W = InOrder(services) \o todo
  BY DEF ScriptInv
<1>4. Len(todo) \in Nat \ {0} /\ Head(todo) = todo[1]
  BY <1>1, EmptySeq, LenProperties, HeadTailProperties
<1>5. /\ Len(W) = z + k + c + Len(todo)
      /\ \A i \in 1 .. z + k + c : W[i] = InOrder(services)[i]
      /\ \A i \in 1 .. Len(todo) : W[z + k + c + i] = todo[i]
  <2>1. InOrder(services) \in Seq(Services) /\ todo \in Seq(Services)
    BY <1>1, <1>2
  <2> DEFINE a == InOrder(services)
  <2> HIDE DEF a
  <2>2. /\ Len(a \o todo) = Len(a) + Len(todo)
        /\ \A i \in 1 .. Len(a) : (a \o todo)[i] = a[i]
        /\ \A i \in 1 .. Len(todo) : (a \o todo)[Len(a) + i] = todo[i]
    BY <2>1, ConcatAt DEF a
  <2>3. Len(a) = z + k + c /\ W = a \o todo
    BY <1>2, <1>3 DEF a
  <2> QED BY <2>2, <2>3 DEF a
<1>6. \A x \in Kinds : \A i \in 1 .. Len(services[x]) : services[x][i][1] = x
  BY DEF ScriptInv
<1>7. /\ \A i \in 1 .. z : services["zookeeper"][i][1] = "zookeeper"
      /\ \A i \in 1 .. k : services["kafka"][i][1] = "kafka"
      /\ \A i \in 1 .. c : services["cassandra"][i][1] = "cassandra"
  BY <1>6 DEF Kinds
<1>8. K \in Nat
  BY <1>1, BoundsAssumption DEF Request
<1>9. \A i \in 1 .. Len(W) :
        /\ i <= K => W[i] = <<"zookeeper", i - 1>>
        /\ K < i /\ i <= 2 * K => W[i] = <<"kafka", i - K - 1>>
        /\ i > 2 * K => W[i] = <<"cassandra", i - 2 * K - 1>>
  BY <1>1, WantedAt
<1> HIDE DEF W, K, z, k, c
<1>10. n \in 1 .. Len(W) /\ W[n] = Head(todo)
  <2>1. Len(todo) \in Nat /\ 1 \in 1 .. Len(todo)
    BY <1>4
  <2>2. W[z + k + c + 1] = todo[1]
    BY <1>5, <2>1
  <2>3. z + k + c + 1 \in 1 .. z + k + c + Len(todo)
    BY <1>2, <2>1
  <2> QED BY <1>4, <1>5, <2>2, <2>3
<1>11. ASSUME NEW i \in 1 .. z PROVE i \in 1 .. Len(W) /\ W[i] = services["zookeeper"][i]
  <2>1. i \in 1 .. z + k + c /\ i \in 1 .. z + k + c + Len(todo)
    BY <1>2, <1>4
  <2> QED BY <1>2, <1>5, <2>1
<1>12. ASSUME NEW i \in 1 .. k PROVE z + i \in 1 .. Len(W) /\ W[z + i] = services["kafka"][i]
  <2>1. z + i \in 1 .. z + k + c /\ z + i \in 1 .. z + k + c + Len(todo)
    BY <1>2, <1>4
  <2> QED BY <1>2, <1>5, <2>1
<1>13. ASSUME NEW i \in 1 .. c PROVE z + k + i \in 1 .. Len(W) /\ W[z + k + i] = services["cassandra"][i]
  <2>1. z + k + i \in 1 .. z + k + c /\ z + k + i \in 1 .. z + k + c + Len(todo)
    BY <1>2, <1>4
  <2> QED BY <1>2, <1>5, <2>1
<1>14. /\ \A i \in 1 .. Len(W) : i <= K => kind(i) = "zookeeper"
       /\ \A i \in 1 .. Len(W) : K < i /\ i <= 2 * K => kind(i) = "kafka"
       /\ \A i \in 1 .. Len(W) : i > 2 * K => kind(i) = "cassandra"
  BY <1>9
<1>15. /\ \A i \in 1 .. z : i \in 1 .. Len(W) /\ kind(i) = "zookeeper"
       /\ \A i \in 1 .. k : z + i \in 1 .. Len(W) /\ kind(z + i) = "kafka"
       /\ \A i \in 1 .. c : z + k + i \in 1 .. Len(W) /\ kind(z + k + i) = "cassandra"
  BY <1>7, <1>11, <1>12, <1>13
<1>16. kind(n) = Head(todo)[1]
  BY <1>10
<1> HIDE DEF kind
\* The places of the three kinds.
<1>17. /\ \A i \in 1 .. Len(W) : kind(i) = "zookeeper" => i <= K
       /\ \A i \in 1 .. Len(W) : kind(i) = "kafka" => K < i /\ i <= 2 * K
       /\ \A i \in 1 .. Len(W) : kind(i) = "cassandra" => i > 2 * K
  <2> SUFFICES ASSUME NEW i \in 1 .. Len(W)
               PROVE  /\ kind(i) = "zookeeper" => i <= K
                      /\ kind(i) = "kafka" => K < i /\ i <= 2 * K
                      /\ kind(i) = "cassandra" => i > 2 * K
    OBVIOUS
  <2>1. i \in Nat \/ i \in Int
    OBVIOUS
  <2> QED BY <1>8, <1>14, <2>1
<1>18. /\ z > 0 => z <= K
       /\ k > 0 => K < z + 1
       /\ c > 0 => 2 * K < z + k + 1
  <2>1. /\ z > 0 => z \in 1 .. z
        /\ k > 0 => 1 \in 1 .. k
        /\ c > 0 => 1 \in 1 .. c
    BY <1>2
  <2> QED BY <1>15, <1>17, <2>1
<1>19. /\ Head(todo)[1] = "zookeeper" => n <= K
       /\ Head(todo)[1] = "kafka" => K < n /\ n <= 2 * K
  BY <1>10, <1>16, <1>17
<1>20. /\ Head(todo)[1] = "zookeeper" => k = 0 /\ c = 0
       /\ Head(todo)[1] = "kafka" => c = 0 /\ z = K
  BY <1>2, <1>8, <1>18, <1>19
<1>21. /\ k = 0 => services["kafka"] = <<>>
       /\ c = 0 => services["cassandra"] = <<>>
  <2>1. services["kafka"] \in Seq(Services) /\ services["cassandra"] \in Seq(Services)
    BY <1>1 DEF Kinds
  <2> QED BY <2>1, EmptySeq DEF k, c
<1>22. ASSUME Head(todo)[1] = "kafka"
       PROVE  /\ Position(Head(todo)) \in 1 .. z
              /\ services["zookeeper"][Position(Head(todo))] = Own(Head(todo))
  <2>1. n = K + k + 1 /\ z = K /\ K < n /\ n <= 2 * K
    BY <1>2, <1>8, <1>19, <1>20, <1>22
  <2>2. Head(todo) = <<"kafka", n - K - 1>>
    BY <1>9, <1>10, <2>1
  <2>3. Head(todo)[2] = k
    BY <1>2, <1>8, <2>1, <2>2
  <2>4. k + 1 \in 1 .. z
    BY <1>2, <1>8, <2>1
  <2>5. services["zookeeper"][k + 1] = W[k + 1] /\ k + 1 \in 1 .. Len(W)
    BY <1>11, <2>4
  <2>6. W[k + 1] = <<"zookeeper", (k + 1) - 1>>
    <3>1. k + 1 <= K
      BY <1>2, <1>8, <2>1, <2>4
    <3> QED BY <1>9, <2>5, <3>1
  <2>7. (k + 1) - 1 = k
    BY <1>2
  <2> QED BY <2>3, <2>4, <2>5, <2>6, <2>7 DEF Position, Own
<1> QED BY <1>20, <1>21, <1>22 DEF z

LEMMA FirstSteps ==
  ASSUME NEW list
  PROVE  /\ FirstStep(list) \in {"truncate", "find", "delete account", "options"}
         /\ FirstStep(list) = "truncate" <=> list = <<>>
         /\ FirstStep(list) = "delete account" => strict
         /\ FirstStep(list) = "options" => ~strict
         /\ list # <<>> /\ Head(list)[1] = "kafka" => FirstStep(list) = "find"
         /\ FirstStep(list) = "find" => Head(list)[1] = "kafka"
BY DEF FirstStep

------------------------------------------------------------------------------
(* Types. *)

\* The service a step is for, and what is left of the list after it.
LEMMA CurrentService ==
  ASSUME TypeOK, NEW s, NEW from, At(s, from)
  PROVE  /\ s \in Services /\ Tail(todo) \in Seq(Services)
         /\ todo # <<>> /\ s = Head(todo) /\ step = from
         /\ Range(todo) = Range(Tail(todo)) \union {s}
BY RangeOfTail DEF TypeOK, At

LEMMA EmptyType == Empty \in [Kinds -> Seq(Services)]
BY EmptySeq DEF Empty

LEMMA LeaveType ==
  ASSUME TypeOK, Leave
  PROVE  /\ mode' \in {"idle", "install", "cleanup"} /\ request' \in Request
         /\ todo' \in Seq(Services) /\ step' \in Steps /\ tries' \in 0 .. Attempts - 1
         /\ uri' \in Services \union {NoService}
         /\ services' \in [Kinds -> Seq(Services)]
<1>1. Nothing \in Request
  BY BoundsAssumption DEF Nothing, Request
<1> QED
  BY <1>1, EmptyType, EmptySeq DEF Leave, Steps, Attempts

LEMMA FaultsType ==
  ASSUME TypeOK, faults' = faults \/ (faults < MaxFaults /\ faults' = faults + 1)
  PROVE  faults' \in 0 .. MaxFaults
BY BoundsAssumption DEF TypeOK

LEMMA MadeApp ==
  ASSUME NEW s, InstallApp(s) \/ Retry(s)
  PROVE  \/ UNCHANGED <<app, uses>>
         \/ /\ app[s] = "none"
            /\ app' = [app EXCEPT ![s] = "deploying"]
            /\ uses' = [uses EXCEPT ![s] = uri]
BY Zenon DEF InstallApp, Retry, MakeApp, appVars

LEMMA NextType == TypeOK /\ [Next]_vars => TypeOK'
<1> SUFFICES ASSUME TypeOK, [Next]_vars PROVE TypeOK'
  OBVIOUS
<1> USE DEF TypeOK
<1>0. /\ <<>> \in Seq(Services) /\ 0 \in 0 .. Attempts - 1 /\ 0 \in 0 .. MaxRuns
  BY BoundsAssumption, EmptySeq DEF Attempts
<1>1. ASSUME NEW q \in Requests, BeginInstall(q) PROVE TypeOK'
  <2>1. q \in Request /\ Wanted(q) \in Seq(Services)
    BY RequestsAssumption, WantedServices
  <2>2. FirstStep(Wanted(q)) \in Steps
    BY FirstSteps DEF Steps
  <2>3. run' \in 0 .. MaxRuns
    BY <1>1, BoundsAssumption DEF BeginInstall
  <2> QED
    BY <1>0, <1>1, <2>1, <2>2, <2>3, EmptyType DEF BeginInstall, appVars, keyVars
<1>2. CASE BeginCleanup
  <2>1. run' \in 0 .. MaxRuns
    BY <1>2, BoundsAssumption DEF BeginCleanup
  <2> QED
    BY <1>2, <2>1 DEF BeginCleanup, appVars, keyVars, Steps
<1>3. ASSUME NEW s \in Services,
             FindZookeeper(s) \/ Grant(s) \/ ReadOptions(s) \/ CheckInstalled(s)
      PROVE  TypeOK'
  <2>1. uri' \in Services \union {NoService}
    <3>1. ASSUME FindZookeeper(s)
          PROVE  services["zookeeper"][Position(s)] \in Services
      <4>1. services["zookeeper"] \in Seq(Services)
        BY DEF Kinds
      <4>2. Position(s) \in DOMAIN services["zookeeper"]
        BY <3>1 DEF FindZookeeper
      <4> DEFINE a == services["zookeeper"]
                 p == Position(s)
      <4> HIDE DEF a, p
      <4>3. a \in [1 .. Len(a) -> Services] /\ p \in DOMAIN a
        BY <4>1, <4>2, LenProperties DEF a, p
      <4>4. a[p] \in Services
        BY <4>3
      <4> QED BY <4>4 DEF a, p
    <3> QED BY <1>3, <3>1 DEF FindZookeeper, Grant, ReadOptions, CheckInstalled
  <2>2. faults' = faults \/ (faults < MaxFaults /\ faults' = faults + 1)
    BY <1>3 DEF FindZookeeper, Grant, ReadOptions, CheckInstalled
  <2>3. step' \in Steps
    BY <1>3 DEF FindZookeeper, Grant, ReadOptions, CheckInstalled, Steps
  <2>4. UNCHANGED <<strict, run, mode, request, todo, tries, services, file, app, uses, account,
                    secret, spoiled, fate, origin>>
    BY <1>3 DEF FindZookeeper, Grant, ReadOptions, CheckInstalled, appVars, keyVars, histVars
  <2> QED BY <2>1, <2>2, <2>3, <2>4, FaultsType
<1>4. ASSUME NEW s \in Services,
             DeleteAccount(s) \/ DeleteSecret(s) \/ CreateAccount(s) \/ CreateSecret(s)
      PROVE  TypeOK'
  <2>1. /\ account' \in [Services -> 0 .. MaxRuns] /\ secret' \in [Services -> 0 .. MaxRuns]
    BY <1>0, <1>4 DEF DeleteAccount, DeleteSecret, CreateAccount, CreateSecret, Silently
  <2>2. /\ \/ faults' = faults
           \/ faults < MaxFaults /\ faults' = faults + 1
        /\ spoiled' \in {spoiled, spoiled \ {s}, spoiled \union {s}}
        /\ step' \in {"delete secret", "account", "secret", "grant"}
    BY <1>4, Zenon DEF DeleteAccount, DeleteSecret, CreateAccount, CreateSecret, Silently
  <2>4. faults' \in 0 .. MaxFaults
    BY <2>2, FaultsType
  <2>5. spoiled' \in SUBSET Services
    <3>1. spoiled' \subseteq spoiled \union {s}
      BY <2>2
    <3> QED BY <3>1
  <2>6. step' \in Steps
    BY <2>2 DEF Steps
  <2>3. UNCHANGED <<strict, run, mode, request, todo, tries, uri, services, file, app, uses,
                    fate, origin>>
    BY <1>4 DEF DeleteAccount, DeleteSecret, CreateAccount, CreateSecret, appVars
  <2> QED BY <2>1, <2>3, <2>4, <2>5, <2>6
<1>5. ASSUME NEW s \in Services, InstallApp(s) \/ Retry(s) PROVE TypeOK'
  <2>1. /\ app' \in [Services -> {"none", "deploying", "running"}]
        /\ uses' \in [Services -> Services \union {NoService}]
    <3>1. \/ app' = app /\ uses' = uses
          \/ app' = [app EXCEPT ![s] = "deploying"] /\ uses' = [uses EXCEPT ![s] = uri]
      BY <1>5, MadeApp
    <3> QED BY <3>1
  <2>2. /\ \/ tries' = tries /\ faults' = faults
           \/ /\ tries < Attempts - 1 /\ tries' = tries + 1
              /\ faults < MaxFaults /\ faults' = faults + 1
        /\ step' \in {step, "wait"}
    BY <1>5, Zenon DEF InstallApp, Retry
  <2>4. faults' \in 0 .. MaxFaults
    BY <2>2, FaultsType
  <2>5. tries' \in 0 .. Attempts - 1
    BY <2>2 DEF Attempts
  <2>6. step' \in Steps
    BY <2>2 DEF Steps
  <2>3. UNCHANGED <<strict, run, mode, request, todo, uri, services, file, account, secret, spoiled, fate, origin>>
    BY <1>5 DEF InstallApp, Retry, keyVars, histVars
  <2> QED BY <2>1, <2>3, <2>4, <2>5, <2>6
<1>6. ASSUME NEW s \in Services, Installed(s) PROVE TypeOK'
  <2>1. Tail(todo) \in Seq(Services)
    BY <1>6, CurrentService DEF Installed
  <2>2. FirstStep(Tail(todo)) \in Steps
    BY FirstSteps DEF Steps
  <2>3. services' \in [Kinds -> Seq(Services)]
    <3>1. s[1] \in Kinds
      BY DEF Services
    <3>2. Append(services[s[1]], s) \in Seq(Services)
      BY <3>1, AppendProperties
    <3> QED BY <1>6, <3>1, <3>2 DEF Installed
  <2> QED
    BY <1>0, <1>6, <2>1, <2>2, <2>3 DEF Installed, keyVars, histVars
<1>7. ASSUME NEW s \in Services, Uninstall(s) \/ CleanupSecurity(s) PROVE TypeOK'
  <2>1. todo' \in Seq(Services) /\ step' \in Steps
    BY <1>7, CurrentService DEF Uninstall, CleanupSecurity, Steps
  <2>2. /\ account' \in [Services -> 0 .. MaxRuns] /\ secret' \in [Services -> 0 .. MaxRuns]
        /\ app' \in [Services -> {"none", "deploying", "running"}]
        /\ uses' \in [Services -> Services \union {NoService}]
    BY <1>0, <1>7 DEF Uninstall, CleanupSecurity, Silently, appVars, keyVars
  <2>3. faults' \in 0 .. MaxFaults /\ spoiled' \in SUBSET Services
    BY <1>7, BoundsAssumption DEF Uninstall, CleanupSecurity, Silently, histVars
  <2>4. UNCHANGED <<strict, run, mode, request, tries, uri, services, file, fate, origin>>
    BY <1>7 DEF Uninstall, CleanupSecurity, histVars
  <2> QED BY <2>1, <2>2, <2>3, <2>4
<1>8. CASE Truncate
  BY <1>0, <1>8 DEF Truncate, Torn, appVars, keyVars, histVars, Steps
<1>9. CASE Write
  <2>1. InOrder(services) \in Seq(Services)
    BY InOrderAt
  <2> QED
    BY <1>9, <2>1, LeaveType DEF Write, appVars, keyVars
<1>10. CASE EndCleanup
  BY <1>10, LeaveType DEF EndCleanup, appVars, keyVars
<1>11. CASE Raise
  BY <1>11, LeaveType DEF Raise, appVars, keyVars, histVars
<1>12. CASE Fail
  <2>1. faults' \in 0 .. MaxFaults
    BY <1>12, BoundsAssumption DEF Fail
  <2> QED
    BY <1>12, <2>1, LeaveType DEF Fail, appVars, keyVars, histVars
<1>13. CASE UNCHANGED vars
  BY <1>13 DEF vars, scriptVars, appVars, keyVars, histVars
<1> QED
  BY <1>1, <1>2, <1>3, <1>4, <1>5, <1>6, <1>7, <1>8, <1>9, <1>10, <1>11, <1>12,
     <1>13 DEF Next, ScriptStep

------------------------------------------------------------------------------
(* The modes of a run. *)

LEMMA InstallMode ==
  ASSUME TypeOK, ScriptInv, step \in InstallSteps
  PROVE  mode = "install"
BY DEF TypeOK, ScriptInv, InstallSteps

LEMMA CleanupMode ==
  ASSUME TypeOK, ScriptInv, step = "revoke"
  PROVE  mode = "cleanup"
BY DEF TypeOK, ScriptInv, InstallSteps

\* The steps of an installation that leave the list as it is.
OnService(s) ==
  \/ FindZookeeper(s) \/ DeleteAccount(s) \/ DeleteSecret(s) \/ CreateAccount(s)
  \/ CreateSecret(s) \/ Grant(s) \/ ReadOptions(s) \/ CheckInstalled(s) \/ InstallApp(s)
  \/ Retry(s)

LEMMA OnServiceStep ==
  ASSUME TypeOK, ScriptInv, NEW s \in Services, OnService(s)
  PROVE  /\ mode = "install" /\ todo # <<>> /\ s = Head(todo)
         /\ step \in InstallSteps \ {"truncate", "write"}
         /\ step' \in InstallSteps \ {"truncate", "write", "find"}
         /\ UNCHANGED <<strict, run, mode, request, todo, services, file, fate, origin>>
<1>1. /\ todo # <<>> /\ s = Head(todo)
      /\ step \in InstallSteps \ {"truncate", "write"}
      /\ step' \in InstallSteps \ {"truncate", "write", "find"}
  BY DEF OnService, FindZookeeper, DeleteAccount, DeleteSecret, CreateAccount, CreateSecret,
     Grant, ReadOptions, CheckInstalled, InstallApp, Retry, At, InstallSteps, Steps
<1>2. UNCHANGED <<strict, run, mode, request, todo, services, file, fate, origin>>
  BY DEF OnService, FindZookeeper, DeleteAccount, DeleteSecret, CreateAccount, CreateSecret,
     Grant, ReadOptions, CheckInstalled, InstallApp, Retry, histVars
<1> QED BY <1>1, <1>2, InstallMode

\* The four ways a run ends.
LEMMA EndOfRun ==
  ASSUME Write \/ EndCleanup \/ Raise \/ Fail
  PROVE  /\ mode' = "idle" /\ todo' = <<>> /\ step' = "none" /\ services' = Empty
         /\ uri' = NoService
         /\ UNCHANGED <<strict, run, app, uses, account, secret, spoiled>>
BY DEF Write, EndCleanup, Raise, Fail, Leave, appVars, keyVars, histVars

LEMMA EmptyLists ==
  /\ \A k \in Kinds : Empty[k] = <<>> /\ Len(Empty[k]) = 0 /\ Range(Empty[k]) = {}
  /\ InOrder(Empty) = <<>>
<1>1. \A k \in Kinds : Empty[k] = <<>>
  BY DEF Empty
<1>2. <<>> \in Seq(Services) /\ Len(<<>>) = 0
  BY EmptySeq
<1>3. <<>> \o <<>> = <<>>
  BY <1>2, ConcatEmptySeq
<1> QED BY <1>1, <1>2, <1>3, RangeOfEmpty DEF InOrder, Kinds

LEMMA AppendedKinds ==
  ASSUME NEW lists \in [Kinds -> Seq(Services)], NEW s \in Services,
         \A k \in Kinds : \A i \in 1 .. Len(lists[k]) : lists[k][i][1] = k,
         NEW more, more = [lists EXCEPT ![s[1]] = Append(@, s)]
  PROVE  \A k \in Kinds : \A i \in 1 .. Len(more[k]) : more[k][i][1] = k
<1> SUFFICES ASSUME NEW k \in Kinds, NEW i \in 1 .. Len(more[k]) PROVE more[k][i][1] = k
  OBVIOUS
<1>1. CASE k # s[1]
  BY <1>1
<1>2. CASE k = s[1]
  <2>1. more[k] = Append(lists[k], s) /\ lists[k] \in Seq(Services)
    BY <1>2
  <2> DEFINE a == lists[k]
  <2>2. Len(a) \in Nat /\ Len(more[k]) = Len(a) + 1
        /\ more[k][Len(a) + 1] = s /\ \A j \in 1 .. Len(a) : more[k][j] = a[j]
    BY <2>1, AppendProperties, LenProperties
  <2>3. \A j \in 1 .. Len(a) : a[j][1] = k
    OBVIOUS
  <2> HIDE DEF a
  <2>4. i \in 1 .. Len(a) \/ i = Len(a) + 1
    BY <2>2
  <2> QED BY <1>2, <2>2, <2>3, <2>4
<1> QED BY <1>1, <1>2

LEMMA NextScript == TypeOK /\ ScriptInv /\ [Next]_vars => ScriptInv'
<1> SUFFICES ASSUME TypeOK, ScriptInv, [Next]_vars PROVE ScriptInv'
  OBVIOUS
<1>1. ASSUME NEW q \in Requests, BeginInstall(q) PROVE ScriptInv'
  <2>1. Wanted(q) \in Seq(Services) /\ run \in Nat
    BY RequestsAssumption, WantedServices, BoundsAssumption DEF TypeOK
  <2>2. InOrder(Empty) \o Wanted(q) = Wanted(q)
    BY <2>1, ConcatEmptySeq, EmptyLists
  <2>3. /\ mode' = "install" /\ run' > 0 /\ fate' # "removed"
        /\ services' = Empty /\ request' = q /\ todo' = Wanted(q) /\ step' = FirstStep(Wanted(q))
    BY <1>1, <2>1 DEF BeginInstall
  <2>4. InOrder(services') \o todo' = Wanted(request')
    BY <2>2, <2>3
  <2>5. \A k \in Kinds : \A i \in 1 .. Len(services'[k]) : services'[k][i][1] = k
    BY <2>3, EmptyLists
  <2>6. step' \in InstallSteps /\ (step' \in {"truncate", "write"} <=> todo' = <<>>)
    BY <2>3, FirstSteps DEF InstallSteps, Steps
  <2> QED
    BY <2>3, <2>4, <2>5, <2>6 DEF ScriptInv
<1>2. CASE BeginCleanup
  BY <1>2 DEF BeginCleanup, ScriptInv
<1>3. ASSUME NEW s \in Services, OnService(s) PROVE ScriptInv'
  BY <1>3, OnServiceStep DEF ScriptInv
<1>4. ASSUME NEW s \in Services, Installed(s) PROVE ScriptInv'
  <2>1. /\ mode = "install" /\ todo # <<>> /\ s = Head(todo)
        /\ services' = [services EXCEPT ![s[1]] = Append(@, s)]
    BY <1>4, InstallMode DEF Installed, At, InstallSteps, Steps
  <2>2. InOrder(services') \o todo' = Wanted(request)
    <3>1. /\ todo \in Seq(Services) /\ services \in [Kinds -> Seq(Services)]
          /\ todo' = Tail(todo)
      BY <1>4 DEF TypeOK, Installed
    <3>2. InOrder(services) \o todo = Wanted(request)
      BY <2>1 DEF ScriptInv
    <3>3. InOrder(services') = Append(InOrder(services), s)
      BY <2>1, <3>1, CurrentLists, AppendInOrder
    <3>4. InOrder(services) \in Seq(Services)
      BY <3>1, InOrderAt
    <3> QED BY <2>1, <3>1, <3>2, <3>3, <3>4, MoveHead
  <2>4. \A k \in Kinds : \A i \in 1 .. Len(services'[k]) : services'[k][i][1] = k
    <3>1. /\ services \in [Kinds -> Seq(Services)]
          /\ \A k \in Kinds : \A i \in 1 .. Len(services[k]) : services[k][i][1] = k
      BY DEF ScriptInv, TypeOK
    <3> QED BY ONLY <2>1, <3>1, AppendedKinds
  <2>3. step' \in InstallSteps /\ (step' \in {"truncate", "write"} <=> todo' = <<>>)
    BY <1>4, FirstSteps DEF Installed, InstallSteps, Steps
  <2> QED
    BY <1>4, <2>1, <2>2, <2>3, <2>4 DEF Installed, ScriptInv, histVars
<1>5. CASE Truncate
  BY <1>5 DEF Truncate, ScriptInv, histVars, InstallSteps, Steps
<1>6. CASE Write \/ EndCleanup \/ Raise \/ Fail
  BY <1>6, EndOfRun, EmptyLists DEF ScriptInv
<1>7. ASSUME NEW s \in Services, Uninstall(s) \/ CleanupSecurity(s) PROVE ScriptInv'
  <2>1. mode = "cleanup" /\ step' \in {"uninstall", "revoke"}
    BY <1>7, CleanupMode DEF Uninstall, CleanupSecurity, At
  <2> QED
    BY <1>7, <2>1 DEF Uninstall, CleanupSecurity, ScriptInv, histVars
<1>8. CASE UNCHANGED vars
  BY <1>8 DEF vars, scriptVars, keyVars, histVars, ScriptInv
<1> QED
  BY <1>1, <1>2, <1>3, <1>4, <1>5, <1>6, <1>7, <1>8 DEF Next, ScriptStep, OnService


LEMMA NextStrict == TypeOK /\ ScriptInv /\ StrictInv /\ [Next]_vars => StrictInv'
<1> SUFFICES ASSUME TypeOK, ScriptInv, StrictInv, [Next]_vars PROVE StrictInv'
  OBVIOUS
<1>1. ASSUME NEW q \in Requests, BeginInstall(q) PROVE StrictInv'
  BY <1>1, FirstSteps DEF BeginInstall, StrictInv, KeySteps, keyVars
<1>2. CASE BeginCleanup
  BY <1>2 DEF BeginCleanup, StrictInv, KeySteps, keyVars
<1>3. ASSUME NEW s \in Services, OnService(s) PROVE StrictInv'
  <2>1. strict' = strict
    BY <1>3, OnServiceStep
  <2>2. step' \in KeySteps => strict
    BY <1>3 DEF OnService, FindZookeeper, DeleteAccount, DeleteSecret, CreateAccount,
       CreateSecret, Grant, ReadOptions, CheckInstalled, InstallApp, Retry, At, KeySteps, StrictInv
  <2>3. strict \/ (account' = account /\ secret' = secret)
    BY <1>3 DEF OnService, FindZookeeper, DeleteAccount, DeleteSecret, CreateAccount,
       CreateSecret, Grant, ReadOptions, CheckInstalled, InstallApp, Retry, At, KeySteps,
       StrictInv, keyVars
  <2> QED BY <2>1, <2>2, <2>3 DEF StrictInv
<1>4. ASSUME NEW s \in Services, Installed(s) PROVE StrictInv'
  BY <1>4, FirstSteps DEF Installed, StrictInv, KeySteps, keyVars
<1>5. CASE Truncate
  BY <1>5 DEF Truncate, StrictInv, KeySteps, keyVars
<1>6. CASE Write \/ EndCleanup \/ Raise \/ Fail
  BY <1>6, EndOfRun DEF StrictInv, KeySteps
<1>7. ASSUME NEW s \in Services, Uninstall(s) PROVE StrictInv'
  BY <1>7 DEF Uninstall, StrictInv, KeySteps, keyVars
<1>8. ASSUME NEW s \in Services, CleanupSecurity(s) PROVE StrictInv'
  <2>1. /\ account' = account \/ account' = [account EXCEPT ![s] = 0]
        /\ secret' = secret \/ secret' = [secret EXCEPT ![s] = 0]
        /\ step' = "uninstall" /\ strict' = strict
    BY <1>8, Zenon DEF CleanupSecurity, Silently
  <2>2. \A t \in Services : account'[t] \in {account[t], 0} /\ secret'[t] \in {secret[t], 0}
    BY <2>1 DEF TypeOK
  <2> QED BY <2>1, <2>2 DEF StrictInv, KeySteps
<1>9. CASE UNCHANGED vars
  BY <1>9 DEF vars, scriptVars, keyVars, histVars, StrictInv
<1> QED
  BY <1>1, <1>2, <1>3, <1>4, <1>5, <1>6, <1>7, <1>8, <1>9 DEF Next, ScriptStep, OnService

------------------------------------------------------------------------------
(* A ZooKeeper for every Kafka. *)

LEMMA OwnIsNone ==
  ASSUME NEW s \in Services
  PROVE  s[1] = "kafka" => Own(s) \in Services /\ Own(s) # NoService
BY DEF Own, NoService, Services, Kinds

\* No step of an installation but its last changes an app that runs.
LEMMA OnServiceApps ==
  ASSUME TypeOK, NEW s \in Services, OnService(s)
  PROVE  /\ \A t \in Services : app[t] = "running" => app'[t] = "running"
         /\ ~InstallApp(s) /\ ~Retry(s) => UNCHANGED <<app, uses>>
<1>1. CASE InstallApp(s) \/ Retry(s)
  BY <1>1, MadeApp DEF TypeOK
<1>2. CASE ~InstallApp(s) /\ ~Retry(s)
  BY <1>2 DEF OnService, FindZookeeper, DeleteAccount, DeleteSecret, CreateAccount,
     CreateSecret, Grant, ReadOptions, CheckInstalled, appVars
<1> QED BY <1>1, <1>2

LEMMA ListedServices ==
  ASSUME TypeOK
  PROVE  \A k \in Kinds : \A t \in Range(services[k]) : t \in Services
BY DEF TypeOK, Range

\* The part of the invariant that is about the lists needs only what runs to go
\* on running.
LEMMA ListsStay ==
  ASSUME TypeOK, WiringInv, services' = services,
         \A t \in Services : app[t] = "running" => app'[t] = "running"
  PROVE  /\ \A k \in Kinds : \A t \in Range(services'[k]) : app'[t] = "running"
         /\ \A t \in Range(services'["kafka"]) : Own(t) \in Range(services'["zookeeper"])
BY ListedServices DEF WiringInv

LEMMA NextWiring == TypeOK /\ ScriptInv /\ WiringInv /\ [Next]_vars => WiringInv'
<1> SUFFICES ASSUME TypeOK, ScriptInv, WiringInv, [Next]_vars PROVE WiringInv'
  OBVIOUS
\* The lists are empty outside an installation, and when one begins or ends.
<1>0. ASSUME services' = Empty
      PROVE  /\ \A k \in Kinds : \A t \in Range(services'[k]) : app'[t] = "running"
             /\ \A t \in Range(services'["kafka"]) : Own(t) \in Range(services'["zookeeper"])
  BY <1>0, EmptyLists DEF Kinds
<1>1. ASSUME NEW q \in Requests, BeginInstall(q) PROVE WiringInv'
  <2>1. /\ services' = Empty /\ uri' = NoService /\ step' = FirstStep(todo')
        /\ UNCHANGED <<app, uses>>
    BY <1>1 DEF BeginInstall, appVars
  <2> QED
    BY <1>0, <2>1, FirstSteps DEF WiringInv
<1>2. CASE BeginCleanup
  <2>1. /\ services' = services /\ uri' = NoService /\ mode' = "cleanup" /\ step' = "uninstall"
        /\ UNCHANGED <<app, uses>>
    BY <1>2 DEF BeginCleanup, appVars, ScriptInv
  <2> QED BY <2>1, ListsStay DEF WiringInv
<1>3. ASSUME NEW s \in Services, FindZookeeper(s) PROVE WiringInv'
  <2>1. /\ mode = "install" /\ todo # <<>> /\ s = Head(todo) /\ s[1] = "kafka"
        /\ step' # "find" /\ step' # "wait"
        /\ UNCHANGED <<mode, todo, services, app, uses>>
    BY <1>3, OnServiceStep DEF OnService, FindZookeeper, At, WiringInv, appVars
  <2>2. services["zookeeper"][Position(s)] = Own(s)
    BY <2>1, CurrentLists
  <2>3. uri' = Own(s) /\ uri' # NoService
    BY <1>3, <2>1, <2>2, OwnIsNone DEF FindZookeeper
  <2> QED BY <2>1, <2>3, ListsStay DEF WiringInv
<1>4. ASSUME NEW s \in Services, OnService(s), ~FindZookeeper(s) PROVE WiringInv'
  <2>1. /\ mode = "install" /\ todo # <<>> /\ s = Head(todo) /\ step' # "find"
        /\ UNCHANGED <<mode, todo, services>>
    BY <1>4, OnServiceStep
  <2>2. uri' = uri /\ step # "find"
    BY <1>4 DEF OnService, DeleteAccount, DeleteSecret, CreateAccount, CreateSecret, Grant,
       ReadOptions, CheckInstalled, InstallApp, Retry, At
  <2>3. s[1] = "kafka" => uri # NoService
    BY <2>1, <2>2 DEF WiringInv
  <2>4. uri # NoService => s[1] = "kafka" /\ uri = Own(s)
    BY <2>1 DEF WiringInv
  <2>5. /\ \A t \in Services : uses'[t] # NoService => t[1] = "kafka" /\ uses'[t] = Own(t)
        /\ \A t \in Services : t[1] = "kafka" /\ app'[t] # "none" => uses'[t] # NoService
        /\ step' = "wait" => app'[s] # "none"
    <3>1. CASE InstallApp(s) \/ Retry(s)
      <4>1. CASE UNCHANGED <<app, uses>>
        <5>1. step' = "wait" => app'[s] # "none"
          BY <1>4, <2>1, <3>1, <4>1 DEF InstallApp, Retry, At, MakeApp, TypeOK
        <5> QED BY <4>1, <5>1 DEF WiringInv
      <4>2. CASE /\ app' = [app EXCEPT ![s] = "deploying"]
                 /\ uses' = [uses EXCEPT ![s] = uri]
        <5>1. /\ app'[s] = "deploying" /\ uses'[s] = uri
              /\ \A t \in Services \ {s} : app'[t] = app[t] /\ uses'[t] = uses[t]
          BY <4>2 DEF TypeOK
        <5> QED BY <2>3, <2>4, <5>1 DEF WiringInv
      <4> QED BY <3>1, <4>1, <4>2, MadeApp
    <3>2. CASE ~InstallApp(s) /\ ~Retry(s)
      <4>1. UNCHANGED <<app, uses>>
        BY <1>4, <3>2, OnServiceApps
      <4>2. step' # "wait"
        BY <1>4, <3>2 DEF OnService, DeleteAccount, DeleteSecret, CreateAccount, CreateSecret,
           Grant, ReadOptions, CheckInstalled
      <4> QED BY <4>1, <4>2 DEF WiringInv
    <3> QED BY <3>1, <3>2
  <2>6. \A t \in Services : app[t] = "running" => app'[t] = "running"
    BY <1>4, OnServiceApps
  <2> QED BY <2>1, <2>2, <2>3, <2>4, <2>5, <2>6, ListsStay DEF WiringInv
<1>5. ASSUME NEW s \in Services, Installed(s) PROVE WiringInv'
  <2>1. /\ mode = "install" /\ todo # <<>> /\ s = Head(todo) /\ step = "wait"
        /\ mode' = mode /\ uri' = NoService /\ uses' = uses
    BY <1>5, InstallMode DEF Installed, At, InstallSteps, Steps
  <2>2. s[1] \in Kinds /\ services[s[1]] \in Seq(Services)
    BY DEF Services, TypeOK
  <2>3. /\ Range(services'[s[1]]) = Range(services[s[1]]) \union {s}
        /\ \A k \in Kinds \ {s[1]} : services'[k] = services[k]
    <3>1. Range(Append(services[s[1]], s)) = Range(services[s[1]]) \union {s}
      BY <2>2, RangeOfAppend
    <3>2. services' = [services EXCEPT ![s[1]] = Append(services[s[1]], s)]
      BY <1>5 DEF Installed
    <3> QED BY <2>2, <3>1, <3>2 DEF TypeOK
  <2>4. app'[s] = "running" /\ \A t \in Services \ {s} : app'[t] = app[t]
    BY <1>5 DEF Installed, TypeOK
  <2>5. app[s] # "none"
    BY <2>1 DEF WiringInv
  <2>6. \A t \in Services : t[1] = "kafka" /\ app'[t] # "none" => uses'[t] # NoService
    BY <2>1, <2>4, <2>5 DEF WiringInv
  <2>7. step' = FirstStep(todo')
    BY <1>5 DEF Installed
  <2>8. \A k \in Kinds : \A t \in Range(services'[k]) : app'[t] = "running"
    <3>1. \A k \in Kinds : \A t \in Range(services'[k]) : t = s \/ t \in Range(services[k])
      BY <2>3
    <3> QED BY <2>4, <3>1, ListedServices DEF WiringInv
  <2>9. \A t \in Range(services'["kafka"]) : Own(t) \in Range(services'["zookeeper"])
    <3>1. Range(services["zookeeper"]) \subseteq Range(services'["zookeeper"])
      BY <2>3 DEF Kinds
    <3>2. s[1] = "kafka" => Own(s) \in Range(services["zookeeper"])
      <4>1. ASSUME s[1] = "kafka" PROVE Own(s) \in Range(services["zookeeper"])
        <5>1. /\ Position(s) \in 1 .. Len(services["zookeeper"])
              /\ services["zookeeper"][Position(s)] = Own(s)
          BY <2>1, <4>1, CurrentLists
        <5>2. DOMAIN services["zookeeper"] = 1 .. Len(services["zookeeper"])
          BY LenProperties DEF TypeOK, Kinds
        <5> QED BY <5>1, <5>2 DEF Range
      <4> QED BY <4>1
    <3>3. ASSUME NEW t \in Range(services'["kafka"])
          PROVE  t \in Range(services["kafka"]) \/ (t = s /\ s[1] = "kafka")
      BY <2>3 DEF Kinds
    <3> QED BY <3>1, <3>2, <3>3 DEF WiringInv
  <2>10. step' # "wait"
    BY <2>7, FirstSteps
  <2>11. step' = "find" => Head(todo')[1] = "kafka"
    BY <2>7, FirstSteps
  <2>12. mode' = "install" /\ todo' # <<>> /\ Head(todo')[1] = "kafka" => step' = "find"
    BY <2>7, FirstSteps
  <2> QED BY <2>1, <2>6, <2>8, <2>9, <2>10, <2>11, <2>12 DEF WiringInv
<1>6. CASE Truncate
  <2>1. /\ mode' = mode /\ todo' = todo /\ todo = <<>> /\ step' = "write"
        /\ UNCHANGED <<uri, services, app, uses>>
    BY <1>6 DEF Truncate, ScriptInv, appVars
  <2> QED BY <2>1, ListsStay DEF WiringInv
<1>7. CASE Write \/ EndCleanup \/ Raise \/ Fail
  BY <1>0, <1>7, EndOfRun DEF WiringInv
<1>8. ASSUME NEW s \in Services, Uninstall(s) \/ CleanupSecurity(s) PROVE WiringInv'
  <2>1. /\ mode' = "cleanup" /\ step' # "find" /\ step' # "wait"
        /\ services' = Empty /\ uri' = NoService
    BY <1>8, CleanupMode DEF Uninstall, CleanupSecurity, At, ScriptInv
  <2>2. \/ UNCHANGED <<app, uses>>
        \/ app' = [app EXCEPT ![s] = "none"] /\ uses' = [uses EXCEPT ![s] = NoService]
    BY <1>8 DEF Uninstall, CleanupSecurity, appVars
  <2>3. /\ \A t \in Services : uses'[t] # NoService => t[1] = "kafka" /\ uses'[t] = Own(t)
        /\ \A t \in Services : t[1] = "kafka" /\ app'[t] # "none" => uses'[t] # NoService
    BY <2>2 DEF WiringInv, TypeOK
  <2> QED
    BY <1>0, <2>1, <2>3 DEF WiringInv
<1>9. CASE UNCHANGED vars
  BY <1>9 DEF vars, scriptVars, appVars, keyVars, histVars, WiringInv
<1> QED
  BY <1>1, <1>2, <1>3, <1>4, <1>5, <1>6, <1>7, <1>8, <1>9 DEF Next, ScriptStep, OnService

------------------------------------------------------------------------------
(* Keys that match, and complete cleanups. *)

\* What each command for the keys does to a service it has not spoiled; the keys
\* of all others stay as they are.
LEMMA DeleteAccountKeys ==
  ASSUME TypeOK, NEW s \in Services, DeleteAccount(s)
  PROVE  /\ s \notin spoiled' => app[s] = "none" /\ account'[s] = 0
         /\ \A t \in Services \ {s} : account'[t] = account[t] /\ (t \in spoiled' <=> t \in spoiled)
         /\ UNCHANGED <<app, secret>> /\ step = "delete account" /\ step' = "delete secret"
<1>1. /\ \/ /\ account' = [account EXCEPT ![s] = 0]
            /\ spoiled' = IF app[s] = "none" THEN spoiled \ {s} ELSE spoiled \union {s}
         \/ account' = account /\ spoiled' = spoiled \union {s}
      /\ UNCHANGED <<app, secret>> /\ step = "delete account" /\ step' = "delete secret"
  BY Zenon DEF DeleteAccount, At, appVars
<1> QED BY <1>1 DEF TypeOK

LEMMA DeleteSecretKeys ==
  ASSUME TypeOK, NEW s \in Services, DeleteSecret(s)
  PROVE  /\ s \notin spoiled' => secret'[s] = 0
         /\ spoiled \subseteq spoiled'
         /\ \A t \in Services \ {s} : secret'[t] = secret[t] /\ (t \in spoiled' <=> t \in spoiled)
         /\ UNCHANGED <<app, account>> /\ step = "delete secret" /\ step' = "account"
<1>1. /\ \/ secret' = [secret EXCEPT ![s] = 0] /\ spoiled' = spoiled
         \/ secret' = secret /\ spoiled' = spoiled \union {s}
      /\ app' = app /\ account' = account /\ step = "delete secret" /\ step' = "account"
  BY Zenon DEF DeleteSecret, Silently, At, appVars
<1> QED BY <1>1 DEF TypeOK

LEMMA CreateAccountKeys ==
  ASSUME TypeOK, NEW s \in Services, CreateAccount(s)
  PROVE  /\ s \notin spoiled' => account'[s] = IF account[s] = 0 THEN run ELSE account[s]
         /\ spoiled \subseteq spoiled'
         /\ \A t \in Services \ {s} : account'[t] = account[t] /\ (t \in spoiled' <=> t \in spoiled)
         /\ UNCHANGED <<app, secret, run>> /\ step = "account" /\ step' = "secret"
<1>1. /\ \/ account' = [account EXCEPT ![s] = IF @ = 0 THEN run ELSE @] /\ spoiled' = spoiled
         \/ account' = account /\ spoiled' = spoiled \union {s}
      /\ app' = app /\ secret' = secret /\ run' = run /\ step = "account" /\ step' = "secret"
  BY Zenon DEF CreateAccount, Silently, At, appVars
<1> QED BY <1>1 DEF TypeOK

LEMMA CreateSecretKeys ==
  ASSUME TypeOK, NEW s \in Services, CreateSecret(s)
  PROVE  /\ s \notin spoiled' => secret'[s] = IF secret[s] = 0 THEN run ELSE secret[s]
         /\ spoiled \subseteq spoiled'
         /\ \A t \in Services \ {s} : secret'[t] = secret[t] /\ (t \in spoiled' <=> t \in spoiled)
         /\ UNCHANGED <<app, account>> /\ step = "secret" /\ step' = "grant"
<1>1. /\ \/ secret' = [secret EXCEPT ![s] = IF @ = 0 THEN run ELSE @] /\ spoiled' = spoiled
         \/ secret' = secret /\ spoiled' = spoiled \union {s}
      /\ app' = app /\ account' = account /\ step = "secret" /\ step' = "grant"
  BY Zenon DEF CreateSecret, Silently, At, appVars
<1> QED BY <1>1 DEF TypeOK

LEMMA CleanupSecurityKeys ==
  ASSUME TypeOK, NEW s \in Services, CleanupSecurity(s)
  PROVE  /\ s \notin spoiled' => account'[s] = 0 /\ secret'[s] = 0
         /\ spoiled \subseteq spoiled'
         /\ \A t \in Services \ {s} :
              account'[t] = account[t] /\ secret'[t] = secret[t] /\ (t \in spoiled' <=> t \in spoiled)
         /\ UNCHANGED <<app, strict, mode, file, fate>>
         /\ step = "revoke" /\ step' = "uninstall" /\ todo' = Tail(todo)
<1>1. /\ \/ /\ account' = [account EXCEPT ![s] = 0] /\ secret' = [secret EXCEPT ![s] = 0]
            /\ spoiled' = spoiled
         \/ /\ account' = account \/ account' = [account EXCEPT ![s] = 0]
            /\ secret' = secret \/ secret' = [secret EXCEPT ![s] = 0]
            /\ spoiled' = spoiled \union {s}
      /\ app' = app /\ strict' = strict /\ mode' = mode /\ file' = file /\ fate' = fate
      /\ step = "revoke" /\ step' = "uninstall" /\ todo' = Tail(todo)
  BY Zenon DEF CleanupSecurity, Silently, At, appVars
<1>2. \A t \in Services \ {s} : account'[t] = account[t] /\ secret'[t] = secret[t]
  BY <1>1 DEF TypeOK
<1> QED BY <1>1, <1>2 DEF TypeOK

LEMMA NextKeys ==
  TypeOK /\ ScriptInv /\ StrictInv /\ KeysInv /\ CleanupInv /\ [Next]_vars => KeysInv'
<1> SUFFICES ASSUME TypeOK, ScriptInv, StrictInv, KeysInv, CleanupInv, [Next]_vars
             PROVE  KeysInv'
  OBVIOUS
<1> DEFINE Matched(s) ==
      strict /\ app[s] # "none" /\ s \notin spoiled => account[s] # 0 /\ secret[s] = account[s]
<1>1. ASSUME NEW q \in Requests, BeginInstall(q) PROVE KeysInv'
  <2>1. step' = FirstStep(todo') /\ UNCHANGED <<strict, app, account, secret, spoiled>>
    BY <1>1 DEF BeginInstall, appVars, keyVars
  <2> QED BY <2>1, FirstSteps DEF KeysInv, KeysMatch, KeysAt
<1>2. CASE BeginCleanup
  BY <1>2 DEF BeginCleanup, KeysInv, KeysMatch, appVars, keyVars
<1>3. ASSUME NEW s \in Services, OnService(s) PROVE KeysInv'
  <2>0. /\ mode = "install" /\ todo # <<>> /\ s = Head(todo) /\ run # 0
        /\ UNCHANGED <<mode, todo, run, strict>>
    BY <1>3, OnServiceStep, BoundsAssumption DEF ScriptInv, TypeOK
  <2>a. /\ \A t \in Services : Matched(t)
        /\ s \notin spoiled => KeysAt(s, step)
    BY <2>0 DEF KeysInv, KeysMatch
  <2> SUFFICES /\ \A t \in Services : Matched(t)'
               /\ s \notin spoiled' => KeysAt(s, step)'
    BY <2>0 DEF KeysInv, KeysMatch
  <2>1. CASE FindZookeeper(s)
    BY <2>1, <2>a DEF FindZookeeper, KeysAt, appVars, keyVars, histVars
  <2>2. CASE DeleteAccount(s)
    BY <2>2, <2>0, <2>a, DeleteAccountKeys DEF KeysAt
  <2>3. CASE DeleteSecret(s)
    BY <2>3, <2>0, <2>a, DeleteSecretKeys DEF KeysAt, StrictInv, KeySteps
  <2>4. CASE CreateAccount(s)
    BY <2>4, <2>0, <2>a, CreateAccountKeys DEF KeysAt, StrictInv, KeySteps
  <2>5. CASE CreateSecret(s)
    <3>1. ASSUME s \notin spoiled' PROVE KeysAt(s, "grant")' /\ app[s] = "none"
      <4>1. strict /\ s \notin spoiled /\ step = "secret" /\ KeysAt(s, "secret")
        BY <2>5, <3>1, <2>a, CreateSecretKeys DEF StrictInv, KeySteps
      <4>2. app[s] = "none" /\ account[s] = run /\ secret[s] = 0
        BY <4>1 DEF KeysAt
      <4>3. app'[s] = "none" /\ account'[s] = run /\ secret'[s] = run
        BY <2>5, <3>1, <4>2, CreateSecretKeys
      <4> QED BY <4>2, <4>3, <2>0 DEF KeysAt
    <3> QED BY <2>5, <2>0, <2>a, <3>1, CreateSecretKeys
  <2>6. CASE Grant(s) \/ ReadOptions(s) \/ CheckInstalled(s)
    <3>1. /\ \/ step = "grant" /\ step' = "options"
             \/ step = "options" /\ step' = "check"
             \/ step = "check" /\ step' = "app"
          /\ app' = app /\ account' = account /\ secret' = secret /\ spoiled' = spoiled
      BY <2>6 DEF Grant, ReadOptions, CheckInstalled, At, appVars, keyVars, histVars
    <3> QED BY <3>1, <2>0, <2>a DEF KeysAt
  <2>7. CASE InstallApp(s) \/ Retry(s)
    <3>1. \A t \in Services \ {s} : app'[t] = app[t]
      BY <2>7, MadeApp DEF TypeOK
    <3>2. /\ step = "app" /\ step' \in {"app", "wait"}
          /\ UNCHANGED <<account, secret, spoiled>>
      BY <2>7 DEF InstallApp, Retry, At, keyVars, histVars
    <3> QED BY <3>1, <3>2, <2>0, <2>a DEF KeysAt
  <2> QED BY <1>3, <2>1, <2>2, <2>3, <2>4, <2>5, <2>6, <2>7 DEF OnService
<1>4. ASSUME NEW s \in Services, Installed(s) PROVE KeysInv'
  <2>1. /\ mode = "install" /\ todo # <<>> /\ s = Head(todo) /\ step = "wait"
        /\ step' = FirstStep(todo') /\ UNCHANGED <<strict, account, secret, spoiled>>
    BY <1>4, InstallMode DEF Installed, At, InstallSteps, Steps, keyVars, histVars
  <2>2. \A t \in Services \ {s} : app'[t] = app[t]
    BY <1>4 DEF Installed, TypeOK
  <2>3. s \notin spoiled => KeysAt(s, "wait")
    BY <2>1 DEF KeysInv
  <2> QED BY <2>1, <2>2, <2>3, FirstSteps DEF KeysInv, KeysMatch, KeysAt
<1>5. CASE Truncate
  BY <1>5 DEF Truncate, ScriptInv, KeysInv, KeysMatch, appVars, keyVars, histVars
<1>6. CASE Write \/ EndCleanup \/ Raise \/ Fail
  BY <1>6, EndOfRun DEF KeysInv, KeysMatch
<1>7. ASSUME NEW s \in Services, Uninstall(s) PROVE KeysInv'
  <2>1. /\ mode' = "cleanup" /\ UNCHANGED <<strict, account, secret, spoiled>>
        /\ app'[s] = "none" /\ \A t \in Services \ {s} : app'[t] = app[t]
    BY <1>7 DEF Uninstall, TypeOK, keyVars, histVars
  <2> QED BY <2>1 DEF KeysInv, KeysMatch
<1>8. ASSUME NEW s \in Services, CleanupSecurity(s) PROVE KeysInv'
  <2>1. mode = "cleanup"
    BY <1>8, CleanupMode, CleanupSecurityKeys
  <2>2. app[s] = "none"
    BY <1>8 DEF CleanupSecurity, At, CleanupInv
  <2> QED BY <1>8, <2>1, <2>2, CleanupSecurityKeys DEF KeysInv, KeysMatch
<1>9. CASE UNCHANGED vars
  BY <1>9 DEF vars, scriptVars, appVars, keyVars, histVars, KeysInv, KeysMatch, KeysAt
<1> QED
  BY <1>1, <1>2, <1>3, <1>4, <1>5, <1>6, <1>7, <1>8, <1>9 DEF Next, ScriptStep, OnService

LEMMA NextCleanup ==
  TypeOK /\ ScriptInv /\ StrictInv /\ CleanupInv /\ [Next]_vars => CleanupInv'
<1> SUFFICES ASSUME TypeOK, ScriptInv, StrictInv, CleanupInv, [Next]_vars PROVE CleanupInv'
  OBVIOUS
<1>0. ScriptInv'
  BY NextScript
<1>1. CASE mode' = "install"
  BY <1>0, <1>1 DEF ScriptInv, CleanupInv, CleanedUp, InstallSteps
<1>2. CASE BeginCleanup
  BY <1>2 DEF BeginCleanup, CleanupInv, CleanedUp, appVars
<1>3. CASE Write \/ Raise \/ Fail
  <2>1. fate' # "removed"
    BY <1>3 DEF Write, Raise, Fail, ScriptInv, histVars
  <2> QED
    BY <1>3, <2>1, EndOfRun DEF CleanupInv, CleanedUp
<1>4. CASE EndCleanup
  <2>1. \A s \in Range(file.services) : Removed(s)
    BY <1>4, RangeOfEmpty DEF EndCleanup, CleanupInv
  <2> QED
    BY <1>4, <2>1, EndOfRun DEF EndCleanup, CleanupInv, CleanedUp, Removed
<1>5. ASSUME NEW s \in Services, Uninstall(s) PROVE CleanupInv'
  <2>1. /\ mode = "cleanup" /\ fate' # "removed" /\ todo # <<>> /\ s = Head(todo)
        /\ UNCHANGED <<strict, file, account, secret, spoiled>>
    BY <1>5 DEF Uninstall, At, ScriptInv, keyVars, histVars
  <2>2. \A t \in Services : app'[t] = IF t = s THEN "none" ELSE app[t]
    BY <1>5 DEF Uninstall, TypeOK
  <2>3. \A t \in Range(file.services) : t \in Services
    BY DEF TypeOK, Range
  <2>4. Range(todo) = Range(Tail(todo)) \union {s}
    BY <1>5, CurrentService DEF Uninstall
  <2>5. \A t \in Range(file.services) \ Range(todo) : Removed(t)'
    BY <2>1, <2>2, <2>3 DEF CleanupInv, Removed
  <2>6. CASE strict
    <3>1. step' = "revoke" /\ todo' = todo
      BY <1>5, <2>6 DEF Uninstall
    <3> QED BY <3>1, <2>1, <2>2, <2>5 DEF CleanupInv, CleanedUp
  <2>7. CASE ~strict
    <3>1. step' = "uninstall" /\ todo' = Tail(todo)
      BY <1>5, <2>7 DEF Uninstall, At
    <3>2. Removed(s)'
      BY <2>1, <2>2, <2>7 DEF Removed, StrictInv
    <3> QED BY <3>1, <3>2, <2>1, <2>4, <2>5 DEF CleanupInv, CleanedUp
  <2> QED BY <2>6, <2>7
<1>6. ASSUME NEW s \in Services, CleanupSecurity(s) PROVE CleanupInv'
  <2>1. mode = "cleanup" /\ fate' # "removed"
    BY <1>6, CleanupMode, CleanupSecurityKeys DEF ScriptInv
  <2>2. app[s] = "none"
    BY <1>6 DEF CleanupSecurity, At, CleanupInv
  <2>3. \A t \in Range(file.services) : t \in Services
    BY DEF TypeOK, Range
  <2>4. Range(todo) = Range(Tail(todo)) \union {s}
    BY <1>6, CurrentService DEF CleanupSecurity
  <2>5. \A t \in Range(file.services) \ Range(todo) : Removed(t)
    BY <2>1 DEF CleanupInv
  <2>6. Removed(s)'
    BY <1>6, <2>2, CleanupSecurityKeys DEF Removed
  <2>7. \A t \in Services \ {s} : Removed(t) => Removed(t)'
    BY <1>6, CleanupSecurityKeys DEF Removed
  <2>8. \A t \in Range(file'.services) \ Range(todo') : Removed(t)'
    BY <1>6, <2>3, <2>4, <2>5, <2>6, <2>7, CleanupSecurityKeys
  <2>9. step' # "revoke"
    BY <1>6, CleanupSecurityKeys
  <2> QED BY <2>1, <2>8, <2>9 DEF CleanupInv, CleanedUp
<1>7. CASE UNCHANGED vars
  BY <1>7 DEF vars, scriptVars, appVars, keyVars, histVars, CleanupInv, CleanedUp, Removed
<1>8. ASSUME NEW s \in Services, OnService(s) PROVE mode' = "install"
  BY <1>8, OnServiceStep
<1>9. ASSUME NEW s \in Services, Installed(s) PROVE mode' = "install"
  BY <1>9, InstallMode DEF Installed, At, InstallSteps, Steps
<1>10. ASSUME NEW q \in Requests, BeginInstall(q) PROVE mode' = "install"
  BY <1>10 DEF BeginInstall
<1>11. CASE Truncate
  BY <1>1, <1>11 DEF Truncate
<1> QED
  BY <1>1, <1>2, <1>3, <1>4, <1>5, <1>6, <1>7, <1>8, <1>9, <1>10, <1>11
     DEF Next, ScriptStep, OnService

------------------------------------------------------------------------------
(* What the file lists. *)

LEMMA NextFile ==
  TypeOK /\ ScriptInv /\ WiringInv /\ FileComplete /\ [Next]_vars => FileComplete'
<1> SUFFICES ASSUME TypeOK, ScriptInv, WiringInv, FileComplete, [Next]_vars
             PROVE  FileComplete'
  OBVIOUS
<1>0. \A t \in Range(file.services) : t \in Services
  BY DEF TypeOK, Range
\* Enough for every step but the ones that write the file or end a cleanup.
<1>1. ASSUME UNCHANGED <<file, origin>>,
             fate' = "installed" =>
               /\ fate = "installed"
               /\ \A t \in Services : app[t] = "running" => app'[t] = "running"
      PROVE  FileComplete'
  BY <1>0, <1>1 DEF FileComplete
<1>2. ASSUME NEW q \in Requests, BeginInstall(q) PROVE FileComplete'
  BY <1>1, <1>2 DEF BeginInstall, appVars
<1>3. CASE BeginCleanup
  BY <1>1, <1>3 DEF BeginCleanup, appVars
<1>4. ASSUME NEW s \in Services, OnService(s) PROVE FileComplete'
  <2>1. UNCHANGED <<file, fate, origin>>
    BY <1>4, OnServiceStep
  <2>3. \A t \in Services : app[t] = "running" => app'[t] = "running"
    BY <1>4, OnServiceApps
  <2> QED BY <1>1, <2>1, <2>3
<1>5. ASSUME NEW s \in Services, Installed(s) PROVE FileComplete'
  <2>1. UNCHANGED <<file, fate, origin>>
    BY <1>5 DEF Installed, histVars
  <2>2. \A t \in Services : app[t] = "running" => app'[t] = "running"
    BY <1>5 DEF Installed, TypeOK
  <2> QED BY <1>1, <2>1, <2>2
<1>6. CASE Truncate
  BY <1>6 DEF Truncate, Torn, FileComplete
<1>7. CASE Write
  <2>1. mode = "install" /\ todo = <<>>
    BY <1>7, InstallMode DEF Write, ScriptInv, InstallSteps, Steps
  <2> DEFINE all == InOrder(services)
  <2>2. all \o <<>> = Wanted(request)
    BY <2>1 DEF ScriptInv
  <2>3. all = Wanted(request)
    <3>1. all \in Seq(Services)
      BY InOrderAt DEF TypeOK
    <3> QED BY <2>2, <3>1, ConcatEmptySeq
  <2>4. file'.services = all /\ origin' = request /\ app' = app
    BY <1>7 DEF Write, appVars
  <2>5. \A t \in Range(all) : app[t] = "running"
    <3>1. Range(all) = Range(services["zookeeper"]) \union Range(services["kafka"])
                         \union Range(services["cassandra"])
      BY InOrderAt DEF TypeOK
    <3> QED BY <3>1 DEF WiringInv, Kinds
  <2> HIDE DEF all
  <2> QED BY <2>3, <2>4, <2>5 DEF FileComplete
<1>8. ASSUME NEW s \in Services, Uninstall(s) \/ CleanupSecurity(s) PROVE FileComplete'
  <2>1. UNCHANGED <<file, fate, origin>>
    BY <1>8 DEF Uninstall, CleanupSecurity, histVars
  <2>2. fate # "installed"
    BY <1>8, CleanupMode DEF Uninstall, CleanupSecurity, At, ScriptInv
  <2> QED BY <1>1, <2>1, <2>2
<1>9. CASE EndCleanup
  BY <1>1, <1>9 DEF EndCleanup, appVars
<1>10. CASE Raise \/ Fail
  <2>1. UNCHANGED <<file, fate, origin, app>>
    BY <1>10 DEF Raise, Fail, appVars, histVars
  <2> QED BY <1>1, <2>1
<1>11. CASE UNCHANGED vars
  BY <1>1, <1>11 DEF vars, scriptVars, appVars, histVars
<1> QED
  BY <1>2, <1>3, <1>4, <1>5, <1>6, <1>7, <1>8, <1>9, <1>10, <1>11
     DEF Next, ScriptStep, OnService

------------------------------------------------------------------------------

LEMMA InitInv == Init => Inv
<1> SUFFICES ASSUME Init PROVE Inv
  OBVIOUS
<1>1. TypeOK
  BY BoundsAssumption, EmptySeq, EmptyType
     DEF Init, TypeOK, Steps, Attempts, Missing, Nothing, Request
<1>2. ScriptInv /\ StrictInv /\ WiringInv /\ FileComplete
  <2>1. \A k \in Kinds : Len(services[k]) = 0 /\ Range(services[k]) = {}
    BY EmptyLists DEF Init
  <2> QED
    BY <2>1 DEF Init, ScriptInv, StrictInv, WiringInv, FileComplete, KeySteps, Missing, Kinds
<1>3. KeysInv /\ CleanupInv
  BY DEF Init, KeysInv, KeysMatch, CleanupInv, CleanedUp
<1> QED BY <1>1, <1>2, <1>3 DEF Inv

LEMMA Invariant == Spec => []Inv
<1>1. Inv /\ [Next]_vars => Inv'
  BY NextType, NextScript, NextStrict, NextWiring, NextKeys, NextCleanup, NextFile DEF Inv
<1> QED BY InitInv, <1>1, PTL DEF Spec

\* Every variable keeps its type, whatever runs are asked for and however they
\* fail: services are among the ones counted, attempts never exceed three.
THEOREM TypeCorrect == Spec => []TypeOK
<1>1. Inv => TypeOK
  BY DEF Inv
<1> QED BY Invariant, <1>1, PTL

\* However many clusters are asked for and however many runs failed before, the
\* position at which a Kafka looks its ZooKeeper up gives it one that runs and
\* that no other Kafka was given.
THEOREM OwnZookeepers == Spec => []OwnZookeeper
<1>1. Inv => OwnZookeeper
  <2> SUFFICES ASSUME Inv PROVE OwnZookeeper
    OBVIOUS
  <2>1. ASSUME NEW s \in Services, NEW t \in Services,
               uses[s] # NoService, uses[t] = uses[s]
        PROVE  s = t
    <3>1. s[1] = "kafka" /\ t[1] = "kafka" /\ Own(t) = Own(s)
      BY <2>1 DEF Inv, WiringInv
    <3>2. t[2] = s[2]
      BY <3>1 DEF Own
    <3> QED BY <3>1, <3>2 DEF Services
  <2>2. ASSUME NEW s \in Range(services["kafka"])
        PROVE  uses[s] # NoService /\ app[uses[s]] = "running"
    <3>1. s \in Services /\ s[1] = "kafka"
      <4>1. services["kafka"] \in Seq(Services)
        BY DEF Inv, TypeOK, Kinds
      <4>2. PICK i \in 1 .. Len(services["kafka"]) : s = services["kafka"][i]
        BY <4>1, LenProperties DEF Range
      <4>3. services["kafka"][i][1] = "kafka"
        BY DEF Inv, ScriptInv, Kinds
      <4> QED BY <4>1, <4>2, <4>3
    <3>2. app[s] = "running"
      BY DEF Inv, WiringInv, Kinds
    <3>3. uses[s] = Own(s) /\ uses[s] # NoService
      BY <3>1, <3>2 DEF Inv, WiringInv
    <3>4. Own(s) \in Range(services["zookeeper"])
      BY DEF Inv, WiringInv
    <3> QED BY <3>3, <3>4 DEF Inv, WiringInv, Kinds
  <2> QED BY <2>1, <2>2 DEF OwnZookeeper
<1> QED BY Invariant, <1>1, PTL

\* A file that can be read lists all that its run was asked to install, and until
\* a cleanup begins all of it runs, after any number of later runs and failures.
THEOREM FilesComplete == Spec => []FileComplete
<1>1. Inv => FileComplete
  BY DEF Inv
<1> QED BY Invariant, <1>1, PTL

\* The secret a service was given holds a key of its account, unless a command
\* for them failed unnoticed or a later run replaced them.
THEOREM KeysAlwaysMatch == Spec => []KeysMatch
<1>1. Inv => KeysMatch
  BY DEF Inv, KeysInv
<1> QED BY Invariant, <1>1, PTL

\* A cleanup that came to its end has removed all that the file lists, after any
\* number of cleanups that did not.
THEOREM CleanupsComplete == Spec => []CleanedUp
<1>1. Inv => CleanedUp
  BY DEF Inv, CleanupInv
<1> QED BY Invariant, <1>1, PTL

=============================================================================
